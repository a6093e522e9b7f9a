----------------------------- MODULE BlobFiles -----------------------------
(***************************************************************************)
(* The filesystem blob store: Put, PutUncompressed, Delete and SweepTemp.  *)
(*                                                                         *)
(* A Put writes a temporary file, names the blob by the hash of what it    *)
(* read, and renames the file, or its compression, into place.  Puts of    *)
(* one content, deletes, and the sweep of a starting server overlap; a     *)
(* killed server leaves the temporary files of its puts.  An open file     *)
(* stays readable when its name goes.                                      *)
(***************************************************************************)
EXTENDS Integers

CONSTANTS
    BlobBody,       \* contents, which stand for their hashes
    BlobPut,        \* calls
    BlobSize,       \* blocks of a body
    TempMaxAge,     \* TempMaxAge
    NoBlob,
    MaxBlobTime

ASSUME BlobFileBounds == BlobSize \in Nat \ {0} /\ TempMaxAge \in Nat /\ MaxBlobTime \in Nat

Encoding == {"raw", "zstd"}

ASSUME NoBlobAssumption == NoBlob \notin [enc : Encoding, blocks : Nat]

VARIABLES
    bfFile,     \* the blob files: [enc, blocks] by key, or NoBlob
    bfTemp,     \* temporary files in the root: [put, enc, at], the time of the last write
    bfPut,      \* the calls
    bfNow,
    bfStored    \* history: contents a Put returned the key of, not deleted since

bfVars == <<bfFile, bfTemp, bfPut, bfNow, bfStored>>

NoPutCall == [at |-> "idle"]

BlobFilesInit ==
    /\ bfFile = [c \in BlobBody |-> NoBlob]
    /\ bfTemp = {}
    /\ bfPut = [p \in BlobPut |-> NoPutCall]
    /\ bfNow = 0
    /\ bfStored = {}

PutGo(p, j) == bfPut' = [bfPut EXCEPT ![p] = j]
TempOf(p)   == {t \in bfTemp : t.put = p}
WithTemp(p, enc) == {t \in bfTemp : ~(t.put = p /\ t.enc = enc)} \cup {[put |-> p, enc |-> enc, at |-> bfNow]}

\* Put, and PutUncompressed of a compressing store: enc is what is to be stored.
CreateTemp(p) ==
    /\ bfPut[p].at = "idle" /\ TempOf(p) = {}
    /\ \E c \in BlobBody, e \in Encoding :
         PutGo(p, [at |-> "copy", body |-> c, enc |-> e, read |-> 0, packed |-> 0])
    /\ bfTemp' = WithTemp(p, "raw")
    /\ UNCHANGED <<bfFile, bfNow, bfStored>>

\* io.Copy of the body: a write to a file whose name the sweep took still works.
CopyBlock(p) ==
    LET j == bfPut[p]
    IN  /\ j.at = "copy" /\ j.read < BlobSize
        /\ PutGo(p, [j EXCEPT !.read = @ + 1])
        /\ bfTemp' = IF \E t \in TempOf(p) : t.enc = "raw" THEN WithTemp(p, "raw") ELSE bfTemp
        /\ UNCHANGED <<bfFile, bfNow, bfStored>>

\* A blob of that key is there: the call is done.
StatBlob(p) ==
    LET j == bfPut[p]
    IN  /\ j.at = "copy" /\ j.read = BlobSize
        /\ IF bfFile[j.body] # NoBlob
           THEN /\ PutGo(p, NoPutCall) /\ bfTemp' = bfTemp \ TempOf(p)
                /\ bfStored' = bfStored \cup {j.body}
           ELSE /\ PutGo(p, [j EXCEPT !.at = IF j.enc = "raw" THEN "rename" ELSE "pack"])
                /\ bfTemp' = IF j.enc = "raw" THEN bfTemp ELSE WithTemp(p, "zstd")
                /\ UNCHANGED bfStored
        /\ UNCHANGED <<bfFile, bfNow>>

\* The raw file is compressed into a second one.
PackBlock(p) ==
    LET j == bfPut[p]
    IN  /\ j.at = "pack"
        /\ PutGo(p, [j EXCEPT !.packed = @ + 1, !.at = IF j.packed + 1 = BlobSize THEN "rename" ELSE "pack"])
        /\ bfTemp' = IF \E t \in TempOf(p) : t.enc = "zstd" THEN WithTemp(p, "zstd") ELSE bfTemp
        /\ UNCHANGED <<bfFile, bfNow, bfStored>>

\* Rename, without asking whether it worked.
RenameUnasked(p) ==
    LET j == bfPut[p]
    IN  /\ j.at = "rename"
        /\ bfFile' = IF \E t \in TempOf(p) : t.enc = j.enc
                     THEN [bfFile EXCEPT ![j.body] = [enc |-> j.enc, blocks |-> BlobSize]] ELSE bfFile
        /\ bfStored' = bfStored \cup {j.body}
        /\ PutGo(p, NoPutCall)
        /\ bfTemp' = bfTemp \ TempOf(p)
        /\ UNCHANGED bfNow

\* Rename over whatever the name has: it fails when the sweep took the file.
RenameBlob(p) ==
    LET j     == bfPut[p]
        there == \E t \in TempOf(p) : t.enc = j.enc
        whole == [enc |-> j.enc, blocks |-> IF j.enc = "raw" THEN j.read ELSE j.packed]
    IN  /\ j.at = "rename"
        /\ bfFile' = IF there THEN [bfFile EXCEPT ![j.body] = whole] ELSE bfFile
        /\ bfStored' = IF there THEN bfStored \cup {j.body} ELSE bfStored
        /\ PutGo(p, NoPutCall)
        /\ bfTemp' = bfTemp \ TempOf(p)
        /\ UNCHANGED bfNow

\* A read or a write fails: the deferred removes run.
PutFails(p) ==
    /\ bfPut[p].at # "idle"
    /\ PutGo(p, NoPutCall)
    /\ bfTemp' = bfTemp \ TempOf(p)
    /\ UNCHANGED <<bfFile, bfNow, bfStored>>

DeleteBlob ==
    /\ \E c \in BlobBody : /\ bfFile[c] # NoBlob
                           /\ bfFile' = [bfFile EXCEPT ![c] = NoBlob]
                           /\ bfStored' = bfStored \ {c}
    /\ UNCHANGED <<bfTemp, bfPut, bfNow>>

\* The server is killed: its calls end, their files stay.
Killed ==
    /\ \E S \in (SUBSET {p \in BlobPut : bfPut[p].at # "idle"}) \ {{}} :
         bfPut' = [p \in BlobPut |-> IF p \in S THEN NoPutCall ELSE bfPut[p]]
    /\ UNCHANGED <<bfFile, bfTemp, bfNow, bfStored>>

\* SweepTemp, in a server that starts while another may still serve.
SweepTemp ==
    /\ \E t \in bfTemp : bfNow - t.at >= TempMaxAge
    /\ bfTemp' = {t \in bfTemp : bfNow - t.at < TempMaxAge}
    /\ UNCHANGED <<bfFile, bfPut, bfNow, bfStored>>

BlobTick ==
    /\ bfNow < MaxBlobTime
    /\ bfNow' = bfNow + 1
    /\ UNCHANGED <<bfFile, bfTemp, bfPut, bfStored>>

PutStep(p) == CopyBlock(p) \/ StatBlob(p) \/ PackBlock(p) \/ RenameBlob(p)

BlobFilesNext ==
    \/ \E p \in BlobPut : CreateTemp(p) \/ PutStep(p) \/ PutFails(p)
    \/ DeleteBlob \/ Killed \/ SweepTemp \/ BlobTick

BlobFilesSpec == BlobFilesInit /\ [][BlobFilesNext]_bfVars

\* Get, OpenReaderAt and GetCompressed find the file and read all of it.
Readable(c) == bfFile[c] # NoBlob /\ bfFile[c].blocks = BlobSize

----------------------------------------------------------------------------
(* Properties.                                                             *)

\* Files and calls have their types.
BlobFilesTypeOK ==
    /\ \A c \in BlobBody : bfFile[c] = NoBlob \/ bfFile[c] \in [enc : Encoding, blocks : 0..BlobSize]
    /\ bfTemp \subseteq [put : BlobPut, enc : Encoding, at : 0..MaxBlobTime]
    /\ \A p \in BlobPut : bfPut[p].at \in {"idle", "copy", "pack", "rename"}
    /\ bfNow \in 0..MaxBlobTime
    /\ bfStored \subseteq BlobBody

\* A key a Put returned can be read, and reads as all of the content, until it is
\* deleted: whoever put the same content, however its own put ended, and whatever
\* the sweep took (Put's order of steps, and its rename).
StoredBlobsRead ==
    /\ BlobFilesTypeOK
    /\ \A c \in BlobBody : c \in bfStored \/ bfFile[c] # NoBlob => Readable(c)

=============================================================================
