----------------------------- MODULE OCIImages -----------------------------
(***************************************************************************)
(* Images of the OCI registry: manifests and indexes, the blobs linked to  *)
(* the project, tags, and the releases pushes make.                        *)
(*                                                                         *)
(* PutManifest is a sequence of statements: the document is stored and     *)
(* linked, each blob it names is looked up, and a push by tag then finds   *)
(* or makes a release and moves the tag.  Pushes run concurrently, and     *)
(* retention deletes the releases no tag names.  A pull of a project with  *)
(* binaries makes images too: their manifests are linked like pushed ones, *)
(* their layers are packaged artifacts and go with the binary's release.   *)
(* Layers arrive by the sessions of module OCIUpload; bytes are in module  *)
(* BlobLifecycle.                                                          *)
(***************************************************************************)
EXTENDS Integers, FiniteSets

CONSTANTS
    Layer,          \* layers and configs
    ImageDoc,       \* image manifests
    IndexDoc,       \* image indexes
    ImageTag,
    ImagePush,      \* requests
    ImageRelease,   \* releases, in the order they are made: 1..n
    NoImage

ASSUME ImageReleases == 1 \in ImageRelease /\ ImageRelease \subseteq Nat

Doc == ImageDoc \cup IndexDoc

ASSUME DocKinds == ImageDoc \cap IndexDoc = {}
ASSUME NoImageAssumption == NoImage \notin ImageTag \cup [doc : Doc, rel : ImageRelease]

VARIABLES
    imRefs,     \* what each document names
    imLink,     \* oci_blob_links of the project
    imPack,     \* layers the project has as packaged artifacts of its binaries
    imTag,      \* oci_tags: [doc, rel]
    imRel,      \* the releases pushes made: their artifacts, the images, and published
    imJob,      \* the requests
    imListed    \* the releases retention has listed

imVars == <<imRefs, imLink, imPack, imTag, imRel, imJob, imListed>>

NoPush == [at |-> "idle"]
NoRelease == [st |-> "none", docs |-> {}, published |-> FALSE]
Live   == {r \in ImageRelease : imRel[r].st = "row"}
Tagged == {imTag[t].rel : t \in {u \in ImageTag : imTag[u] # NoImage}}

ImageInit ==
    /\ imRefs \in {f \in [Doc -> SUBSET (Layer \cup ImageDoc)] :
                     \A d \in Doc : f[d] # {} /\ f[d] \subseteq (IF d \in ImageDoc THEN Layer ELSE ImageDoc)}
    /\ imLink = {}
    /\ imPack = {}
    /\ imTag = [t \in ImageTag |-> NoImage]
    /\ imRel = [r \in ImageRelease |-> NoRelease]
    /\ imJob = [p \in ImagePush |-> NoPush]
    /\ imListed = {}

JobAt(p, s) == imJob[p].at = s
JobGo(p, j) == imJob' = [imJob EXCEPT ![p] = j]
PushTo(p, s) == imJob' = [imJob EXCEPT ![p].at = s]

----------------------------------------------------------------------------
(* Pushing.                                                                *)

\* BlobBelongsToProject.
Belongs(b) == b \in imLink \cup imPack

\* A layer is uploaded, or mounted from a project that has it.
LinkLayer ==
    /\ \E l \in Layer \ imLink : imLink' = imLink \cup {l}
    /\ UNCHANGED <<imRefs, imPack, imTag, imRel, imJob, imListed>>

\* PutManifest stores the document and links it before it looks at what it names.
PutManifest(p) ==
    /\ JobAt(p, "idle")
    /\ \E d \in Doc, t \in ImageTag \cup {NoImage} :
         /\ JobGo(p, [at |-> "refs", doc |-> d, tag |-> t, todo |-> imRefs[d], rel |-> 0])
         /\ imLink' = imLink \cup {d}
    /\ UNCHANGED <<imRefs, imPack, imTag, imRel, imListed>>

\* linkReferencedBlob, leaving a blob the project has without a link of its own.
ReferencedBlobUnlinked(p) ==
    /\ JobAt(p, "refs")
    /\ \E b \in imJob[p].todo :
         IF Belongs(b) THEN JobGo(p, [imJob[p] EXCEPT !.todo = @ \ {b}]) ELSE JobGo(p, NoPush)
    /\ UNCHANGED <<imRefs, imLink, imPack, imTag, imRel, imListed>>

\* linkReferencedBlob: a blob the project has is linked, whatever row it had it
\* by; one it does not have refuses the push.
ReferencedBlob(p) ==
    /\ JobAt(p, "refs")
    /\ \E b \in imJob[p].todo :
         IF Belongs(b)
         THEN JobGo(p, [imJob[p] EXCEPT !.todo = @ \ {b}]) /\ imLink' = imLink \cup {b}
         ELSE JobGo(p, NoPush) /\ UNCHANGED imLink
    /\ UNCHANGED <<imRefs, imPack, imTag, imRel, imListed>>

\* A push by digest ends here; one of the image the tag names is a no-op.
SameTag(p) ==
    LET j == imJob[p]
    IN  /\ JobAt(p, "refs") /\ j.todo = {}
        /\ IF j.tag = NoImage \/ (imTag[j.tag] # NoImage /\ imTag[j.tag].doc = j.doc)
           THEN JobGo(p, NoPush) ELSE PushTo(p, "find")
        /\ UNCHANGED <<imRefs, imLink, imPack, imTag, imRel, imListed>>

\* releaseForDigest: the release of a tag that names the same image.
ReleaseForDigest(p) ==
    LET of == {t \in ImageTag : imTag[t] # NoImage /\ imTag[t].doc = imJob[p].doc}
    IN  /\ JobAt(p, "find")
        /\ IF of = {} THEN PushTo(p, "create")
           ELSE \E t \in of : JobGo(p, [imJob[p] EXCEPT !.at = "settag", !.rel = imTag[t].rel])
        /\ UNCHANGED <<imRefs, imLink, imPack, imTag, imRel, imListed>>

\* createDockerRelease: the number is picked and inserted (module Releases).
CreateDockerRelease(p) ==
    /\ JobAt(p, "create")
    /\ \E r \in ImageRelease :
         /\ imRel[r].st = "none" /\ \A s \in ImageRelease : imRel[s].st = "none" => r <= s
         /\ imRel' = [imRel EXCEPT ![r] = [NoRelease EXCEPT !.st = "row"]]
         /\ JobGo(p, [imJob[p] EXCEPT !.at = "artifact", !.rel = r])
    /\ UNCHANGED <<imRefs, imLink, imPack, imTag, imListed>>

\* createDockerArtifact: one for the image, or one for each child of an index
\* whose platform is known; errors are ignored.
CreateDockerArtifact(p) ==
    /\ JobAt(p, "artifact")
    /\ LET d == imJob[p].doc
       IN  \E made \in SUBSET (IF d \in IndexDoc THEN imRefs[d] ELSE {d}) :
             imRel' = [imRel EXCEPT ![imJob[p].rel].docs = made]
    /\ PushTo(p, "publish")
    /\ UNCHANGED <<imRefs, imLink, imPack, imTag, imListed>>

PublishImage(p) ==
    /\ JobAt(p, "publish")
    /\ imRel' = [imRel EXCEPT ![imJob[p].rel].published = TRUE]
    /\ PushTo(p, "settag")
    /\ UNCHANGED <<imRefs, imLink, imPack, imTag, imListed>>

\* SetOCITag: the release must exist (a foreign key), or the push fails.
SetOCITag(p) ==
    LET j == imJob[p]
    IN  /\ JobAt(p, "settag")
        /\ imTag' = IF j.rel \in Live THEN [imTag EXCEPT ![j.tag] = [doc |-> j.doc, rel |-> j.rel]] ELSE imTag
        /\ JobGo(p, NoPush)
        /\ UNCHANGED <<imRefs, imLink, imPack, imRel, imListed>>

\* A statement fails or the client goes away: what was written stays.
PushFails(p) ==
    /\ ~JobAt(p, "idle")
    /\ JobGo(p, NoPush)
    /\ UNCHANGED <<imRefs, imLink, imPack, imTag, imRel, imListed>>

----------------------------------------------------------------------------
(* Retention.                                                              *)

\* ListEvictableReleases: published, named by no tag and without docker
\* artifacts; its other guards are in module Releases.
ListUntagged ==
    /\ imListed = {}
    /\ imListed' = {r \in Live \ Tagged : imRel[r].published /\ imRel[r].docs = {}}
    /\ UNCHANGED <<imRefs, imLink, imPack, imTag, imRel, imJob>>

\* evictBatch: the tags of a release go with it (DeleteReleaseOCITags).
EvictImages ==
    /\ imListed # {}
    /\ imRel' = [r \in ImageRelease |-> IF r \in imListed THEN [NoRelease EXCEPT !.st = "evicted"] ELSE imRel[r]]
    /\ imTag' = [t \in ImageTag |-> IF imTag[t] # NoImage /\ imTag[t].rel \in imListed THEN NoImage ELSE imTag[t]]
    /\ imListed' = {}
    /\ UNCHANGED <<imRefs, imLink, imPack, imJob>>

----------------------------------------------------------------------------
(* Images of binaries, made by pulls.                                      *)

\* OCI.Repackage for one platform: layers become packaged artifacts, a write
\* whose error is ignored, and the manifest is linked last.
SynthesizeImage ==
    /\ \E m \in ImageDoc :
         /\ \E kept \in SUBSET imRefs[m] : imPack' = imPack \cup kept
         /\ imLink' \in {imLink, imLink \cup {m}}
    /\ UNCHANGED <<imRefs, imTag, imRel, imJob, imListed>>

\* serveIndex: a child that is not the project's refuses the pull; with several
\* the index is linked too (persistManifestBlob).
ServeIndex ==
    /\ \E x \in IndexDoc :
         /\ \A m \in imRefs[x] : Belongs(m)
         /\ Cardinality(imRefs[x]) > 1
         /\ imLink' = imLink \cup {x}
    /\ UNCHANGED <<imRefs, imPack, imTag, imRel, imJob, imListed>>

\* The release of a binary is evicted, and its packaged artifacts with it.
EvictBinary ==
    /\ \E l \in imPack : imPack' = imPack \ {l}
    /\ UNCHANGED <<imRefs, imLink, imTag, imRel, imJob, imListed>>

ImageNext ==
    \/ SynthesizeImage \/ ServeIndex \/ EvictBinary
    \/ LinkLayer \/ ListUntagged \/ EvictImages
    \/ \E p \in ImagePush :
         \/ PutManifest(p) \/ ReferencedBlob(p) \/ SameTag(p) \/ ReleaseForDigest(p)
         \/ CreateDockerRelease(p) \/ CreateDockerArtifact(p) \/ PublishImage(p) \/ SetOCITag(p)
         \/ PushFails(p)

ImageSpec == ImageInit /\ [][ImageNext]_imVars

----------------------------------------------------------------------------
(* Properties.                                                             *)

\* Every table and local of the registry has its type.
ImageTypeOK ==
    /\ imLink \subseteq Layer \cup Doc
    /\ imPack \subseteq Layer
    /\ \A t \in ImageTag : imTag[t] = NoImage \/ imTag[t] \in [doc : Doc, rel : ImageRelease]
    /\ imRel \in [ImageRelease ->
                    [st : {"none", "row", "evicted"}, docs : SUBSET Doc, published : BOOLEAN]]
    /\ \A p \in ImagePush :
          imJob[p].at \in {"idle", "refs", "find", "create", "artifact", "publish", "settag"}
    /\ imListed \subseteq ImageRelease

\* What serveManifestByDigest and serveBlob serve of an image: the document, and
\* all it names.
Served(d) == Belongs(d) /\ \A b \in imRefs[d] : Belongs(b)

\* A tag can be pulled: the image and everything it names is the
\* project's, and the release the tag names is there, published, with no other
\* image (PutManifest's order of checks and writes, and retention's deletes).
\* The layers of an index's children are not claimed: a child is linked before
\* its own push is checked.
TaggedImagesPull ==
    /\ ImageTypeOK
    /\ \A t \in ImageTag : imTag[t] # NoImage =>
           /\ Served(imTag[t].doc)
           /\ imTag[t].rel \in Live
           /\ imRel[imTag[t].rel].published
           /\ imRel[imTag[t].rel].docs \subseteq {imTag[t].doc} \cup imRefs[imTag[t].doc]

=============================================================================
