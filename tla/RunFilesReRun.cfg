SPECIFICATION Spec
CONSTANTS
    Run = {r1}
    Name = {n1}
    Process = {p1, p2}
    NoRun = NoRun
    NoTime = NoTime
    Keep = 2
    CheckInterval = 1
    MaxRunLifetime = 4
    MaxTime = 4
SYMMETRY Symmetry
PROPERTY LiveRunsKeepFiles
