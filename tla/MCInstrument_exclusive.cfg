\* Two invocations that never instrument one function at the same time.
SPECIFICATION Spec
CONSTANTS
    p1 = p1
    p2 = p2
    f1 = f1
    f2 = f2
    Procs = {p1, p2}
    Funcs = {f1, f2}
    Rich = {f2}
    Asked <- AskedPair
    Versions = {v1, v2}
    Flags = {g1}
    Overlap = FALSE
    LiveEdits = FALSE
    NoFile = NoFile
    Torn = Torn
    NoKey = NoKey
SYMMETRY VersionSymmetry
INVARIANTS
    TypeOK
    ZipTrusted
    TargetsReady
    BuildOnlyOnMiss
PROPERTY
    WriteOnceCache
