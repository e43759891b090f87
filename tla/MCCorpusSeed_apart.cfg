\* Two invocations with different corpus directories take turns at seeding.
SPECIFICATION Spec
CONSTANTS
    p1 = p1
    p2 = p2
    Procs = {p1, p2}
    Fuzzdir <- Apart
    Names = {x1, x2}
    Contents = {c1, c2}
    Overlap = FALSE
    NoFile = NoFile
    Torn = Torn
SYMMETRY EntrySymmetry
INVARIANTS
    TypeOK
    SeedComplete
PROPERTY
    WriteOnceCorpus
