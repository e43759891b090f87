----------------------------- MODULE CacheStore -----------------------------
(***************************************************************************)
(* What fzgo promises of its cache of instrumented binaries, and nothing   *)
(* of how it keeps the promise.  The cache maps a content hash (with the   *)
(* fuzz function's name) to at most one fuzz.zip.  A zip appears whole, in *)
(* one step, was built from the contents its hash stands for, and is never *)
(* replaced or removed afterwards.  Instrument.tla is shown to implement   *)
(* this module.                                                            *)
(***************************************************************************)
CONSTANTS
    Funcs,      \* the fuzz functions
    Versions,   \* contents of a function's package and dependencies
    Flags,      \* values of FZGOFLAGSBUILD
    NoFile      \* no zip under this hash

VARIABLE store

\* <GOPATH>/pkg/fuzz/<os_arch>/<hash>/<pkg.Func>, the hash read as its preimage.
Key == [func : Funcs, version : Versions]

\* A finished fuzz.zip, identified by what it was compiled from.
Zip == [version : Versions, flags : Flags]

Init == store = [k \in Key |-> NoFile]

Publish(k, z) ==
    /\ store[k] = NoFile
    /\ z.version = k.version
    /\ store' = [store EXCEPT ![k] = z]

Next == \E k \in Key, z \in Zip : Publish(k, z)

Spec == Init /\ [][Next]_store

=============================================================================
