---------------------------- MODULE MCInstrument ----------------------------
(***************************************************************************)
(* Instances of Instrument.tla for TLC: two invocations on one GOPATH.     *)
(***************************************************************************)
EXTENDS Instrument, TLC

CONSTANTS
    p1, p2,     \* the invocations
    f1, f2      \* fuzz functions

\* p1 fuzzes two functions, p2 the second of them.
AskedPair == (p1 :> << f1, f2 >>) @@ (p2 :> << f2 >>)

\* One function, fuzzed in two terminals.
AskedOne == (p1 :> << f1 >>) @@ (p2 :> << f1 >>)

VersionSymmetry == Permutations(Versions)

=============================================================================
