---------------------------- MODULE MCCorpusSeed ----------------------------
(***************************************************************************)
(* Instances of CorpusSeed.tla for TLC.                                    *)
(***************************************************************************)
EXTENDS CorpusSeed, TLC

CONSTANTS p1, p2

\* One invocation with a -fuzzdir of its own and one without.
Apart == (p1 :> "custom") @@ (p2 :> "gopath")

\* Two invocations without -fuzzdir.
Together == (p1 :> "gopath") @@ (p2 :> "gopath")

EntrySymmetry == Permutations(Names) \cup Permutations(Contents)

=============================================================================
