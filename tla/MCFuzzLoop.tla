----------------------------- MODULE MCFuzzLoop -----------------------------
(***************************************************************************)
(* An instance of FuzzLoop.tla for TLC.                                    *)
(***************************************************************************)
EXTENDS FuzzLoop

\* Run forever, for some time, and an absurd negative -fuzztime.
SomeFuzzTimes == {0, 2, -1}

=============================================================================
