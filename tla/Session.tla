------------------------------- MODULE Session -------------------------------
(***************************************************************************)
(* What a fuzzing session promises, and nothing of processes, timers and   *)
(* directories.  The targets get their turns one after the other, each one *)
(* once a round.  Without -fuzztime there is round after round until a     *)
(* turn fails; with it there is one round, and then success.  A turn that  *)
(* fails ends the session with an error, and it gets no further turn.      *)
(* FuzzLoop.tla implements this module, and so does the part of Fzgo.tla   *)
(* that calls FuzzLoop's steps one turn.                                   *)
(***************************************************************************)
EXTENDS Naturals

CONSTANT MaxTargets     \* bound on the number of targets

VARIABLES
    n,          \* the number of targets, 0 as long as there is no session
    forever,    \* is there no -fuzztime?
    done,       \* how many targets have had their turn in this round
    status      \* how the session ended, "none" until it has

vars == <<n, forever, done, status>>

Init ==
    /\ n \in 0 .. MaxTargets
    /\ forever \in BOOLEAN
    /\ done = 0
    /\ status = "none"

\* All targets have been instrumented.
Begin ==
    /\ n = 0
    /\ n' \in 1 .. MaxTargets
    /\ forever' \in BOOLEAN
    /\ UNCHANGED <<done, status>>

Running == n # 0 /\ status = "none"

Turn ==
    /\ Running
    /\ done < n
    /\ done' = done + 1
    /\ UNCHANGED <<n, forever, status>>

TurnFails ==
    /\ Running
    /\ done < n
    /\ status' = "OtherErr"
    /\ UNCHANGED <<n, forever, done>>

NextRound ==
    /\ Running
    /\ done = n
    /\ forever
    /\ done' = 0
    /\ UNCHANGED <<n, forever, status>>

End ==
    /\ Running
    /\ done = n
    /\ ~forever
    /\ status' = "Success"
    /\ UNCHANGED <<n, forever, done>>

Next == Begin \/ Turn \/ TurnFails \/ NextRound \/ End

Spec == Init /\ [][Next]_vars

=============================================================================
