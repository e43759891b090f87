----------------------------- MODULE Regression -----------------------------
(***************************************************************************)
(* What the corpus as a regression test promises, and nothing of           *)
(* locations, temporary directories and generated tests.  The functions    *)
(* that were found are verified one after the other.  An input that fails  *)
(* makes the status an error for good and does not keep the others from    *)
(* being verified; success is left to a run that verified them all.        *)
(* VerifyCorpus.tla implements this module, and so does the part of        *)
(* Fzgo.tla in which one function is one step.                             *)
(***************************************************************************)
EXTENDS Naturals

CONSTANT MaxFunctions   \* bound on the number of functions

VARIABLES
    n,          \* the number of functions, 0 as long as none have been found
    alsoGo,     \* is a success followed by go test?
    done,       \* how many functions have been verified
    status,     \* the exit status as far as it is known
    over        \* has it been returned?

vars == <<n, alsoGo, done, status, over>>

Init ==
    /\ n \in 0 .. MaxFunctions
    /\ alsoGo \in BOOLEAN
    /\ done = 0
    /\ status = "Success"
    /\ over = FALSE

Found ==
    /\ n = 0
    /\ ~over
    /\ n' \in 1 .. MaxFunctions
    /\ alsoGo' \in BOOLEAN
    /\ UNCHANGED <<done, status, over>>

Running == n # 0 /\ ~over

InputFails ==
    /\ Running
    /\ done < n
    /\ status' = "OtherErr"
    /\ UNCHANGED <<n, alsoGo, done, over>>

Verified ==
    /\ Running
    /\ done < n
    /\ done' = done + 1
    /\ status' \in {status, "OtherErr"}
    /\ UNCHANGED <<n, alsoGo, over>>

\* Arguments that are refused, nothing to verify, or a tool that fails.
Trouble ==
    /\ ~over
    /\ n = 0 \/ done < n
    /\ over' = TRUE
    /\ \/ status' = "OtherErr"
       \/ done = 0 /\ status' = "ArgErr"
    /\ UNCHANGED <<n, alsoGo, done>>

End ==
    /\ Running
    /\ done = n
    /\ over' = TRUE
    /\ \/ status' = status
       \/ alsoGo /\ status' = "OtherErr"
    /\ UNCHANGED <<n, alsoGo, done>>

Next == Found \/ InputFails \/ Verified \/ Trouble \/ End

Spec == Init /\ [][Next]_vars

=============================================================================
