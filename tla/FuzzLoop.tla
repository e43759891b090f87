------------------------------ MODULE FuzzLoop ------------------------------
(***************************************************************************)
(* The fuzzing session: the round robin of fzgoMain (main.go) over the     *)
(* instrumented targets, with fuzz.Start and execCmd (fuzz/exec.go), which *)
(* run one go-fuzz at a time and interrupt it when its time is up.         *)
(*                                                                         *)
(* Four things interleave: the main goroutine, the runtime's timer, the    *)
(* goroutine time.AfterFunc runs its callback on, and the go-fuzz child.   *)
(* Time is counted in units (5 seconds in the code, see InitialQuantum).   *)
(***************************************************************************)
EXTENDS Integers

CONSTANTS
    MaxTargets,         \* bound on the number of targets
    FuzzTimes,          \* values of -fuzztime; 0, the default, is forever
    InitialQuantum,     \* 5 seconds
    MaxQuantum,         \* 10 minutes
    NoTurn              \* the target has not had a turn

ASSUME ConstantsAssumption ==
    /\ MaxTargets \in Nat \ {0}
    /\ FuzzTimes \subseteq Int
    /\ InitialQuantum \in Nat \ {0}
    /\ MaxQuantum \in Nat
    /\ InitialQuantum <= MaxQuantum
    /\ NoTurn \notin Int

VARIABLES
    n,              \* len(targets), fixed when the session begins
    fuzzTime,       \* -fuzztime, fixed too
    pc,             \* where the main goroutine is
    idx,            \* the target whose turn it is
    quantum,        \* timeQuantum
    maxDuration,    \* what the running execCmd was given; 0 is no limit
    child,          \* the go-fuzz process of the running execCmd
    signalled,      \* did fzgo's callback reach that process alive?
    timer,          \* the timer of the running execCmd
    late,           \* are callbacks of finished execCmds still to run?
    clock,          \* time since the timer was armed, up to maxDuration
    granted,        \* granted[t]: maxDuration of t's latest turn (history)
    status          \* what fzgoMain returned

vars == <<n, fuzzTime, pc, idx, quantum, maxDuration, child, signalled,
          timer, late, clock, granted, status>>
session == <<n, fuzzTime, idx, quantum, maxDuration, granted, status>>

Targets == 1 .. n
Ended == {"ok", "err"}

-----------------------------------------------------------------------------

LoopForever == fuzzTime = 0

\* Fault: with a single target -fuzztime is forgotten.
FuzzDurationOfMany == IF n = 1 THEN 0 ELSE IF LoopForever THEN quantum ELSE fuzzTime

\* How long the target whose turn it is will be fuzzed.
FuzzDuration ==
    IF ~LoopForever THEN fuzzTime ELSE IF n > 1 THEN quantum ELSE 0

\* time.AfterFunc runs at once when its duration is negative.
TimeIsUp == clock >= maxDuration

\* How the process may end, given what it has been sent: go-fuzz may fail or
\* finish by itself, decides its own exit status on an interrupt, and has
\* none to decide when it is killed.
ExitOf(c) ==
    CASE c \in {"running", "interrupted"} -> Ended
      [] c = "killed" -> {"err"}
      [] OTHER -> {}

\* Fault: the result of timer.Stop() is not looked at.
ErrorOfAnyChild == child = "err"

\* Fault: the error of a go-fuzz without a limit is dropped.
ErrorOfTimedChild == child = "err" /\ timer = "armed"

\* timer.Stop() returns true only while the timer has not fired.  Without a
\* maxDuration there is no timer, and any error is returned.
ErrorReturned == child = "err" /\ timer \in {"none", "armed"}

-----------------------------------------------------------------------------

Init ==
    /\ n \in 1 .. MaxTargets
    /\ fuzzTime \in FuzzTimes
    /\ pc = "seed"
    /\ idx = 1
    /\ quantum = InitialQuantum
    /\ maxDuration = 0
    /\ child = "none"
    /\ signalled = FALSE
    /\ timer = "none"
    /\ late = FALSE
    /\ clock = 0
    /\ granted = [t \in 1 .. MaxTargets |-> NoTurn]
    /\ status = "none"

\* fzgoMain returns, and with it the process: os.Exit drops late callbacks.
Exit(s) ==
    /\ pc' = "exited"
    /\ status' = s
    /\ late' = FALSE

\* determineWorkDir and copyCachedCorpus prepare the target's corpus ...
Seed ==
    /\ pc = "seed"
    /\ pc' = "start"
    /\ UNCHANGED <<session, child, signalled, timer, late, clock>>

\* ... or a directory cannot be read or written.
SeedFails ==
    /\ pc = "seed"
    /\ Exit("OtherErr")
    /\ UNCHANGED <<n, fuzzTime, idx, quantum, maxDuration, granted,
                   child, signalled, timer, clock>>

\* fuzz.Start starts go-fuzz and, if there is a limit, the timer.
Start ==
    /\ pc = "start"
    /\ pc' = "wait"
    /\ maxDuration' = FuzzDuration
    /\ child' = "running"
    /\ signalled' = FALSE
    /\ timer' = IF FuzzDuration = 0 THEN "none" ELSE "armed"
    /\ clock' = 0
    /\ granted' = [granted EXCEPT ![idx] = FuzzDuration]
    /\ UNCHANGED <<n, fuzzTime, idx, quantum, late, status>>

\* The tools are no longer in the path, or the process cannot be started.
StartFails ==
    /\ pc = "start"
    /\ Exit("OtherErr")
    /\ UNCHANGED <<n, fuzzTime, idx, quantum, maxDuration, granted,
                   child, signalled, timer, clock>>

\* A unit of time passes before the deadline.
Tick ==
    /\ timer = "armed"
    /\ ~TimeIsUp
    /\ clock' = clock + 1
    /\ UNCHANGED <<session, pc, child, signalled, timer, late>>

\* The timer fires: from now on timer.Stop() returns false.
TimerFires ==
    /\ timer = "armed"
    /\ TimeIsUp
    /\ timer' = "fired"
    /\ UNCHANGED <<session, pc, child, signalled, late, clock>>

\* Fault: no Kill after a refused interrupt.
CallbackWithoutKill ==
    /\ timer = "fired"
    /\ timer' = "ran"
    /\ IF child = "running"
       THEN /\ child' \in {"interrupted", "running"}
            /\ signalled' = (child' = "interrupted")
       ELSE UNCHANGED <<child, signalled>>
    /\ UNCHANGED <<session, pc, late, clock>>

\* The callback of the running execCmd: Signal(os.Interrupt) and, if that is
\* refused (as on Windows), Kill.  Neither does anything to a process that
\* has already ended.
Callback ==
    /\ timer = "fired"
    /\ timer' = "ran"
    /\ IF child = "running"
       THEN /\ child' \in {"interrupted", "killed"}
            /\ signalled' = TRUE
       ELSE UNCHANGED <<child, signalled>>
    /\ UNCHANGED <<session, pc, late, clock>>

\* Fault: the callbacks share one cmd, and a late one finds the next process.
LateCallbackOnShared ==
    /\ late
    /\ late' \in BOOLEAN
    /\ IF child = "running"
       THEN child' = "interrupted" /\ signalled' = TRUE
       ELSE UNCHANGED <<child, signalled>>
    /\ UNCHANGED <<session, pc, timer, clock>>

\* A callback that runs after its execCmd has returned still holds that
\* call's process, which Wait has marked as done: both calls are refused.
\* There may be more of them.
LateCallback ==
    /\ late
    /\ late' \in BOOLEAN
    /\ UNCHANGED <<session, pc, child, signalled, timer, clock>>

\* go-fuzz exits, by itself or because of the interrupt.
ChildExits ==
    /\ child' \in ExitOf(child)
    /\ UNCHANGED <<session, pc, signalled, timer, late, clock>>

\* cmd.Wait (or cmd.Run) returns.
Wait ==
    /\ pc = "wait"
    /\ child \in Ended
    /\ pc' = "reaped"
    /\ UNCHANGED <<session, child, signalled, timer, late, clock>>

\* timer.Stop() finds that the timer has not fired, and the error of Wait is
\* returned: one target's failure ends the session.
FuzzFails ==
    /\ pc = "reaped"
    /\ ErrorReturned
    /\ Exit("OtherErr")
    /\ timer' = "none"
    /\ UNCHANGED <<n, fuzzTime, idx, quantum, maxDuration, granted,
                   child, signalled, clock>>

\* execCmd has returned nil: a callback that has not run is left behind.
Returned ==
    /\ pc = "reaped"
    /\ ~ErrorReturned
    /\ child' = "none"
    /\ signalled' = FALSE
    /\ timer' = "none"
    /\ clock' = 0
    /\ UNCHANGED <<n, fuzzTime, maxDuration, granted>>

\* Fault: the quantum grows from target to target.
NextTargetLonger ==
    /\ Returned
    /\ idx < n
    /\ idx' = idx + 1
    /\ pc' = "seed"
    /\ late' = (late \/ timer = "fired")
    /\ quantum' = IF 2 * quantum > MaxQuantum THEN MaxQuantum ELSE 2 * quantum
    /\ UNCHANGED status

NextTarget ==
    /\ Returned
    /\ idx < n
    /\ idx' = idx + 1
    /\ pc' = "seed"
    /\ late' = (late \/ timer = "fired")
    /\ UNCHANGED <<quantum, status>>

\* Fault: the quantum is not capped.
NextRoundUncapped ==
    /\ Returned
    /\ idx = n
    /\ LoopForever
    /\ idx' = 1
    /\ quantum' = 2 * quantum
    /\ pc' = "seed"
    /\ late' = (late \/ timer = "fired")
    /\ UNCHANGED status

\* All targets had their turn and -fuzztime was not set: again, for longer.
NextRound ==
    /\ Returned
    /\ idx = n
    /\ LoopForever
    /\ idx' = 1
    /\ quantum' = IF 2 * quantum > MaxQuantum THEN MaxQuantum ELSE 2 * quantum
    /\ pc' = "seed"
    /\ late' = (late \/ timer = "fired")
    /\ UNCHANGED status

\* Fault: the loop is left after a round with or without -fuzztime.
LastTargetAlways ==
    /\ Returned
    /\ idx = n
    /\ Exit("Success")
    /\ UNCHANGED <<idx, quantum>>

LastTarget ==
    /\ Returned
    /\ idx = n
    /\ ~LoopForever
    /\ Exit("Success")
    /\ UNCHANGED <<idx, quantum>>

MainStep ==
    \/ Seed \/ SeedFails \/ Start \/ StartFails \/ Wait
    \/ FuzzFails \/ NextTarget \/ NextRound \/ LastTarget

Next ==
    \/ MainStep
    \/ Tick \/ TimerFires \/ Callback \/ LateCallback
    \/ ChildExits

\* The goroutines and the timer are scheduled, time passes, and a process
\* that has been interrupted or killed exits.  One that has not need not.
Fairness ==
    /\ WF_vars(MainStep)
    /\ WF_vars(Tick) /\ WF_vars(TimerFires) /\ WF_vars(Callback)
    /\ WF_vars(signalled /\ ChildExits)

Spec == Init /\ [][Next]_vars /\ Fairness

-----------------------------------------------------------------------------
(* Properties.                                                             *)

\* Every variable has its type; a go-fuzz process exists exactly while its
\* execCmd runs, and so does its timer.
TypeOK ==
    /\ n \in 1 .. MaxTargets
    /\ fuzzTime \in Int
    /\ pc \in {"seed", "start", "wait", "reaped", "exited"}
    /\ idx \in Targets
    /\ quantum \in InitialQuantum .. MaxQuantum
    /\ maxDuration \in Int
    /\ child \in {"none", "running", "interrupted", "killed"} \cup Ended
    /\ signalled \in BOOLEAN
    /\ timer \in {"none", "armed", "fired", "ran"}
    /\ late \in BOOLEAN
    /\ clock \in Nat
    /\ granted \in [1 .. MaxTargets -> Int \cup {NoTurn}]
    /\ status \in {"none", "Success", "OtherErr"}
    /\ pc \in {"seed", "start"} => child = "none" /\ timer = "none"
    /\ pc = "wait" => child # "none"

\* fzgo never takes the exit status of a go-fuzz it interrupted for a
\* failure: a session ends in an error only if the last go-fuzz had not been
\* signalled (execCmd, exec.go:271-276).
NoSpuriousFailure == status = "OtherErr" => ~signalled

\* A go-fuzz is signalled only by its own timer and only when its time is up:
\* never by a callback left over from an earlier target, and never when it
\* was started without a limit (exec.go:264-270).
SignalOnlyAfterDeadline == signalled => maxDuration # 0 /\ TimeIsUp

\* A go-fuzz that fails by itself before its time is up ends the session: the
\* round robin moves on from a failure only when the deadline has passed,
\* whatever the timer, its goroutine and Wait do in between.
NoLostFailure ==
    [][pc = "reaped" /\ child = "err" /\ status' # "OtherErr"
           => maxDuration # 0 /\ TimeIsUp]_pc

HadTurn(t) == granted[t] # NoTurn

\* The round robin is fair in time as well as in turns: two targets' latest
\* turns were of equal length at the end of a round, and within a round the
\* ones already served are ahead by a factor of at most two.
EqualShares ==
    /\ \A s, t \in Targets :
          s < t /\ HadTurn(s) /\ HadTurn(t) =>
              \/ granted[s] = granted[t]
              \/ /\ LoopForever
                 /\ granted[t] < granted[s]
                 /\ granted[s] <= 2 * granted[t]
    /\ idx = 1 /\ pc = "seed" =>
          \A s, t \in Targets : granted[s] = granted[t]

\* With -fuzztime, or with several targets, no target is starved: whatever
\* go-fuzz does before it is interrupted, every target is fuzzed again and
\* again until the session ends, and with -fuzztime the session does end.
NoStarvation ==
    \A t \in 1 .. MaxTargets :
        (t <= n /\ n > 1 /\ LoopForever)
            ~> (pc = "wait" /\ idx = t) \/ pc = "exited"

SessionEnds == ~LoopForever ~> pc = "exited"

\* A turn is over when execCmd has returned nil, or is about to.
TurnOver == status = "Success" \/ (pc = "reaped" /\ ~ErrorReturned)

Round == INSTANCE Session WITH
    forever <- LoopForever,
    done <- IF TurnOver THEN idx ELSE idx - 1

\* Whatever timers and processes do, the session is what Session.tla says:
\* the targets' turns come in their order, none is skipped or repeated, and how
\* the turns end decides alone how the session does (main.go:188-234).
KeepsSession == Round!Spec

=============================================================================
