--------------------------- MODULE FuzzLoopProofs ---------------------------
(***************************************************************************)
(* Proofs about FuzzLoop.tla, for any number of targets, any -fuzztime and *)
(* any quanta.  Liveness is left to TLC.                                   *)
(***************************************************************************)
EXTENDS FuzzLoop, TLAPS

\* What the timer says about the time, and a signal about the timer: this is
\* what makes the result of timer.Stop() tell a failure of go-fuzz from the
\* effect of fzgo's own interrupt.
TimerInv ==
    /\ timer = "armed" => maxDuration # 0
    /\ timer \in {"fired", "ran"} => maxDuration # 0 /\ TimeIsUp
    /\ timer # "none" => pc \in {"wait", "reaped"}
    /\ signalled => timer = "ran"
    /\ status # "none" => pc = "exited"
    /\ NoSpuriousFailure

\* How long the turns were: the first k targets had a turn of this round's
\* duration, the others one of the previous round's, or none yet.
Shares(k, prev) ==
    /\ \A t \in Targets : granted[t] = IF t <= k THEN FuzzDuration ELSE prev
    /\ \/ prev = NoTurn
       \/ /\ prev \in Int
          /\ LoopForever
          /\ prev <= FuzzDuration
          /\ FuzzDuration <= 2 * prev
    /\ pc \in {"seed", "start"} => k = idx - 1
    /\ pc \in {"wait", "reaped"} => k = idx

SharesInv ==
    n > 1 => \E k \in Int, prev \in Int \cup {NoTurn} : Shares(k, prev)

-----------------------------------------------------------------------------

\* Type correctness of the fuzzing session (fzgoMain's loop and execCmd).
THEOREM TypeCorrect == Spec => []TypeOK
<1>1. Init => TypeOK
  <2> SUFFICES ASSUME Init PROVE TypeOK
    OBVIOUS
  <2>1. n \in 1 .. MaxTargets /\ fuzzTime \in Int
    BY ConstantsAssumption DEF ConstantsAssumption, Init
  <2>2. idx \in Targets
    BY <2>1, ConstantsAssumption DEF ConstantsAssumption, Init, Targets
  <2>3. quantum \in InitialQuantum .. MaxQuantum
    BY ConstantsAssumption DEF ConstantsAssumption, Init
  <2>4. granted \in [1 .. MaxTargets -> Int \cup {NoTurn}]
    BY DEF Init
  <2>5. /\ pc = "seed" /\ child = "none" /\ timer = "none" /\ status = "none"
        /\ maxDuration = 0 /\ clock = 0 /\ signalled = FALSE /\ late = FALSE
    BY DEF Init
  <2>6. clock \in Nat /\ maxDuration \in Int
    BY <2>5
  <2>7. signalled \in BOOLEAN /\ late \in BOOLEAN
    BY <2>5, Zenon
  <2> QED
    BY <2>1, <2>2, <2>3, <2>4, <2>5, <2>6, <2>7 DEF TypeOK
<1>2. TypeOK /\ [Next]_vars => TypeOK'
  <2> SUFFICES ASSUME TypeOK, [Next]_vars PROVE TypeOK'
    OBVIOUS
  <2> USE ConstantsAssumption DEF ConstantsAssumption, TypeOK, Targets, Ended,
          session, Exit
  <2>1. CASE Seed
    BY <2>1 DEF Seed
  <2>2. CASE SeedFails
    BY <2>2 DEF SeedFails
  <2>3. CASE Start
    <3>1. FuzzDuration \in Int
      BY DEF FuzzDuration, LoopForever
    <3>2. granted' \in [1 .. MaxTargets -> Int \cup {NoTurn}]
      BY <2>3, <3>1 DEF Start
    <3> QED
      BY <2>3, <3>1, <3>2 DEF Start
  <2>4. CASE StartFails
    BY <2>4 DEF StartFails
  <2>5. CASE Wait
    BY <2>5 DEF Wait
  <2>6. CASE FuzzFails
    BY <2>6 DEF FuzzFails
  <2>7. CASE NextTarget
    <3>1. idx' \in 1 .. n
      BY <2>7 DEF NextTarget
    <3> QED
      BY <2>7, <3>1 DEF NextTarget, Returned
  <2>8. CASE NextRound
    <3>1. idx' \in 1 .. n
      BY <2>8 DEF NextRound
    <3>2. quantum' \in InitialQuantum .. MaxQuantum
      BY <2>8 DEF NextRound
    <3> QED
      BY <2>8, <3>1, <3>2 DEF NextRound, Returned
  <2>9. CASE LastTarget
    BY <2>9 DEF LastTarget, Returned
  <2>10. CASE Tick
    BY <2>10 DEF Tick
  <2>11. CASE TimerFires
    BY <2>11 DEF TimerFires
  <2>12. CASE Callback
    BY <2>12 DEF Callback
  <2>13. CASE LateCallback
    BY <2>13 DEF LateCallback
  <2>14. CASE ChildExits
    BY <2>14 DEF ChildExits, ExitOf
  <2>15. CASE UNCHANGED vars
    BY <2>15 DEF vars
  <2> QED
    BY <2>1, <2>2, <2>3, <2>4, <2>5, <2>6, <2>7, <2>8, <2>9, <2>10, <2>11,
       <2>12, <2>13, <2>14, <2>15 DEF Next, MainStep
<1> QED
  BY <1>1, <1>2, PTL DEF Spec

\* The inductive step about the timer, used by the three theorems below.
LEMMA TimerStep == TypeOK /\ TimerInv /\ [Next]_vars => TimerInv'
<1> SUFFICES ASSUME TypeOK, TimerInv, [Next]_vars PROVE TimerInv'
  OBVIOUS
<1> USE DEF TypeOK, TimerInv, NoSpuriousFailure, TimeIsUp, session, Exit
<1>1. CASE Seed
  BY <1>1 DEF Seed
<1>2. CASE SeedFails
  BY <1>2 DEF SeedFails
<1>3. CASE Start
  BY <1>3 DEF Start
<1>4. CASE StartFails
  BY <1>4 DEF StartFails
<1>5. CASE Wait
  BY <1>5 DEF Wait
<1>6. CASE FuzzFails
  BY <1>6 DEF FuzzFails, ErrorReturned
<1>7. CASE NextTarget
  BY <1>7 DEF NextTarget, Returned
<1>8. CASE NextRound
  BY <1>8 DEF NextRound, Returned
<1>9. CASE LastTarget
  BY <1>9 DEF LastTarget, Returned
<1>10. CASE Tick
  BY <1>10 DEF Tick
<1>11. CASE TimerFires
  BY <1>11 DEF TimerFires
<1>12. CASE Callback
  BY <1>12 DEF Callback
<1>13. CASE LateCallback
  BY <1>13 DEF LateCallback
<1>14. CASE ChildExits
  BY <1>14 DEF ChildExits
<1>15. CASE UNCHANGED vars
  BY <1>15 DEF vars
<1> QED
  BY <1>1, <1>2, <1>3, <1>4, <1>5, <1>6, <1>7, <1>8, <1>9, <1>10, <1>11,
     <1>12, <1>13, <1>14, <1>15 DEF Next, MainStep

\* The timer's invariant holds throughout the session.
LEMMA TimerInvariant == Spec => []TimerInv
<1>1. Init => TimerInv
  BY DEF Init, TimerInv, NoSpuriousFailure
<1> QED
  BY <1>1, TypeCorrect, TimerStep, PTL DEF Spec

\* fzgo never reports the exit of a go-fuzz that it interrupted itself as a
\* failure of the session (execCmd's use of timer.Stop()).
THEOREM InterruptIsNoFailure == Spec => []NoSpuriousFailure
<1>1. TimerInv => NoSpuriousFailure
  BY DEF TimerInv
<1> QED
  BY <1>1, TimerInvariant, PTL

\* Only an execCmd's own timer signals its process, at its deadline.
THEOREM SignalsAreTimely == Spec => []SignalOnlyAfterDeadline
<1>1. TimerInv => SignalOnlyAfterDeadline
  BY DEF TimerInv, SignalOnlyAfterDeadline
<1> QED
  BY <1>1, TimerInvariant, PTL

\* The round robin moves on from a failed go-fuzz only past its deadline.
THEOREM FailuresEndSession == Spec => NoLostFailure
<1> DEFINE Lost == pc = "reaped" /\ child = "err" /\ status' # "OtherErr"
                       => maxDuration # 0 /\ TimeIsUp
<1>1. TypeOK /\ TimerInv /\ [Next]_vars => [Lost]_pc
  <2> SUFFICES ASSUME TypeOK, TimerInv, Next, pc' # pc,
                      pc = "reaped", child = "err", status' # "OtherErr"
               PROVE  maxDuration # 0 /\ TimeIsUp
    BY DEF vars
  <2>1. ~ErrorReturned
    BY DEF Next, MainStep, Seed, SeedFails, Start, StartFails, Wait,
           FuzzFails, Exit, NextTarget, NextRound, LastTarget, Returned, Tick,
           TimerFires, Callback, LateCallback, ChildExits, session
  <2>2. timer \in {"fired", "ran"}
    BY <2>1 DEF ErrorReturned, TypeOK
  <2> QED
    BY <2>2 DEF TimerInv
<1> QED
  BY <1>1, TypeCorrect, TimerInvariant, PTL DEF Spec, NoLostFailure

\* Where the round robin is, and what it has granted, fit together.
LEMMA SharesStep == TypeOK /\ SharesInv /\ [Next]_vars => SharesInv'
<1> SUFFICES ASSUME TypeOK, SharesInv, [Next]_vars, n' > 1
             PROVE  \E k \in Int, prev \in Int \cup {NoTurn} : Shares(k, prev)'
  BY DEF SharesInv
<1>1. n' = n /\ fuzzTime' = fuzzTime
  BY DEF Next, MainStep, Seed, SeedFails, Start, StartFails, Wait, FuzzFails,
         Exit, NextTarget, NextRound, LastTarget, Returned, Tick, TimerFires,
         Callback, LateCallback, ChildExits, session, vars
<1>2. PICK k \in Int, prev \in Int \cup {NoTurn} : Shares(k, prev)
  BY <1>1 DEF SharesInv
<1>3. n \in Nat /\ idx \in Int /\ idx >= 1 /\ idx <= n /\ quantum \in Int
  BY DEF TypeOK, Targets
<1>4. CASE Start
  <2>1. FuzzDuration' = FuzzDuration /\ k = idx - 1
    BY <1>2, <1>4 DEF Start, FuzzDuration, LoopForever, Shares
  <2>2. ASSUME NEW t \in Targets
        PROVE  granted'[t] = IF t <= k + 1 THEN FuzzDuration ELSE prev
    <3>1. t \in DOMAIN granted /\ t \in Int
      BY <1>3, ConstantsAssumption
         DEF TypeOK, Targets, ConstantsAssumption
    <3>2. granted[t] = IF t <= k THEN FuzzDuration ELSE prev
      BY <1>2 DEF Shares
    <3>3. CASE t = idx
      BY <1>3, <1>4, <2>1, <3>1, <3>3 DEF Start
    <3>4. CASE t # idx
      BY <1>3, <1>4, <2>1, <3>1, <3>2, <3>4 DEF Start
    <3> QED
      BY <3>3, <3>4
  <2>3. pc' = "wait" /\ idx' = idx /\ LoopForever' = LoopForever /\ n' = n
    BY <1>1, <1>4 DEF Start, LoopForever
  <2>4. Shares(k + 1, prev)'
    BY <1>2, <1>3, <2>1, <2>2, <2>3 DEF Shares, Targets
  <2>5. k + 1 \in Int
    OBVIOUS
  <2> QED
    BY <2>4, <2>5
<1>5. CASE NextRound
  <2>1. k = n /\ FuzzDuration = quantum /\ FuzzDuration' = quantum'
    BY <1>1, <1>2, <1>5
       DEF NextRound, Returned, FuzzDuration, LoopForever, Shares
  <2>2. quantum <= quantum' /\ quantum' <= 2 * quantum
    BY <1>3, <1>5, ConstantsAssumption
       DEF NextRound, TypeOK, ConstantsAssumption
  <2>3. PICK q \in Int : q = quantum
    BY <1>3
  <2>4. \A t \in Targets : granted'[t] = q /\ ~(t <= 0)
    BY <1>2, <1>3, <1>5, <2>1, <2>3 DEF NextRound, Returned, Targets, Shares
  <2>5. pc' = "seed" /\ idx' = 1 /\ LoopForever' /\ n' = n
    BY <1>1, <1>5 DEF NextRound, LoopForever
  <2>6. Shares(0, q)'
    BY <1>3, <2>1, <2>2, <2>3, <2>4, <2>5 DEF Shares, Targets
  <2> QED
    BY <2>6
<1>6. CASE NextTarget
  <2>1. k = idx /\ idx' - 1 = idx
    BY <1>2, <1>3, <1>6 DEF NextTarget, Returned, Shares
  <2>2. Shares(k, prev)'
    BY <1>1, <1>2, <1>6, <2>1
       DEF NextTarget, Returned, Shares, Targets, FuzzDuration, LoopForever
  <2> QED
    BY <2>2
<1>7. CASE ~Start /\ ~NextRound /\ ~NextTarget
  <2>1. Shares(k, prev)'
    <3>1. /\ UNCHANGED <<quantum, granted, idx>>
          /\ pc' \in {"seed", "start"} => pc \in {"seed", "start"}
          /\ pc' \in {"wait", "reaped"} => pc \in {"wait", "reaped"}
      BY <1>7 DEF Next, MainStep, Seed, SeedFails, StartFails, Wait,
             FuzzFails, Exit, LastTarget, Returned, Tick, TimerFires,
             Callback, LateCallback, ChildExits, session, vars
    <3> QED
      BY <1>1, <1>2, <3>1 DEF Shares, Targets, FuzzDuration, LoopForever
  <2> QED
    BY <2>1
<1> QED
  BY <1>4, <1>5, <1>6, <1>7

\* The turns of a round are equally long, and no target is ever ahead of
\* another by more than the doubling of the quantum (main.go:188-233).
THEOREM RoundsAreFair == Spec => []EqualShares
<1>1. Init => SharesInv
  <2> SUFFICES ASSUME Init PROVE SharesInv
    OBVIOUS
  <2>1. Shares(0, NoTurn)
    BY ConstantsAssumption
       DEF Init, Shares, Targets, ConstantsAssumption
  <2>2. 0 \in Int
    OBVIOUS
  <2> QED
    BY <2>1, <2>2, Zenon DEF SharesInv
<1>2. TypeOK /\ SharesInv => EqualShares
  <2> SUFFICES ASSUME TypeOK, SharesInv, n > 1 PROVE EqualShares
    BY DEF EqualShares, TypeOK, Targets
  <2>1. PICK k \in Int, prev \in Int \cup {NoTurn} : Shares(k, prev)
    BY DEF SharesInv
  <2>2. FuzzDuration \in Int
    BY DEF FuzzDuration, TypeOK
  <2>3. ASSUME NEW s \in Targets, NEW t \in Targets,
               s < t, HadTurn(s), HadTurn(t)
        PROVE  \/ granted[s] = granted[t]
               \/ /\ LoopForever
                  /\ granted[t] < granted[s]
                  /\ granted[s] <= 2 * granted[t]
    BY <2>1, <2>2, <2>3 DEF Shares, HadTurn, Targets, TypeOK
  <2>4. idx = 1 /\ pc = "seed" => k = 0
    BY <2>1 DEF Shares
  <2>5. idx = 1 /\ pc = "seed" =>
            \A s, t \in Targets : granted[s] = granted[t]
    BY <2>1, <2>4 DEF Shares, Targets, TypeOK
  <2> QED
    BY <2>3, <2>5 DEF EqualShares
<1> QED
  BY <1>1, <1>2, SharesStep, TypeCorrect, PTL DEF Spec

-----------------------------------------------------------------------------
(* The refinement of Session.tla. *)

\* A process that has been waited for has ended, and success comes after the
\* last target.
TurnInv ==
    /\ pc = "reaped" => child \in Ended
    /\ pc = "exited" => child \in {"none"} \cup Ended
    /\ status = "Success" => idx = n

LEMMA TurnStep == TypeOK /\ TimerInv /\ TurnInv /\ [Next]_vars => TurnInv'
<1> SUFFICES ASSUME TypeOK, TimerInv, TurnInv, [Next]_vars PROVE TurnInv'
  OBVIOUS
<1> USE DEF TypeOK, TurnInv, Ended, session, Exit
<1>1. CASE Seed \/ SeedFails \/ Start \/ StartFails \/ Wait \/ FuzzFails
  BY <1>1 DEF Seed, SeedFails, Start, StartFails, Wait, FuzzFails
<1>2. CASE NextTarget \/ NextRound \/ LastTarget
  BY <1>2 DEF NextTarget, NextRound, LastTarget, Returned, TimerInv
<1>3. CASE Tick \/ TimerFires \/ LateCallback
  BY <1>3 DEF Tick, TimerFires, LateCallback
<1>4. CASE Callback
  BY <1>4 DEF Callback
<1>5. CASE ChildExits
  BY <1>5 DEF ChildExits, ExitOf
<1>6. CASE UNCHANGED vars
  BY <1>6 DEF vars
<1> QED
  BY <1>1, <1>2, <1>3, <1>4, <1>5, <1>6 DEF Next, MainStep

\* The session as it is seen from Session.tla: how many turns are over.
Done == IF TurnOver THEN idx ELSE idx - 1

\* Steps of timers and processes end a turn or do nothing that can be seen; so
\* do all steps of the main goroutine inside a turn.
LEMMA InTurn ==
    ASSUME TypeOK, TimerInv, TurnInv,
           Seed \/ Start \/ Wait \/ Tick \/ TimerFires \/ Callback \/ LateCallback \/ ChildExits
    PROVE  /\ n' = n /\ fuzzTime' = fuzzTime /\ status' = status
           /\ \/ Done' = Done
              \/ Done = idx - 1 /\ Done' = idx /\ status = "none"
<1> USE DEF TypeOK, TimerInv, TurnInv, Done, TurnOver, session
<1>1. CASE Seed
  BY <1>1 DEF Seed
<1>2. CASE Start
  BY <1>2 DEF Start
<1>3. CASE Wait
  BY <1>3 DEF Wait
<1>4. CASE Tick
  BY <1>4 DEF Tick, ErrorReturned
<1>5. CASE TimerFires
  BY <1>5 DEF TimerFires, ErrorReturned
<1>6. CASE Callback
  BY <1>6 DEF Callback, ErrorReturned, Ended
<1>7. CASE LateCallback
  BY <1>7 DEF LateCallback, ErrorReturned
<1>8. CASE ChildExits
  BY <1>8 DEF ChildExits, ExitOf, Ended
<1> QED
  BY <1>1, <1>2, <1>3, <1>4, <1>5, <1>6, <1>7, <1>8

LEMMA SessionStep ==
    ASSUME TypeOK, TimerInv, TurnInv, [Next]_vars
    PROVE  [Round!Next]_(Round!vars)
<1> USE DEF Round!vars, Round!Next, Round!Running
<1>0. n \in Nat /\ n # 0 /\ idx \in Int /\ 1 <= idx /\ idx <= n
  BY ConstantsAssumption DEF TypeOK, Targets, ConstantsAssumption
<1>1. CASE Seed \/ Start \/ Wait \/ Tick \/ TimerFires \/ Callback \/ LateCallback \/ ChildExits
  <2>1. /\ n' = n /\ LoopForever' = LoopForever /\ status' = status
        /\ \/ Done' = Done
           \/ Done = idx - 1 /\ Done' = idx /\ status = "none"
    BY <1>1, InTurn DEF LoopForever
  <2>2. CASE Done' = Done
    BY <2>1, <2>2 DEF Done
  <2>3. CASE Done = idx - 1 /\ Done' = idx /\ status = "none"
    <3>1. Done < n /\ Done' = Done + 1
      BY <1>0, <2>3
    <3>2. Round!Turn
      BY <1>0, <2>1, <2>3, <3>1 DEF Round!Turn, Done
    <3> QED
      BY <3>2
  <2> QED
    BY <2>1, <2>2, <2>3
<1>2. CASE SeedFails \/ StartFails \/ FuzzFails
  <2>1. /\ n' = n /\ LoopForever' = LoopForever
        /\ status = "none" /\ status' = "OtherErr"
    BY <1>2 DEF SeedFails, StartFails, FuzzFails, Exit, LoopForever, TypeOK, TimerInv
  <2>2. ~TurnOver /\ ~TurnOver' /\ idx' = idx
    BY <1>2, <2>1 DEF SeedFails, StartFails, FuzzFails, Exit, TurnOver
  <2>3. Round!TurnFails
    BY <1>0, <2>1, <2>2 DEF Round!TurnFails
  <2> QED
    BY <2>3
<1>3. CASE NextTarget \/ NextRound \/ LastTarget
  <2>1. /\ n' = n /\ LoopForever' = LoopForever
        /\ pc = "reaped" /\ status = "none" /\ TurnOver
    BY <1>3 DEF NextTarget, NextRound, LastTarget, Returned, LoopForever,
                TurnOver, TypeOK, TimerInv
  <2>2. CASE NextTarget
    <3>1. ~TurnOver' /\ idx' = idx + 1 /\ status' = status
      BY <2>1, <2>2 DEF NextTarget, TurnOver
    <3> QED
      BY <1>0, <2>1, <3>1
  <2>3. CASE NextRound
    <3>1. ~TurnOver' /\ idx' = 1 /\ status' = status /\ idx = n /\ LoopForever
      BY <2>1, <2>3 DEF NextRound, TurnOver
    <3>2. Round!NextRound
      BY <1>0, <2>1, <3>1 DEF Round!NextRound
    <3> QED
      BY <3>2
  <2>4. CASE LastTarget
    <3>1. TurnOver' /\ idx' = idx /\ status' = "Success" /\ idx = n /\ ~LoopForever
      BY <2>1, <2>4 DEF LastTarget, TurnOver, Exit
    <3>2. Round!End
      BY <1>0, <2>1, <3>1 DEF Round!End
    <3> QED
      BY <3>2
  <2> QED
    BY <1>3, <2>2, <2>3, <2>4
<1>4. CASE UNCHANGED vars
  BY <1>4 DEF vars, TurnOver, ErrorReturned, LoopForever
<1> QED
  BY <1>1, <1>2, <1>3, <1>4 DEF Next, MainStep

\* The round robin with its timers and processes implements Session.tla: turns
\* in order, none left out, and an end that the turns and -fuzztime decide.
THEOREM ImplementsSession == Spec => KeepsSession
<1>1. Init => TurnInv
  BY DEF Init, TurnInv
<1>2. Init => Round!Init
  <2> SUFFICES ASSUME Init PROVE Round!Init
    OBVIOUS
  <2>1. n \in 0 .. MaxTargets /\ idx - 1 = 0 /\ status = "none" /\ ~TurnOver
    BY ConstantsAssumption DEF Init, TurnOver, ConstantsAssumption
  <2>2. LoopForever \in BOOLEAN
    BY DEF LoopForever
  <2> QED
    BY <2>1, <2>2 DEF Round!Init
<1> QED
  BY <1>1, <1>2, TypeCorrect, TimerInvariant, TurnStep, SessionStep, PTL
     DEF Spec, KeepsSession, Round!Spec

-----------------------------------------------------------------------------
(* No turn goes on for ever: the half of NoStarvation and SessionEnds that   *)
(* does not need fairness.                                                   *)

Positive(x) == IF x > 0 THEN x ELSE 0

\* How much can still happen in a turn: of time, to the timer, to the child and
\* its left-over callbacks, and of the steps of the main goroutine.
TimerLeft ==
    CASE timer = "armed" -> 2 + Positive(maxDuration - clock)
      [] timer = "fired" -> 1
      [] timer \in {"none", "ran"} -> 0

ChildLeft ==
    CASE child = "running" -> 2
      [] child \in {"interrupted", "killed"} -> 1
      [] child \in {"none"} \cup Ended -> 0

TurnLeft ==
    (IF late THEN 1 ELSE 0) +
    (CASE pc = "seed" -> 9 + Positive(FuzzDuration)
       [] pc = "start" -> 8 + Positive(FuzzDuration)
       [] pc = "wait" -> 3 + TimerLeft + ChildLeft
       [] pc = "reaped" -> 2 + TimerLeft
       [] pc = "exited" -> 0)

\* Is there a limit to every turn?
Limited == n > 1 \/ ~LoopForever

\* A step inside a turn brings its end nearer, and with -fuzztime one that ends
\* it brings the end of the session nearer.
TurnsEnd ==
    [][Limited => \/ idx' = idx /\ TurnLeft' < TurnLeft
                  \/ idx' # idx /\ (~LoopForever => idx' > idx)]_vars

LEMMA LeftIsNat ==
    ASSUME TypeOK
    PROVE  /\ Positive(FuzzDuration) \in Nat
           /\ TimerLeft \in Nat /\ ChildLeft \in 0 .. 2 /\ TurnLeft \in Nat
<1>1. FuzzDuration \in Int
  BY ConstantsAssumption DEF TypeOK, FuzzDuration, ConstantsAssumption
<1>2. Positive(FuzzDuration) \in Nat
  BY <1>1 DEF Positive
<1>3. TimerLeft \in Nat
  BY DEF TypeOK, TimerLeft, Positive
<1>4. ChildLeft \in 0 .. 2
  BY DEF TypeOK, ChildLeft, Ended
<1>5. pc \in {"seed", "start", "wait", "reaped", "exited"} /\ late \in BOOLEAN
  BY DEF TypeOK
<1>6. TurnLeft \in Nat
  BY <1>2, <1>3, <1>4, <1>5 DEF TurnLeft
<1> QED
  BY <1>2, <1>3, <1>4, <1>6

LEMMA DurationFixed ==
    ASSUME UNCHANGED <<n, fuzzTime, quantum>>
    PROVE  FuzzDuration' = FuzzDuration /\ LoopForever' = LoopForever
BY DEF FuzzDuration, LoopForever

LEMMA TurnsEndStep ==
    ASSUME TypeOK, TypeOK', TimerInv, TurnInv, Next, vars' # vars, Limited
    PROVE  \/ idx' = idx /\ TurnLeft' < TurnLeft
           \/ idx' # idx /\ (~LoopForever => idx' > idx)
<1>0. /\ TimerLeft \in Nat /\ ChildLeft \in 0 .. 2 /\ TurnLeft \in Nat
      /\ Positive(FuzzDuration) \in Nat
  BY LeftIsNat
<1>. TimerLeft' \in Nat /\ ChildLeft' \in 0 .. 2
  BY DEF TypeOK, TimerLeft, ChildLeft, Positive, Ended
<1>1. FuzzDuration \in Int /\ FuzzDuration # 0
  BY ConstantsAssumption
     DEF TypeOK, FuzzDuration, Limited, LoopForever, ConstantsAssumption
<1>2. CASE Seed
  <2>1. Positive(FuzzDuration)' = Positive(FuzzDuration)
    BY <1>2, DurationFixed DEF Seed, session, Positive
  <2> QED
    BY <1>0, <1>2, <2>1 DEF Seed, session, TurnLeft
<1>3. CASE SeedFails \/ StartFails \/ FuzzFails \/ LastTarget
  <2>1. pc \in {"seed", "start", "reaped"} /\ pc' = "exited" /\ late' = FALSE /\ idx' = idx
    BY <1>3 DEF SeedFails, StartFails, FuzzFails, LastTarget, Returned, Exit
  <2> QED
    BY <1>0, <2>1 DEF TurnLeft
<1>4. CASE Start
  <2>1. timer' = "armed" /\ maxDuration' = FuzzDuration /\ clock' = 0
    BY <1>1, <1>4 DEF Start
  <2>2. TimerLeft' = 2 + Positive(FuzzDuration)
    BY <1>1, <2>1 DEF TimerLeft, Positive
  <2>3. pc = "start" /\ pc' = "wait" /\ late' = late /\ idx' = idx
    BY <1>4 DEF Start
  <2> QED
    BY <1>0, <2>2, <2>3 DEF TurnLeft
<1>5. CASE Wait
  <2>1. TimerLeft' = TimerLeft
    BY <1>5 DEF Wait, session, TimerLeft, Positive
  <2> QED
    BY <1>0, <1>5, <2>1 DEF Wait, session, TurnLeft
<1>6. CASE NextTarget
  BY <1>6 DEF NextTarget, TypeOK, Targets
<1>7. CASE NextRound
  <2>1. LoopForever /\ n > 1 /\ idx = n /\ idx' = 1
    BY <1>7 DEF NextRound, Limited
  <2> QED
    BY <2>1, ConstantsAssumption DEF TypeOK, ConstantsAssumption
<1>8. CASE Tick
  <2>1. TimerLeft' < TimerLeft
    BY <1>8 DEF Tick, session, TimerLeft, TimeIsUp, TypeOK, Positive
  <2>2. ChildLeft' = ChildLeft /\ pc \in {"wait", "reaped"}
    BY <1>8 DEF Tick, ChildLeft, TimerInv
  <2> QED
    BY <1>0, <1>8, <2>1, <2>2 DEF Tick, session, TurnLeft
<1>9. CASE TimerFires
  <2>1. TimerLeft' < TimerLeft
    BY <1>9 DEF TimerFires, session, TimerLeft, TypeOK, Positive
  <2>2. ChildLeft' = ChildLeft /\ pc \in {"wait", "reaped"}
    BY <1>9 DEF TimerFires, ChildLeft, TimerInv
  <2> QED
    BY <1>0, <1>9, <2>1, <2>2 DEF TimerFires, session, TurnLeft
<1>10. CASE Callback
  <2>1. TimerLeft' < TimerLeft /\ ChildLeft' <= ChildLeft /\ pc \in {"wait", "reaped"}
    BY <1>10 DEF Callback, TimerLeft, ChildLeft, TimerInv, TypeOK, Ended
  <2> QED
    BY <1>0, <1>10, <2>1 DEF Callback, session, TurnLeft
<1>11. CASE LateCallback
  <2>1. late /\ ~late' /\ TimerLeft' = TimerLeft /\ ChildLeft' = ChildLeft
        /\ pc' = pc /\ idx' = idx /\ pc \in {"seed", "start", "wait", "reaped", "exited"}
    BY <1>11 DEF LateCallback, session, vars, TimerLeft, ChildLeft, Positive, TypeOK
  <2>2. Positive(FuzzDuration)' = Positive(FuzzDuration)
    BY <1>11, DurationFixed DEF LateCallback, session, Positive
  <2> QED
    BY <1>0, <2>1, <2>2 DEF TurnLeft
<1>12. CASE ChildExits
  <2>1. ChildLeft' < ChildLeft /\ pc = "wait"
    BY <1>12 DEF ChildExits, ExitOf, ChildLeft, Ended, TypeOK, TurnInv
  <2>2. TimerLeft' = TimerLeft
    BY <1>12 DEF ChildExits, session, TimerLeft, Positive
  <2> QED
    BY <1>0, <1>12, <2>1, <2>2 DEF ChildExits, session, TurnLeft
<1> QED
  BY <1>2, <1>3, <1>4, <1>5, <1>6, <1>7, <1>8, <1>9, <1>10, <1>11, <1>12
     DEF Next, MainStep

LEMMA TurnInvariant == Spec => []TurnInv
<1>1. Init => TurnInv
  BY DEF Init, TurnInv
<1> QED
  BY <1>1, TypeCorrect, TimerInvariant, TurnStep, PTL DEF Spec

\* Whatever the timer, go-fuzz and late callbacks do, each turn that has a limit
\* is a finite number of steps, and with -fuzztime so is the session.
THEOREM TurnsAreFinite == Spec => ([](TurnLeft \in Nat) /\ TurnsEnd)
<1> DEFINE Ends ==
      Limited => \/ idx' = idx /\ TurnLeft' < TurnLeft
                 \/ idx' # idx /\ (~LoopForever => idx' > idx)
<1>1. TypeOK => TurnLeft \in Nat
  BY LeftIsNat
<1>2. TypeOK /\ TypeOK' /\ TimerInv /\ TurnInv /\ [Next]_vars => [Ends]_vars
  BY TurnsEndStep
<1> QED
  BY <1>1, <1>2, TypeCorrect, TimerInvariant, TurnInvariant, PTL DEF Spec, TurnsEnd

=============================================================================
