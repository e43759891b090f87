------------------------- MODULE VerifyCorpusProofs -------------------------
(***************************************************************************)
(* Proofs about VerifyCorpus.tla, for any number of functions and any      *)
(* contents of their corpus directories.                                   *)
(***************************************************************************)
EXTENDS VerifyCorpus, TLAPS

\* verifyFiles is at work on a location.
Active == pc \in {"files", "wrapper", "temp", "test"}

\* The nested changes of directory: where fzgo is, where it will go back to,
\* and which directories exist, at each stage.
PlaceInv ==
    /\ pc \in {"find", "dirs", "files", "exited"} =>
          cwd = "user's" /\ ~temp /\ ~wrapper
    /\ pc = "wrapper" =>
          /\ cwd = "wrapper's" /\ oldWd = "user's"
          /\ ~temp /\ wrapper /\ func \in RichFuncs
    /\ pc = "temp" =>
          cwd = "user's" /\ ~temp /\ (func \in RichFuncs => wrapper)
    /\ pc = "test" =>
          /\ cwd = "temp" /\ oldWd = "user's"
          /\ temp /\ (func \in RichFuncs => wrapper)

\* A location at work has a corpus, and once past the early returns it has
\* something the user asked for.
WorkInv ==
    /\ Active => Holds("TestCorpus") # "none"
    /\ Active /\ test = "TestCrashers" => withFuzz
    /\ pc \in {"wrapper", "temp", "test"} =>
          test \in selected /\ Holds(test) \in {"good", "bad"}

\* Has verifyCorpus got past test t of the d-th location of function f?
Passed(f, d, t) ==
    \/ f < func
    \/ f = func /\ d < dir
    \/ f = func /\ d = dir /\ Active /\ test = "TestCrashers"
           /\ t = "TestCorpus"

\* The status remembers every failing input that has been passed.
ReportInv ==
    /\ pc # "exited" =>
          \A f \in Funcs, d \in 1 .. Len(DirsToCheck), t \in Tests :
              Passed(f, d, t) /\ Regression(f, DirsToCheck[d], t)
                  => status # "Success"
    /\ pc = "exited" /\ Regressions => status # "Success"

\* What an error status may come from, when -fuzzdir is not relative and there
\* are functions.
AlarmInv ==
    /\ fuzzdir \in Fuzzdirs
    /\ status # "Success" => Regressions \/ trouble

-----------------------------------------------------------------------------

LEMMA NatFuncs == NumFuncs \in Nat
BY ConstantsAssumption DEF ConstantsAssumption

\* There are two or three locations.
LEMMA NumDirs == Len(DirsToCheck) \in {2, 3}
BY DEF DirsToCheck

LEMMA DirsFixed ==
    ASSUME UNCHANGED options
    PROVE  /\ DirsToCheck' = DirsToCheck
           /\ Places' = Places
           /\ Regressions' = Regressions
           /\ \A f, w, t : Regression(f, w, t)' = Regression(f, w, t)
<1>1. DirsToCheck' = DirsToCheck
  BY DEF DirsToCheck, options
<1>2. Places' = Places
  BY <1>1 DEF Places
<1>3. \A f, w, t : Regression(f, w, t)' = Regression(f, w, t)
  BY DEF Regression, options
<1>4. Regressions' = Regressions
  BY <1>2, <1>3 DEF Regressions
<1> QED
  BY <1>1, <1>2, <1>3, <1>4

\* The options never change.
LEMMA OptionsFixed == [Next]_vars => UNCHANGED options
<1> USE DEF Find, FindFails, SkipDir, VerifyDir, NextFunc, NothingToRun,
            SetupFails, FilesError, Plain, EnterWrapper, LeaveWrapper,
            WrapperFails, EnterTemp, TempFails, TestPasses, TestFails,
            GoFails, Done
<1> QED
  BY Zenon DEF Next, vars

LEMMA InitType == Init => TypeOK
<1>1. Init => func \in 1 .. NumFuncs + 1
  BY NatFuncs DEF Init
<1>2. Init => dir \in 1 .. Len(DirsToCheck) + 1
  BY NumDirs DEF Init
<1> QED
  BY <1>1, <1>2 DEF Init, TypeOK, Tests

LEMMA TypeStep == TypeOK /\ [Next]_vars => TypeOK'
<1> SUFFICES ASSUME TypeOK, [Next]_vars PROVE TypeOK'
  OBVIOUS
<1>0. UNCHANGED options
  BY OptionsFixed
<1>a. DirsToCheck' = DirsToCheck
  BY <1>0, DirsFixed
<1> USE <1>a, NumDirs, NatFuncs DEF TypeOK, MoreDirs, Tests
<1>1. CASE Find
  BY <1>1 DEF Find, place
<1>2. CASE FindFails
  BY <1>2 DEF FindFails, Exit, place
<1>3. CASE SkipDir
  BY <1>3 DEF SkipDir, place
<1>4. CASE VerifyDir
  BY <1>4 DEF VerifyDir, place
<1>5. CASE NextFunc
  BY <1>5 DEF NextFunc, place
<1>6. CASE NothingToRun
  BY <1>6 DEF NothingToRun, Continue, place
<1>7. CASE SetupFails
  BY <1>7 DEF SetupFails, FilesError, Exit, SomethingToRun, place
<1>8. CASE Plain
  BY <1>8 DEF Plain, SomethingToRun, place
<1>9. CASE EnterWrapper
  BY <1>9 DEF EnterWrapper, SomethingToRun
<1>10. CASE LeaveWrapper
  BY <1>10 DEF LeaveWrapper
<1>11. CASE WrapperFails
  BY <1>11 DEF WrapperFails, FilesError, Exit
<1>12. CASE EnterTemp
  BY <1>12 DEF EnterTemp
<1>13. CASE TempFails
  BY <1>13 DEF TempFails, CleanUp, FilesError, Exit
<1>14. CASE TestPasses \/ TestFails \/ GoFails
  <2>1. CleanUp /\ Continue /\ func' = func /\ pc = "test"
    BY <1>14 DEF TestPasses, TestFails, GoFails
  <2>2. status' \in {"Success", "OtherErr", "ArgErr"} /\ trouble' \in BOOLEAN
    BY <1>14 DEF TestPasses, TestFails, GoFails
  <2>3. /\ cwd' \in {"user's", "wrapper's", "temp"}
        /\ oldWd' \in {"user's", "wrapper's", "temp"}
        /\ temp' \in BOOLEAN /\ wrapper' \in BOOLEAN
    BY <2>1 DEF CleanUp
  <2>4. /\ pc' \in {"files", "dirs"}
        /\ test' \in Tests
        /\ dir' \in 1 .. Len(DirsToCheck) + 1
        /\ pc' = "files" => dir' = dir
    BY <2>1 DEF Continue
  <2> QED
    BY <2>1, <2>2, <2>3, <2>4
<1>17. CASE Done
  BY <1>17 DEF Done, Exit, place
<1>18. CASE UNCHANGED vars
  BY <1>18 DEF vars, place
<1> QED
  BY <1>1, <1>2, <1>3, <1>4, <1>5, <1>6, <1>7, <1>8, <1>9, <1>10, <1>11,
     <1>12, <1>13, <1>14, <1>17, <1>18 DEF Next

LEMMA PlaceStep == TypeOK /\ PlaceInv /\ [Next]_vars => PlaceInv'
<1> SUFFICES ASSUME TypeOK, PlaceInv, [Next]_vars PROVE PlaceInv'
  OBVIOUS
<1> USE DEF PlaceInv, place
<1>1. CASE Find \/ FindFails \/ SkipDir \/ VerifyDir \/ NextFunc
  BY <1>1 DEF Find, FindFails, SkipDir, VerifyDir, NextFunc, Exit
<1>2. CASE NothingToRun \/ SetupFails \/ Plain
  BY <1>2 DEF NothingToRun, SetupFails, Plain, SomethingToRun, Continue,
              FilesError, Exit
<1>3. CASE EnterWrapper
  BY <1>3 DEF EnterWrapper, SomethingToRun
<1>4. CASE LeaveWrapper
  BY <1>4 DEF LeaveWrapper
<1>5. CASE WrapperFails
  BY <1>5 DEF WrapperFails, FilesError, Exit
<1>6. CASE EnterTemp
  BY <1>6 DEF EnterTemp
<1>7. CASE TempFails
  BY <1>7 DEF TempFails, CleanUp, FilesError, Exit
<1>8. CASE TestPasses \/ TestFails \/ GoFails
  BY <1>8 DEF TestPasses, TestFails, GoFails, CleanUp, Continue
<1>9. CASE Done
  BY <1>9 DEF Done, Exit
<1>10. CASE UNCHANGED vars
  BY <1>10 DEF vars
<1> QED
  BY <1>1, <1>2, <1>3, <1>4, <1>5, <1>6, <1>7, <1>8, <1>9, <1>10 DEF Next

\* The contents of the location at work are looked at once for all.
LEMMA WorkStep == TypeOK /\ WorkInv /\ [Next]_vars => WorkInv'
<1> SUFFICES ASSUME TypeOK, WorkInv, [Next]_vars PROVE WorkInv'
  OBVIOUS
<1>0. UNCHANGED options
  BY OptionsFixed
<1>a. DirsToCheck' = DirsToCheck
  BY <1>0, DirsFixed
<1>b. ASSUME func' = func, dir' = dir
      PROVE  /\ Holds("TestCorpus")' = Holds("TestCorpus")
             /\ test' = test => Holds(test)' = Holds(test)
  BY <1>0, <1>a, <1>b DEF Holds, WorkDir, options
<1> USE DEF WorkInv, Active
<1>1. CASE pc' \in {"find", "dirs", "exited"}
  BY <1>1
<1>2. CASE VerifyDir
  BY <1>2, <1>b DEF VerifyDir
<1>3. CASE Plain \/ EnterWrapper
  BY <1>0, <1>3, <1>b DEF Plain, EnterWrapper, SomethingToRun, options
<1>4. CASE LeaveWrapper \/ EnterTemp
  BY <1>0, <1>4, <1>b DEF LeaveWrapper, EnterTemp, options
<1>5. ASSUME Continue, Active, func' = func, pc' \notin {"find", "dirs", "exited"}
      PROVE  WorkInv'
  BY <1>0, <1>5, <1>b DEF Continue, options
<1>6. CASE NothingToRun \/ TestPasses \/ TestFails \/ GoFails
  BY <1>1, <1>5, <1>6 DEF NothingToRun, TestPasses, TestFails, GoFails
<1>7. CASE SkipDir \/ NextFunc \/ UNCHANGED vars
  BY <1>0, <1>7, <1>b DEF SkipDir, NextFunc, vars, options
<1>8. CASE Find \/ FindFails \/ SetupFails \/ WrapperFails \/ TempFails \/ Done
  BY <1>1, <1>8 DEF Find, FindFails, SetupFails, WrapperFails, TempFails, Done,
                    FilesError, Exit
<1> QED
  BY <1>2, <1>3, <1>4, <1>6, <1>7, <1>8 DEF Next

\* The location at work is one of the known places, and a test that is passed
\* by is no regression unless it fails.
LEMMA AtWork ==
    ASSUME TypeOK, WorkInv, Active
    PROVE  /\ func \in Funcs
           /\ dir \in 1 .. Len(DirsToCheck)
           /\ WorkDir \in Places
           /\ Regression(func, DirsToCheck[dir], test) => Holds(test) = "bad"
           /\ pc = "test" /\ Holds(test) = "bad"
                 => Regression(func, DirsToCheck[dir], test)
<1>1. func \in Funcs
  BY NatFuncs DEF TypeOK, Active, MoreDirs, Funcs
<1>2. dir \in 1 .. Len(DirsToCheck)
  BY NumDirs DEF TypeOK, Active, MoreDirs
<1>3. WorkDir \in Places
  BY <1>2 DEF WorkDir, Places
<1>4. Regression(func, DirsToCheck[dir], test) => Holds(test) = "bad"
  BY DEF Regression, Holds, WorkDir
<1>5. pc = "test" /\ Holds(test) = "bad"
          => Regression(func, DirsToCheck[dir], test)
  BY DEF WorkInv, Active, Regression, Holds, WorkDir
<1> QED
  BY <1>1, <1>2, <1>3, <1>4, <1>5

\* Going on from a test that is no regression keeps the promise.
LEMMA ContinueReports ==
    ASSUME TypeOK, WorkInv, ReportInv, Active, Continue, UNCHANGED options,
           func' = func, status' = status,
           ~Regression(func, DirsToCheck[dir], test)
    PROVE  ReportInv'
<1>1. pc # "exited" /\ pc' # "exited"
  BY DEF Active, Continue
<1>2. DirsToCheck' = DirsToCheck
  BY DirsFixed
<1>3. SUFFICES ASSUME NEW f \in Funcs, NEW d \in 1 .. Len(DirsToCheck),
                      NEW t \in Tests, Passed(f, d, t)',
                      Regression(f, DirsToCheck[d], t)
               PROVE  status # "Success"
  BY <1>1, <1>2, DirsFixed DEF ReportInv
<1>4. dir \in Nat /\ func \in Nat /\ f \in Nat /\ d \in Nat
  BY NumDirs, NatFuncs DEF TypeOK, Funcs
<1>5. CASE Passed(f, d, t)
  BY <1>1, <1>3, <1>5 DEF ReportInv
<1>6. CASE ~Passed(f, d, t)
  <2>1. f = func /\ d = dir
    BY <1>3, <1>4, <1>6 DEF Passed, Continue, Active
  <2>2. CASE withFuzz /\ test = "TestCorpus"
    BY <1>3, <1>4, <2>1, <2>2 DEF Passed, Continue, Active
  <2>3. CASE ~(withFuzz /\ test = "TestCorpus")
    <3>1. t = test \/ (t = "TestCorpus" /\ test = "TestCrashers")
              \/ (t = "TestCrashers" /\ ~withFuzz)
      BY <1>3, <2>3 DEF TypeOK, Tests
    <3> QED
      BY <1>3, <1>6, <2>1, <3>1 DEF Passed, Regression
  <2> QED
    BY <2>2, <2>3
<1> QED
  BY <1>5, <1>6

LEMMA ReportStep ==
    TypeOK /\ WorkInv /\ ReportInv /\ [Next]_vars => ReportInv'
<1> SUFFICES ASSUME TypeOK, WorkInv, ReportInv, [Next]_vars PROVE ReportInv'
  OBVIOUS
<1>0. UNCHANGED options
  BY OptionsFixed
<1>a. /\ DirsToCheck' = DirsToCheck
      /\ Regressions' = Regressions
      /\ \A f, w, t : Regression(f, w, t)' = Regression(f, w, t)
  BY <1>0, DirsFixed
<1>b. /\ dir \in Nat /\ func \in Nat /\ Len(DirsToCheck) \in Nat
      /\ \A f \in Funcs : f \in Nat
  BY NumDirs, NatFuncs DEF TypeOK, Funcs
<1>1. ASSUME pc # "exited", pc' # "exited", status' = status,
             \A f \in Funcs, d \in 1 .. Len(DirsToCheck), t \in Tests :
                 Passed(f, d, t)' /\ Regression(f, DirsToCheck[d], t)
                     => Passed(f, d, t)
      PROVE  ReportInv'
  BY <1>a, <1>1 DEF ReportInv
<1>2. ASSUME status' # "Success" PROVE ReportInv'
  BY <1>2 DEF ReportInv
<1>3. CASE Find \/ VerifyDir
  BY <1>1, <1>3 DEF Find, VerifyDir, Passed, Active
<1>4. CASE SkipDir
  <2>1. Holds("TestCorpus") = "none" /\ dir' = dir + 1 /\ func' = func
    BY <1>4 DEF SkipDir
  <2>2. pc = "dirs" /\ pc' = "dirs" /\ status' = status
    BY <1>4 DEF SkipDir
  <2>3. \A t : ~Regression(func, DirsToCheck[dir], t)
    BY <2>1 DEF Regression, Holds, WorkDir
  <2> QED
    BY <1>1, <1>b, <2>1, <2>2, <2>3 DEF Passed, Active
<1>5. CASE NextFunc
  <2>1. /\ pc = "dirs" /\ pc' = "dirs" /\ status' = status
        /\ func' = func + 1 /\ dir' = 1 /\ dir > Len(DirsToCheck)
    BY <1>5 DEF NextFunc
  <2>2. \A f \in Funcs, d \in 1 .. Len(DirsToCheck), t \in Tests :
            Passed(f, d, t)' => Passed(f, d, t)
    BY <1>b, <2>1 DEF Passed, Active
  <2> QED
    BY <1>1, <2>1, <2>2
<1>6. CASE NothingToRun
  <2>1. Active /\ Continue /\ func' = func /\ status' = status
    BY <1>6 DEF NothingToRun, Active
  <2>2. ~Regression(func, DirsToCheck[dir], test)
    BY <1>6 DEF NothingToRun, Regression, Holds, WorkDir
  <2> QED
    BY <1>0, <2>1, <2>2, ContinueReports
<1>7. CASE TestPasses
  <2>1. Active /\ Continue /\ func' = func /\ status' = status
    BY <1>7 DEF TestPasses, Active
  <2>2. ~Regression(func, DirsToCheck[dir], test)
    BY <1>7 DEF TestPasses, Passes, Regression, Holds, WorkDir
  <2> QED
    BY <1>0, <2>1, <2>2, ContinueReports
<1>8. CASE Plain \/ EnterWrapper \/ LeaveWrapper \/ EnterTemp
  BY <1>1, <1>8 DEF Plain, EnterWrapper, LeaveWrapper, EnterTemp,
                    SomethingToRun, Passed, Active
<1>9. CASE \/ FindFails \/ SetupFails \/ WrapperFails \/ TempFails
           \/ TestFails \/ GoFails
  BY <1>2, <1>9 DEF FindFails, SetupFails, WrapperFails, TempFails, TestFails,
                    GoFails, FilesError, Exit
<1>10. CASE Done
  <2>1. pc = "dirs" /\ func > NumFuncs /\ pc' = "exited"
    BY <1>10 DEF Done, Exit
  <2>2. status # "Success" => status' # "Success"
    BY <1>10 DEF Done, Exit
  <2>3. ASSUME Regressions PROVE status # "Success"
    <3>1. PICK f \in Funcs, w \in Places, t \in Tests : Regression(f, w, t)
      BY <2>3 DEF Regressions
    <3>2. PICK d \in 1 .. Len(DirsToCheck) : w = DirsToCheck[d]
      BY DEF Places
    <3>3. Passed(f, d, t)
      BY <1>b, <2>1, NatFuncs DEF Passed, Funcs
    <3> QED
      BY <2>1, <3>1, <3>2, <3>3 DEF ReportInv
  <2> QED
    BY <1>a, <2>1, <2>2, <2>3 DEF ReportInv
<1>11. CASE UNCHANGED vars
  <2>1. /\ \A f, d, t : Passed(f, d, t)' = Passed(f, d, t)
        /\ pc' = pc /\ status' = status
    BY <1>11 DEF vars, Passed, Active
  <2> QED
    BY <1>a, <2>1 DEF ReportInv
<1> QED
  BY <1>3, <1>4, <1>5, <1>6, <1>7, <1>8, <1>9, <1>10, <1>11 DEF Next

LEMMA AlarmStep ==
    ASSUME "relative" \notin Fuzzdirs, NumFuncs > 0
    PROVE  TypeOK /\ WorkInv /\ AlarmInv /\ [Next]_vars => AlarmInv'
<1> SUFFICES ASSUME TypeOK, WorkInv, AlarmInv, [Next]_vars PROVE AlarmInv'
  OBVIOUS
<1>0. /\ UNCHANGED options
      /\ Regressions' = Regressions
      /\ fuzzdir' \in Fuzzdirs
  BY OptionsFixed, DirsFixed DEF AlarmInv, options
<1>1. CASE /\ status' # "Success" => status # "Success"
           /\ trouble' = trouble
  BY <1>0, <1>1 DEF AlarmInv
<1>2. CASE trouble'
  BY <1>0, <1>2 DEF AlarmInv
<1>3. CASE TestFails
  <2>1. pc = "test" /\ ~Passes
    BY <1>3 DEF TestFails
  <2>2. Readable
    BY DEF Readable, AlarmInv
  <2>3. Holds(test) = "bad"
    BY <2>1, <2>2 DEF Passes, WorkInv
  <2>4. Regression(func, DirsToCheck[dir], test) /\ WorkDir \in Places
        /\ func \in Funcs /\ test \in Tests
    BY <2>1, <2>3, AtWork DEF Active, TypeOK
  <2> QED
    BY <1>0, <2>4 DEF AlarmInv, Regressions, WorkDir
<1>4. CASE \/ Find \/ SkipDir \/ VerifyDir \/ NextFunc \/ NothingToRun \/ Plain
           \/ EnterWrapper \/ LeaveWrapper \/ EnterTemp \/ TestPasses
  BY <1>1, <1>4 DEF Find, SkipDir, VerifyDir, NextFunc, NothingToRun, Plain,
                    EnterWrapper, LeaveWrapper, EnterTemp, TestPasses
<1>5. CASE \/ FindFails \/ SetupFails \/ WrapperFails \/ TempFails \/ GoFails
  BY <1>2, <1>5 DEF FindFails, SetupFails, WrapperFails, TempFails, GoFails,
                    FilesError
<1>6. CASE Done
  BY <1>1, <1>2, <1>6 DEF Done, Exit
<1>7. CASE UNCHANGED vars
  BY <1>1, <1>7 DEF vars
<1> QED
  BY <1>3, <1>4, <1>5, <1>6, <1>7 DEF Next

-----------------------------------------------------------------------------

\* Type correctness; in particular the location at work is one of the list.
THEOREM TypeCorrect == Spec => []TypeOK
BY InitType, TypeStep, PTL DEF Spec

LEMMA PlaceInvariant == Spec => []PlaceInv
<1>1. Init => PlaceInv
  BY DEF Init, PlaceInv
<1> QED
  BY <1>1, PlaceStep, TypeCorrect, PTL DEF Spec

\* go test always runs in verifyFiles' temporary directory, with the wrapper it
\* imports in place (the order of the deferred calls).
THEOREM TestsRunInPlace == Spec => []TestInPlace
<1>1. PlaceInv => TestInPlace
  BY DEF PlaceInv, TestInPlace
<1> QED
  BY <1>1, PlaceInvariant, PTL

\* On every path, error returns included, the user's working directory is
\* restored between two locations (verifyFiles, CreateRichSigWrapper).
THEOREM ReturnsClean == Spec => []CleanBetween
<1>1. PlaceInv => CleanBetween
  BY DEF PlaceInv, CleanBetween
<1> QED
  BY <1>1, PlaceInvariant, PTL

LEMMA WorkInvariant == Spec => []WorkInv
<1>1. Init => WorkInv
  BY DEF Init, WorkInv, Active
<1> QED
  BY <1>1, WorkStep, TypeCorrect, PTL DEF Spec

\* A failing input that fzgo was asked to verify decides the exit status,
\* however many functions and locations there are and whatever fails later.
THEOREM NoRegressionMissed == Spec => []RegressionsReported
<1>1. Init => ReportInv
  <2> SUFFICES ASSUME Init PROVE ReportInv
    OBVIOUS
  <2>1. pc = "find" /\ func = 1 /\ dir = 1
    BY DEF Init
  <2>2. \A f \in Funcs, d \in 1 .. Len(DirsToCheck), t \in Tests :
            ~Passed(f, d, t)
    BY <2>1, NatFuncs, NumDirs DEF Passed, Active, Funcs
  <2> QED
    BY <2>1, <2>2 DEF ReportInv
<1>2. ReportInv => RegressionsReported
  BY DEF ReportInv, RegressionsReported
<1> QED
  BY <1>1, <1>2, ReportStep, TypeCorrect, WorkInvariant, PTL DEF Spec

\* With an absolute -fuzzdir, or none, an error status means a failing input or
\* a tool that failed (verifyCorpus, verifyFiles).
THEOREM AlarmsAreReal ==
    ASSUME "relative" \notin Fuzzdirs, NumFuncs > 0
    PROVE  Spec => []NoFalseAlarm
<1>1. Init => AlarmInv
  BY DEF Init, AlarmInv
<1>2. AlarmInv => NoFalseAlarm
  BY DEF AlarmInv, NoFalseAlarm
<1> QED
  BY <1>1, <1>2, AlarmStep, TypeCorrect, WorkInvariant, PTL DEF Spec

-----------------------------------------------------------------------------
(* The refinement of Regression.tla. *)

\* There is a function to verify once one has been found, and only the end, or
\* an argument refused at the start, makes the status an ArgErr.
FoundInv ==
    /\ pc = "find" => func = 1 /\ status = "Success"
    /\ pc \notin {"find", "exited"} => NumFuncs > 0
    /\ pc # "exited" => status \in {"Success", "OtherErr"}

LEMMA FoundStep == FoundInv /\ [Next]_vars => FoundInv'
<1> SUFFICES ASSUME FoundInv, [Next]_vars PROVE FoundInv'
  OBVIOUS
<1> USE DEF FoundInv
<1>1. CASE Find \/ FindFails \/ SkipDir \/ VerifyDir \/ NextFunc
  BY <1>1 DEF Find, FindFails, SkipDir, VerifyDir, NextFunc, Exit
<1>2. CASE NothingToRun \/ SetupFails \/ Plain \/ EnterWrapper
  BY <1>2 DEF NothingToRun, SetupFails, Plain, EnterWrapper, SomethingToRun, Continue,
              FilesError, Exit
<1>3. CASE LeaveWrapper \/ WrapperFails \/ EnterTemp \/ TempFails
  BY <1>3 DEF LeaveWrapper, WrapperFails, EnterTemp, TempFails, FilesError, Exit
<1>4. CASE TestPasses \/ TestFails \/ GoFails
  BY <1>4 DEF TestPasses, TestFails, GoFails, Continue
<1>5. CASE Done
  BY <1>5 DEF Done, Exit
<1>6. CASE UNCHANGED vars
  BY <1>6 DEF vars
<1> QED
  BY <1>1, <1>2, <1>3, <1>4, <1>5, <1>6 DEF Next

LEMMA RegressionStep ==
    ASSUME TypeOK, FoundInv, [Next]_vars
    PROVE  [Test!Next]_(Test!vars)
<1> USE DEF Test!vars
<1>0. withFuzz' = withFuzz
  BY OptionsFixed DEF options
<1>1. /\ NumFuncs \in Nat /\ func \in Nat /\ 1 <= func /\ func <= NumFuncs + 1
      /\ \A f \in Nat : f - 1 + 1 = f
  BY NatFuncs DEF TypeOK
<1>2. CASE \/ Find \/ SkipDir \/ VerifyDir \/ NothingToRun \/ Plain
           \/ EnterWrapper \/ LeaveWrapper \/ EnterTemp \/ TestPasses
  BY <1>0, <1>2 DEF Find, SkipDir, VerifyDir, NothingToRun, Plain, EnterWrapper,
     LeaveWrapper, EnterTemp, TestPasses, SomethingToRun, Continue
<1>3. ASSUME pc \notin {"find", "dirs", "exited"}
      PROVE  NumFuncs # 0 /\ func - 1 < NumFuncs
  BY <1>1, <1>3 DEF TypeOK, MoreDirs, FoundInv
<1>4. CASE TestFails \/ GoFails
  <2>1. /\ pc = "test" /\ pc' # "exited" /\ func' = func /\ status' = "OtherErr"
    BY <1>4 DEF TestFails, GoFails, Continue
  <2>2. Test!InputFails
    BY <1>0, <1>3, <2>1 DEF Test!InputFails, Test!Running
  <2> QED
    BY <2>2 DEF Test!Next
<1>5. CASE SetupFails \/ WrapperFails \/ TempFails
  <2>1. /\ pc \in {"files", "wrapper", "temp", "test"}
        /\ pc' = "exited" /\ func' = func /\ status' = "OtherErr"
    BY <1>5 DEF SetupFails, WrapperFails, TempFails, SomethingToRun, FilesError, Exit
  <2>2. Test!Trouble
    BY <1>0, <1>3, <2>1 DEF Test!Trouble
  <2> QED
    BY <2>2 DEF Test!Next
<1>6. CASE FindFails
  <2>1. pc = "find" /\ pc' = "exited" /\ func' = func /\ status' \in {"ArgErr", "OtherErr"}
    BY <1>6 DEF FindFails, Exit
  <2>2. func - 1 = 0 /\ (NumFuncs = 0 \/ func - 1 < NumFuncs)
    BY <1>1, <2>1 DEF FoundInv
  <2>3. Test!Trouble
    BY <1>0, <2>1, <2>2 DEF Test!Trouble
  <2> QED
    BY <2>3 DEF Test!Next
<1>7. CASE NextFunc
  <2>1. /\ pc = "dirs" /\ pc' = "dirs" /\ func <= NumFuncs /\ func' = func + 1
        /\ status' = status
    BY <1>7 DEF NextFunc
  <2>2. NumFuncs # 0 /\ func - 1 < NumFuncs /\ func' - 1 = (func - 1) + 1
    BY <1>1, <2>1
  <2>3. Test!Verified
    BY <1>0, <2>1, <2>2 DEF Test!Verified, Test!Running
  <2> QED
    BY <2>3 DEF Test!Next
<1>8. CASE Done
  <2>1. pc = "dirs" /\ pc' = "exited" /\ func > NumFuncs /\ func' = func
    BY <1>8 DEF Done, Exit
  <2>2. status' = status \/ (~withFuzz /\ status' = "OtherErr")
    BY <1>8 DEF Done, Exit
  <2>3. NumFuncs # 0 /\ func - 1 = NumFuncs
    BY <1>1, <2>1 DEF FoundInv
  <2>4. Test!End
    BY <1>0, <2>1, <2>2, <2>3 DEF Test!End, Test!Running
  <2> QED
    BY <2>4 DEF Test!Next
<1>9. CASE UNCHANGED vars
  BY <1>0, <1>9 DEF vars
<1> QED
  BY <1>2, <1>4, <1>5, <1>6, <1>7, <1>8, <1>9 DEF Next

\* However many functions and locations there are and whatever they hold:
\* functions are verified in turn, a failing input sticks to the status, and
\* success is left to a run that came to the end (main.go:272-336).
THEOREM ImplementsRegression == Spec => KeepsRegression
<1>1. Init => FoundInv /\ Test!Init
  <2> SUFFICES ASSUME Init PROVE FoundInv /\ Test!Init
    OBVIOUS
  <2>1. /\ pc = "find" /\ func = 1 /\ status = "Success" /\ withFuzz \in BOOLEAN
        /\ NumFuncs \in 0 .. NumFuncs /\ func - 1 = 0
    BY NatFuncs DEF Init
  <2> QED
    BY <2>1 DEF FoundInv, Test!Init
<1>2. TypeOK /\ FoundInv /\ [Next]_vars => FoundInv' /\ [Test!Next]_(Test!vars)
  BY FoundStep, RegressionStep
<1> QED
  BY <1>1, <1>2, TypeCorrect, PTL DEF Spec, KeepsRegression, Test!Spec

-----------------------------------------------------------------------------
(* Verifying comes to an end. *)

\* Where a location stands: before it, four stages for each of its two tests,
\* and the end of everything.
Stage ==
    LET Of(t, s) == s + IF t = "TestCorpus" THEN 0 ELSE 4
    IN  CASE pc = "find" -> 0
          [] pc = "dirs" -> 1
          [] pc = "files" -> Of(test, 2)
          [] pc = "wrapper" -> Of(test, 3)
          [] pc = "temp" -> Of(test, 4)
          [] pc = "test" -> Of(test, 5)
          [] OTHER -> 10

\* More than the stages of a location, and than all those of a function.
PerDir == 11
PerFunc == 55

Progress == PerFunc * func + PerDir * dir + Stage

\* Where the steps of a test come from and lead to.
LEMMA WithinDir ==
    ASSUME TypeOK,
           \/ Find \/ FindFails \/ VerifyDir \/ SetupFails \/ Plain \/ EnterWrapper
           \/ LeaveWrapper \/ WrapperFails \/ EnterTemp \/ TempFails \/ Done
    PROVE  func' = func /\ dir' = dir /\ Stage' > Stage
<1> USE DEF TypeOK, Tests, Stage, SomethingToRun, FilesError, Exit
<1>1. CASE Find \/ FindFails \/ VerifyDir \/ Done
  BY <1>1 DEF Find, FindFails, VerifyDir, Done
<1>2. CASE SetupFails \/ WrapperFails \/ TempFails
  BY <1>2 DEF SetupFails, WrapperFails, TempFails
<1>3. CASE Plain \/ EnterWrapper \/ LeaveWrapper \/ EnterTemp
  BY <1>3 DEF Plain, EnterWrapper, LeaveWrapper, EnterTemp
<1> QED
  BY <1>1, <1>2, <1>3

LEMMA Counters ==
    ASSUME TypeOK
    PROVE  /\ func \in Nat /\ func <= NumFuncs + 1
           /\ dir \in Nat /\ dir <= 4
           /\ Stage \in Nat /\ Stage <= 10
<1>1. func \in 1 .. NumFuncs + 1 /\ dir \in 1 .. Len(DirsToCheck) + 1
  BY DEF TypeOK
<1>2. func \in Nat /\ func <= NumFuncs + 1
  BY <1>1, NatFuncs
<1>3. dir \in Nat /\ dir <= 4
  <2>1. PICK n \in {2, 3} : dir \in 1 .. n + 1
    BY <1>1, NumDirs
  <2> QED
    BY <2>1
<1>4. Stage \in Nat /\ Stage <= 10
  BY DEF Stage
<1> QED
  BY <1>2, <1>3, <1>4

LEMMA ProgressStep ==
    ASSUME TypeOK, Next PROVE Progress' > Progress
<1>0. /\ func \in Nat /\ dir \in Nat /\ dir <= 4
      /\ Stage \in Nat /\ Stage <= 10
      /\ Stage' \in Nat /\ Stage' <= 10
  BY Counters DEF Stage
<1>1. CASE \/ Find \/ FindFails \/ VerifyDir \/ SetupFails \/ Plain \/ EnterWrapper
           \/ LeaveWrapper \/ WrapperFails \/ EnterTemp \/ TempFails \/ Done
  <2>1. func' = func /\ dir' = dir /\ Stage' > Stage
    BY <1>1, WithinDir
  <2>2. Progress = PerFunc * func + PerDir * dir + Stage
        /\ Progress' = PerFunc * func + PerDir * dir + Stage'
    BY <2>1 DEF Progress
  <2>3. \A a, b, s, t \in Nat : t > s => 55 * a + 11 * b + t > 55 * a + 11 * b + s
    OBVIOUS
  <2> QED
    BY <1>0, <2>1, <2>2, <2>3 DEF PerDir, PerFunc
<1>2. CASE SkipDir
  <2>1. func' = func /\ dir' = dir + 1 /\ Stage' = 1 /\ Stage = 1
    BY <1>2 DEF SkipDir, Stage
  <2> QED
    BY <1>0, <2>1 DEF Progress, PerDir, PerFunc
<1>3. CASE NextFunc
  <2>1. func' = func + 1 /\ dir' = 1 /\ Stage' = 1 /\ Stage = 1
    BY <1>3 DEF NextFunc, Stage
  <2> QED
    BY <1>0, <2>1 DEF Progress, PerDir, PerFunc
<1>4. CASE NothingToRun \/ TestPasses \/ TestFails \/ GoFails
  <2>1. func' = func /\ pc \in {"files", "test"} /\ Continue
    BY <1>4 DEF NothingToRun, TestPasses, TestFails, GoFails
  <2>2. CASE test = "TestCorpus" /\ test' = "TestCrashers" /\ pc' = "files" /\ dir' = dir
    <3>1. Stage <= 5 /\ Stage' = 6
      BY <2>1, <2>2 DEF Stage
    <3> QED
      BY <1>0, <2>1, <2>2, <3>1 DEF Progress, PerDir, PerFunc
  <2>3. CASE dir' = dir + 1 /\ pc' = "dirs"
    <3>1. Stage <= 9 /\ Stage' = 1
      BY <2>1, <2>3 DEF Stage
    <3> QED
      BY <1>0, <2>1, <2>3, <3>1 DEF Progress, PerDir, PerFunc
  <2> QED
    BY <2>1, <2>2, <2>3 DEF Continue
<1> QED
  BY <1>1, <1>2, <1>3, <1>4 DEF Next

\* Verifying a corpus, unlike fuzzing, ends: whatever the locations hold and
\* whatever fails, no location and no test is ever begun a second time, and the
\* number of steps is at most linear in the number of functions (the loops of
\* verifyCorpus, main.go:272-330).
THEOREM VerifyingIsFinite ==
    Spec => /\ [](Progress \in Nat /\ Progress <= PerFunc * (NumFuncs + 2))
            /\ [][Progress' > Progress]_vars
<1>1. TypeOK => Progress \in Nat /\ Progress <= PerFunc * (NumFuncs + 2)
  <2> SUFFICES ASSUME TypeOK
               PROVE  Progress \in Nat /\ Progress <= PerFunc * (NumFuncs + 2)
    OBVIOUS
  <2> QED
    BY Counters, NatFuncs DEF Progress, PerDir, PerFunc
<1>2. TypeOK /\ [Next]_vars => [Progress' > Progress]_vars
  BY ProgressStep
<1> QED
  BY <1>1, <1>2, TypeCorrect, PTL DEF Spec

=============================================================================
