---------------------------- MODULE VerifyCorpus ----------------------------
(***************************************************************************)
(* The corpus as a regression test: fzgo test without -fuzz, or with both  *)
(* -fuzz and -run.  verifyCorpus (main.go) calls verifyFiles               *)
(* (fuzz/runcorpus.go) on the corpus, and with -fuzz on the crashers, of   *)
(* every fuzz function in every known location; verifyFiles runs a         *)
(* generated test in a temporary directory, with a wrapper that            *)
(* CreateRichSigWrapper (fuzz/richsig.go) makes in another one if the      *)
(* signature is rich.  Working directory, temporary directories and exit   *)
(* status are carried from one location to the next.                       *)
(***************************************************************************)
EXTENDS Naturals, Sequences

CONSTANTS
    NumFuncs,       \* the package's fuzz functions are 1 .. NumFuncs
    RichFuncs,      \* those that need a wrapper
    Fuzzdirs,       \* values of -fuzzdir: "", "testdata", "absolute", "relative"
    CorpusKinds,    \* what a corpus directory may hold, see Kinds
    CrashersKinds   \* what a crashers directory may hold

Funcs == 1 .. NumFuncs
Tests == {"TestCorpus", "TestCrashers"}

\* A directory that does not exist, one without a file that -run selects, and
\* ones whose selected inputs all pass, or some of whose do not.
Kinds == {"none", "nomatch", "good", "bad"}

ASSUME ConstantsAssumption ==
    /\ NumFuncs \in Nat
    /\ RichFuncs \subseteq Funcs
    /\ Fuzzdirs \subseteq {"", "testdata", "absolute", "relative"}
    /\ CorpusKinds \subseteq Kinds /\ CrashersKinds \subseteq Kinds

VARIABLES
    fuzzdir,    \* -fuzzdir, fixed
    selected,   \* the tests whose name -run matches, fixed; {} if invalid
    withFuzz,   \* is -fuzz set as well?  Then crashers are tried; fixed
    content,    \* content[f][w][t]: what w holds for t of f, fixed
    pc,         \* where verifyCorpus or verifyFiles is
    func,       \* the function being verified
    dir,        \* the index of the location being verified
    test,       \* the test verifyFiles has been called for
    cwd,        \* the working directory of fzgo
    oldWd,      \* the one os.Getwd saved last
    temp,       \* does verifyFiles' temporary directory exist?
    wrapper,    \* does the wrapper package exist?
    status,     \* verifyCorpus' status, or what fzgoMain returned
    trouble     \* did a tool or the file system fail? (history)

options == <<fuzzdir, selected, withFuzz, content>>
place == <<cwd, oldWd, temp, wrapper>>
vars == <<options, pc, func, dir, test, place, status, trouble>>

\* The two or three places to check.  -fuzzdir is parsed only along with -fuzz
\* or -run; without them it is "", and the empty -run selects both tests.
DirsToCheck ==
    IF fuzzdir \in {"", "testdata"}
    THEN << "testdata", "gopath" >>
    ELSE << "testdata", "gopath", "user" >>

Places == {DirsToCheck[d] : d \in 1 .. Len(DirsToCheck)}

WorkDir == DirsToCheck[dir]
Holds(t) == content[func][WorkDir][t]

\* The working directory is a temporary one while go test runs, so a relative
\* -fuzzdir names nothing there and the generated test cannot read it.
Readable == WorkDir = "user" => fuzzdir # "relative"

\* Does the generated test pass?
Passes == Holds(test) = "good" /\ Readable

-----------------------------------------------------------------------------

Init ==
    /\ fuzzdir \in Fuzzdirs
    /\ selected \in SUBSET Tests
    /\ withFuzz \in BOOLEAN
    /\ content \in [Funcs -> [Places ->
           [TestCorpus : CorpusKinds, TestCrashers : CrashersKinds]]]
    /\ pc = "find"
    /\ func = 1 /\ dir = 1 /\ test = "TestCorpus"
    /\ cwd = "user's" /\ oldWd = "user's"
    /\ temp = FALSE /\ wrapper = FALSE
    /\ status = "Success"
    /\ trouble = FALSE

Exit(s) ==
    /\ pc' = "exited"
    /\ status' = s

\* fuzz.FindFunc finds the functions of the package.
Find ==
    /\ pc = "find"
    /\ NumFuncs > 0
    /\ pc' = "dirs"
    /\ UNCHANGED <<options, func, dir, test, place, status, trouble>>

\* The arguments do not make sense or name two packages; the package does not
\* load; or it has no fuzz function, which FindFunc reports as an error though
\* nothing has failed.
FindFails ==
    /\ pc = "find"
    /\ \/ Exit("ArgErr") /\ trouble' = TRUE
       \/ /\ Exit("OtherErr")
          /\ trouble' \in BOOLEAN
          /\ NumFuncs > 0 => trouble'
    /\ UNCHANGED <<options, func, dir, test, place>>

MoreDirs == func <= NumFuncs /\ dir <= Len(DirsToCheck)

\* A location without a corpus is skipped, its crashers too.
SkipDir ==
    /\ pc = "dirs"
    /\ MoreDirs
    /\ Holds("TestCorpus") = "none"
    /\ dir' = dir + 1
    /\ UNCHANGED <<options, pc, func, test, place, status, trouble>>

VerifyDir ==
    /\ pc = "dirs"
    /\ MoreDirs
    /\ Holds("TestCorpus") # "none"
    /\ test' = "TestCorpus"
    /\ pc' = "files"
    /\ UNCHANGED <<options, func, dir, place, status, trouble>>

\* Fault: the list of locations is not rewound.
NextFuncNotRewound ==
    /\ pc = "dirs"
    /\ func <= NumFuncs
    /\ dir > Len(DirsToCheck)
    /\ func' = func + 1
    /\ dir' = dir + 1
    /\ UNCHANGED <<options, pc, test, place, status, trouble>>

NextFunc ==
    /\ pc = "dirs"
    /\ func <= NumFuncs
    /\ dir > Len(DirsToCheck)
    /\ func' = func + 1
    /\ dir' = 1
    /\ UNCHANGED <<options, pc, test, place, status, trouble>>

\* Fault: the crashers are tried whether or not -fuzz is given.
ContinueWithCrashers ==
    IF test = "TestCorpus"
    THEN test' = "TestCrashers" /\ pc' = "files" /\ UNCHANGED dir
    ELSE dir' = dir + 1 /\ pc' = "dirs" /\ UNCHANGED test

\* verifyCorpus goes on after verifyFiles has returned nil or
\* ErrGoTestFailed: with the crashers, or with the next location.
Continue ==
    IF withFuzz /\ test = "TestCorpus"
    THEN test' = "TestCrashers" /\ pc' = "files" /\ UNCHANGED dir
    ELSE dir' = dir + 1 /\ pc' = "dirs" /\ UNCHANGED test

\* Fault: no deferred call restores the working directory.
CleanUpInPlace ==
    /\ temp' = FALSE
    /\ wrapper' = FALSE
    /\ UNCHANGED <<cwd, oldWd>>

\* The deferred calls of verifyFiles, in their order: back to the old working
\* directory, its own temporary directory goes, then the wrapper package, of
\* whose temporary directory the upper part stays.
CleanUp ==
    /\ cwd' = IF temp THEN oldWd ELSE cwd
    /\ temp' = FALSE
    /\ wrapper' = FALSE
    /\ UNCHANGED oldWd

\* Any other error of verifyFiles ends it all.
FilesError ==
    /\ Exit("OtherErr")
    /\ trouble' = TRUE
    /\ UNCHANGED <<options, func, dir, test>>

\* The directory does not exist, -run does not match the test or is invalid
\* (the error is built and dropped), or it matches no file.
NothingToRun ==
    /\ pc = "files"
    /\ test \notin selected \/ Holds(test) \in {"none", "nomatch"}
    /\ Continue
    /\ UNCHANGED <<options, func, place, status, trouble>>

SomethingToRun ==
    /\ pc = "files"
    /\ test \in selected
    /\ Holds(test) \in {"good", "bad"}

\* IsPlainSig rejects the function, or the directories for its wrapper cannot
\* be made.
SetupFails ==
    /\ SomethingToRun
    /\ FilesError
    /\ UNCHANGED place

Plain ==
    /\ SomethingToRun
    /\ func \notin RichFuncs
    /\ pc' = "temp"
    /\ UNCHANGED <<options, func, dir, test, place, status, trouble>>

\* CreateRichSigWrapper makes a directory tree and works in it.
EnterWrapper ==
    /\ SomethingToRun
    /\ func \in RichFuncs
    /\ wrapper' = TRUE
    /\ oldWd' = cwd
    /\ cwd' = "wrapper's"
    /\ pc' = "wrapper"
    /\ UNCHANGED <<options, func, dir, test, temp, status, trouble>>

\* Fault: the wrapper goes when CreateRichSigWrapper returns.
LeaveWrapperRemoved ==
    /\ pc = "wrapper"
    /\ cwd' = oldWd
    /\ wrapper' = FALSE
    /\ pc' = "temp"
    /\ UNCHANGED <<options, func, dir, test, oldWd, temp, status,
                   trouble>>

\* The wrapper has been written and found: back to where fzgo was.
LeaveWrapper ==
    /\ pc = "wrapper"
    /\ cwd' = oldWd
    /\ pc' = "temp"
    /\ UNCHANGED <<options, func, dir, test, oldWd, temp, wrapper,
                   status, trouble>>

\* The signature is not supported, or the wrapper does not load: the whole
\* tree is removed.
WrapperFails ==
    /\ pc = "wrapper"
    /\ cwd' = oldWd
    /\ wrapper' = FALSE
    /\ FilesError
    /\ UNCHANGED <<oldWd, temp>>

EnterTemp ==
    /\ pc = "temp"
    /\ temp' = TRUE
    /\ oldWd' = cwd
    /\ cwd' = "temp"
    /\ pc' = "test"
    /\ UNCHANGED <<options, func, dir, test, wrapper, status, trouble>>

\* The temporary directory or corpus_test.go cannot be made.
TempFails ==
    /\ pc \in {"temp", "test"}
    /\ CleanUp
    /\ FilesError

\* Fault: the status is that of the last location.
TestPassesForgets ==
    /\ pc = "test"
    /\ Passes
    /\ CleanUp
    /\ Continue
    /\ status' = "Success"
    /\ UNCHANGED <<options, func, trouble>>

\* corpus_test.go is written and go test run on it.
TestPasses ==
    /\ pc = "test"
    /\ Passes
    /\ CleanUp
    /\ Continue
    /\ UNCHANGED <<options, func, status, trouble>>

\* ErrGoTestFailed: the status is set, and the other locations still verified.
TestFails ==
    /\ pc = "test"
    /\ ~Passes
    /\ CleanUp
    /\ Continue
    /\ status' = "OtherErr"
    /\ UNCHANGED <<options, func, trouble>>

\* The go command cannot be run or cannot build the test, which is taken for
\* a failure of the test.
GoFails ==
    /\ pc = "test"
    /\ CleanUp
    /\ Continue
    /\ status' = "OtherErr"
    /\ trouble' = TRUE
    /\ UNCHANGED <<options, func>>

\* verifyCorpus returns.  Without -fuzz a Success is followed by the normal
\* go test, whose failure becomes fzgo's.
Done ==
    /\ pc = "dirs"
    /\ func > NumFuncs
    /\ IF withFuzz \/ status # "Success"
       THEN Exit(status) /\ UNCHANGED trouble
       ELSE \/ Exit("Success") /\ UNCHANGED trouble
            \/ Exit("OtherErr") /\ trouble' = TRUE
    /\ UNCHANGED <<options, func, dir, test, place>>

Next ==
    \/ Find \/ FindFails \/ SkipDir \/ VerifyDir \/ NextFunc
    \/ NothingToRun \/ SetupFails \/ Plain \/ EnterWrapper \/ LeaveWrapper \/ WrapperFails
    \/ EnterTemp \/ TempFails \/ TestPasses \/ TestFails \/ GoFails
    \/ Done

Spec == Init /\ [][Next]_vars

-----------------------------------------------------------------------------
(* Properties.                                                             *)

TypeOK ==
    /\ pc \in {"find", "dirs", "files", "wrapper", "temp", "test", "exited"}
    /\ func \in 1 .. NumFuncs + 1
    /\ dir \in 1 .. Len(DirsToCheck) + 1
    /\ test \in Tests
    /\ cwd \in {"user's", "wrapper's", "temp"}
    /\ oldWd \in {"user's", "wrapper's", "temp"}
    /\ temp \in BOOLEAN /\ wrapper \in BOOLEAN
    /\ trouble \in BOOLEAN
    /\ status \in {"Success", "OtherErr", "ArgErr"}
    /\ pc \notin {"find", "dirs", "exited"} => MoreDirs

\* A location that has an input which no longer passes, and is to be verified.
Regression(f, w, t) ==
    /\ content[f][w]["TestCorpus"] # "none"
    /\ t \in selected
    /\ t = "TestCrashers" => withFuzz
    /\ content[f][w][t] = "bad"

Regressions ==
    \E f \in Funcs, w \in Places, t \in Tests : Regression(f, w, t)

\* fzgo never exits with Success when an input it was asked to verify fails,
\* whatever locations and functions with a good or no corpus come before and
\* after it, and whatever the go test that follows says.
RegressionsReported == pc = "exited" /\ Regressions => status # "Success"

\* "We don't try any crashers given those are expected to fail" without -run
\* and -fuzz (main.go:115): fzgo does not exit with an error unless an input
\* that it was asked to verify fails, or a tool.  With a relative -fuzzdir it
\* does: run verify_relative.
NoFalseAlarm ==
    pc = "exited" /\ status # "Success" => Regressions \/ trouble

\* go test runs in verifyFiles' temporary directory, and the wrapper package
\* that corpus_test.go imports is still there (the deferred RemoveAlls).
TestInPlace ==
    pc = "test" => cwd = "temp" /\ temp /\ (func \in RichFuncs => wrapper)

\* Between two locations, and at the end on every path, fzgo is back where it
\* was started, where relative package patterns mean what the user meant, and
\* neither the temporary directory nor the wrapper package exists.
CleanBetween ==
    pc \in {"dirs", "exited"} => cwd = "user's" /\ ~temp /\ ~wrapper

Test == INSTANCE Regression WITH
    MaxFunctions <- NumFuncs,
    n <- NumFuncs,
    alsoGo <- ~withFuzz,
    done <- func - 1,
    over <- pc = "exited"

\* Locations, tests, wrappers and directories add up to the regression test of
\* Regression.tla: all functions are verified in turn, and a failing input in
\* whatever location sticks to the status without ending the loop
\* (main.go:272-336).
KeepsRegression == Test!Spec

=============================================================================
