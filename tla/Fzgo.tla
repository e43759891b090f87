-------------------------------- MODULE Fzgo --------------------------------
(***************************************************************************)
(* One run of the fzgo command: what fzgoMain makes of the arguments, and  *)
(* which of help, go, corpus verification, instrumenting and fuzzing it    *)
(* goes through.  Arguments are read by two scans that know different      *)
(* things: FindPkgs finds the packages with a list of bool flags, and the  *)
(* flag package parses what is left with the definitions of all flags.     *)
(* Instrumenting, fuzzing and verifying are modules of their own; here     *)
(* each is a step that succeeds or fails.                                  *)
(***************************************************************************)
EXTENDS Integers, Sequences

CONSTANTS
    Texts,          \* what can stand in an argument
    Commands,       \* os.Args[1], or "none"
    ArgLists,       \* os.Args[2:]
    MaxFunctions    \* bounds the functions FindFunc can find

\* An argument.  One that candidateFlag takes for a flag is -name, -test.name,
\* -name=val or -test.name=val; any other has no name.
Args == [text : Texts, name : Texts, test : BOOLEAN, eq : BOOLEAN, val : Texts]

IsFlag(a) == a.name # ""

ASSUME ConstantsAssumption ==
    /\ {"", ".", "0s", "true", "false"} \subseteq Texts
    /\ ArgLists \subseteq Seq(Args)
    /\ MaxFunctions \in Nat \ {0}

\* flagDefs
BoolFlags == {"c", "v"}
DurationFlags == {"fuzztime", "timeout"}
Flags == BoolFlags \cup DurationFlags \cup {"fuzz", "fuzzdir", "parallel", "run", "debug"}

\* The lists of flag.go, one or two flags for each.
UnimplementedBuildFlags == {"race"}
IncompatibleTestFlags == {"args", "bench"}
UnimplementedTestFlags == {"i"}
SupportedBools == {"c", "i", "v"}

\* Durations: none, one under a second, one of a second or more.
Durations == {"0s", "0.5s", "9s"}

DefaultOf(f) ==
    IF f \in BoolFlags THEN "false" ELSE IF f \in DurationFlags THEN "0s" ELSE ""

\* What the flag package converts to the type of a flag; the number of
\* -parallel is not told apart from other texts.
Accepts(f, value) ==
    /\ f \in BoolFlags => value \in {"true", "false"}
    /\ f \in DurationFlags => value \in Durations

VARIABLES
    cmd,        \* os.Args[1], fixed
    args,       \* os.Args[2:], fixed
    pc,
    i,          \* the argument that is being looked at
    first,      \* the first package argument, and the one behind the last;
    next,       \* both 1 if there is none
    set,        \* the values of the flags
    err,        \* what ParseArgs returns, "" for none
    found,      \* the functions that FindFunc found
    searched,   \* the packages it was asked to look in
    built,      \* how many have been instrumented
    turn,       \* the target whose turn it is
    fuzzed,     \* the targets that have been fuzzed
    verified,   \* how many have had their corpus verified
    failed,     \* those of them that failed
    went,       \* what became of the go command
    status      \* of fzgoMain, "none" until it returns

input == <<cmd, args>>
reading == <<i, first, next, set, err>>
work == <<found, searched, built, turn, fuzzed, verified, failed, went>>
vars == <<input, pc, reading, work, status>>

Success == "Success"
OtherErr == "OtherErr"
ArgErr == "ArgErr"

-----------------------------------------------------------------------------

IsArgs(a) == a.name = "args" /\ ~a.test /\ ~a.eq

\* FindFlag: one of the names, -test. form or not, before any -args.
Sees(names, testToo) ==
    \E k \in 1 .. Len(args) :
        /\ args[k].name \in names
        /\ args[k].test => testToo
        /\ \A j \in 1 .. k : ~IsArgs(args[j])

FindFlag(names) == Sees(names, FALSE)

\* Fault: the -test. form is not looked for.
FindTestFlagPlain(names) == Sees(names, FALSE)

FindTestFlag(names) == Sees(names, TRUE)

\* The arguments without the packages.
Rest ==
    [k \in 1 .. Len(args) - (next - first) |->
        IF k < first THEN args[k] ELSE args[k + (next - first)]]

Packages ==
    IF first = next THEN <<".">>
    ELSE [k \in 1 .. next - first |-> args[first + k - 1].text]

Init ==
    /\ cmd \in Commands
    /\ args \in ArgLists
    /\ cmd = "none" => args = <<>>
    /\ pc = "main"
    /\ i = 1 /\ first = 1 /\ next = 1
    /\ set = [f \in Flags |-> DefaultOf(f)]
    /\ err = ""
    /\ found = 0 /\ searched = <<>>
    /\ built = 0 /\ turn = 1 /\ fuzzed = {}
    /\ verified = 0 /\ failed = {}
    /\ went = "no"
    /\ status = "none"

\* fzgoMain returns.
Exit(s) == pc' = "exited" /\ status' = s

\* Control moves inside fzgoMain.
Go(label) == pc' = label /\ UNCHANGED status

\* No command, or one that FindFlag finds among h and help.
HelpWords == {"none", "help", "-h", "-help", "--h", "--help"}

Help ==
    /\ pc = "main"
    /\ cmd \in HelpWords
    /\ Exit(ArgErr)
    /\ UNCHANGED <<input, reading, work>>

OtherCommand ==
    /\ pc = "main"
    /\ cmd \notin HelpWords \cup {"test"}
    /\ Go("go")
    /\ UNCHANGED <<input, reading, work>>

\* ParseArgs without -fuzz or -run: nothing to do.
NothingToParse ==
    /\ pc = "main"
    /\ cmd = "test"
    /\ ~FindTestFlag({"fuzz", "run"})
    /\ Go("decide")
    /\ UNCHANGED <<input, reading, work>>

ParseReturns(e) == err' = e /\ Go("parsed")

RefuseFlag ==
    /\ pc = "main"
    /\ cmd = "test"
    /\ FindTestFlag({"fuzz", "run"})
    /\ \/ FindTestFlag(IncompatibleTestFlags) /\ ParseReturns("incompatible test flag")
       \/ /\ ~FindTestFlag(IncompatibleTestFlags)
          /\ FindTestFlag(UnimplementedTestFlags)
          /\ ParseReturns("unimplemented test flag")
       \/ /\ ~FindTestFlag(IncompatibleTestFlags)
          /\ ~FindTestFlag(UnimplementedTestFlags)
          /\ FindFlag(UnimplementedBuildFlags)
          /\ ParseReturns("unimplemented build flag")
    /\ UNCHANGED <<input, i, first, next, set, work>>

StartParse ==
    /\ pc = "main"
    /\ cmd = "test"
    /\ FindTestFlag({"fuzz", "run"})
    /\ ~FindTestFlag(IncompatibleTestFlags)
    /\ ~FindTestFlag(UnimplementedTestFlags)
    /\ ~FindFlag(UnimplementedBuildFlags)
    /\ Go("scan")
    /\ UNCHANGED <<input, reading, work>>

\* FindPkgs, called by ParseArgs ("scan") and by verifyCorpus ("rescan").
Scanning == pc \in {"scan", "rescan"}

AfterScan == Go(IF pc = "scan" THEN "parse" ELSE "search")

\* Fault: the value of a flag is not passed over.
SkipsNextNever(a) == FALSE

\* Fault: -v is missing in supportedBools.
SkipsNextAfterV(a) == ~a.eq /\ (a.test \/ a.name \notin SupportedBools \ {"v"})

\* supportedBoolSet[flag] is false for -test. forms.
SkipsNext(a) == ~a.eq /\ (a.test \/ a.name \notin SupportedBools)

ScanFlag ==
    /\ Scanning
    /\ i <= Len(args)
    /\ IsFlag(args[i]) /\ ~IsArgs(args[i])
    /\ i' = IF SkipsNext(args[i]) THEN i + 2 ELSE i + 1
    /\ UNCHANGED <<input, pc, first, next, set, err, work, status>>

\* All arguments are used up, or -args ends the search.
NoPackages ==
    /\ Scanning
    /\ i <= Len(args) => IsArgs(args[i])
    /\ first' = 1 /\ next' = 1 /\ i' = 1
    /\ AfterScan
    /\ UNCHANGED <<input, set, err, work>>

\* Fault: the argument behind the packages goes with them.
FoundPackagesOneMore ==
    /\ Scanning
    /\ i <= Len(args) /\ ~IsFlag(args[i])
    /\ first' = i
    /\ \E n \in i + 1 .. Len(args) + 1 :
         /\ \A k \in i .. n - 1 : ~IsFlag(args[k])
         /\ n <= Len(args) => IsFlag(args[n])
         /\ next' = n + 1
    /\ i' = 1
    /\ AfterScan
    /\ UNCHANGED <<input, set, err, work>>

FoundPackages ==
    /\ Scanning
    /\ i <= Len(args) /\ ~IsFlag(args[i])
    /\ first' = i
    /\ next' \in i + 1 .. Len(args) + 1
    /\ \A k \in i .. next' - 1 : ~IsFlag(args[k])
    /\ next' <= Len(args) => IsFlag(args[next'])
    /\ i' = 1
    /\ AfterScan
    /\ UNCHANGED <<input, set, err, work>>

\* flag.FlagSet.Parse of the rest, one flag a step.
Parsing == pc = "parse" /\ i <= Len(Rest)

Known(a) == a.name \in Flags

TakesNext(a) == Known(a) /\ a.name \notin BoolFlags /\ ~a.eq

\* The value of the flag in position k of a list, if it has one.
ValueAt(list, k) ==
    IF list[k].eq THEN list[k].val
    ELSE IF list[k].name \in BoolFlags THEN "true"
    ELSE list[k + 1].text

ParseFlag ==
    /\ Parsing
    /\ Known(Rest[i])
    /\ TakesNext(Rest[i]) => i < Len(Rest)
    /\ Accepts(Rest[i].name, ValueAt(Rest, i))
    /\ set' = [set EXCEPT ![Rest[i].name] = ValueAt(Rest, i)]
    /\ i' = IF TakesNext(Rest[i]) THEN i + 2 ELSE i + 1
    /\ UNCHANGED <<input, pc, first, next, err, work, status>>

ParseHelp ==
    /\ Parsing
    /\ Rest[i].name \in {"h", "help"} /\ ~Rest[i].test
    /\ ParseReturns("help")
    /\ UNCHANGED <<input, i, first, next, set, work>>

\* Not defined, without its value, or with one of another type.
ParseFails ==
    /\ Parsing
    /\ IsFlag(Rest[i])
    /\ \/ ~Known(Rest[i]) /\ (Rest[i].name \in {"h", "help"} => Rest[i].test)
       \/ TakesNext(Rest[i]) /\ i = Len(Rest)
       \/ /\ Known(Rest[i])
          /\ TakesNext(Rest[i]) => i < Len(Rest)
          /\ ~Accepts(Rest[i].name, ValueAt(Rest, i))
    /\ ParseReturns("parse")
    /\ UNCHANGED <<input, i, first, next, set, work>>

ArgumentLeft ==
    /\ Parsing
    /\ ~IsFlag(Rest[i])
    /\ ParseReturns("illegal argument")
    /\ UNCHANGED <<input, i, first, next, set, work>>

ParseEnds ==
    /\ pc = "parse"
    /\ i > Len(Rest)
    /\ ParseReturns("")
    /\ UNCHANGED <<input, i, first, next, set, work>>

Parsed ==
    /\ pc = "parsed"
    /\ IF err = "" THEN Go("decide") ELSE Exit(ArgErr)
    /\ UNCHANGED <<input, reading, work>>

-----------------------------------------------------------------------------

VerifyOnly == set["fuzz"] = "" \/ set["run"] # ""

\* -run with or without -fuzz, or neither: the corpus first.
ToVerify ==
    /\ pc = "decide"
    /\ VerifyOnly
    /\ i' = 1
    /\ Go("rescan")
    /\ UNCHANGED <<input, first, next, set, err, work>>

TimeoutTooShort ==
    /\ pc = "decide"
    /\ ~VerifyOnly
    /\ set["timeout"] = "0.5s"
    /\ Exit(ArgErr)
    /\ UNCHANGED <<input, reading, work>>

\* FindFunc for the packages that ParseArgs found.
FindTargets ==
    /\ pc = "decide"
    /\ ~VerifyOnly
    /\ set["timeout"] # "0.5s"
    /\ searched' = Packages
    /\ \/ Exit(OtherErr) /\ UNCHANGED found
       \/ /\ found' \in 1 .. MaxFunctions
          /\ set["debug"] = "nomultifuzz" => found' = 1
          /\ Go("instrument")
    /\ UNCHANGED <<input, reading, built, turn, fuzzed, verified, failed, went>>

Instrument ==
    /\ pc = "instrument"
    /\ built < found
    /\ built' = built + 1
    /\ UNCHANGED <<input, pc, reading, found, searched, turn, fuzzed, verified, failed, went, status>>

\* Fault: the error is printed and fuzzing starts with what has been built.
InstrumentFailsGoesOn ==
    /\ pc = "instrument"
    /\ built < found
    /\ Go("fuzz")
    /\ UNCHANGED <<input, reading, work>>

InstrumentFails ==
    /\ pc = "instrument"
    /\ built < found
    /\ Exit(OtherErr)
    /\ UNCHANGED <<input, reading, work>>

CompileOnly ==
    /\ pc = "instrument"
    /\ built = found
    /\ set["c"] = "true"
    /\ Exit(Success)
    /\ UNCHANGED <<input, reading, work>>

StartFuzzing ==
    /\ pc = "instrument"
    /\ built = found
    /\ set["c"] = "false"
    /\ Go("fuzz")
    /\ UNCHANGED <<input, reading, work>>

\* One turn, which module FuzzLoop details.
Fuzz ==
    /\ pc = "fuzz"
    /\ turn <= found
    /\ fuzzed' = fuzzed \cup {turn}
    /\ turn' = turn + 1
    /\ UNCHANGED <<input, pc, reading, found, searched, built, verified, failed, went, status>>

FuzzFails ==
    /\ pc = "fuzz"
    /\ turn <= found
    /\ fuzzed' = fuzzed \cup {turn}
    /\ Exit(OtherErr)
    /\ UNCHANGED <<input, reading, found, searched, built, turn, verified, failed, went>>

NextRound ==
    /\ pc = "fuzz"
    /\ turn > found
    /\ set["fuzztime"] = "0s"
    /\ turn' = 1
    /\ UNCHANGED <<input, pc, reading, found, searched, built, fuzzed, verified, failed, went, status>>

\* Fault: the loop is left after the first target.
EndFuzzingEarly ==
    /\ pc = "fuzz"
    /\ turn > 1
    /\ set["fuzztime"] # "0s"
    /\ Exit(Success)
    /\ UNCHANGED <<input, reading, work>>

EndFuzzing ==
    /\ pc = "fuzz"
    /\ turn > found
    /\ set["fuzztime"] # "0s"
    /\ Exit(Success)
    /\ UNCHANGED <<input, reading, work>>

-----------------------------------------------------------------------------

\* verifyCorpus, after FindPkgs: at most one package, although fzgoMain went
\* on with several when ParseArgs found them.
TooManyPackages ==
    /\ pc = "search"
    /\ Len(Packages) > 1
    /\ Exit(ArgErr)
    /\ UNCHANGED <<input, reading, work>>

\* Fault: the packages are counted after the search.
FindVerifiedFirst ==
    /\ pc = "search"
    /\ searched' = Packages
    /\ IF Len(Packages) > 1
       THEN Exit(ArgErr) /\ UNCHANGED found
       ELSE \/ Exit(OtherErr) /\ UNCHANGED found
            \/ found' \in 1 .. MaxFunctions /\ Go("verify")
    /\ UNCHANGED <<input, reading, built, turn, fuzzed, verified, failed, went>>

FindVerified ==
    /\ pc = "search"
    /\ Len(Packages) <= 1
    /\ searched' = Packages
    /\ \/ Exit(OtherErr) /\ UNCHANGED found
       \/ found' \in 1 .. MaxFunctions /\ Go("verify")
    /\ UNCHANGED <<input, reading, built, turn, fuzzed, verified, failed, went>>

\* The corpus of one function in all its places, which VerifyCorpus details.
Verify ==
    /\ pc = "verify"
    /\ verified < found
    /\ verified' = verified + 1
    /\ failed' \in {failed, failed \cup {verified'}}
    /\ UNCHANGED <<input, pc, reading, found, searched, built, turn, fuzzed, went, status>>

VerifyFails ==
    /\ pc = "verify"
    /\ verified < found
    /\ Exit(OtherErr)
    /\ UNCHANGED <<input, reading, work>>

\* Fault: the status of verifyCorpus is only used with -fuzz.
EndVerifyUnread ==
    /\ pc = "verify"
    /\ verified = found
    /\ IF set["fuzz"] = "" THEN Go("go") ELSE Exit(IF failed # {} THEN OtherErr ELSE Success)
    /\ UNCHANGED <<input, reading, work>>

EndVerify ==
    /\ pc = "verify"
    /\ verified = found
    /\ IF failed # {} THEN Exit(OtherErr)
       ELSE IF set["fuzz"] = "" THEN Go("go") ELSE Exit(Success)
    /\ UNCHANGED <<input, reading, work>>

ExecGo ==
    /\ pc = "go"
    /\ \/ went' = "well" /\ Exit(Success)
       \/ went' = "wrong" /\ Exit(OtherErr)
    /\ UNCHANGED <<input, reading, found, searched, built, turn, fuzzed, verified, failed>>

Next ==
    \/ Help \/ OtherCommand
    \/ NothingToParse \/ RefuseFlag \/ StartParse
    \/ ScanFlag \/ NoPackages \/ FoundPackages
    \/ ParseFlag \/ ParseHelp \/ ParseFails \/ ArgumentLeft \/ ParseEnds \/ Parsed
    \/ ToVerify \/ TimeoutTooShort \/ FindTargets
    \/ Instrument \/ InstrumentFails \/ CompileOnly
    \/ StartFuzzing \/ Fuzz \/ FuzzFails \/ NextRound \/ EndFuzzing
    \/ TooManyPackages \/ FindVerified \/ Verify \/ VerifyFails \/ EndVerify
    \/ ExecGo

Spec == Init /\ [][Next]_vars

-----------------------------------------------------------------------------

InputOK ==
    /\ cmd \in Commands
    /\ args \in Seq(Args)

ReadingOK ==
    /\ i \in Nat \ {0}
    /\ first \in 1 .. Len(args) + 1
    /\ next \in first .. Len(args) + 1
    /\ set \in [Flags -> Texts]
    /\ \A f \in Flags : Accepts(f, set[f])
    /\ err \in {"", "incompatible test flag", "unimplemented test flag", "unimplemented build flag",
                "help", "parse", "illegal argument"}

WorkOK ==
    /\ found \in 0 .. MaxFunctions
    /\ searched \in Seq(Texts)
    /\ built \in 0 .. found
    /\ turn \in 1 .. found + 1
    /\ fuzzed \subseteq 1 .. found
    /\ verified \in 0 .. found
    /\ failed \subseteq 1 .. found
    /\ went \in {"no", "well", "wrong"}

ControlOK ==
    /\ pc \in {"main", "scan", "parse", "parsed", "decide", "rescan", "search", "verify",
               "instrument", "fuzz", "go", "exited"}
    /\ status \in {"none", Success, OtherErr, ArgErr}

\* Types, and the packages found are arguments (flag.go:238-249).
TypeOK == InputOK /\ ReadingOK /\ WorkOK /\ ControlOK

\* How the flag definitions of fzgo and of go test say the arguments are read:
\* from left to right, each a flag, the value of the flag before it, or a word.
TakesValue(a) == IsFlag(a) /\ ~a.eq /\ a.name \notin BoolFlags \cup {"i", "race"}

Readings ==
    { r \in [1 .. Len(args) -> {"flag", "value", "word"}] :
        \A k \in 1 .. Len(args) :
            r[k] = IF k > 1 /\ r[k - 1] = "flag" /\ TakesValue(args[k - 1]) THEN "value"
                   ELSE IF IsFlag(args[k]) THEN "flag" ELSE "word" }

GivenAt(r, f) == {k \in 1 .. Len(args) : r[k] = "flag" /\ args[k].name = f}

\* v is what the last of the flags f says.
IsMeant(r, f, v) ==
    \/ GivenAt(r, f) = {} /\ v = DefaultOf(f)
    \/ \E k \in GivenAt(r, f) :
         (\A j \in GivenAt(r, f) : j <= k) /\ v = ValueAt(args, k)

\* The packages and all flags have been read as they were meant.
ReadCorrectly ==
    \A r \in Readings :
        /\ \A k \in 1 .. Len(args) : r[k] = "word" <=> first <= k /\ k < next
        /\ \A f \in Flags : IsMeant(r, f, set[f])

\* The bool flags, if any, stand there in their short form.  FindPkgs takes the
\* -test. forms for flags with a value (see SkipsNext) and passes over the
\* argument behind them, although "Each flag is registered once as foo and once
\* as test.foo" (flag.go:279).
ShortBools == \A k \in 1 .. Len(args) : args[k].name \in BoolFlags => ~args[k].test

WasParsed == pc = "decide" /\ FindTestFlag({"fuzz", "run"})

\* The two scans of ParseArgs, which know different lists of flags, agree with
\* each other and with what the flags mean, or ParseArgs returns an error:
\* "handles a package pattern that might appear in the middle of args"
\* (flag.go:90-92).  The -test. forms of bool flags are left out, see ShortBools.
ReadAsMeant == WasParsed /\ ShortBools => ReadCorrectly

\* Where verifyCorpus looks for fuzz functions is where go test, which gets the
\* same arguments, looks for tests (main.go:246-265): the first words.  Only
\* with fzgo's own flags, because FindPkgs knows no others.
RightPackages ==
    pc = "search" /\ ShortBools =>
        \A r \in Readings :
            (\A k \in 1 .. Len(args) : r[k] = "flag" => Known(args[k])) =>
                /\ \A k \in 1 .. first - 1 : r[k] # "word"
                /\ \A k \in first .. next - 1 : r[k] = "word"
                /\ first < next /\ next <= Len(args) => r[next] = "flag"
                /\ first = next => \A k \in 1 .. Len(args) : r[k] # "word"

\* What go gets has no -fuzz: with one, fzgo either fuzzes, or verifies, or
\* refuses (flag.go:97-105, main.go:112-141).  Behind -args everything is the test
\* binary's own, and the -test. forms of bool flags are left out, see ShortBools:
\* in -test.v -run p -fuzz=F the scan takes p for the package, -run gets -fuzz=F
\* for its value, and go gets a -fuzz that fzgo has not seen.
GoNeverFuzzes ==
    /\ cmd = "test" /\ went # "no"
    /\ ShortBools
    /\ \A k \in 1 .. Len(args) : ~IsArgs(args[k])
    => \A r \in Readings : IsMeant(r, "fuzz", "")

\* When arguments are wrong nothing has been searched, built, fuzzed, verified
\* or handed to go (ArgErr, main.go:55-60).
ArgErrDoesNothing ==
    status = ArgErr =>
        searched = <<>> /\ built = 0 /\ fuzzed = {} /\ verified = 0 /\ went = "no"

\* No function is fuzzed before all are instrumented, nor with -c, nor with a
\* timeout that is too short (main.go:150-186).
InstrumentedFirst ==
    fuzzed # {} =>
        /\ built = found
        /\ set["c"] = "false" /\ set["timeout"] # "0.5s"
        /\ searched # <<>> /\ verified = 0 /\ went = "no"

\* Status 0 is earned: all that was asked for has been done, and nothing failed
\* (main.go:66-67, 115-139).
SuccessIsEarned ==
    status = Success =>
        /\ failed = {} /\ went # "wrong"
        /\ cmd # "test" => went = "well"
        /\ cmd = "test" =>
             /\ found # 0
             /\ VerifyOnly => verified = found
             /\ set["fuzz"] = "" => went = "well"
             /\ ~VerifyOnly => built = found
             /\ ~VerifyOnly /\ set["c"] = "false" => fuzzed = 1 .. found

\* The part of a run that FuzzLoop details, if it gets there.
Fuzzes == pc = "fuzz" \/ fuzzed # {}

Fuzzing == INSTANCE Session WITH
    MaxTargets <- MaxFunctions,
    n <- IF Fuzzes THEN found ELSE 0,
    forever <- Fuzzes /\ set["fuzztime"] = "0s",
    done <- turn - 1,
    status <- IF fuzzed # {} THEN status ELSE "none"

\* The part that VerifyCorpus details, and go test after it.
Verifies == VerifyOnly /\ found # 0

Verifying == INSTANCE Regression WITH
    n <- IF Verifies THEN found ELSE 0,
    alsoGo <- Verifies /\ set["fuzz"] = "",
    done <- verified,
    over <- Verifies /\ status # "none",
    status <- IF Verifies /\ status # "none" THEN status
              ELSE IF failed # {} THEN OtherErr ELSE Success

\* Every run of fzgo contains a session as FuzzLoop implements it, or a
\* regression test as VerifyCorpus does, or neither, and nothing else it does
\* interferes: the steps here and the modules that detail them agree.
KeepsParts == Fuzzing!Spec /\ Verifying!Spec

=============================================================================
