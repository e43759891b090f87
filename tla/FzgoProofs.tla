----------------------------- MODULE FzgoProofs -----------------------------
(***************************************************************************)
(* Proofs about Fzgo, for all argument lists: types, what has been done    *)
(* when fzgoMain returns, and that the two scans of the arguments agree.   *)
(***************************************************************************)
EXTENDS Fzgo, TLAPS

-----------------------------------------------------------------------------
(* Types. *)

LEMMA TextsOfDefaults ==
    /\ \A f \in Flags : DefaultOf(f) \in Texts /\ Accepts(f, DefaultOf(f))
    /\ "." \in Texts /\ "true" \in Texts
<1>1. {"", ".", "0s", "true", "false"} \subseteq Texts
    BY ConstantsAssumption
<1> QED
    BY <1>1 DEF Flags, BoolFlags, DurationFlags, DefaultOf, Accepts, Durations

\* What proofs use of the types, apart from the types of arguments.
LEMMA Numbers ==
    ASSUME TypeOK
    PROVE  /\ Len(args) \in Nat /\ first \in Nat /\ next \in Nat /\ i \in Nat
           /\ 1 <= first /\ first <= next /\ next <= Len(args) + 1 /\ 1 <= i
           /\ args \in [1 .. Len(args) -> Args]
<1>1. args \in Seq(Args)
    BY DEF TypeOK, InputOK
<1>2. Len(args) \in Nat /\ args \in [1 .. Len(args) -> Args]
    BY <1>1
<1>3. /\ first \in 1 .. Len(args) + 1
      /\ next \in first .. Len(args) + 1
      /\ i \in Nat \ {0}
    BY DEF TypeOK, ReadingOK
<1> QED
    BY <1>2, <1>3

\* The arguments without the packages are a list.
LEMMA RestIsList ==
    ASSUME TypeOK
    PROVE  /\ Rest \in Seq(Args)
           /\ Len(Rest) = Len(args) - (next - first)
           /\ Len(Rest) \in Nat
<1>1. /\ Len(args) \in Nat
      /\ first \in 1 .. Len(args) + 1
      /\ next \in first .. Len(args) + 1
      /\ args \in [1 .. Len(args) -> Args]
    BY Numbers
<1>2. Len(args) - (next - first) \in Nat
    BY <1>1
<1>3. \A k \in 1 .. Len(args) - (next - first) :
          (IF k < first THEN args[k] ELSE args[k + (next - first)]) \in Args
    <2> TAKE k \in 1 .. Len(args) - (next - first)
    <2>1. CASE k < first
        BY <1>1, <2>1
    <2>2. CASE ~(k < first)
        <3>1. k + (next - first) \in 1 .. Len(args)
            BY <1>1, <2>2
        <3> QED
            BY <1>1, <2>2, <3>1
    <2> QED
        BY <2>1, <2>2
<1>4. Rest \in [1 .. Len(args) - (next - first) -> Args]
    BY <1>3 DEF Rest
<1> QED
    BY <1>2, <1>4

LEMMA PackagesAreTexts ==
    ASSUME TypeOK
    PROVE  Packages \in Seq(Texts) /\ Packages # <<>>
<1>1. /\ Len(args) \in Nat
      /\ first \in 1 .. Len(args) + 1
      /\ next \in first .. Len(args) + 1
      /\ args \in [1 .. Len(args) -> Args]
    BY Numbers
<1>2. CASE first = next
    BY <1>2, TextsOfDefaults DEF Packages
<1>3. CASE first # next
    <2>1. next - first \in Nat \ {0}
        BY <1>1, <1>3
    <2>2. \A k \in 1 .. next - first : args[first + k - 1].text \in Texts
        <3> TAKE k \in 1 .. next - first
        <3>1. first + k - 1 \in 1 .. Len(args)
            BY <1>1
        <3> QED
            BY <1>1, <3>1 DEF Args
    <2>3. Packages \in [1 .. next - first -> Texts]
        BY <1>3, <2>2 DEF Packages
    <2>4. Packages \in Seq(Texts) /\ Len(Packages) = next - first
        BY <2>1, <2>3
    <2> QED
        BY <2>1, <2>4
<1> QED
    BY <1>2, <1>3

\* Every value the flag package assigns is a text.
LEMMA ValueIsText ==
    ASSUME NEW list \in Seq(Args), NEW k \in 1 .. Len(list),
           TakesNext(list[k]) => k < Len(list), Known(list[k])
    PROVE  ValueAt(list, k) \in Texts
<1>1. list[k] \in Args /\ Len(list) \in Nat
    OBVIOUS
<1>2. CASE list[k].eq
    BY <1>1, <1>2 DEF ValueAt, Args
<1>3. CASE ~list[k].eq /\ list[k].name \in BoolFlags
    BY <1>3, TextsOfDefaults DEF ValueAt
<1>4. CASE ~list[k].eq /\ list[k].name \notin BoolFlags
    <2>1. k + 1 \in 1 .. Len(list)
        BY <1>1, <1>4 DEF TakesNext
    <2>2. list[k + 1] \in Args
        BY <2>1
    <2> QED
        BY <1>4, <2>2 DEF ValueAt, Args
<1> QED
    BY <1>2, <1>3, <1>4

LEMMA InitType ==
    ASSUME Init PROVE TypeOK
<1>1. InputOK
    <2>1. ArgLists \subseteq Seq(Args)
        BY ConstantsAssumption
    <2> QED
        BY <2>1 DEF Init, InputOK
<1>2. ReadingOK
    <2>1. Len(args) \in Nat
        BY <1>1 DEF InputOK
    <2>2. set \in [Flags -> Texts] /\ \A f \in Flags : Accepts(f, set[f])
        BY TextsOfDefaults DEF Init
    <2>5. i = 1 /\ first = 1 /\ next = 1
        BY DEF Init
    <2>3. i \in Nat \ {0} /\ first \in 1 .. Len(args) + 1 /\ next \in first .. Len(args) + 1
        BY <2>1, <2>5
    <2>4. err = ""
        BY DEF Init
    <2> QED
        BY <2>2, <2>3, <2>4 DEF ReadingOK
<1>3. WorkOK
    <2>1. MaxFunctions \in Nat
        BY ConstantsAssumption
    <2>2. found = 0 /\ built = 0 /\ turn = 1 /\ fuzzed = {} /\ verified = 0
        BY DEF Init
    <2>3. found \in 0 .. MaxFunctions /\ built \in 0 .. found /\ turn \in 1 .. found + 1
        BY <2>1, <2>2
    <2>4. fuzzed \subseteq 1 .. found /\ verified \in 0 .. found
        BY <2>2
    <2>7. searched = <<>>
        BY DEF Init
    <2>5. searched \in Seq(Texts)
        BY <2>7
    <2>6. failed = {} /\ went = "no"
        BY DEF Init
    <2> QED
        BY <2>3, <2>4, <2>5, <2>6 DEF WorkOK
<1>4. ControlOK
    BY DEF Init, ControlOK
<1> QED
    BY <1>1, <1>2, <1>3, <1>4 DEF TypeOK

\* The arguments stay as they are.
LEMMA InputFixed ==
    ASSUME [Next]_vars PROVE cmd' = cmd /\ args' = args
BY DEF Next, vars, input, Help, OtherCommand, NothingToParse, RefuseFlag, StartParse, ScanFlag,
   NoPackages, FoundPackages, ParseFlag, ParseHelp, ParseFails, ArgumentLeft, ParseEnds, Parsed,
   ToVerify, TimeoutTooShort, FindTargets, Instrument, InstrumentFails, CompileOnly, StartFuzzing,
   Fuzz, FuzzFails, NextRound, EndFuzzing, TooManyPackages, FindVerified, Verify, VerifyFails,
   EndVerify, ExecGo

LEMMA StepControl ==
    ASSUME ControlOK, [Next]_vars PROVE ControlOK'
BY DEF ControlOK, Next, vars, Help, OtherCommand, NothingToParse, RefuseFlag, StartParse, ScanFlag,
   NoPackages, FoundPackages, ParseFlag, ParseHelp, ParseFails, ArgumentLeft, ParseEnds, Parsed,
   ToVerify, TimeoutTooShort, FindTargets, Instrument, InstrumentFails, CompileOnly, StartFuzzing,
   Fuzz, FuzzFails, NextRound, EndFuzzing, TooManyPackages, FindVerified, Verify, VerifyFails,
   EndVerify, ExecGo, Exit, Go, ParseReturns, AfterScan, Success, OtherErr, ArgErr

\* The steps that read arguments.
ReadingStep ==
    \/ ScanFlag \/ NoPackages \/ FoundPackages \/ ParseFlag \/ ToVerify
    \/ RefuseFlag \/ ParseHelp \/ ParseFails \/ ArgumentLeft \/ ParseEnds

LEMMA ReadingElsewhere ==
    ASSUME [Next]_vars, ~ReadingStep PROVE UNCHANGED reading
BY DEF Next, ReadingStep, vars, Help, OtherCommand, NothingToParse, StartParse, Parsed,
   TimeoutTooShort, FindTargets, Instrument, InstrumentFails, CompileOnly, StartFuzzing,
   Fuzz, FuzzFails, NextRound, EndFuzzing, TooManyPackages, FindVerified, Verify, VerifyFails,
   EndVerify, ExecGo

LEMMA StepReading ==
    ASSUME TypeOK, [Next]_vars PROVE ReadingOK'
<1>1. args' = args
    BY InputFixed
<1>2. Len(args) \in Nat /\ i \in Nat /\ ReadingOK
    BY Numbers DEF TypeOK
<1>3. CASE ScanFlag
    <2>1. i' = i + 2 \/ i' = i + 1
        BY <1>3 DEF ScanFlag
    <2>2. i' \in Nat \ {0}
        BY <1>2, <2>1
    <2>3. UNCHANGED <<first, next, set, err>>
        BY <1>3 DEF ScanFlag
    <2> QED
        BY <1>1, <1>2, <2>2, <2>3 DEF ReadingOK
<1>4. CASE NoPackages
    <2>1. i' = 1 /\ first' = 1 /\ next' = 1
        BY <1>4 DEF NoPackages
    <2>2. /\ i' \in Nat \ {0}
          /\ first' \in 1 .. Len(args) + 1
          /\ next' \in first' .. Len(args) + 1
        BY <1>2, <2>1
    <2>3. UNCHANGED <<set, err>>
        BY <1>4 DEF NoPackages
    <2> QED
        BY <1>1, <1>2, <2>2, <2>3 DEF ReadingOK
<1>5. CASE FoundPackages
    <2>1. i' = 1 /\ first' = i /\ i <= Len(args) /\ next' \in i + 1 .. Len(args) + 1
        BY <1>5 DEF FoundPackages
    <2>2. /\ i' \in Nat \ {0}
          /\ first' \in 1 .. Len(args) + 1
          /\ next' \in first' .. Len(args) + 1
        BY <1>2, <2>1, Numbers
    <2>3. UNCHANGED <<set, err>>
        BY <1>5 DEF FoundPackages
    <2> QED
        BY <1>1, <1>2, <2>2, <2>3 DEF ReadingOK
<1>6. CASE ParseFlag
    <2>1. i <= Len(Rest)
        BY <1>6 DEF ParseFlag, Parsing
    <2>2. Rest \in Seq(Args) /\ Len(Rest) \in Nat /\ i \in 1 .. Len(Rest)
        BY <1>2, <2>1, RestIsList, Numbers
    <2>3. ValueAt(Rest, i) \in Texts
        BY <1>6, <2>2, ValueIsText DEF ParseFlag
    <2>4. /\ set' = [set EXCEPT ![Rest[i].name] = ValueAt(Rest, i)]
          /\ Accepts(Rest[i].name, ValueAt(Rest, i))
        BY <1>6 DEF ParseFlag
    <2>5. set' \in [Flags -> Texts] /\ \A f \in Flags : Accepts(f, set'[f])
        BY <1>2, <2>3, <2>4 DEF ReadingOK
    <2>6. i' = i + 2 \/ i' = i + 1
        BY <1>6 DEF ParseFlag
    <2>7. i' \in Nat \ {0}
        BY <1>2, <2>6
    <2>8. UNCHANGED <<first, next, err>>
        BY <1>6 DEF ParseFlag
    <2> QED
        BY <1>1, <1>2, <2>5, <2>7, <2>8 DEF ReadingOK
<1>7. CASE ToVerify
    <2>1. i' = 1 /\ UNCHANGED <<first, next, set, err>>
        BY <1>7 DEF ToVerify
    <2>2. i' \in Nat \ {0}
        BY <2>1
    <2> QED
        BY <1>1, <1>2, <2>1, <2>2 DEF ReadingOK
<1>8. CASE RefuseFlag \/ ParseHelp \/ ParseFails \/ ArgumentLeft \/ ParseEnds
    BY <1>1, <1>2, <1>8 DEF RefuseFlag, ParseHelp, ParseFails, ArgumentLeft, ParseEnds,
       ParseReturns, ReadingOK
<1>9. CASE UNCHANGED reading
    BY <1>1, <1>2, <1>9 DEF reading, ReadingOK
<1> QED
    BY <1>3, <1>4, <1>5, <1>6, <1>7, <1>8, <1>9, ReadingElsewhere DEF ReadingStep

\* The steps that search, build, fuzz, verify, or run go.
WorkStep ==
    \/ FindTargets \/ Instrument \/ Fuzz \/ FuzzFails \/ NextRound
    \/ FindVerified \/ Verify \/ ExecGo

LEMMA WorkElsewhere ==
    ASSUME [Next]_vars, ~WorkStep PROVE UNCHANGED work
BY DEF Next, WorkStep, vars, Help, OtherCommand, NothingToParse, RefuseFlag, StartParse, ScanFlag,
   NoPackages, FoundPackages, ParseFlag, ParseHelp, ParseFails, ArgumentLeft, ParseEnds, Parsed,
   ToVerify, TimeoutTooShort, InstrumentFails, CompileOnly, StartFuzzing, EndFuzzing,
   TooManyPackages, VerifyFails, EndVerify

\* Before FindFunc nothing has been done.
Idle ==
    /\ found = 0 /\ searched = <<>> /\ built = 0 /\ turn = 1 /\ fuzzed = {}
    /\ verified = 0 /\ failed = {} /\ went = "no"

IdleBefore ==
    pc \in {"main", "scan", "parse", "parsed", "decide", "rescan", "search"} => Idle

LEMMA StepIdle ==
    ASSUME IdleBefore, [Next]_vars PROVE IdleBefore'
<1>1. CASE WorkStep
    BY <1>1 DEF WorkStep, FindTargets, Instrument, Fuzz, FuzzFails, NextRound, FindVerified,
       Verify, ExecGo, Exit, Go, IdleBefore
<1>2. CASE ~WorkStep
    <2>1. UNCHANGED work
        BY <1>2, WorkElsewhere
    <2>2. Idle => Idle'
        BY <2>1 DEF work, Idle
    <2>3. pc' \in {"main", "scan", "parse", "parsed", "decide", "rescan", "search"} =>
             pc \in {"main", "scan", "parse", "parsed", "decide", "rescan", "search"}
        BY <1>2 DEF Next, WorkStep, vars, Help, OtherCommand, NothingToParse, RefuseFlag,
           StartParse, ScanFlag, NoPackages, FoundPackages, ParseFlag, ParseHelp, ParseFails,
           ArgumentLeft, ParseEnds, Parsed, ToVerify, TimeoutTooShort, InstrumentFails,
           CompileOnly, StartFuzzing, EndFuzzing, TooManyPackages, VerifyFails, EndVerify, Exit,
           Go, AfterScan, Scanning, Parsing, ParseReturns
    <2> QED
        BY <2>2, <2>3 DEF IdleBefore
<1> QED
    BY <1>1, <1>2

LEMMA StepWork ==
    ASSUME TypeOK, IdleBefore, [Next]_vars PROVE WorkOK'
<1>1. WorkOK /\ MaxFunctions \in Nat
    BY ConstantsAssumption DEF TypeOK
<1>0. /\ found \in Nat /\ found <= MaxFunctions
      /\ built \in Nat /\ built <= found
      /\ turn \in Nat /\ 1 <= turn /\ turn <= found + 1
      /\ verified \in Nat /\ verified <= found
    BY <1>1 DEF WorkOK
<1>2. CASE FindTargets \/ FindVerified
    <2>1. searched' \in Seq(Texts)
        BY <1>2, PackagesAreTexts DEF FindTargets, FindVerified
    <2>2. found' = found \/ found' \in 1 .. MaxFunctions
        BY <1>2 DEF FindTargets, FindVerified
    <2>3. UNCHANGED <<built, turn, fuzzed, verified, failed, went>>
        BY <1>2 DEF FindTargets, FindVerified
    <2>4. found = 0 /\ built = 0 /\ turn = 1 /\ verified = 0 /\ fuzzed = {} /\ failed = {}
        BY <1>2 DEF FindTargets, FindVerified, IdleBefore, Idle
    <2>5. found' \in 0 .. MaxFunctions
        BY <1>0, <1>1, <2>2
    <2>8. built' = 0 /\ turn' = 1 /\ verified' = 0 /\ found' \in Nat
        BY <1>1, <2>3, <2>4, <2>5
    <2>9. \A n \in Nat : 0 \in 0 .. n /\ 1 \in 1 .. n + 1
        OBVIOUS
    <2>6. built' \in 0 .. found' /\ turn' \in 1 .. found' + 1 /\ verified' \in 0 .. found'
        BY <2>8, <2>9
    <2>7. fuzzed' \subseteq 1 .. found' /\ failed' \subseteq 1 .. found'
        BY <2>3, <2>4
    <2> QED
        BY <1>1, <2>1, <2>3, <2>5, <2>6, <2>7 DEF WorkOK
<1>3. CASE Instrument
    <2>1. built' \in 0 .. found'
        BY <1>0, <1>3 DEF Instrument
    <2>2. UNCHANGED <<found, searched, turn, fuzzed, verified, failed, went>>
        BY <1>3 DEF Instrument
    <2> QED
        BY <1>1, <2>1, <2>2 DEF WorkOK
<1>4. CASE Fuzz \/ FuzzFails
    <2>1. fuzzed' = fuzzed \cup {turn} /\ turn <= found /\ turn' \in {turn, turn + 1}
        BY <1>4 DEF Fuzz, FuzzFails
    <2>2. UNCHANGED <<found, searched, built, verified, failed, went>>
        BY <1>4 DEF Fuzz, FuzzFails
    <2>3. turn \in 1 .. found /\ turn' \in 1 .. found + 1
        BY <1>0, <2>1
    <2>4. fuzzed' \subseteq 1 .. found
        BY <1>1, <2>1, <2>3 DEF WorkOK
    <2> QED
        BY <1>1, <2>2, <2>3, <2>4 DEF WorkOK
<1>5. CASE NextRound
    <2>1. turn' \in 1 .. found + 1
        BY <1>0, <1>5 DEF NextRound
    <2>2. UNCHANGED <<found, searched, built, fuzzed, verified, failed, went>>
        BY <1>5 DEF NextRound
    <2> QED
        BY <1>1, <2>1, <2>2 DEF WorkOK
<1>6. CASE Verify
    <2>1. verified' \in 0 .. found
        BY <1>0, <1>6 DEF Verify
    <2>2. UNCHANGED <<found, searched, built, turn, fuzzed, went>>
        BY <1>6 DEF Verify
    <2>3. verified + 1 \in 1 .. found /\ failed \subseteq 1 .. found
        BY <1>0, <1>1, <1>6 DEF Verify, WorkOK
    <2>4. failed' \subseteq 1 .. found
        BY <1>6, <2>3 DEF Verify
    <2> QED
        BY <1>1, <2>1, <2>2, <2>4 DEF WorkOK
<1>7. CASE ExecGo
    BY <1>1, <1>7 DEF ExecGo, WorkOK
<1>8. CASE UNCHANGED work
    BY <1>1, <1>8 DEF work, WorkOK
<1> QED
    BY <1>2, <1>3, <1>4, <1>5, <1>6, <1>7, <1>8, WorkElsewhere DEF WorkStep

LEMMA StepType ==
    ASSUME TypeOK, IdleBefore, [Next]_vars
    PROVE  TypeOK'
<1>1. InputOK'
    BY InputFixed DEF TypeOK, InputOK
<1>2. ReadingOK' /\ WorkOK' /\ ControlOK'
    BY StepReading, StepWork, StepControl DEF TypeOK
<1> QED
    BY <1>1, <1>2 DEF TypeOK

\* For all arguments, states stay within their types and the packages found are
\* arguments (fzgoMain, main.go:68-235; ParseArgs, flag.go:94-146).
THEOREM TypeCorrect == Spec => []TypeOK
<1>1. Init => TypeOK /\ IdleBefore
    BY InitType DEF Init, IdleBefore, Idle
<1>2. TypeOK /\ IdleBefore /\ [Next]_vars => (TypeOK /\ IdleBefore)'
    BY StepType, StepIdle
<1> QED
    BY <1>1, <1>2, PTL DEF Spec

-----------------------------------------------------------------------------
(* What has been done at each point of fzgoMain. *)

\* On the way to fuzzing.
FuzzingInv ==
    pc \in {"instrument", "fuzz"} =>
        /\ cmd = "test" /\ ~VerifyOnly /\ set["timeout"] # "0.5s"
        /\ found # 0 /\ searched # <<>>
        /\ verified = 0 /\ failed = {} /\ went = "no"
        /\ pc = "instrument" => fuzzed = {} /\ turn = 1
        /\ pc = "fuzz" => built = found /\ set["c"] = "false" /\ 1 .. turn - 1 \subseteq fuzzed

\* On the way to verifying, and behind it.
VerifyingInv ==
    pc \in {"rescan", "search", "verify", "go"} =>
        /\ built = 0 /\ fuzzed = {} /\ went = "no"
        /\ pc # "go" => cmd = "test" /\ VerifyOnly
        /\ pc = "verify" => found # 0
        /\ pc = "go" /\ cmd = "test" =>
               set["fuzz"] = "" /\ found # 0 /\ verified = found /\ failed = {}
        /\ pc = "go" /\ cmd # "test" => failed = {}

ControlInv ==
    /\ status # "none" <=> pc = "exited"
    /\ pc \in {"scan", "parse", "parsed", "decide"} => cmd = "test"
    /\ FuzzingInv
    /\ VerifyingInv

DoneInv == ControlInv /\ ArgErrDoesNothing /\ InstrumentedFirst /\ SuccessIsEarned

LEMMA InitDone == Init => DoneInv
BY DEF Init, DoneInv, ControlInv, FuzzingInv, VerifyingInv, ArgErrDoesNothing, InstrumentedFirst,
   SuccessIsEarned, Success, ArgErr

\* The targets before a turn.
LEMMA Turns ==
    /\ 1 .. 1 - 1 = {}
    /\ \A n \in Nat : \A m \in 1 .. n : m # 0
    /\ \A n \in Nat, t \in Nat : 1 .. t \subseteq (1 .. t - 1) \cup {t}
    /\ \A n \in Nat : \A t \in 1 .. n + 1 : t > n => 1 .. t - 1 = 1 .. n
<1>1. 1 .. 1 - 1 = {}
    OBVIOUS
<1>2. \A n \in Nat : \A m \in 1 .. n : m # 0
    OBVIOUS
<1>3. \A n \in Nat, t \in Nat : 1 .. t \subseteq (1 .. t - 1) \cup {t}
    OBVIOUS
<1>4. \A n \in Nat : \A t \in 1 .. n + 1 : t > n => 1 .. t - 1 = 1 .. n
    <2> TAKE n \in Nat
    <2> TAKE t \in 1 .. n + 1
    <2> HAVE t > n
    <2>1. t - 1 = n
        OBVIOUS
    <2> QED
        BY <2>1
<1> QED
    BY <1>1, <1>2, <1>3, <1>4

LEMMA StepDone ==
    ASSUME TypeOK, IdleBefore, DoneInv, [Next]_vars PROVE DoneInv'
<1>0. MaxFunctions \in Nat /\ WorkOK
    BY ConstantsAssumption DEF TypeOK
<1>1. /\ found \in Nat /\ built \in 0 .. found /\ turn \in 1 .. found + 1
      /\ fuzzed \subseteq 1 .. found /\ verified \in 0 .. found
    BY <1>0 DEF WorkOK
<1>18. 1 .. turn \subseteq (1 .. turn - 1) \cup {turn}
    <2>1. turn \in Nat
        BY <1>1
    <2> QED
        BY <2>1, Turns
<1>19. 1 .. (turn + 1) - 1 = 1 .. turn
    BY <1>1
<1>2. cmd' = cmd
    BY InputFixed
<1> USE DEF DoneInv, ControlInv, ArgErrDoesNothing, InstrumentedFirst, SuccessIsEarned, VerifyOnly,
        Exit, Go, Success, OtherErr, ArgErr, IdleBefore, Idle
<1>3. CASE Help \/ OtherCommand \/ NothingToParse \/ RefuseFlag \/ StartParse
    BY <1>2, <1>3 DEF Help, OtherCommand, NothingToParse, RefuseFlag, StartParse,
       ParseReturns, reading, work, FuzzingInv, VerifyingInv
<1>4. CASE ScanFlag \/ NoPackages \/ FoundPackages
    BY <1>2, <1>4 DEF ScanFlag, NoPackages, FoundPackages, Scanning, AfterScan, work,
       FuzzingInv, VerifyingInv
<1>5. CASE ParseFlag \/ ParseHelp \/ ParseFails \/ ArgumentLeft \/ ParseEnds \/ Parsed
    BY <1>2, <1>5 DEF ParseFlag, ParseHelp, ParseFails, ArgumentLeft, ParseEnds, Parsed, Parsing,
       ParseReturns, reading, work, FuzzingInv, VerifyingInv
<1>6. CASE ToVerify \/ TimeoutTooShort
    BY <1>2, <1>6 DEF ToVerify, TimeoutTooShort, reading, work, FuzzingInv, VerifyingInv
<1>7. CASE FindTargets
    <2>1. searched' # <<>>
        BY <1>7, PackagesAreTexts DEF FindTargets
    <2>3. pc' = "exited" \/ found' \in 1 .. MaxFunctions
        BY <1>7 DEF FindTargets
    <2>2. pc' = "instrument" => found' # 0
        BY <1>0, <2>3, Turns
    <2> QED
        BY <1>2, <1>7, <2>1, <2>2 DEF FindTargets, reading, FuzzingInv, VerifyingInv
<1>8. CASE Instrument \/ InstrumentFails \/ CompileOnly
    BY <1>2, <1>8 DEF Instrument, InstrumentFails, CompileOnly, reading, work,
       FuzzingInv, VerifyingInv
<1>9. CASE StartFuzzing
    <2>2. turn' = 1
        BY <1>9 DEF StartFuzzing, FuzzingInv, work
    <2>1. 1 .. turn' - 1 \subseteq fuzzed'
        BY <2>2, Turns
    <2> QED
        BY <1>2, <1>9, <2>1 DEF StartFuzzing, reading, work, FuzzingInv, VerifyingInv
<1>14. CASE Fuzz \/ FuzzFails
    <2>1. CASE Fuzz
        <3>1. pc = "fuzz" /\ pc' = pc /\ UNCHANGED <<found, searched, built, verified, failed, went, status>>
            BY <2>1 DEF Fuzz
        <3>2. UNCHANGED <<cmd, set>>
            BY <1>2, <2>1 DEF Fuzz, reading
        <3>3. 1 .. turn - 1 \subseteq fuzzed /\ fuzzed' = fuzzed \cup {turn} /\ turn' = turn + 1
            BY <2>1, <3>1 DEF Fuzz, FuzzingInv
        <3>4. 1 .. turn' - 1 \subseteq fuzzed'
            <4>1. 1 .. turn' - 1 = 1 .. turn
                BY <1>19, <3>3
            <4>2. 1 .. turn \subseteq fuzzed'
                BY <1>18, <3>3, Zenon
            <4> QED
                BY <4>1, <4>2
        <3> QED
            BY <3>1, <3>2, <3>4 DEF FuzzingInv, VerifyingInv
    <2>2. CASE FuzzFails
        BY <1>2, <2>2 DEF FuzzFails, reading, FuzzingInv, VerifyingInv
    <2> QED
        BY <1>14, <2>1, <2>2
<1>15. CASE NextRound
    <2>1. 1 .. turn' - 1 \subseteq fuzzed'
        BY <1>15 DEF NextRound
    <2> QED
        BY <1>2, <1>15, <2>1 DEF NextRound, reading, FuzzingInv, VerifyingInv
<1>16. CASE EndFuzzing
    <2>2. turn > found /\ 1 .. turn - 1 \subseteq fuzzed
        BY <1>16 DEF EndFuzzing, FuzzingInv
    <2>1. fuzzed = 1 .. found
        BY <1>1, <2>2, Turns
    <2> QED
        BY <1>2, <1>16, <2>1 DEF EndFuzzing, reading, work, FuzzingInv, VerifyingInv
<1>10. CASE TooManyPackages
    BY <1>2, <1>10 DEF TooManyPackages, reading, work, FuzzingInv, VerifyingInv
<1>17. CASE FindVerified
    <2>1. pc' = "verify" => found' # 0
        BY <1>17 DEF FindVerified
    <2> QED
        BY <1>2, <1>17, <2>1 DEF FindVerified, reading, FuzzingInv, VerifyingInv
<1>11. CASE Verify \/ VerifyFails \/ EndVerify
    BY <1>1, <1>2, <1>11 DEF Verify, VerifyFails, EndVerify, reading, work, FuzzingInv, VerifyingInv
<1>12. CASE ExecGo
    BY <1>1, <1>2, <1>12 DEF ExecGo, reading, FuzzingInv, VerifyingInv
<1>13. CASE UNCHANGED vars
    BY <1>2, <1>13 DEF vars, reading, work, FuzzingInv, VerifyingInv
<1> QED
    BY <1>3, <1>4, <1>5, <1>6, <1>7, <1>8, <1>9, <1>10, <1>11, <1>12, <1>13,
       <1>14, <1>15, <1>16, <1>17 DEF Next

LEMMA AlwaysDone == Spec => [](TypeOK /\ IdleBefore /\ DoneInv)
<1>1. Init => TypeOK /\ IdleBefore /\ DoneInv
    BY InitType, InitDone DEF Init, IdleBefore, Idle
<1>2. TypeOK /\ IdleBefore /\ DoneInv /\ [Next]_vars => (TypeOK /\ IdleBefore /\ DoneInv)'
    BY StepType, StepIdle, StepDone
<1> QED
    BY <1>1, <1>2, PTL DEF Spec

\* For all arguments, fzgoMain returns ArgErr before anything else is done
\* (main.go:68-156, 246-262).
THEOREM WrongArgumentsDoNothing == Spec => []ArgErrDoesNothing
<1>1. DoneInv => ArgErrDoesNothing
    BY DEF DoneInv
<1> QED
    BY <1>1, AlwaysDone, PTL

\* However many functions are found, all are instrumented before the first is
\* fuzzed, and not with -c (main.go:150-235).
THEOREM FuzzesWhatIsInstrumented == Spec => []InstrumentedFirst
<1>1. DoneInv => InstrumentedFirst
    BY DEF DoneInv
<1> QED
    BY <1>1, AlwaysDone, PTL

\* A status of 0 means that everything asked for was done for every function,
\* and went well (main.go:68-330).
THEOREM SuccessMeansDone == Spec => []SuccessIsEarned
<1>1. DoneInv => SuccessIsEarned
    BY DEF DoneInv
<1> QED
    BY <1>1, AlwaysDone, PTL

-----------------------------------------------------------------------------
(* The refinements of Session.tla and Regression.tla. *)

\* Only fzgo test looks for functions.
TestsOnly == cmd # "test" => found = 0

LEMMA StepTestsOnly ==
    ASSUME DoneInv, TestsOnly, [Next]_vars PROVE TestsOnly'
<1>1. cmd' = cmd
    BY InputFixed
<1>2. CASE FindTargets \/ FindVerified
    <2>1. cmd = "test"
        BY <1>2 DEF FindTargets, FindVerified, DoneInv, ControlInv, VerifyingInv
    <2> QED
        BY <1>1, <2>1 DEF TestsOnly
<1>3. CASE ~(FindTargets \/ FindVerified)
    <2>1. found' = found
        BY <1>3, WorkElsewhere DEF work, WorkStep, Instrument, Fuzz, FuzzFails, NextRound, Verify, ExecGo
    <2> QED
        BY <1>1, <2>1 DEF TestsOnly
<1> QED
    BY <1>2, <1>3

LEMMA AlwaysParts == Spec => [](TypeOK /\ IdleBefore /\ DoneInv /\ TestsOnly)
<1>1. Init => TestsOnly
    BY DEF Init, TestsOnly
<1>2. DoneInv /\ TestsOnly /\ [Next]_vars => TestsOnly'
    BY StepTestsOnly
<1> QED
    BY <1>1, <1>2, AlwaysDone, PTL DEF Spec

\* The steps that a session consists of.
SessionStep == StartFuzzing \/ Fuzz \/ FuzzFails \/ NextRound \/ EndFuzzing

LEMMA OutsideSession ==
    ASSUME IdleBefore, DoneInv, Next, ~SessionStep
    PROVE  /\ pc # "fuzz" /\ pc' # "fuzz"
           /\ fuzzed = {} /\ fuzzed' = {} /\ turn' = turn
<1>1. /\ pc \notin {"fuzz", "exited"} /\ pc' # "fuzz"
      /\ turn' = turn /\ fuzzed' = fuzzed
    <2>1. turn' = turn /\ fuzzed' = fuzzed
        BY WorkElsewhere DEF work, WorkStep, SessionStep, FindTargets, Instrument, FindVerified,
           Verify, ExecGo
    <2>2. pc \notin {"fuzz", "exited"} /\ pc' # "fuzz"
        BY DEF SessionStep, Next, Help, OtherCommand, NothingToParse, RefuseFlag, StartParse,
           ScanFlag, NoPackages, FoundPackages, ParseFlag, ParseHelp, ParseFails, ArgumentLeft,
           ParseEnds, Parsed, ToVerify, TimeoutTooShort, FindTargets, Instrument, InstrumentFails,
           CompileOnly, TooManyPackages, FindVerified, Verify, VerifyFails, EndVerify, ExecGo,
           Exit, Go, AfterScan, Scanning, Parsing, ParseReturns
    <2> QED
        BY <2>1, <2>2
<1>2. pc \in {"main", "scan", "parse", "parsed", "decide", "rescan", "search", "verify",
              "instrument", "go"}
    BY <1>1 DEF Next, SessionStep, Help, OtherCommand, NothingToParse, RefuseFlag, StartParse,
       ScanFlag, NoPackages, FoundPackages, ParseFlag, ParseHelp, ParseFails, ArgumentLeft,
       ParseEnds, Parsed, ToVerify, TimeoutTooShort, FindTargets, Instrument, InstrumentFails,
       CompileOnly, TooManyPackages, FindVerified, Verify, VerifyFails, EndVerify, ExecGo,
       Scanning, Parsing
<1>3. fuzzed = {}
    BY <1>2 DEF IdleBefore, Idle, DoneInv, ControlInv, FuzzingInv, VerifyingInv
<1> QED
    BY <1>1, <1>3

LEMMA FuzzingStep ==
    ASSUME TypeOK, IdleBefore, DoneInv, [Next]_vars
    PROVE  [Fuzzing!Next]_(Fuzzing!vars)
<1>0. /\ MaxFunctions \in Nat /\ found \in 0 .. MaxFunctions
      /\ turn \in Nat /\ 1 <= turn /\ turn <= found + 1
    <2>1. MaxFunctions \in Nat /\ found \in 0 .. MaxFunctions /\ turn \in 1 .. found + 1
        BY ConstantsAssumption DEF TypeOK, WorkOK
    <2> QED
        BY <2>1
<1>1. CASE UNCHANGED vars
    BY <1>1 DEF vars, reading, work, Fuzzing!vars, Fuzzes
<1>2. CASE Next /\ ~SessionStep
    BY <1>2, OutsideSession DEF Fuzzing!vars, Fuzzes
<1>3. ASSUME Next, SessionStep PROVE UNCHANGED found /\ UNCHANGED set
    BY <1>3 DEF SessionStep, StartFuzzing, Fuzz, FuzzFails, NextRound, EndFuzzing, work, reading
<1>4. CASE StartFuzzing
    <2>1. /\ pc = "instrument" /\ pc' = "fuzz" /\ fuzzed = {} /\ found # 0
          /\ turn = 1 /\ turn' = 1 /\ fuzzed' = {}
        BY <1>4 DEF StartFuzzing, Go, work, DoneInv, ControlInv, FuzzingInv
    <2>2. found' = found
        BY <1>4 DEF StartFuzzing, work
    <2>3. found' \in 1 .. MaxFunctions
        BY <1>0, <2>1, <2>2
    <2> QED
        BY <2>1, <2>3 DEF Fuzzing!Next, Fuzzing!Begin, Fuzzes
<1>5. ASSUME Fuzz \/ FuzzFails \/ NextRound \/ EndFuzzing
      PROVE  /\ pc = "fuzz" /\ status = "none" /\ found # 0
             /\ found' = found /\ set' = set /\ Fuzzes /\ Fuzzes'
             /\ 1 .. turn - 1 \subseteq fuzzed
    <2>1. pc = "fuzz" /\ found' = found /\ set' = set
        BY <1>5 DEF Fuzz, FuzzFails, NextRound, EndFuzzing, work, reading
    <2>2. status = "none" /\ found # 0 /\ 1 .. turn - 1 \subseteq fuzzed
        BY <2>1 DEF DoneInv, ControlInv, FuzzingInv
    <2>3. turn > found => fuzzed # {}
        <3>1. turn > found => 1 \in 1 .. turn - 1
            BY <1>0, <2>2
        <3> QED
            BY <2>2, <3>1
    <2>4. pc' = "fuzz" \/ fuzzed' # {}
        BY <1>5, <2>1, <2>3 DEF Fuzz, FuzzFails, NextRound, EndFuzzing, work
    <2> QED
        BY <2>1, <2>2, <2>4 DEF Fuzzes
<1>6. CASE Fuzz
    <2>1. turn <= found /\ turn' = turn + 1 /\ status' = status /\ fuzzed' # {}
        BY <1>6 DEF Fuzz
    <2>2. turn - 1 < found /\ turn' - 1 = (turn - 1) + 1
        BY <1>0, <2>1
    <2> QED
        BY <1>5, <1>6, <2>1, <2>2 DEF Fuzzing!Next, Fuzzing!Turn, Fuzzing!Running
<1>7. CASE FuzzFails
    <2>1. turn <= found /\ turn' = turn /\ status' = "OtherErr" /\ fuzzed' # {}
        BY <1>7 DEF FuzzFails, Exit, OtherErr
    <2>2. turn - 1 < found
        BY <1>0, <2>1
    <2> QED
        BY <1>5, <1>7, <2>1, <2>2 DEF Fuzzing!Next, Fuzzing!TurnFails, Fuzzing!Running
<1>8. CASE NextRound
    <2>1. /\ turn > found /\ turn' = 1 /\ status' = status /\ fuzzed' = fuzzed
          /\ set["fuzztime"] = "0s"
        BY <1>8 DEF NextRound
    <2>2. turn - 1 = found /\ turn' - 1 = 0
        BY <1>0, <2>1
    <2> QED
        BY <1>5, <1>8, <2>1, <2>2 DEF Fuzzing!Next, Fuzzing!NextRound, Fuzzing!Running
<1>9. CASE EndFuzzing
    <2>1. /\ turn > found /\ turn' = turn /\ status' = "Success" /\ fuzzed' = fuzzed
          /\ set["fuzztime"] # "0s" /\ pc' = "exited"
        BY <1>9 DEF EndFuzzing, Exit, Success, work
    <2>2. turn - 1 = found
        BY <1>0, <2>1
    <2>3. fuzzed' # {}
        BY <1>5, <1>9, <2>1 DEF Fuzzes
    <2> QED
        BY <1>5, <1>9, <2>1, <2>2, <2>3 DEF Fuzzing!Next, Fuzzing!End, Fuzzing!Running
<1> QED
    BY <1>1, <1>2, <1>4, <1>6, <1>7, <1>8, <1>9 DEF SessionStep

\* The steps that a regression test consists of.
TestStep == FindVerified \/ Verify \/ VerifyFails \/ EndVerify \/ ExecGo

\* What the rest of a run does, a regression test does not see.
LEMMA OutsideTest ==
    ASSUME TypeOK, IdleBefore, DoneInv, Next, ~TestStep
    PROVE  /\ verified' = verified /\ failed' = failed
           /\ ~Verifies /\ ~Verifies' /\ verified = 0 /\ failed = {}
<1>1. verified' = verified /\ failed' = failed
    BY WorkElsewhere DEF work, WorkStep, TestStep, FindTargets, Instrument, Fuzz, FuzzFails, NextRound
<1>2. CASE pc \in {"main", "scan", "parse", "parsed", "decide", "rescan", "search"}
    <2>1. found = 0 /\ verified = 0 /\ failed = {}
        BY <1>2 DEF IdleBefore, Idle
    <2>2. CASE FindTargets
        <3>1. ~VerifyOnly /\ set' = set
            BY <2>2 DEF FindTargets, reading
        <3> QED
            BY <1>1, <2>1, <3>1 DEF Verifies, VerifyOnly
    <2>3. CASE ~FindTargets
        <3>1. found' = found
            BY <2>3, WorkElsewhere DEF work, WorkStep, TestStep, Instrument, Fuzz, FuzzFails, NextRound
        <3> QED
            BY <1>1, <2>1, <3>1 DEF Verifies
    <2> QED
        BY <2>2, <2>3
<1>3. CASE pc \in {"instrument", "fuzz"}
    <2>1. ~VerifyOnly /\ verified = 0 /\ failed = {}
        BY <1>3 DEF DoneInv, ControlInv, FuzzingInv
    <2>2. set' = set
        BY <1>3, ReadingElsewhere DEF reading, ReadingStep, ScanFlag, NoPackages, FoundPackages,
           Scanning, ParseFlag, Parsing, ToVerify, RefuseFlag, ParseHelp, ParseFails, ArgumentLeft,
           ParseEnds
    <2> QED
        BY <1>1, <2>1, <2>2 DEF Verifies, VerifyOnly
<1>4. pc \in {"main", "scan", "parse", "parsed", "decide", "rescan", "search", "instrument", "fuzz"}
    BY DEF Next, TestStep, Help, OtherCommand, NothingToParse, RefuseFlag, StartParse, ScanFlag,
       NoPackages, FoundPackages, ParseFlag, ParseHelp, ParseFails, ArgumentLeft, ParseEnds, Parsed,
       ToVerify, TimeoutTooShort, FindTargets, Instrument, InstrumentFails, CompileOnly, StartFuzzing,
       Fuzz, FuzzFails, NextRound, EndFuzzing, TooManyPackages, Scanning, Parsing
<1> QED
    BY <1>2, <1>3, <1>4

LEMMA VerifyingStep ==
    ASSUME TypeOK, IdleBefore, DoneInv, TestsOnly, [Next]_vars
    PROVE  [Verifying!Next]_(Verifying!vars)
<1>0. MaxFunctions \in Nat /\ verified \in Nat /\ found \in Nat /\ verified <= found
    <2>1. MaxFunctions \in Nat /\ found \in 0 .. MaxFunctions /\ verified \in 0 .. found
        BY ConstantsAssumption DEF TypeOK, WorkOK
    <2> QED
        BY <2>1
<1>1. CASE UNCHANGED vars
    BY <1>1 DEF vars, reading, work, Verifying!vars, Verifies, VerifyOnly
<1>2. CASE Next /\ ~TestStep
    BY <1>2, OutsideTest DEF Verifying!vars
<1>3. ASSUME TestStep PROVE set' = set /\ (pc = "search" \/ found' = found)
    BY <1>3 DEF TestStep, FindVerified, Verify, VerifyFails, EndVerify, ExecGo, reading, work
<1>4. ASSUME TestStep PROVE pc # "exited" /\ status = "none"
    BY <1>4 DEF TestStep, FindVerified, Verify, VerifyFails, EndVerify, ExecGo, DoneInv, ControlInv
<1>5. CASE FindVerified
    <2>1. /\ VerifyOnly /\ found = 0 /\ verified = 0 /\ failed = {}
          /\ verified' = 0 /\ failed' = {}
        BY <1>5 DEF FindVerified, DoneInv, ControlInv, VerifyingInv, IdleBefore, Idle
    <2>2. VerifyOnly'
        BY <1>3, <1>5, <2>1 DEF TestStep, VerifyOnly
    <2>3. CASE found' = found
        BY <2>1, <2>3 DEF Verifying!vars, Verifies
    <2>4. CASE found' \in 1 .. MaxFunctions /\ status' = status
        <3>1. found' # 0
            BY <1>0, <2>4
        <3> QED
            BY <1>4, <1>5, <2>1, <2>2, <2>4, <3>1
               DEF TestStep, Verifying!Next, Verifying!Found, Verifies
    <2> QED
        BY <1>5, <2>3, <2>4 DEF FindVerified, Go
<1>6. ASSUME Verify \/ VerifyFails \/ EndVerify PROVE Verifies /\ Verifies'
    <2>1. VerifyOnly /\ found # 0 /\ found' = found /\ set' = set
        BY <1>6 DEF Verify, VerifyFails, EndVerify, DoneInv, ControlInv, VerifyingInv, reading, work
    <2> QED
        BY <2>1 DEF Verifies, VerifyOnly
<1>7. CASE Verify
    <2>1. /\ verified < found /\ verified' = verified + 1 /\ found' = found /\ status' = status
          /\ failed' \in {failed, failed \cup {verified'}}
        BY <1>7 DEF Verify
    <2>2. set' = set /\ status = "none"
        BY <1>3, <1>4, <1>7 DEF TestStep
    <2>3. failed # {} => failed' # {}
        BY <2>1
    <2> QED
        BY <1>6, <1>7, <2>1, <2>2, <2>3
           DEF Verifying!Next, Verifying!Verified, Verifying!Running, Verifies, OtherErr, Success
<1>8. CASE VerifyFails
    <2>1. verified < found /\ verified' = verified /\ found' = found /\ status' = "OtherErr"
        BY <1>8 DEF VerifyFails, Exit, OtherErr, work
    <2>2. set' = set /\ status = "none"
        BY <1>3, <1>4, <1>8 DEF TestStep
    <2> QED
        BY <1>6, <1>8, <2>1, <2>2 DEF Verifying!Next, Verifying!Trouble, Verifies
<1>9. CASE EndVerify
    <2>1. verified = found /\ verified' = verified /\ found' = found /\ failed' = failed
        BY <1>9 DEF EndVerify, work
    <2>2. set' = set /\ status = "none"
        BY <1>3, <1>4, <1>9 DEF TestStep
    <2>3. \/ failed # {} /\ status' = OtherErr
          \/ failed = {} /\ status' = Success
          \/ status' = status
        BY <1>9 DEF EndVerify, Go, Exit
    <2>4. CASE status' = status
        BY <1>6, <1>9, <2>1, <2>2, <2>4 DEF Verifying!vars
    <2>5. CASE \/ failed # {} /\ status' = OtherErr
               \/ failed = {} /\ status' = Success
        BY <1>6, <1>9, <2>1, <2>2, <2>5
           DEF Verifying!Next, Verifying!End, Verifying!Running, Verifies, OtherErr, Success
    <2> QED
        BY <2>3, <2>4, <2>5
<1>10. CASE ExecGo
    <2>1. /\ found' = found /\ verified' = verified /\ failed' = failed
          /\ status' \in {Success, OtherErr}
        BY <1>10 DEF ExecGo, Exit
    <2>2. set' = set /\ status = "none"
        BY <1>3, <1>4, <1>10 DEF TestStep
    <2>3. failed = {}
        BY <1>10 DEF ExecGo, DoneInv, ControlInv, VerifyingInv
    <2>4. CASE cmd = "test"
        <3>1. set["fuzz"] = "" /\ found # 0 /\ verified = found
            BY <1>10, <2>4 DEF ExecGo, DoneInv, ControlInv, VerifyingInv
        <3>2. Verifies /\ Verifies'
            BY <2>1, <2>2, <3>1 DEF Verifies, VerifyOnly
        <3> QED
            BY <2>1, <2>2, <2>3, <3>1, <3>2
               DEF Verifying!Next, Verifying!End, Verifying!Running, OtherErr, Success
    <2>5. CASE cmd # "test"
        BY <2>1, <2>3, <2>5 DEF TestsOnly, Verifies, Verifying!vars
    <2> QED
        BY <2>4, <2>5
<1> QED
    BY <1>1, <1>2, <1>5, <1>7, <1>8, <1>9, <1>10 DEF TestStep

\* For all arguments, a run of fzgo is a session as FuzzLoop implements it, a
\* regression test as VerifyCorpus does, or neither, and no step of reading the
\* arguments, building or running go disturbs them (main.go:68-336).
THEOREM ImplementsParts == Spec => KeepsParts
<1>1. Init => Fuzzing!Init /\ Verifying!Init
    <2>1. ASSUME Init PROVE Fuzzing!Init
        <3>1. pc = "main" /\ fuzzed = {} /\ turn = 1 /\ MaxFunctions \in Nat
            BY <2>1, ConstantsAssumption DEF Init
        <3>2. 0 \in 0 .. MaxFunctions /\ turn - 1 = 0
            BY <3>1
        <3> QED
            BY <3>1, <3>2 DEF Fuzzing!Init, Fuzzes
    <2>2. ASSUME Init PROVE Verifying!Init
        <3>1. found = 0 /\ verified = 0 /\ failed = {} /\ MaxFunctions \in Nat
            BY <2>2, ConstantsAssumption DEF Init
        <3>2. 0 \in 0 .. MaxFunctions
            BY <3>1
        <3> QED
            BY <3>1, <3>2 DEF Verifying!Init, Verifies, Success
    <2> QED
        BY <2>1, <2>2
<1>2. TypeOK /\ IdleBefore /\ DoneInv /\ TestsOnly /\ [Next]_vars =>
          /\ [Fuzzing!Next]_(Fuzzing!vars)
          /\ [Verifying!Next]_(Verifying!vars)
    BY FuzzingStep, VerifyingStep
<1> QED
    BY <1>1, <1>2, AlwaysParts, PTL DEF Spec, KeepsParts, Fuzzing!Spec, Verifying!Spec

-----------------------------------------------------------------------------
(* The two scans of the arguments.  r is how they are meant; what FindPkgs   *)
(* does is right as long as all flags it has passed are flags of fzgo, and   *)
(* the flag package refuses any other.                                       *)

KnownUpTo(r, n) == \A k \in 1 .. Len(args) : k < n /\ r[k] = "flag" => Known(args[k])

\* FindPkgs at argument n.
ScanAt(r, n) ==
    KnownUpTo(r, n) =>
        /\ n <= Len(args) => r[n] # "value"
        /\ \A k \in 1 .. Len(args) : k < n => r[k] # "word"

\* FindPkgs has found the packages from p up to q.
PackagesAt(r, p, q) ==
    /\ p < q /\ KnownUpTo(r, p) =>
           /\ \A k \in 1 .. Len(args) : k < p => r[k] # "word"
           /\ \A k \in 1 .. Len(args) : p <= k /\ k < q => r[k] = "word"
           /\ q <= Len(args) => r[q] = "flag"
    /\ p = q /\ KnownUpTo(r, Len(args) + 1) =>
           \A k \in 1 .. Len(args) : r[k] # "word"

\* v is what the last of the flags f before argument n says.
MeantUpTo(r, f, v, n) ==
    \/ v = DefaultOf(f) /\ \A k \in GivenAt(r, f) : k >= n
    \/ \E k \in GivenAt(r, f) :
         /\ k < n /\ v = ValueAt(args, k)
         /\ \A j \in GivenAt(r, f) : j < n => j <= k

\* The flag package has come to argument n, with s as the values of the flags.
ParseAt(r, n, s) ==
    /\ KnownUpTo(r, n)
    /\ n <= Len(args) => r[n] # "value"
    /\ \A k \in 1 .. Len(args) : k < n /\ (k < first \/ next <= k) => r[k] # "word"
    /\ \A f \in Flags : MeantUpTo(r, f, s[f], n)

\* Where the n-th of the arguments without packages stands.
Place(n) == IF n < first THEN n ELSE n + (next - first)

LEMMA KnownFlag ==
    ASSUME NEW a \in Args, Known(a), a.name \in BoolFlags => ~a.test
    PROVE  IsFlag(a) /\ ~IsArgs(a) /\ (SkipsNext(a) <=> TakesValue(a)) /\ (TakesNext(a) <=> TakesValue(a))
BY DEF Args, Known, IsFlag, IsArgs, SkipsNext, TakesValue, TakesNext, Flags, BoolFlags, DurationFlags,
   SupportedBools

LEMMA ReadingOf ==
    ASSUME NEW r \in Readings, NEW k \in 1 .. Len(args)
    PROVE  /\ r[k] \in {"flag", "value", "word"}
           /\ r[k] = "flag" => IsFlag(args[k])
           /\ r[k] = "word" => ~IsFlag(args[k])
           /\ r[k] = "value" <=> k > 1 /\ r[k - 1] = "flag" /\ TakesValue(args[k - 1])
<1>1. r[k] = IF k > 1 /\ r[k - 1] = "flag" /\ TakesValue(args[k - 1]) THEN "value"
             ELSE IF IsFlag(args[k]) THEN "flag" ELSE "word"
    BY DEF Readings
<1> QED
    BY <1>1

LEMMA ScanFlagReads ==
    ASSUME TypeOK, ShortBools, NEW r \in Readings, NEW n \in 1 .. Len(args),
           ScanAt(r, n), IsFlag(args[n])
    PROVE  ScanAt(r, IF SkipsNext(args[n]) THEN n + 2 ELSE n + 1)
<1> DEFINE m == IF SkipsNext(args[n]) THEN n + 2 ELSE n + 1
<1>0. Len(args) \in Nat /\ args[n] \in Args /\ n \in Nat
    BY Numbers
<1>1. SUFFICES ASSUME KnownUpTo(r, m)
               PROVE  /\ m <= Len(args) => r[m] # "value"
                      /\ \A k \in 1 .. Len(args) : k < m => r[k] # "word"
    BY DEF ScanAt
<1>2. m \in {n + 1, n + 2}
    OBVIOUS
<1>3. KnownUpTo(r, n) /\ r[n] = "flag" => Known(args[n])
    BY <1>0, <1>1, <1>2 DEF KnownUpTo
<1>4. /\ n <= Len(args) => r[n] # "value"
      /\ \A k \in 1 .. Len(args) : k < n => r[k] # "word"
    <2>1. KnownUpTo(r, n)
        BY <1>0, <1>1, <1>2 DEF KnownUpTo
    <2> QED
        BY <2>1 DEF ScanAt
<1>5. r[n] = "flag"
    BY <1>0, <1>4, ReadingOf
<1>6. SkipsNext(args[n]) <=> TakesValue(args[n])
    <2>1. Known(args[n])
        BY <1>3, <1>5, <1>0, <1>1, <1>2 DEF KnownUpTo
    <2> QED
        BY <1>0, <2>1, KnownFlag DEF ShortBools
<1>7. CASE SkipsNext(args[n])
    <2>1. n + 1 \in 1 .. Len(args) => r[n + 1] = "value"
        BY <1>0, <1>5, <1>6, <1>7, ReadingOf
    <2>2. n + 2 \in 1 .. Len(args) => r[n + 2] # "value"
        BY <1>0, <2>1, ReadingOf
    <2>3. m = n + 2
        BY <1>7
    <2>4. \A k \in 1 .. Len(args) : k < n + 2 => k < n \/ k = n \/ k = n + 1
        BY <1>0
    <2>5. \A k \in 1 .. Len(args) : k < n + 2 => r[k] # "word"
        BY <1>4, <1>5, <2>1, <2>4
    <2>6. n + 2 <= Len(args) => n + 2 \in 1 .. Len(args)
        BY <1>0
    <2> QED
        BY <2>2, <2>3, <2>5, <2>6
<1>8. CASE ~SkipsNext(args[n])
    <2>1. n + 1 \in 1 .. Len(args) => r[n + 1] # "value"
        BY <1>0, <1>6, <1>8, ReadingOf
    <2>2. m = n + 1
        BY <1>8
    <2>3. \A k \in 1 .. Len(args) : k < n + 1 => k < n \/ k = n
        BY <1>0
    <2>4. n + 1 <= Len(args) => n + 1 \in 1 .. Len(args)
        BY <1>0
    <2> QED
        BY <1>4, <1>5, <2>1, <2>2, <2>3, <2>4
<1> QED
    BY <1>7, <1>8

\* FindPkgs ends without packages.
LEMMA NoPackagesReads ==
    ASSUME TypeOK, ShortBools, NEW r \in Readings, ScanAt(r, i),
           i <= Len(args) => IsArgs(args[i]) /\ IsFlag(args[i])
    PROVE  PackagesAt(r, 1, 1)
<1>0. Len(args) \in Nat /\ i \in Nat /\ 1 <= i
    BY Numbers
<1>1. SUFFICES ASSUME KnownUpTo(r, Len(args) + 1)
               PROVE  \A k \in 1 .. Len(args) : r[k] # "word"
    BY DEF PackagesAt
<1>2. KnownUpTo(r, i)
    BY <1>0, <1>1 DEF KnownUpTo
<1>3. i > Len(args)
    <2>1. SUFFICES ASSUME i <= Len(args) PROVE FALSE
        BY <1>0
    <2>2. i \in 1 .. Len(args)
        BY <1>0, <2>1
    <2>3. r[i] = "flag"
        BY <1>2, <2>1, <2>2, ReadingOf DEF ScanAt
    <2>4. Known(args[i])
        BY <1>0, <1>1, <2>2, <2>3 DEF KnownUpTo
    <2> QED
        BY <2>1, <2>4 DEF Known, IsArgs, Flags, BoolFlags, DurationFlags
<1> QED
    BY <1>0, <1>2, <1>3 DEF ScanAt

\* FindPkgs finds packages.
LEMMA FoundPackagesReads ==
    ASSUME TypeOK, ShortBools, NEW r \in Readings, ScanAt(r, i), i <= Len(args),
           NEW q \in i + 1 .. Len(args) + 1,
           \A k \in i .. q - 1 : ~IsFlag(args[k]),
           q <= Len(args) => IsFlag(args[q])
    PROVE  PackagesAt(r, i, q)
<1>0. Len(args) \in Nat /\ i \in Nat /\ 1 <= i /\ q \in Nat /\ i < q /\ q <= Len(args) + 1
    BY Numbers
<1>1. SUFFICES ASSUME KnownUpTo(r, i)
               PROVE  /\ \A k \in 1 .. Len(args) : k < i => r[k] # "word"
                      /\ \A k \in 1 .. Len(args) : i <= k /\ k < q => r[k] = "word"
                      /\ q <= Len(args) => r[q] = "flag"
    BY <1>0 DEF PackagesAt
<1>2. /\ r[i] # "value"
      /\ \A k \in 1 .. Len(args) : k < i => r[k] # "word"
    BY <1>1 DEF ScanAt
<1>3. \A k \in 1 .. Len(args) : i <= k /\ k < q => ~IsFlag(args[k])
    BY <1>0
<1>4. \A k \in 1 .. Len(args) : i < k /\ k <= q => r[k] # "value"
    <2> TAKE k \in 1 .. Len(args)
    <2> HAVE i < k /\ k <= q
    <2>1. k - 1 \in 1 .. Len(args) /\ i <= k - 1 /\ k - 1 < q
        BY <1>0
    <2>2. r[k - 1] # "flag"
        BY <1>3, <2>1, ReadingOf
    <2> QED
        BY <2>2, ReadingOf
<1>5. \A k \in 1 .. Len(args) : i <= k /\ k < q => r[k] = "word"
    <2> TAKE k \in 1 .. Len(args)
    <2> HAVE i <= k /\ k < q
    <2>1. k = i \/ i < k
        BY <1>0
    <2>2. r[k] # "value"
        BY <1>0, <1>2, <1>4, <2>1
    <2> QED
        BY <1>3, <2>2, ReadingOf
<1>6. q <= Len(args) => r[q] = "flag"
    <2> HAVE q <= Len(args)
    <2>1. q \in 1 .. Len(args) /\ i < q
        BY <1>0
    <2>2. r[q] # "value"
        BY <1>0, <1>4, <2>1
    <2> QED
        BY <2>1, <2>2, ReadingOf
<1> QED
    BY <1>2, <1>5, <1>6

LEMMA PlaceOfRest ==
    ASSUME TypeOK, NEW n \in 1 .. Len(Rest)
    PROVE  Place(n) \in 1 .. Len(args) /\ Rest[n] = args[Place(n)]
<1>0. /\ Len(args) \in Nat /\ first \in Nat /\ next \in Nat
      /\ 1 <= first /\ first <= next /\ next <= Len(args) + 1
      /\ Len(Rest) = Len(args) - (next - first)
    BY Numbers, RestIsList
<1>1. Place(n) \in 1 .. Len(args)
    BY <1>0 DEF Place
<1>2. n \in 1 .. Len(args) - (next - first)
    BY <1>0
<1>3. Rest[n] = args[Place(n)]
    BY <1>2 DEF Place, Rest
<1> QED
    BY <1>1, <1>3

LEMMA MeantFurther ==
    ASSUME NEW r, NEW f, NEW v, NEW n \in Nat, NEW m \in Nat, n <= m,
           MeantUpTo(r, f, v, n), Len(args) \in Nat,
           \A k \in GivenAt(r, f) : ~(n <= k /\ k < m)
    PROVE  MeantUpTo(r, f, v, m)
<1>1. GivenAt(r, f) \subseteq Nat
    BY DEF GivenAt
<1>2. CASE v = DefaultOf(f) /\ \A k \in GivenAt(r, f) : k >= n
    <2>1. \A k \in GivenAt(r, f) : k >= m
        BY <1>1, <1>2
    <2> QED
        BY <1>2, <2>1 DEF MeantUpTo
<1>3. CASE \E k \in GivenAt(r, f) :
             /\ k < n /\ v = ValueAt(args, k)
             /\ \A j \in GivenAt(r, f) : j < n => j <= k
    <2>1. PICK k \in GivenAt(r, f) :
             /\ k < n /\ v = ValueAt(args, k)
             /\ \A j \in GivenAt(r, f) : j < n => j <= k
        BY <1>3
    <2>2. k < m
        BY <1>1, <2>1
    <2>3. \A j \in GivenAt(r, f) : j < m => j < n
        BY <1>1
    <2> QED
        BY <2>1, <2>2, <2>3 DEF MeantUpTo
<1> QED
    BY <1>2, <1>3 DEF MeantUpTo

\* Passing over the packages changes nothing.
LEMMA PassPackages ==
    ASSUME TypeOK, NEW r \in Readings, NEW s, PackagesAt(r, first, next),
           first < next, ParseAt(r, first, s)
    PROVE  ParseAt(r, next, s)
<1>0. /\ Len(args) \in Nat /\ first \in Nat /\ next \in Nat
      /\ 1 <= first /\ first <= next /\ next <= Len(args) + 1
    BY Numbers
<1>1. KnownUpTo(r, first)
    BY DEF ParseAt
<1>2. /\ \A k \in 1 .. Len(args) : first <= k /\ k < next => r[k] = "word"
      /\ next <= Len(args) => r[next] = "flag"
    BY <1>1 DEF PackagesAt
<1>3. \A k \in 1 .. Len(args) : k < next => k < first \/ r[k] = "word"
    BY <1>0, <1>2
<1>4. KnownUpTo(r, next)
    BY <1>1, <1>3 DEF KnownUpTo
<1>5. \A k \in 1 .. Len(args) : k < next /\ (k < first \/ next <= k) => r[k] # "word"
    BY <1>0 DEF ParseAt
<1>6. ASSUME NEW f \in Flags PROVE MeantUpTo(r, f, s[f], next)
    <2>1. MeantUpTo(r, f, s[f], first)
        BY DEF ParseAt
    <2>2. \A k \in GivenAt(r, f) : ~(first <= k /\ k < next)
        BY <1>2 DEF GivenAt
    <2> QED
        BY <1>0, <2>1, <2>2, MeantFurther
<1> QED
    BY <1>2, <1>4, <1>5, <1>6 DEF ParseAt

LEMMA ParseStarts ==
    ASSUME TypeOK, NEW r \in Readings, PackagesAt(r, first, next),
           NEW s, s = [f \in Flags |-> DefaultOf(f)]
    PROVE  ParseAt(r, Place(1), s)
<1>0. /\ Len(args) \in Nat /\ first \in Nat /\ next \in Nat
      /\ 1 <= first /\ first <= next /\ next <= Len(args) + 1
    BY Numbers
<1>1. ParseAt(r, 1, s)
    <2>1. \A k \in 1 .. Len(args) : ~(k < 1)
        OBVIOUS
    <2>2. 1 <= Len(args) => r[1] # "value"
        <3>1. 1 <= Len(args) => 1 \in 1 .. Len(args)
            BY <1>0
        <3> QED
            BY <3>1, ReadingOf
    <2>3. ASSUME NEW f \in Flags PROVE MeantUpTo(r, f, s[f], 1)
        <3>1. \A k \in GivenAt(r, f) : k >= 1
            BY <1>0 DEF GivenAt
        <3> QED
            BY <3>1 DEF MeantUpTo
    <2> QED
        BY <2>1, <2>2, <2>3 DEF ParseAt, KnownUpTo
<1>2. CASE 1 < first \/ first = next
    <2>1. Place(1) = 1
        BY <1>0, <1>2 DEF Place
    <2> QED
        BY <1>1, <2>1
<1>3. CASE first = 1 /\ first < next
    <2>1. Place(1) = next
        BY <1>0, <1>3 DEF Place
    <2> QED
        BY <1>1, <1>3, <2>1, PassPackages
<1> QED
    BY <1>0, <1>2, <1>3

\* The flag package stands at the packages or before the argument it has come to.
LEMMA NextPlace ==
    ASSUME TypeOK, NEW n \in Nat, 1 <= n
    PROVE  IF n + 1 = first THEN Place(n + 1) = next /\ Place(n) + 1 = first
           ELSE Place(n + 1) = Place(n) + 1
<1>0. first \in Nat /\ next \in Nat /\ 1 <= first /\ first <= next
    BY Numbers
<1>1. CASE n + 1 = first
    BY <1>0, <1>1 DEF Place
<1>2. CASE n + 1 # first
    <2>1. n < first <=> n + 1 < first
        BY <1>0, <1>2
    <2> QED
        BY <1>0, <1>2, <2>1 DEF Place
<1> QED
    BY <1>1, <1>2

\* One flag, and its value, that FindPkgs has read in the same way.
LEMMA ParseFlagReads ==
    ASSUME TypeOK, ShortBools, NEW r \in Readings, NEW s \in [Flags -> Texts],
           PackagesAt(r, first, next), i \in 1 .. Len(Rest), ParseAt(r, Place(i), s),
           Known(Rest[i]), TakesNext(Rest[i]) => i < Len(Rest)
    PROVE  ParseAt(r, Place(IF TakesNext(Rest[i]) THEN i + 2 ELSE i + 1),
                   [s EXCEPT ![Rest[i].name] = ValueAt(Rest, i)])
<1> DEFINE P == Place(i)
           a == args[P]
           E == IF TakesNext(a) THEN P + 2 ELSE P + 1
           m == IF TakesNext(a) THEN i + 2 ELSE i + 1
           t == [s EXCEPT ![a.name] = ValueAt(Rest, i)]
<1>0. /\ Len(args) \in Nat /\ first \in Nat /\ next \in Nat
      /\ 1 <= first /\ first <= next /\ next <= Len(args) + 1
      /\ i \in Nat /\ 1 <= i /\ Len(Rest) \in Nat
      /\ args \in [1 .. Len(args) -> Args]
    BY Numbers, RestIsList
<1>1. P \in 1 .. Len(args) /\ Rest[i] = a /\ P \in Nat /\ 1 <= P /\ P <= Len(args)
    BY <1>0, PlaceOfRest
<1>2. a \in Args /\ Known(a)
    BY <1>0, <1>1
<1>3. IsFlag(a) /\ (SkipsNext(a) <=> TakesValue(a)) /\ (TakesNext(a) <=> TakesValue(a))
    BY <1>1, <1>2, KnownFlag DEF ShortBools
<1>4. r[P] = "flag"
    <2>1. r[P] # "value"
        BY <1>1 DEF ParseAt
    <2> QED
        BY <1>1, <1>3, <2>1, ReadingOf
<1>5. KnownUpTo(r, P + 1)
    <2>1. KnownUpTo(r, P)
        BY DEF ParseAt
    <2>2. \A k \in 1 .. Len(args) : k < P + 1 => k < P \/ k = P
        BY <1>1
    <2> QED
        BY <1>2, <2>1, <2>2 DEF KnownUpTo
<1>6. P + 1 = first /\ first < next => r[P + 1] = "word"
    <2> HAVE P + 1 = first /\ first < next
    <2>1. KnownUpTo(r, first)
        BY <1>5
    <2>2. P + 1 \in 1 .. Len(args) /\ first <= P + 1 /\ P + 1 < next
        BY <1>0, <1>1
    <2> QED
        BY <2>1, <2>2 DEF PackagesAt
<1>7. TakesNext(a) => Place(i + 1) = P + 1 /\ r[P + 1] = "value" /\ P + 1 \in 1 .. Len(args)
    <2> HAVE TakesNext(a)
    <2>1. i + 1 \in 1 .. Len(Rest)
        BY <1>0, <1>1
    <2>2. Place(i + 1) \in 1 .. Len(args)
        BY <2>1, PlaceOfRest
    <2>3. P + 1 \in 1 .. Len(args) => r[P + 1] = "value"
        BY <1>1, <1>3, <1>4, ReadingOf
    <2>4. CASE Place(i + 1) = P + 1
        BY <2>2, <2>3, <2>4
    <2>5. CASE Place(i + 1) # P + 1
        <3>1. i + 1 = first /\ Place(i + 1) = next /\ P + 1 = first
            BY <1>0, <2>5, NextPlace
        <3>2. first < next
            BY <1>0, <2>5, <3>1
        <3>3. P + 1 \in 1 .. Len(args)
            BY <1>0, <3>1, <3>2
        <3> QED
            BY <1>6, <2>3, <3>1, <3>2, <3>3
    <2> QED
        BY <2>4, <2>5
<1>8. ValueAt(Rest, i) = ValueAt(args, P)
    <2>1. CASE TakesNext(a)
        <3>1. i + 1 \in 1 .. Len(Rest)
            BY <1>0, <1>1, <2>1
        <3>2. Rest[i + 1] = args[P + 1]
            BY <1>7, <2>1, <3>1, PlaceOfRest
        <3> QED
            BY <1>1, <3>2 DEF ValueAt
    <2>2. CASE ~TakesNext(a)
        BY <1>1, <1>2, <2>2 DEF ValueAt, TakesNext
    <2> QED
        BY <2>1, <2>2
<1>9. E \in Nat /\ P < E /\ \A k \in 1 .. Len(args) : P <= k /\ k < E => k = P \/ (TakesNext(a) /\ k = P + 1)
    BY <1>1
<1>10. ParseAt(r, E, t)
    <2>1. \A k \in 1 .. Len(args) : k < E /\ ~(k < P) => k = P \/ r[k] = "value"
        BY <1>1, <1>7, <1>9
    <2>2. KnownUpTo(r, E)
        BY <1>2, <1>4, <2>1 DEF ParseAt, KnownUpTo
    <2>3. E <= Len(args) => r[E] # "value"
        <3>1. CASE TakesNext(a)
            <4>1. P + 2 \in 1 .. Len(args) => r[P + 2] # "value"
                BY <1>1, <1>7, <3>1, ReadingOf
            <4> QED
                BY <1>0, <1>1, <3>1, <4>1
        <3>2. CASE ~TakesNext(a)
            <4>1. P + 1 \in 1 .. Len(args) => r[P + 1] # "value"
                BY <1>1, <1>3, <3>2, ReadingOf
            <4> QED
                BY <1>0, <1>1, <3>2, <4>1
        <3> QED
            BY <3>1, <3>2
    <2>4. \A k \in 1 .. Len(args) : k < E /\ (k < first \/ next <= k) => r[k] # "word"
        BY <1>4, <2>1 DEF ParseAt
    <2>5. ASSUME NEW f \in Flags, f # a.name PROVE MeantUpTo(r, f, t[f], E)
        <3>1. MeantUpTo(r, f, s[f], P) /\ t[f] = s[f]
            BY <2>5 DEF ParseAt
        <3>2. \A k \in GivenAt(r, f) : ~(P <= k /\ k < E)
            <4> SUFFICES ASSUME NEW k \in GivenAt(r, f), P <= k, k < E PROVE FALSE
                OBVIOUS
            <4>1. k \in 1 .. Len(args) /\ r[k] = "flag" /\ args[k].name = f
                BY DEF GivenAt
            <4>2. k = P \/ r[k] = "value"
                BY <1>1, <2>1, <4>1
            <4> QED
                BY <2>5, <4>1, <4>2
        <3> QED
            BY <1>0, <1>1, <1>9, <3>1, <3>2, MeantFurther
    <2>6. MeantUpTo(r, a.name, t[a.name], E)
        <3>1. a.name \in Flags /\ t[a.name] = ValueAt(args, P)
            BY <1>2, <1>8 DEF Known
        <3>2. P \in GivenAt(r, a.name)
            BY <1>1, <1>4 DEF GivenAt
        <3>3. \A j \in GivenAt(r, a.name) : j < E => j <= P
            <4> SUFFICES ASSUME NEW j \in GivenAt(r, a.name), j < E, ~(j <= P) PROVE FALSE
                OBVIOUS
            <4>1. j \in 1 .. Len(args) /\ r[j] = "flag"
                BY DEF GivenAt
            <4>2. ~(j < P) /\ j # P
                BY <1>1, <4>1
            <4>3. r[j] = "value"
                BY <2>1, <4>1, <4>2
            <4> QED
                BY <4>1, <4>3
        <3> QED
            BY <1>9, <3>1, <3>2, <3>3 DEF MeantUpTo
    <2> QED
        BY <2>2, <2>3, <2>4, <2>5, <2>6 DEF ParseAt
<1>11. Place(m) = E \/ (E = first /\ Place(m) = next)
    <2>1. CASE TakesNext(a)
        <3>1. Place(i + 1) = P + 1
            BY <1>7, <2>1
        <3>2. IF (i + 1) + 1 = first THEN Place((i + 1) + 1) = next /\ Place(i + 1) + 1 = first
              ELSE Place((i + 1) + 1) = Place(i + 1) + 1
            BY <1>0, NextPlace
        <3>3. (i + 1) + 1 = i + 2 /\ (P + 1) + 1 = P + 2
            BY <1>0, <1>1
        <3> QED
            BY <2>1, <3>1, <3>2, <3>3
    <2>2. CASE ~TakesNext(a)
        BY <1>0, <2>2, NextPlace
    <2> QED
        BY <2>1, <2>2
<1>12. ParseAt(r, Place(m), t)
    <2>1. CASE Place(m) = E
        BY <1>10, <2>1
    <2>2. CASE E = first /\ Place(m) = next /\ first < next
        BY <1>10, <2>2, PassPackages
    <2>3. CASE E = first /\ Place(m) = next /\ ~(first < next)
        BY <1>0, <1>10, <2>3
    <2> QED
        BY <1>11, <2>1, <2>2, <2>3
<1> QED
    BY <1>1, <1>12

\* At the end of the arguments all have been read as they are meant.
LEMMA ParseEndReads ==
    ASSUME TypeOK, NEW r \in Readings, PackagesAt(r, first, next),
           i = Len(Rest) + 1, ParseAt(r, Place(i), set)
    PROVE  /\ \A k \in 1 .. Len(args) : r[k] = "word" <=> first <= k /\ k < next
           /\ \A f \in Flags : IsMeant(r, f, set[f])
<1>0. /\ Len(args) \in Nat /\ first \in Nat /\ next \in Nat
      /\ 1 <= first /\ first <= next /\ next <= Len(args) + 1
      /\ Len(Rest) = Len(args) - (next - first)
    BY Numbers, RestIsList
<1>1. Place(i) = Len(args) + 1
    BY <1>0 DEF Place
<1>2. KnownUpTo(r, first)
    BY <1>0, <1>1 DEF ParseAt, KnownUpTo
<1>3. \A k \in 1 .. Len(args) : first <= k /\ k < next => r[k] = "word"
    BY <1>0, <1>2 DEF PackagesAt
<1>4. \A k \in 1 .. Len(args) : k < first \/ next <= k => r[k] # "word"
    <2>1. \A k \in 1 .. Len(args) : k < Len(args) + 1
        BY <1>0
    <2> QED
        BY <1>1, <2>1 DEF ParseAt
<1>5. ASSUME NEW f \in Flags PROVE IsMeant(r, f, set[f])
    <2>1. MeantUpTo(r, f, set[f], Len(args) + 1)
        BY <1>1 DEF ParseAt
    <2>2. \A k \in GivenAt(r, f) : k < Len(args) + 1 /\ ~(k >= Len(args) + 1)
        BY <1>0 DEF GivenAt
    <2>3. CASE set[f] = DefaultOf(f) /\ GivenAt(r, f) = {}
        BY <2>3 DEF IsMeant
    <2>4. CASE \E k \in GivenAt(r, f) :
                  set[f] = ValueAt(args, k) /\ \A j \in GivenAt(r, f) : j <= k
        BY <2>4 DEF IsMeant
    <2> QED
        BY <2>1, <2>2, <2>3, <2>4 DEF MeantUpTo
<1>6. \A k \in 1 .. Len(args) : ~(first <= k /\ k < next) => k < first \/ next <= k
    BY <1>0
<1> QED
    BY <1>3, <1>4, <1>5, <1>6

\* What has been read, at each point of ParseArgs and FindPkgs.
ReadingInv ==
    /\ pc = "main" => i = 1 /\ first = 1 /\ next = 1
    /\ pc \in {"main", "scan"} => set = [f \in Flags |-> DefaultOf(f)]
    /\ Scanning => \A r \in Readings : ScanAt(r, i)
    /\ pc \in {"parse", "search"} => \A r \in Readings : PackagesAt(r, first, next)
    /\ pc = "parse" => \/ i = 1 /\ set = [f \in Flags |-> DefaultOf(f)]
                       \/ i <= Len(Rest) + 1 /\ \A r \in Readings : ParseAt(r, Place(i), set)
    /\ (pc = "parsed" /\ err = "") \/ WasParsed => ReadCorrectly

LEMMA ScanStarts ==
    ASSUME TypeOK, NEW r \in Readings PROVE ScanAt(r, 1)
<1>0. Len(args) \in Nat
    BY Numbers
<1>1. 1 <= Len(args) => 1 \in 1 .. Len(args)
    BY <1>0
<1>2. 1 <= Len(args) => r[1] # "value"
    BY <1>1, ReadingOf
<1>3. \A k \in 1 .. Len(args) : ~(k < 1)
    OBVIOUS
<1> QED
    BY <1>2, <1>3 DEF ScanAt

\* What depends on the arguments alone stays as it is.
LEMMA ArgumentsStay ==
    ASSUME args' = args
    PROVE  /\ Readings' = Readings /\ ShortBools' = ShortBools
           /\ FindTestFlag({"fuzz", "run"})' = FindTestFlag({"fuzz", "run"})
BY DEF Readings, ShortBools, FindTestFlag, Sees

LEMMA InitReading == Init => ReadingInv
BY DEF Init, ReadingInv, Scanning, WasParsed

LEMMA ReadingStays ==
    ASSUME ReadingInv, UNCHANGED vars PROVE ReadingInv'
<1>1. UNCHANGED <<args, pc, i, first, next, set, err>>
    BY DEF vars, input, reading
<1>2. Readings' = Readings /\ Rest' = Rest /\ FindTestFlag({"fuzz", "run"})' = FindTestFlag({"fuzz", "run"})
    BY <1>1, ArgumentsStay DEF Rest
<1>3. \A r \in Readings : ScanAt(r, i)' = ScanAt(r, i)
    BY <1>1 DEF ScanAt, KnownUpTo
<1>4. \A r \in Readings : PackagesAt(r, first, next)' = PackagesAt(r, first, next)
    BY <1>1 DEF PackagesAt, KnownUpTo
<1>5. \A r \in Readings : ParseAt(r, Place(i), set)' = ParseAt(r, Place(i), set)
    BY <1>1 DEF ParseAt, Place, KnownUpTo, MeantUpTo, GivenAt, ValueAt
<1>6. ReadCorrectly' = ReadCorrectly
    BY <1>1, <1>2 DEF ReadCorrectly, IsMeant, GivenAt, ValueAt
<1> QED
    BY <1>1, <1>2, <1>3, <1>4, <1>5, <1>6 DEF ReadingInv, Scanning, WasParsed

LEMMA StepReadingInv ==
    ASSUME TypeOK, ShortBools, ReadingInv, [Next]_vars PROVE ReadingInv'
<1>1. /\ args' = args /\ Readings' = Readings
      /\ FindTestFlag({"fuzz", "run"})' = FindTestFlag({"fuzz", "run"})
    BY InputFixed, ArgumentsStay
<1>2. Len(args) \in Nat /\ i \in Nat /\ 1 <= i
    BY Numbers
<1>3. CASE ScanFlag
    <2>1. UNCHANGED <<pc, first, next, set, err>>
        BY <1>3 DEF ScanFlag
    <2>2. Scanning
        BY <1>3 DEF ScanFlag
    <2>3. ASSUME NEW r \in Readings PROVE ScanAt(r, i')
        <3>1. /\ i \in 1 .. Len(args) /\ IsFlag(args[i])
              /\ i' = IF SkipsNext(args[i]) THEN i + 2 ELSE i + 1
            BY <1>2, <1>3 DEF ScanFlag
        <3>2. ScanAt(r, i)
            BY <2>2 DEF ReadingInv
        <3> QED
            BY <3>1, <3>2, ScanFlagReads
    <2>4. \A r \in Readings : ScanAt(r, i)'
        BY <1>1, <2>3 DEF ScanAt, KnownUpTo
    <2> QED
        BY <1>1, <2>1, <2>2, <2>4 DEF ReadingInv, Scanning, WasParsed
<1>4. ASSUME NoPackages \/ FoundPackages PROVE ReadingInv'
    <2>1. ASSUME NEW r \in Readings PROVE PackagesAt(r, first', next')
        <3>1. ScanAt(r, i)
            BY <1>4 DEF ReadingInv, NoPackages, FoundPackages
        <3>2. CASE NoPackages
            <4>1. i <= Len(args) => IsArgs(args[i]) /\ IsFlag(args[i])
                BY <3>2 DEF NoPackages, IsArgs, IsFlag
            <4> QED
                BY <3>1, <3>2, <4>1, NoPackagesReads DEF NoPackages
        <3>3. CASE FoundPackages
            BY <3>1, <3>3, FoundPackagesReads DEF FoundPackages
        <3> QED
            BY <1>4, <3>2, <3>3
    <2>2. \A r \in Readings' : PackagesAt(r, first, next)'
        BY <1>1, <2>1 DEF PackagesAt, KnownUpTo
    <2>3. /\ Scanning /\ UNCHANGED <<set, err>> /\ i' = 1
          /\ pc' = IF pc = "scan" THEN "parse" ELSE "search"
        BY <1>4 DEF NoPackages, FoundPackages, AfterScan, Go
    <2>4. CASE pc = "rescan"
        BY <2>2, <2>3, <2>4 DEF ReadingInv, Scanning, WasParsed
    <2>5. CASE pc = "scan"
        BY <2>2, <2>3, <2>5 DEF ReadingInv, Scanning, WasParsed
    <2> QED
        BY <2>3, <2>4, <2>5 DEF Scanning
<1>5. CASE Parsing \/ ParseEnds
    <2>1. i <= Len(Rest) + 1 /\ Len(Rest) \in Nat /\ \A r \in Readings : ParseAt(r, Place(i), set)
        <3>1. Len(Rest) \in Nat /\ (i = 1 => i <= Len(Rest) + 1)
            BY <1>2, RestIsList
        <3>2. pc = "parse"
            BY <1>5 DEF Parsing, ParseEnds
        <3>3. CASE i = 1 /\ set = [f \in Flags |-> DefaultOf(f)]
            BY <3>1, <3>2, <3>3, ParseStarts DEF ReadingInv
        <3> QED
            BY <3>1, <3>2, <3>3 DEF ReadingInv
    <2>2. \A r \in Readings : PackagesAt(r, first, next)
        BY <1>5 DEF ReadingInv, Parsing, ParseEnds
    <2>3. CASE ParseFlag
        <3>1. /\ i \in 1 .. Len(Rest)
              /\ Known(Rest[i]) /\ (TakesNext(Rest[i]) => i < Len(Rest))
              /\ i' = IF TakesNext(Rest[i]) THEN i + 2 ELSE i + 1
              /\ set' = [set EXCEPT ![Rest[i].name] = ValueAt(Rest, i)]
            BY <1>2, <2>1, <2>3 DEF ParseFlag, Parsing
        <3>2. set \in [Flags -> Texts]
            BY DEF TypeOK, ReadingOK
        <3>3. ASSUME NEW r \in Readings PROVE ParseAt(r, Place(i'), set')
            BY <2>1, <2>2, <3>1, <3>2, ParseFlagReads
        <3>4. UNCHANGED <<pc, first, next, err, args>>
            BY <1>1, <2>3 DEF ParseFlag
        <3>5. Place(i)' = Place(i')
            BY <3>4 DEF Place
        <3>6. \A r \in Readings : ParseAt(r, Place(i), set)'
            BY <3>3, <3>4, <3>5 DEF ParseAt, KnownUpTo, MeantUpTo, GivenAt, ValueAt
        <3>7. Rest' = Rest
            BY <3>4 DEF Rest
        <3>8. i' <= Len(Rest) + 1
            BY <1>2, <2>1, <3>1
        <3>9. \A r \in Readings : PackagesAt(r, first, next)'
            BY <2>2, <3>4 DEF PackagesAt, KnownUpTo
        <3>10. pc = "parse"
            BY <2>3 DEF ParseFlag, Parsing
        <3> QED
            BY <1>1, <3>4, <3>6, <3>7, <3>8, <3>9, <3>10 DEF ReadingInv, Scanning, WasParsed
    <2>4. CASE ParseEnds
        <3>1. i = Len(Rest) + 1
            <4>1. i > Len(Rest)
                BY <2>4 DEF ParseEnds
            <4> QED
                BY <1>2, <2>1, <4>1
        <3>2. ReadCorrectly
            BY <2>1, <2>2, <3>1, ParseEndReads DEF ReadCorrectly
        <3>3. UNCHANGED <<first, next, set, args>> /\ pc' = "parsed"
            BY <1>1, <2>4 DEF ParseEnds, ParseReturns, Go
        <3>4. ReadCorrectly'
            BY <1>1, <3>2, <3>3 DEF ReadCorrectly, IsMeant, GivenAt, ValueAt
        <3> QED
            BY <3>3, <3>4 DEF ReadingInv, Scanning, WasParsed
    <2>5. CASE ParseHelp \/ ParseFails \/ ArgumentLeft
        BY <2>5 DEF ParseHelp, ParseFails, ArgumentLeft, ParseReturns, Go, ReadingInv, Scanning, WasParsed
    <2>6. CASE ~(ParseFlag \/ ParseEnds \/ ParseHelp \/ ParseFails \/ ArgumentLeft)
        <3>1. pc = "parse"
            BY <1>5 DEF Parsing, ParseEnds
        <3>2. UNCHANGED vars
            BY <2>6, <3>1 DEF Next, Help, OtherCommand, NothingToParse, RefuseFlag, StartParse,
               ScanFlag, NoPackages, FoundPackages, Scanning, Parsed, ToVerify, TimeoutTooShort,
               FindTargets, Instrument, InstrumentFails, CompileOnly, StartFuzzing, Fuzz, FuzzFails,
               NextRound, EndFuzzing, TooManyPackages, FindVerified, Verify, VerifyFails, EndVerify,
               ExecGo
        <3> QED
            BY <1>1, <3>2, ReadingStays
    <2> QED
        BY <2>3, <2>4, <2>5, <2>6
<1>6. CASE RefuseFlag
    BY <1>6 DEF RefuseFlag, ParseReturns, Go, ReadingInv, Scanning, WasParsed
<1>7. CASE StartParse \/ ToVerify
    <2>1. ASSUME NEW r \in Readings PROVE ScanAt(r, 1)
        BY ScanStarts
    <2>2. i' = 1
        BY <1>7 DEF StartParse, ToVerify, ReadingInv, reading
    <2>3. \A r \in Readings' : ScanAt(r, i)'
        BY <1>1, <2>1, <2>2 DEF ScanAt, KnownUpTo
    <2>4. (pc' = "scan" /\ pc = "main" /\ set' = set) \/ pc' = "rescan"
        BY <1>7 DEF StartParse, ToVerify, Go, reading
    <2> QED
        BY <2>3, <2>4 DEF ReadingInv, Scanning, WasParsed
<1>8. CASE NothingToParse
    BY <1>1, <1>8 DEF NothingToParse, Go, ReadingInv, Scanning, WasParsed
<1>9. CASE Parsed
    <2>1. pc' = "exited" \/ (pc' = "decide" /\ pc = "parsed" /\ err = "")
        BY <1>9 DEF Parsed, Go, Exit
    <2>2. pc = "parsed" /\ err = "" => ReadCorrectly'
        <3>1. pc = "parsed" /\ err = "" => ReadCorrectly
            BY DEF ReadingInv
        <3>2. UNCHANGED <<first, next, set>>
            BY <1>9 DEF Parsed, reading
        <3>3. ReadCorrectly => ReadCorrectly'
            BY <1>1, <3>2 DEF ReadCorrectly, IsMeant, GivenAt, ValueAt
        <3> QED
            BY <3>1, <3>3
    <2> QED
        BY <2>1, <2>2 DEF ReadingInv, Scanning, WasParsed
<1>10. CASE UNCHANGED vars
    BY <1>1, <1>10, ReadingStays
<1>11. CASE Help \/ OtherCommand \/ TimeoutTooShort \/ FindTargets \/ Instrument \/ InstrumentFails
            \/ CompileOnly \/ StartFuzzing \/ Fuzz \/ FuzzFails \/ NextRound \/ EndFuzzing
            \/ TooManyPackages \/ FindVerified \/ Verify \/ VerifyFails \/ EndVerify \/ ExecGo
    <2>1. pc' \in {"go", "exited", "instrument", "fuzz", "verify"}
        BY <1>11 DEF Help, OtherCommand, TimeoutTooShort, FindTargets, Instrument, InstrumentFails,
           CompileOnly, StartFuzzing, Fuzz, FuzzFails, NextRound, EndFuzzing, TooManyPackages,
           FindVerified, Verify, VerifyFails, EndVerify, ExecGo, Exit, Go
    <2> QED
        BY <2>1 DEF ReadingInv, Scanning, WasParsed
<1> QED
    BY <1>3, <1>4, <1>5, <1>6, <1>7, <1>8, <1>9, <1>10, <1>11
       DEF Next, ParseFlag, ParseHelp, ParseFails, ArgumentLeft

\* What -fuzz says when go is run.
FuzzInv ==
    /\ pc \in {"decide", "rescan", "search", "verify", "go"} \/ went # "no" =>
         (cmd = "test" /\ (\A k \in 1 .. Len(args) : ~IsArgs(args[k])) =>
              \A r \in Readings : IsMeant(r, "fuzz", set["fuzz"]))
    /\ went # "no" => pc = "exited" /\ (cmd = "test" => set["fuzz"] = "")

LEMMA StepFuzz ==
    ASSUME TypeOK, ControlInv, ReadingInv, FuzzInv, [Next]_vars PROVE FuzzInv'
<1>1. /\ args' = args /\ cmd' = cmd /\ Readings' = Readings
      /\ FindTestFlag({"fuzz", "run"})' = FindTestFlag({"fuzz", "run"})
    BY InputFixed, ArgumentsStay
<1>2. ASSUME set' = set
      PROVE  (\A r \in Readings : IsMeant(r, "fuzz", set["fuzz"])) =>
             (\A r \in Readings' : IsMeant(r, "fuzz", set["fuzz"])')
    BY <1>1, <1>2 DEF IsMeant, GivenAt, ValueAt
<1>3. CASE NothingToParse
    <2>1. set = [f \in Flags |-> DefaultOf(f)] /\ set' = set
        BY <1>3 DEF NothingToParse, ReadingInv, reading
    <2>2. set["fuzz"] = DefaultOf("fuzz")
        BY <2>1 DEF Flags
    <2>3. (\A k \in 1 .. Len(args) : ~IsArgs(args[k])) =>
             \A k \in 1 .. Len(args) : args[k].name # "fuzz"
        <3>1. ~FindTestFlag({"fuzz", "run"})
            BY <1>3 DEF NothingToParse
        <3>2. \A k \in 1 .. Len(args) : 1 .. k \subseteq 1 .. Len(args)
            BY Numbers
        <3> QED
            BY <3>1, <3>2 DEF FindTestFlag, Sees
    <2>4. (\A k \in 1 .. Len(args) : ~IsArgs(args[k])) =>
             \A r \in Readings : IsMeant(r, "fuzz", set["fuzz"])
        BY <2>2, <2>3 DEF IsMeant, GivenAt
    <2>5. pc' = "decide" /\ went' = went /\ pc = "main"
        BY <1>3 DEF NothingToParse, Go, work
    <2> QED
        BY <1>1, <1>2, <2>1, <2>4, <2>5 DEF FuzzInv
<1>4. CASE Parsed
    <2>1. set' = set /\ first' = first /\ next' = next /\ went' = went /\ pc = "parsed"
        BY <1>4 DEF Parsed, reading, work
    <2>2. err = "" => \A r \in Readings : IsMeant(r, "fuzz", set["fuzz"])
        BY <2>1 DEF ReadingInv, ReadCorrectly, Flags
    <2>3. went = "no"
        BY <2>1 DEF FuzzInv
    <2>4. pc' = "exited" \/ err = ""
        BY <1>4 DEF Parsed, Exit
    <2> QED
        BY <1>1, <1>2, <2>1, <2>2, <2>3, <2>4 DEF FuzzInv
<1>5. CASE ExecGo
    <2>1. pc = "go" /\ set' = set /\ pc' = "exited"
        BY <1>5 DEF ExecGo, Exit, reading
    <2>2. cmd = "test" => set["fuzz"] = ""
        BY <2>1 DEF ControlInv, VerifyingInv
    <2> QED
        BY <1>1, <1>2, <2>1, <2>2 DEF FuzzInv
<1>6. CASE OtherCommand
    BY <1>1, <1>2, <1>6 DEF OtherCommand, Go, FuzzInv, reading, work
<1>7. CASE ~(NothingToParse \/ Parsed \/ ExecGo \/ OtherCommand)
    <2>7. went' = went
        BY <1>7, WorkElsewhere DEF work, WorkStep, FindTargets, Instrument, Fuzz, FuzzFails, NextRound,
           FindVerified, Verify
    <2>8. ~ReadingStep => set' = set
        BY ReadingElsewhere DEF reading
    <2>9. ReadingStep => set' = set \/ (pc = "parse" /\ pc' = "parse")
        BY DEF ReadingStep, ScanFlag, NoPackages, FoundPackages, ParseFlag, Parsing, ToVerify,
           RefuseFlag, ParseHelp, ParseFails, ArgumentLeft, ParseEnds
    <2>1. went' = went /\ (set' = set \/ (pc = "parse" /\ pc' = "parse"))
        BY <2>7, <2>8, <2>9
    <2>2. pc' \in {"decide", "rescan", "search", "verify", "go"} =>
             pc \in {"decide", "rescan", "search", "verify", "go"}
        BY <1>7 DEF Next, vars, Help, RefuseFlag, StartParse, ScanFlag, NoPackages, Scanning, AfterScan,
           FoundPackages, ParseFlag, Parsing, ParseHelp, ParseFails, ArgumentLeft, ParseEnds, ToVerify,
           ParseReturns, Exit, Go,
           TimeoutTooShort, FindTargets, Instrument, InstrumentFails, CompileOnly, StartFuzzing, Fuzz,
           FuzzFails, NextRound, EndFuzzing, TooManyPackages, FindVerified, Verify, VerifyFails, EndVerify
    <2>3. pc = "exited" => pc' = "exited"
        BY <1>7 DEF Next, vars, Help, RefuseFlag, StartParse, ScanFlag, NoPackages, Scanning,
           FoundPackages, ParseFlag, Parsing, ParseHelp, ParseFails, ArgumentLeft, ParseEnds, ToVerify,
           TimeoutTooShort, FindTargets, Instrument, InstrumentFails, CompileOnly, StartFuzzing, Fuzz,
           FuzzFails, NextRound, EndFuzzing, TooManyPackages, FindVerified, Verify, VerifyFails, EndVerify
    <2>4. went # "no" => pc = "exited" /\ set' = set
        BY <2>1 DEF FuzzInv
    <2>5. CASE set' = set
        BY <1>1, <1>2, <2>1, <2>2, <2>3, <2>4, <2>5 DEF FuzzInv
    <2>6. CASE pc = "parse" /\ pc' = "parse"
        BY <2>1, <2>4, <2>6 DEF FuzzInv
    <2> QED
        BY <2>1, <2>5, <2>6
<1> QED
    BY <1>3, <1>4, <1>5, <1>6, <1>7

LEMMA AlwaysRead ==
    Spec => [](TypeOK /\ IdleBefore /\ DoneInv /\ (ShortBools => ReadingInv /\ FuzzInv))
<1>1. Init => TypeOK /\ IdleBefore /\ DoneInv /\ ReadingInv /\ FuzzInv
    BY InitType, InitDone, InitReading DEF Init, IdleBefore, Idle, FuzzInv
<1>2. ASSUME TypeOK, IdleBefore, DoneInv, ShortBools => ReadingInv /\ FuzzInv, [Next]_vars
      PROVE  (TypeOK /\ IdleBefore /\ DoneInv /\ (ShortBools => ReadingInv /\ FuzzInv))'
    <2>1. ShortBools' = ShortBools
        BY <1>2, InputFixed, ArgumentsStay
    <2>2. ASSUME ShortBools PROVE ReadingInv' /\ FuzzInv'
        BY <1>2, <2>2, StepReadingInv, StepFuzz DEF DoneInv
    <2> QED
        BY <1>2, <2>1, <2>2, StepType, StepIdle, StepDone
<1> QED
    BY <1>1, <1>2, PTL DEF Spec

\* For all argument lists with bool flags in their short form, the two scans of
\* ParseArgs agree (flag.go:94-146, 208-254).
THEOREM ScansAgree == Spec => []ReadAsMeant
<1>1. (ShortBools => ReadingInv) => ReadAsMeant
    BY DEF ReadingInv, ReadAsMeant
<1> QED
    BY <1>1, AlwaysRead, PTL

\* Whatever the arguments, verifyCorpus looks in the packages of the command line
\* if all its flags are fzgo's (main.go:246-265, flag.go:208-254).
THEOREM LooksInRightPackages == Spec => []RightPackages
<1>1. ASSUME TypeOK, ShortBools => ReadingInv PROVE RightPackages
    <2>1. SUFFICES ASSUME pc = "search", ShortBools, NEW r \in Readings,
                          \A k \in 1 .. Len(args) : r[k] = "flag" => Known(args[k])
                   PROVE  /\ \A k \in 1 .. first - 1 : r[k] # "word"
                          /\ \A k \in first .. next - 1 : r[k] = "word"
                          /\ first < next /\ next <= Len(args) => r[next] = "flag"
                          /\ first = next => \A k \in 1 .. Len(args) : r[k] # "word"
        BY DEF RightPackages
    <2>2. /\ Len(args) \in Nat /\ first \in Nat /\ next \in Nat
          /\ 1 <= first /\ first <= next /\ next <= Len(args) + 1
        BY <1>1, Numbers
    <2>3. PackagesAt(r, first, next)
        BY <1>1, <2>1 DEF ReadingInv
    <2>4. KnownUpTo(r, first) /\ KnownUpTo(r, Len(args) + 1)
        BY <2>1 DEF KnownUpTo
    <2>5. CASE first < next
        BY <2>2, <2>3, <2>4, <2>5 DEF PackagesAt
    <2>6. CASE first = next
        <3>1. \A k \in 1 .. Len(args) : r[k] # "word"
            BY <2>3, <2>4, <2>6 DEF PackagesAt
        <3> QED
            BY <2>2, <2>6, <3>1
    <2> QED
        BY <2>2, <2>5, <2>6
<1> QED
    BY <1>1, AlwaysRead, PTL

\* Whatever the arguments before -args, go test is not run with -fuzz
\* (flag.go:97-105, main.go:112-141).
THEOREM FuzzNeverReachesGo == Spec => []GoNeverFuzzes
<1>1. (ShortBools => FuzzInv) => GoNeverFuzzes
    BY DEF FuzzInv, GoNeverFuzzes
<1> QED
    BY <1>1, AlwaysRead, PTL

-----------------------------------------------------------------------------
(* Every run ends that is not told to fuzz for ever. *)

Rank ==
    CASE pc = "main" -> 0 [] pc = "scan" -> 1 [] pc = "parse" -> 2 [] pc = "parsed" -> 3
      [] pc = "decide" -> 4 [] pc = "rescan" -> 5 [] pc = "search" -> 6
      [] pc = "instrument" -> 7 [] pc = "fuzz" -> 8 [] pc = "verify" -> 9
      [] pc = "go" -> 10 [] OTHER -> 11

\* Arguments read and functions built, fuzzed or verified.
Count == i + built + turn + verified

\* fzgoMain goes on to a later part, or gets on with the part it is in; the one
\* way back is the round of a session without -fuzztime.
Forward ==
    \/ Rank' > Rank
    \/ pc' = pc /\ Count' > Count
    \/ pc = "fuzz" /\ pc' = "fuzz" /\ set["fuzztime"] = "0s"

\* A scan stands at most behind the value that the last argument lacks.
ReadBound == i <= Len(args) + 2

ForwardBounded ==
    Rank <= 11 /\ Count \in Nat /\ Count <= Len(args) + 3 * MaxFunctions + 3

LEMMA BoundStep ==
    ASSUME TypeOK, ReadBound, [Next]_vars PROVE ReadBound'
<1>0. Len(args) \in Nat /\ i \in Nat /\ args' = args
    BY Numbers, InputFixed
<1>1. CASE ScanFlag
    BY <1>0, <1>1 DEF ScanFlag, ReadBound
<1>2. CASE ParseFlag
    <2>1. i <= Len(Rest) /\ (i' = i + 2 \/ i' = i + 1)
        BY <1>2 DEF ParseFlag, Parsing
    <2>2. Len(Rest) = Len(args) - (next - first) /\ Len(Rest) \in Nat
          /\ next \in Nat /\ first \in Nat /\ first <= next
        BY RestIsList, Numbers
    <2>3. i <= Len(args)
        BY <1>0, <2>1, <2>2
    <2> QED
        BY <1>0, <2>1, <2>3 DEF ReadBound
<1>3. CASE NoPackages \/ FoundPackages \/ ToVerify
    <2>1. i' = 1
        BY <1>3 DEF NoPackages, FoundPackages, ToVerify
    <2> QED
        BY <1>0, <2>1 DEF ReadBound
<1>4. CASE RefuseFlag \/ ParseHelp \/ ParseFails \/ ArgumentLeft \/ ParseEnds
           \/ UNCHANGED reading
    <2>1. i' = i
        BY <1>4 DEF RefuseFlag, ParseHelp, ParseFails, ArgumentLeft, ParseEnds, reading
    <2> QED
        BY <1>0, <2>1 DEF ReadBound
<1> QED
    BY <1>1, <1>2, <1>3, <1>4, ReadingElsewhere DEF ReadingStep

LEMMA WorkNumbers ==
    ASSUME TypeOK
    PROVE  /\ MaxFunctions \in Nat
           /\ built \in Nat /\ built <= MaxFunctions
           /\ turn \in Nat /\ turn <= MaxFunctions + 1
           /\ verified \in Nat /\ verified <= MaxFunctions
<1>1. MaxFunctions \in Nat /\ found \in 0 .. MaxFunctions
      /\ built \in 0 .. found /\ turn \in 1 .. found + 1 /\ verified \in 0 .. found
    BY ConstantsAssumption DEF TypeOK, WorkOK
<1> QED
    BY <1>1

LEMMA StepForward ==
    ASSUME TypeOK, Next PROVE Forward
<1>0. i \in Nat /\ built \in Nat /\ turn \in Nat /\ verified \in Nat
    BY Numbers, WorkNumbers
<1>1. CASE ScanFlag \/ ParseFlag
    <2>1. (i' = i + 1 \/ i' = i + 2) /\ pc' = pc /\ UNCHANGED <<built, turn, verified>>
        BY <1>1 DEF ScanFlag, ParseFlag, work
    <2>2. Count' > Count
        BY <1>0, <2>1 DEF Count
    <2> QED
        BY <2>1, <2>2 DEF Forward
<1>2. CASE Instrument \/ Fuzz \/ Verify
    <2>1. /\ pc' = pc /\ i' = i
          /\ \/ built' = built + 1 /\ UNCHANGED <<turn, verified>>
             \/ turn' = turn + 1 /\ UNCHANGED <<built, verified>>
             \/ verified' = verified + 1 /\ UNCHANGED <<built, turn>>
        BY <1>2 DEF Instrument, Fuzz, Verify, reading
    <2>2. Count' > Count
        BY <1>0, <2>1 DEF Count
    <2> QED
        BY <2>1, <2>2 DEF Forward
<1>3. CASE NextRound
    BY <1>3 DEF NextRound, Forward
<1>4. CASE Help \/ OtherCommand \/ NothingToParse \/ RefuseFlag \/ StartParse
    <2>1. pc = "main" /\ pc' \in {"exited", "go", "decide", "parsed", "scan"}
        BY <1>4 DEF Help, OtherCommand, NothingToParse, RefuseFlag, StartParse,
           ParseReturns, Exit, Go
    <2> QED
        BY <2>1 DEF Rank, Forward
<1>5. CASE NoPackages \/ FoundPackages
    <2>1. \/ pc = "scan" /\ pc' = "parse"
          \/ pc = "rescan" /\ pc' = "search"
        BY <1>5 DEF NoPackages, FoundPackages, Scanning, AfterScan, Go
    <2> QED
        BY <2>1 DEF Rank, Forward
<1>6. CASE ParseHelp \/ ParseFails \/ ArgumentLeft \/ ParseEnds \/ Parsed
    <2>1. \/ pc = "parse" /\ pc' = "parsed"
          \/ pc = "parsed" /\ pc' \in {"decide", "exited"}
        BY <1>6 DEF ParseHelp, ParseFails, ArgumentLeft, ParseEnds, Parsed, Parsing,
           ParseReturns, Exit, Go
    <2> QED
        BY <2>1 DEF Rank, Forward
<1>7. CASE ToVerify \/ TimeoutTooShort \/ FindTargets
    <2>1. pc = "decide" /\ pc' \in {"rescan", "exited", "instrument"}
        BY <1>7 DEF ToVerify, TimeoutTooShort, FindTargets, Exit, Go
    <2> QED
        BY <2>1 DEF Rank, Forward
<1>8. CASE InstrumentFails \/ CompileOnly \/ StartFuzzing \/ FuzzFails \/ EndFuzzing
    <2>1. \/ pc = "instrument" /\ pc' \in {"exited", "fuzz"}
          \/ pc = "fuzz" /\ pc' = "exited"
        BY <1>8 DEF InstrumentFails, CompileOnly, StartFuzzing, FuzzFails, EndFuzzing, Exit, Go
    <2> QED
        BY <2>1 DEF Rank, Forward
<1>9. CASE TooManyPackages \/ FindVerified \/ VerifyFails \/ EndVerify \/ ExecGo
    <2>1. \/ pc = "search" /\ pc' \in {"exited", "verify"}
          \/ pc = "verify" /\ pc' \in {"exited", "go"}
          \/ pc = "go" /\ pc' = "exited"
        BY <1>9 DEF TooManyPackages, FindVerified, VerifyFails, EndVerify, ExecGo, Exit, Go
    <2> QED
        BY <2>1 DEF Rank, Forward
<1> QED
    BY <1>1, <1>2, <1>3, <1>4, <1>5, <1>6, <1>7, <1>8, <1>9 DEF Next

\* For arguments of any length: fzgo never goes back to a part it has left, reads
\* no argument twice in one scan, and does nothing to a function twice, except
\* that a session without -fuzztime begins a new round.  So every other run ends
\* after a bounded number of steps (fzgoMain, main.go:68-235; FindPkgs and the
\* loops over functions).
THEOREM RunsAreFinite == Spec => ([]ForwardBounded /\ [][Forward]_vars)
<1>1. Init => ReadBound
    <2> SUFFICES ASSUME Init PROVE ReadBound
        OBVIOUS
    <2>1. Len(args) \in Nat /\ i = 1
        BY InitType, Numbers DEF Init
    <2> QED
        BY <2>1 DEF ReadBound
<1>2. TypeOK /\ ReadBound /\ [Next]_vars => ReadBound'
    BY BoundStep
<1>3. TypeOK /\ ReadBound => ForwardBounded
    <2> SUFFICES ASSUME TypeOK, ReadBound PROVE ForwardBounded
        OBVIOUS
    <2>1. Rank <= 11
        BY DEF Rank
    <2>2. Len(args) \in Nat /\ i \in Nat
        BY Numbers
    <2>3. Count \in Nat
        BY <2>2, WorkNumbers DEF Count
    <2>4. Count <= (Len(args) + 2) + MaxFunctions + (MaxFunctions + 1) + MaxFunctions
        BY <2>2, WorkNumbers DEF ReadBound, Count
    <2>5. (Len(args) + 2) + MaxFunctions + (MaxFunctions + 1) + MaxFunctions
              = Len(args) + 3 * MaxFunctions + 3
        BY <2>2, WorkNumbers
    <2> QED
        BY <2>1, <2>3, <2>4, <2>5 DEF ForwardBounded
<1>4. TypeOK /\ [Next]_vars => [Forward]_vars
    BY StepForward
<1> QED
    BY <1>1, <1>2, <1>3, <1>4, TypeCorrect, PTL DEF Spec

=============================================================================
