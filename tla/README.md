# A TLA+ model of fzgo

fzgo is a command that prototypes fuzzing in `go test`. It finds fuzz
functions, builds instrumented binaries with go-fuzz-build, caches them, runs
go-fuzz on them in turn, and runs the collected corpus as a regression test.
Functions with a rich signature get a generated wrapper that decodes the bytes
of go-fuzz into arguments, and a second command, genfuzzfuncs, writes fuzz
functions for the functions and methods of a package. This directory models all
of these, checks the models with TLC, and proves the main results with TLAPS for
every value of the constants.

Each `.cfg` names its module: `tlc -config MCInstrument_exclusive.cfg MCInstrument`;
`tlapm InstrumentProofs.tla` checks the proofs of a module.

## The system

| component | code | state | operations | what makes it correct |
|---|---|---|---|---|
| cache of instrumented binaries | `fuzz/exec.go`, `fuzz/cache.go` | `<GOPATH>/pkg/fuzz/<os_arch>/<hash>/<pkg.Func>/fuzz.zip[.partial]`, `Target.savedCacheDir` | `Instrument`, `Hash`, `cacheDir`, `zipPath`, the child go-fuzz-build | a zip that exists is whole and is what its hash stands for; a target never loses its zip |
| fuzzing session | `main.go`, `fuzz/exec.go` | the quantum, the target whose turn it is, the child process, the timer | the loop of `fzgoMain`, `Start`, `execCmd` | time-outs are no failures, failures are, every target gets its share |
| corpus locations and seeding | `main.go`, `fuzz/cache.go` | three corpus directories per function | `determineWorkDir`, `copyCachedCorpus`, `CopyDir`, `CopyFile` | go-fuzz starts on all known entries, whole; no entry is changed |
| corpus as regression test | `main.go`, `fuzz/runcorpus.go`, `fuzz/richsig.go` | the working directory, temporary directories, the exit status | `verifyCorpus`, `verifyFiles`, `CreateRichSigWrapper` | failing inputs, and only they, decide the exit status; the directory is restored |
| main control | `main.go` | how far fzgo has come, the exit status | `fzgoMain`, `verifyCorpus` | wrong arguments do nothing; status 0 is earned |
| command line | `fuzz/flag.go`, `main.go` | the flag variables, the packages | `ParseArgs`, `FindFlag`, `FindPkgs`, `FlagSet` | every argument is read as it was meant, or refused |
| finding functions | `fuzz/packages.go` | none | `FindFunc` | finds every match, in a fixed order |
| rich signatures | `fuzz/richsig.go` | none | `createWrapper`, `fillVars` | the wrapper passes every argument |
| decoding | `randparam/` | the bytes left of an input | `NewFuzzer`, `randSource`, `randBytes`, the number fillers | total on every input; literals pass through |
| genfuzzfuncs | `genfuzzfuncs/` | the names in use | `avoidCollision`, `constructorReplace`, `createWrapper` | the names a wrapper uses are those it declares |

`fzgoMain` ties them together. `fzgo test -fuzz=...` finds functions,
instruments them all, and then goes round them, seeding before each turn.
`fzgo test` without `-fuzz`, or with both `-fuzz` and `-run`, verifies the
corpus. fzgo is sequential but for the callback of `time.AfterFunc`. What runs
concurrently with it is other fzgo invocations on the same directories, its
own child processes, and the user who edits sources and may kill anything.
There is no lock anywhere; the cache and the corpus rely on `os.Stat` and on
one `os.Rename`. The hard behaviours are therefore interleavings on disk, kills
between two steps, the race of timer, callback and exit, and long sequences of
locations and directories. The command line, the decoding and the naming of
genfuzzfuncs are sequential; what is hard about them is that several passes over
the same data (two scans of the arguments, a size field and what follows it, four
places that name one parameter) have to agree on inputs nobody listed.
PROJECT.json lists each hazard at its line.

## Modules

| module | models | with |
|---|---|---|
| `CacheStore` | what the cache promises: a write-once store from hashes to whole zips | |
| `CorpusStore` | what the corpus directories promise: whole entries, written once, each in its owner's directory and from a known source | |
| `Session` | what a fuzzing session promises: a round robin that a failure ends | |
| `Regression` | what the regression test promises: function after function, and a failure sticks | |
| `Instrument` | `Instrument`, the loop that calls it, `cacheDir`, `zipPath`, `Hash`, the child go-fuzz-build | refines `CacheStore` |
| `FuzzLoop` | the session loop of `fzgoMain`, `Start`, `execCmd` | refines `Session` |
| `CorpusSeed` | `determineWorkDir`, `copyCachedCorpus`, `CopyDir`, `CopyFile` | refines `CorpusStore` |
| `VerifyCorpus` | `verifyCorpus`, `verifyFiles`, `CreateRichSigWrapper` without its code generation | refines `Regression` |
| `Fzgo` | `fzgoMain` from the arguments to the exit status, `ParseArgs` and its scans, `verifyCorpus` as steps | refines `Session` and `Regression`; the steps are detailed by the four above |
| `ByteSupply` | what decoding promises: pieces of the input, from left to right | |
| `RandParam` | package `randparam`, and the wrapper that `createWrapper` and `fillVars` generate | refines `ByteSupply` |
| `GenFuzz` | `createWrapper` of genfuzzfuncs for one function, with the search for a constructor | |
| `MC...` | instances for TLC; `VerifyCorpus` needs none | |
| `...Proofs` | the theorems of the module named | |

The operators marked `Fault:` in a comment are not part of a specification.
Each is what a definition would be with a plausible mistake in the code, and is
kept beside the definition to show that a property notices the mistake.

### Instrument

Processes are invocations on one GOPATH. `pc[p]` follows `Instrument` step by
step: `Prepare` (tools, signature, wrapper), `HashDir` (`target.cacheDir`),
`CacheHit` or `CacheMiss` (the stat), the three steps of go-fuzz-build that
touch something shared (`BuildRead`, `BuildOpen`, `BuildClose`), and `Rename`.
`CacheHit` and `Rename` include the return with its deferred clean-up and the
append in `fzgoMain`. `Fail` is any error return, `Crash` a kill, `Edit` a user
saving a file; all three may come between any two steps. A hash is modelled by
its preimage, so distinct contents have distinct hashes; a zip by what it was
compiled from; `Torn` is a file that is truncated or being written. go-fuzz-build
is external: that it creates its `-o` file by truncating it follows from how
`Instrument` reuses the name. A build that is renamed under the hands of another
keeps its open file (`at`), as on Unix.

Two constants are environment assumptions that runs and theorems switch:
`Overlap` (may two invocations instrument one function at a time?) and
`LiveEdits` (may a file be saved between the hash and the read of the build?).
Reading all the files for a hash is one step, and so is go-fuzz-build's reading
of them. An invocation's end takes its build with it; a build that outlives its
fzgo behaves as another invocation's, which `Overlap` covers.

### FuzzLoop

Main goroutine, timer, callback goroutine and child are four processes.
`timer` tells apart what `timer.Stop()` can tell (`armed` or not) and whether the
callback has run; `late` is a callback whose `execCmd` has already returned, and
which the runtime may still run while a later go-fuzz is running. `clock` counts
up to the limit of the running child only, so it needs no bound, and the
quantum has the bound of the code, scaled: 1, 2, 4, 5 units for 5 s ... 10 min.
Negative values of `-fuzztime`, which the flag package accepts, are included.
A user's Ctrl-C, which stops fzgo and go-fuzz together, is not modelled.
`KeepsSession` hides all of this: a turn counts as done when `execCmd` has
returned nil or can return nothing else (`TurnOver`), and what is left is `Session`.

### CorpusSeed

One fuzz function, several invocations with the same or another `-fuzzdir`. One
action per system call that another process can tell from the next: listing a
source, the look at the destination, the open that creates and truncates, the
copy. `ioutil.ReadDir`'s order is abstracted to any order, and subdirectories
are flattened (`CopyDir` recurses with the same steps). A new entry of go-fuzz is
one step. `cut` and `listed` are history variables. For `CorpusStore` an entry is
there when it is whole (`Corpus`), and an invocation that has died or not begun is
off (`Stage`): a copy is one step there, the one that writes the last byte.

### VerifyCorpus

Inputs chosen in `Init` and fixed afterwards: which tests `-run` selects, whether
`-fuzz` is set too, the kind of `-fuzzdir`, and for each function, location and
test whether the directory exists, holds something selected, and passes. The
actions follow the loops of `verifyCorpus` and every early return and deferred
call of `verifyFiles` and `CreateRichSigWrapper`. `cwd`, `oldWd`, `temp` and
`wrapper` are the process' working directory and the temporary directories. An
error that the code builds and drops (an invalid `-run`) does what the code does:
nothing is verified. `trouble` is a history variable: a tool or the file system
failed, as opposed to an input. For `Regression` a function is done when the loop
goes on to the next one, and locations, tests and directories disappear.

### Fzgo

One run of fzgo. `cmd` and `args` are `os.Args`, chosen in `Init`. An argument is a
record of what the code tells apart: its text and, if `candidateFlag` takes it for
a flag, the name, whether it has the `-test.` form, and the value behind `=`.
`Sees` is `FindFlag`. `FindPkgs` takes a step for each argument it passes over
(`ScanFlag`) and one for the packages, and runs twice: for `ParseArgs` (`scan`) and
for `verifyCorpus` (`rescan`). `ParseFlag`, `ParseFails` and the like are
`flag.FlagSet.Parse` on what is left, which is external. From `decide` on the
actions are the branches of `fzgoMain`; instrumenting, one turn of fuzzing, and
the verification of one function are steps that succeed or fail, which
`Instrument`, `FuzzLoop`, `CorpusSeed` and `VerifyCorpus` detail. What the arguments
mean is defined apart from the scans: `Readings` reads them from left to right
with the definitions of all flags. `Fuzzing` and `Verifying` map the part of a run
that fuzzes, if there is one, to `Session`, and the part that verifies to `Regression`:
the same two specifications that `FuzzLoop` and `VerifyCorpus` refine, which is how
the coarse steps of `Fzgo` and the detailed modules are known to agree.

### RandParam

`data` and `sig` are an input and a parameter list. `pc` is `size` while `randBytes`
or `calcSize` looks for a size field, `copy` while the bytes are taken, and `fill`
between two values; `items` holds all values so far and how far the source stood
after each. Sizes are scaled: a byte is `0 .. MaxByte`, a number takes `Width` bytes
and the ranges of `NewFuzzer` are `Step` wide. A slice of numbers is gofuzz's, whose
draws and length are nondeterministic within what `NewFuzzer` asks for (external).
An `io.Writer` takes nothing from the input; `context.Context` panics, because
`InterfaceImpl` says `context.Background` where the switch of `fillVars` has
`context.Context`. `FieldAfter`, `LengthUsed` and `Decoded` are the encoding as the
comment of `randBytes` sums it up (`randparam.go:175-179`), apart from the actions.
The code does not keep to it everywhere: `CutMark` names the inputs where it
compares 0xFF, and not the length 0 that it stands for, with what is left.
`StringsAsDocumented` makes no exception and is violated; `StringsAsEncoded` says that
there is no other.

### GenFuzz

One function or method through `createWrapper`. A name is a letter and the rest,
because `avoidCollision` keeps the first and replaces the second by an index.
`all` is `allParams`; `declared`, `checked`, `made`, `ctorArgs`, `object` and `args`
are the names the wrapper uses in its parameter list, nil checks, constructor
call and call under test, each computed where the code computes it and with its
index. A parameter is identified as in go/types, where no two are equal. The order
of `possibleConstructors` is any that the sort allows, since `FindFunc` ranges over
a map and the sort is not stable. `IsPossible` and `IsSuitable` are the two filters.
`avoidCollision` does not compare the names it makes up with the names there are, so
the comment that it "returns a non-colliding name" (`genfuzzfuncs.go:252-253`) holds with
an exception, which `KeptMeetsMade` names: a kept name that looks like the made-up
one of the place in question. The properties assume nothing about the names.

## Runs

| run | expects | shows |
|---|---|---|
| `instrument_exclusive` | pass | with neither overlap nor live edits: types, zips whole, targets ready, no double build, refinement of `CacheStore`, whose zips are fresh |
| `instrument_overlap` | violation | two invocations of one function share `fuzz.zip.partial` and publish a torn zip |
| `fuzzloop` | pass | no spurious and no lost failure, signals only after the deadline and only to the right child, equal shares, no starvation, `-fuzztime` ends, refinement of `Session` |
| `corpus_apart` | pass | different corpus directories, one seeding at a time: complete seeds, refinement of `CorpusStore` |
| `corpus_cut` | violation | a copy cut short leaves a truncated entry that is trusted for good |
| `verify_absolute` | pass | failing inputs are reported and nothing else is; tests run in place; directories restored |
| `verify_relative` | violation | a relative `-fuzzdir` makes a passing corpus fail |
| `fzgo` | pass | arguments are read as meant or refused; go gets no `-fuzz`; wrong arguments do nothing; all are instrumented before any is fuzzed; status 0 is earned; refinement of `Session` and `Regression` |
| `randparam` | pass | strings as the documented encoding says except at a mark too close to the end, arguments complete and in order, refinement of `ByteSupply`, every input ends in a call |
| `randparam_mark` | violation | the mark of an empty string near the end drains the input, although the documented encoding asks only for the bytes of the length used |
| `genfuzz` | pass | names meet each other or the package only where one already has the form of a made-up one; they are used as declared; the simplest constructor |
| `genfuzz_args` | violation | a renamed parameter of a bare method is declared and passed under different names |

**Bounds.** Two invocations suffice for the cache and the corpus: the protocol
has no counting, and every conflict is between one writer and one other; two
versions are needed to tell a stale zip from a fresh one, two functions to have
targets in hand while another is instrumented and a rich one next to a plain
one. `Asked` gives one invocation both functions and the other the second, so
that each can meet the other's zips. Three targets show the start, middle and
end of a round, and the quantum passes through doubling and the cap. Two entries
and two contents show a copy interrupted between two files and a name that means
different inputs in two places. Two functions in three locations show everything
that is carried over to a next location and a next function.

For `Fzgo` all argument lists of up to three (`Short`) of 18 arguments are taken,
and all of up to four (`Long`) of the seven with which the two scans could
disagree: that is enough for a flag, its value, a package behind it and a second
flag in every order. Two functions show one that fails after one that
succeeded. `RandParam` runs with `MaxByte` 4, `Width` 2 and `Step` 1: 4 marks the empty
string, so sizes 0, 1, 2 and the mark occur, sizes larger than, equal to and smaller
than what is left do, a number may find both its bytes, one, or none, and each
of the five ranges of `NewFuzzer` is met. The mark occurs with its own value in bytes behind it and with
fewer, so both sides of `CutMark` do. Inputs of up to six bytes fill two
parameters with zeros before each. 3 is left out behind the first byte since it
is a size like 2. `GenFuzz` has up to two parameters for
constructor and function each, and a receiver or none, with names that are equal, start alike, name the
package, are blank, absent or have the form of a made-up one (`s1`, `s2`), with a package
`p` or `p1`, and with candidates that are refused each for one reason. Every
exception that `DeclaredOnce`, `ReceiverIsNew` and `PackageVisible` make occurs.

Versions, names and contents of the first modules are symmetric. Where an action property or refinement is checked
under symmetry it is a safety property; the liveness properties are checked
without.

**Deadlock** is checked in the Instrument and CorpusSeed runs. FuzzLoop,
VerifyCorpus and Fzgo end in `exited`, RandParam in the call, GenFuzz with the
wrapper, so it is switched off there.

**Fairness** is stated in FuzzLoop and RandParam. RandParam is one sequential
program that nothing stops but its own panic, hence `WF_vars(Next)`. In FuzzLoop the main goroutine and the callback are
scheduled by the Go runtime, time passes, timers fire, and a process that has
been interrupted or killed exits (`WF_vars(signalled /\ ChildExits)`). The last
is what the code relies on: `execCmd` sends one SIGINT and waits without a second
limit. A go-fuzz that has not been signalled need never exit, so a session
without limit and with one target need not end.

## Proofs

Every safety property and every refinement of the passing runs is a theorem for
all values of the constants, from the assumptions in each module's
`ConstantsAssumption`.

* **Instrument.** The invariant `Base` adds to the types that the file a process
  has open and the key it holds agree with its stage. Targets stay ready
  because no step takes a zip away, whoever overlaps with whom
  (`TargetsStayReady` and `HitsStay` need no assumption). Under `~Overlap` two processes
  that have a hash in hand work on different functions, hence on different
  paths; so a partial file has one writer and is whole when it is renamed
  (`ZipsAreWhole`, `NoDoubleBuild`), and a zip is never replaced
  (`HitsStaySame`). Under `~LiveEdits` too, what is compiled is
  what was hashed (`ZipsAreFresh`), and with all of this every step is a
  `Publish` of `CacheStore` or leaves the store alone (`ImplementsStore`).
* **FuzzLoop.** `TimerInv` relates child, timer, clock and the signal: a signalled
  child means a fired timer, and a fired timer an elapsed limit. From it
  `InterruptIsNoFailure`, `SignalsAreTimely` and `FailuresEndSession`. `RoundsAreFair`
  has an invariant of its own that says what each target was granted in terms of
  the quantum and the position in the round. `ImplementsSession` maps
  the step after which `execCmd` can only return nil (`Wait`, or the timer that fires
  right after it) to `Turn`, the error returns to `TurnFails`, the ends of rounds to
  themselves, and every other step of timers and processes to a stutter.
  `TurnsAreFinite` is the safety half of `SessionEnds`: `TurnLeft`, a natural number
  that adds up what timer, callbacks, child and main goroutine have still to do,
  goes down with every step of a turn that has a limit.
* **CorpusSeed.** `HandInv`: between the look and the end of the copy the entry
  belongs to the copier, and its source stays. `CopyInv`: every listed entry is
  copied, to be copied, or in hand. They need `~Overlap` and that no two
  invocations have one corpus directory (`OwnDirs`), since go-fuzz itself adds
  entries. From them `SeedingCompletes`, `EntriesLeftAlone` and, with every step
  mapped to one of `CorpusStore`, `ImplementsCorpus`. What remains without these
  assumptions is `NamesAreComplete`: `NameInv` follows the names alone, which no
  interleaving, failure or kill can take away.
* **VerifyCorpus.** `PlaceInv` says where fzgo is at each stage (`TestsRunInPlace`,
  `ReturnsClean`). `ReportInv` says that the status remembers every failing input
  among the tests already passed, in the order of the three loops
  (`NoRegressionMissed`). `AlarmInv` is the converse and needs that `-fuzzdir` is
  not relative and that there are functions (`AlarmsAreReal`); `verify_relative`
  shows the need of the first. `ImplementsRegression` maps the step that leaves a
  function to `Verified` and a failing test to `InputFails`, and needs only
  to know at each stage whether there are functions and which statuses are possible
  (`FoundInv`). `VerifyingIsFinite`
  has a measure that goes up with every step to a bound linear in the number of
  functions, so the regression test ends under any scheduling that runs it.
* **Fzgo.** `ScanAt`, `PackagesAt` and `ParseAt` say how far each scan agrees with the
  one reading of the arguments: behind the scan every argument is what it was
  taken for, and each flag has the value its last occurrence up to there gives it
  (`KnownUpTo`, `MeantUpTo`). The hard case is a flag `FindPkgs` does not know: it
  may skip too much, but then `Parse` returns an error, so nothing is claimed.
  From this follow `ScansAgree`, `LooksInRightPackages` and, with what `FindTestFlag`
  sees, `FuzzNeverReachesGo`. `IdleBefore` and `ControlInv` tie the stage to the work
  done so far (`WrongArgumentsDoNothing`, `FuzzesWhatIsInstrumented`); `DoneInv` says
  what has been done when the status is `Success` (`SuccessMeansDone`). For
  `ImplementsParts` the steps split into those outside of a part, which must leave
  all that it maps alone, and those inside, one lemma for each kind and part.
  `RunsAreFinite` orders the parts of `fzgoMain` and counts, within each, arguments
  read and functions done: the one step back is a new round without `-fuzztime`.
* **RandParam.** The invariant says where the size field of the value in hand
  stands and that only zeros came before it; with each finished value the
  statement about it no longer depends on the state (`DecodesStrings`, which like
  `StringsAsEncoded` says nothing of a value whose size field is a cut mark). `OrderInv`
  says which values belong to which parameter and how many elements are due
  (`FillsAllArguments`). For the refinement a copy in progress maps to no progress, and
  the step that ends it gives its bytes out at once (`TakesPieces`).
  `LiteralsArrive` draws the conclusion for which the encoding was chosen: a literal
  that go-fuzz puts in with its length before it arrives unchanged.
  `DecodingIsFinite` is the safety half of `EveryInputArrives`: parameters, elements,
  phases and bytes are counted down in this order.
* **GenFuzz.** A made-up name carries the position of its parameter and a kept one
  collides with nothing. So for any names and any number of parameters two
  made-up names differ, two kept ones do, and a kept one meets a made-up one
  only if it has its form (`NamesDeclaredOnce`, `ReceiverStaysNew`); a kept name never
  shadows the package, and a made-up one only if the package's name ends in its
  place (`PackageStaysVisible`). One parameter gets the same name in two places
  exactly if the indexes agree (`NamesMatch`).
  `ChoosesSimplest` has as invariant that all candidates before `k` are unsuitable.

Only model-checked: the liveness properties `NoStarvation`, `SessionEnds` and
`EveryInputArrives`, since fairness and ENABLED are beyond the prover, and all the
violations. Of `SessionEnds` and `EveryInputArrives` the theorems on finiteness
prove that no run goes on for ever; that none stops early is what TLC adds.
`KeepsRegression` is proved and has no run; `verify_absolute` checks the
properties of its own module, and `fzgo` the same specification one level up.

## Seen while modelling, without a run

* A file that is saved between `Hash` and go-fuzz-build's read of it leaves a zip
  under the hash of other contents (`LiveEdits` in `Instrument`; the theorem
  `ZipsAreFresh` needs its absence).
* `FZGOFLAGSBUILD` is not part of the hash (`cache.go:42`), so a hit ignores it.
* Two seedings of one directory at a time can truncate an entry that exists
  (`cache.go:223-226`; `EntriesLeftAlone` needs `~Overlap`).
* `wrapperTempDir` is the innermost directory of the wrapper's tree
  (`richsig.go:142`), so the rest of the tree stays in the temporary directory.
* `FindFunc`'s comment says that finding nothing is no error (`packages.go:39`); it is
  one (`packages.go:108-110`), so a plain `fzgo test` of such a package fails.
* `context.Context` is announced in `InterfaceImpl` and panics in the wrapper.
* The receiver that a constructor makes and the constructor's first parameter,
  when both are renamed and start alike, get one name (`ReceiverIsNew` spells it out).
* A made-up name can be one that is there: a parameter `s2` beside a renamed second
  parameter `s`, or a package `v1` and a renamed first parameter `v`, which then
  shadows the package although `genfuzzfuncs.go:256` handles "using the package name as
  a parameter name" (`DeclaredOnce` and `PackageVisible` spell it out).
* With `-run` and no `-fuzz` the flags of `UnimplementedBuildFlags` are refused,
  although `flag.go:15-16` says they are passed through; and without both, a flag
  with no value such as `-race` in front of the package makes `verifyCorpus` look in
  the current directory (`RightPackages` is about fzgo's own flags only).
* `fzgo test -args -fuzz=x` ends the search of `FindFlag` and goes to go untouched, as
  it should; `GoNeverFuzzes` excludes it.
* `FindPkgs` knows bool flags by their short names only (`flag.go:81`, `226`), although
  "Each flag is registered once as "foo" and once as "test.foo"" (`flag.go:279`):
  `-test.v` and `-test.c` swallow the argument behind them. `fzgo test -test.v -fuzz p -v`
  fuzzes functions matching `-v` in package `p`, and `-test.v -run p -fuzz=F` hands go
  a `-fuzz` that fzgo has not seen. `ReadAsMeant`, `RightPackages` and `GoNeverFuzzes`
  leave these forms out (`ShortBools`), and TLC finds each of them violated without it.

## Not modelled

* `FindFunc`'s search and `goListDir`: calls of go/packages and the go command;
  their outcomes are inputs.
* The text that `createWrapper`, `fillVars` and genfuzzfuncs print, beyond names and
  values: types, imports, whether it compiles.
* Arguments that consist of hyphens (`-`, `--`), and most members of the three lists
  of refused flags, which are treated alike.
* gofuzz beyond slices of numbers: maps, structs and pointers draw from the same
  source by the same rules.
* go-fuzz and go-fuzz-build beyond what fzgo uses of them.
* Several GOPATH entries, and errors of `os.Stat` other than not-exist.
* The examples and test scripts, which are inputs of tests.

## Plan

1. Errors of `os.Stat` in `Instrument`, under a constant like `Overlap`.
2. `FindFunc` of both commands as one module: patterns, prefixes, several matches,
   the order of the result.
3. Structs and maps in `RandParam`, with gofuzz's order of draws.
