----------------------------- MODULE Instrument -----------------------------
(***************************************************************************)
(* The cache of instrumented binaries: the loop of fzgoMain (main.go) that *)
(* calls fuzz.Instrument (fuzz/exec.go) on every function it found, with   *)
(* Target.cacheDir, Target.zipPath and Hash (fuzz/cache.go).               *)
(*                                                                         *)
(* The processes are fzgo invocations that share one GOPATH, and with it   *)
(* the cache directories.  They interleave with each other and with a user *)
(* who saves files, each may be killed between any two steps, and a killed *)
(* or finished invocation may be launched again.  go-fuzz-build is a child *)
(* process; its steps are the three that touch shared state: it reads the  *)
(* source, creates (truncates) its output file, and finishes writing it.   *)
(***************************************************************************)
EXTENDS Naturals, Sequences

CONSTANTS
    Procs,      \* fzgo invocations on one GOPATH
    Funcs,      \* fuzz functions FindFunc can return
    Rich,       \* those that need a wrapper (not func([]byte) int)
    Asked,      \* Asked[p]: the functions p's arguments match, in order
    Versions,   \* contents of a function's package and dependencies
    Flags,      \* values of FZGOFLAGSBUILD
    Overlap,    \* may two invocations instrument one function at a time?
    LiveEdits,  \* may the user save a file between Hash and the build's read?
    NoFile,     \* no file at this path
    Torn,       \* a file somebody truncated or has not finished writing
    NoKey       \* Target.savedCacheDir = ""

\* The directory of a content hash: Hash covers the function's name and all
\* the files the build compiles, so the hash is read as its preimage.
Key == [func : Funcs, version : Versions]

\* A finished fuzz.zip, identified by what it was compiled from.
Zip == [version : Versions, flags : Flags]

Content == Zip \cup {NoFile, Torn}

ASSUME ConstantsAssumption ==
    /\ Rich \subseteq Funcs
    /\ Asked \in [Procs -> Seq(Funcs)]
    /\ \A p \in Procs : Asked[p] # << >>
    /\ Overlap \in BOOLEAN /\ LiveEdits \in BOOLEAN
    /\ NoKey \notin Key
    /\ NoFile \notin Zip /\ Torn \notin Zip /\ NoFile # Torn

VARIABLES
    src,        \* src[f]: the contents f's hash would cover if taken now
    pc,         \* pc[p]: where p is in Instrument, or "off", "next", "fuzz"
    env,        \* env[p]: FZGOFLAGSBUILD of the invocation
    targets,    \* targets[p]: savedCacheDir of each Target returned so far
    key,        \* key[p]: savedCacheDir of the Target being made
    wrapper,    \* wrapper[p]: p's latest temp tree for a rich signature
    built,      \* built[p]: what p's go-fuzz-build has compiled
    at,         \* at[p]: where the file p's go-fuzz-build has open is now
    partial,    \* partial[k]: fuzz.zip.partial under k
    final       \* final[k]: fuzz.zip under k

vars == <<src, pc, env, targets, key, wrapper, built, at, partial, final>>
disk == <<partial, final>>

-----------------------------------------------------------------------------
(* Stages of Instrument, between Hash's read and the return.               *)

Writing == {"writing", "mixing"}
Building == {"build", "open"} \cup Writing \cup {"rename"}
Hashed == {"stat"} \cup Building
Stages == {"off", "next", "hash", "fuzz"} \cup Hashed

\* The function p is working on.
Current(p) == Asked[p][Len(targets[p]) + 1]

Instrumenting(p) == pc[p] \in {"hash"} \cup Hashed

\* Fault: Hash does not cover the files.
HashOfName(p) == [func |-> Current(p), version |-> CHOOSE v \in Versions : TRUE]

\* Hash of the function and of the source as it is now.
Hash(p) == [func |-> Current(p), version |-> src[Current(p)]]

\* Fault: zipPath hashes again when the zip is needed.
ZipPathRehashed(p, i) ==
    [func |-> Asked[p][i], version |-> src[Asked[p][i]]]

\* Where Start will look for the zip of p's i-th target: Target.zipPath joins
\* "fuzz.zip" to the savedCacheDir and does not hash again.
ZipPath(p, i) == targets[p][i]

\* The deferred os.RemoveAll(target.wrapperTempDir) names the innermost
\* directory of the temp tree, so the directories above it stay.
CleanUp(p) ==
    wrapper' = [wrapper EXCEPT ![p] = IF @ = "present" THEN "parents" ELSE @]

-----------------------------------------------------------------------------

Init ==
    /\ src \in [Funcs -> Versions]
    /\ pc = [p \in Procs |-> "off"]
    /\ env \in [Procs -> Flags]
    /\ targets = [p \in Procs |-> << >>]
    /\ key = [p \in Procs |-> NoKey]
    /\ wrapper = [p \in Procs |-> "none"]
    /\ built = [p \in Procs |-> NoFile]
    /\ at = [p \in Procs |-> "closed"]
    /\ partial = [k \in Key |-> NoFile]
    /\ final = [k \in Key |-> NoFile]

\* A user runs fzgo test -fuzz=... with some FZGOFLAGSBUILD.
Launch(p) ==
    /\ pc[p] = "off"
    /\ pc' = [pc EXCEPT ![p] = "next"]
    /\ \E g \in Flags : env' = [env EXCEPT ![p] = g]
    /\ UNCHANGED <<src, targets, key, wrapper, built, at, disk>>

\* A user saves a file, or goes back to an earlier version of it.
Edit(f, v) ==
    /\ src[f] # v
    /\ LiveEdits \/ \A p \in Procs :
           ~(pc[p] \in {"stat", "build"} /\ key[p].func = f)
    /\ src' = [src EXCEPT ![f] = v]
    /\ UNCHANGED <<pc, env, targets, key, wrapper, built, at, disk>>

\* Instrument begins: the tools are in the path and the signature is plain,
\* or CreateRichSigWrapper leaves its wrapper package in a new temp tree.
Prepare(p) ==
    /\ pc[p] = "next"
    /\ Len(targets[p]) < Len(Asked[p])
    /\ Overlap \/ \A q \in Procs :
           Instrumenting(q) => Current(q) # Current(p)
    /\ pc' = [pc EXCEPT ![p] = "hash"]
    /\ wrapper' = [wrapper EXCEPT
                       ![p] = IF Current(p) \in Rich THEN "present" ELSE @]
    /\ UNCHANGED <<src, env, targets, key, built, at, disk>>

\* Fault: cacheDir does not remember the hash.
HashDirForgotten(p) ==
    /\ pc[p] = "hash"
    /\ pc' = [pc EXCEPT ![p] = "stat"]
    /\ UNCHANGED <<src, env, targets, key, wrapper, built, at, disk>>

\* target.cacheDir: hash the sources, remember the answer, make the directory.
HashDir(p) ==
    /\ pc[p] = "hash"
    /\ key' = [key EXCEPT ![p] = Hash(p)]
    /\ pc' = [pc EXCEPT ![p] = "stat"]
    /\ UNCHANGED <<src, env, targets, wrapper, built, at, disk>>

\* Instrument returns its target, deferred clean-up included, and the loop of
\* fzgoMain appends it.
Return(p) ==
    /\ targets' = [targets EXCEPT ![p] = Append(@, key[p])]
    /\ key' = [key EXCEPT ![p] = NoKey]
    /\ built' = [built EXCEPT ![p] = NoFile]
    /\ CleanUp(p)
    /\ pc' = [pc EXCEPT ![p] = "next"]

\* The zip exists, in which case it is trusted.
CacheHit(p) ==
    /\ pc[p] = "stat"
    /\ final[key[p]] # NoFile
    /\ Return(p)
    /\ UNCHANGED <<src, env, at, disk>>

\* Fault: builds without looking whether the zip exists.
CacheMissAssumed(p) ==
    /\ pc[p] = "stat"
    /\ pc' = [pc EXCEPT ![p] = "build"]
    /\ UNCHANGED <<src, env, targets, key, wrapper, built, at, disk>>

CacheMiss(p) ==
    /\ pc[p] = "stat"
    /\ final[key[p]] = NoFile
    /\ pc' = [pc EXCEPT ![p] = "build"]
    /\ UNCHANGED <<src, env, targets, key, wrapper, built, at, disk>>

\* go-fuzz-build reads and compiles the source as it finds it.
BuildRead(p) ==
    /\ pc[p] = "build"
    /\ built' = [built EXCEPT
                     ![p] = [version |-> src[key[p].func], flags |-> env[p]]]
    /\ pc' = [pc EXCEPT ![p] = "open"]
    /\ UNCHANGED <<src, env, targets, key, wrapper, at, disk>>

\* The other go-fuzz-builds that have fuzz.zip.partial of p's key open.
Sharing(p) == {q \in Procs \ {p} : key[q] = key[p] /\ at[q] = "partial"}

\* Fault: go-fuzz-build writes to fuzz.zip, without the .partial step.
BuildOpenFinal(p) ==
    /\ pc[p] = "open"
    /\ final' = [final EXCEPT ![key[p]] = Torn]
    /\ at' = [at EXCEPT ![p] = "final"]
    /\ pc' = [pc EXCEPT ![p] = "writing"]
    /\ UNCHANGED <<src, env, targets, key, wrapper, built, partial>>

\* go-fuzz-build creates its -o file: an existing fuzz.zip.partial is
\* truncated, whoever is writing it.
BuildOpen(p) ==
    /\ pc[p] = "open"
    /\ partial' = [partial EXCEPT ![key[p]] = Torn]
    /\ at' = [at EXCEPT ![p] = "partial"]
    /\ pc' = [q \in Procs |->
                 IF q = p THEN IF Sharing(p) = {} THEN "writing" ELSE "mixing"
                 ELSE IF q \in Sharing(p) THEN "mixing" ELSE pc[q]]
    /\ UNCHANGED <<src, env, targets, key, wrapper, built, final>>

\* go-fuzz-build has written its last byte and exits.  The file is whole if
\* nobody else had it open meanwhile, otherwise whole or a mixture.
BuildClose(p) ==
    /\ pc[p] \in Writing
    /\ \E c \in {built[p]} \cup (IF pc[p] = "mixing" THEN {Torn} ELSE {}) :
          /\ partial' = IF at[p] = "partial"
                        THEN [partial EXCEPT ![key[p]] = c] ELSE partial
          /\ final' = IF at[p] = "final"
                      THEN [final EXCEPT ![key[p]] = c] ELSE final
    /\ at' = [at EXCEPT ![p] = "closed"]
    /\ pc' = [pc EXCEPT ![p] = "rename"]
    /\ UNCHANGED <<src, env, targets, key, wrapper, built>>

\* os.Rename(fuzz.zip.partial, fuzz.zip).  A file another build still has
\* open moves with its name; the zip it replaces loses its name.
Rename(p) ==
    /\ pc[p] = "rename"
    /\ partial[key[p]] # NoFile
    /\ final' = [final EXCEPT ![key[p]] = partial[key[p]]]
    /\ partial' = [partial EXCEPT ![key[p]] = NoFile]
    /\ at' = [q \in Procs |->
                 IF key[q] # key[p] THEN at[q]
                 ELSE CASE at[q] = "partial" -> "final"
                        [] at[q] = "final"   -> "unlinked"
                        [] OTHER             -> at[q]]
    /\ Return(p)
    /\ UNCHANGED <<src, env>>

\* Every function is instrumented: fzgo goes on to fuzz (see FuzzLoop).
StartFuzzing(p) ==
    /\ pc[p] = "next"
    /\ Len(targets[p]) = Len(Asked[p])
    /\ pc' = [pc EXCEPT ![p] = "fuzz"]
    /\ UNCHANGED <<src, env, targets, key, wrapper, built, at, disk>>

\* The invocation is over and its memory gone; its go-fuzz-build, if any, is
\* gone with it, and what either had written stays on disk.
Stop(p) ==
    /\ pc' = [pc EXCEPT ![p] = "off"]
    /\ targets' = [targets EXCEPT ![p] = << >>]
    /\ key' = [key EXCEPT ![p] = NoKey]
    /\ built' = [built EXCEPT ![p] = NoFile]
    /\ at' = [at EXCEPT ![p] = "closed"]
    /\ UNCHANGED <<src, env, disk>>

\* Fuzzing ends, or -c asked to compile only: exit status Success.
Finish(p) ==
    /\ pc[p] = "fuzz"
    /\ Stop(p)
    /\ UNCHANGED wrapper

\* A call of Instrument fails (the tools are missing, go list or go-fuzz-build
\* fails, the rename finds no file): the error returns through the deferred
\* clean-up, and fzgoMain exits with OtherErr.
Fail(p) ==
    /\ pc[p] \in {"next", "hash"} \cup Hashed
    /\ pc[p] = "next" => Len(targets[p]) < Len(Asked[p])
    /\ CleanUp(p)
    /\ Stop(p)

\* The invocation is interrupted or killed: nothing is cleaned up.
Crash(p) ==
    /\ pc[p] # "off"
    /\ Stop(p)
    /\ UNCHANGED wrapper

Next ==
    \/ \E f \in Funcs, v \in Versions : Edit(f, v)
    \/ \E p \in Procs :
          \/ Launch(p) \/ Prepare(p) \/ HashDir(p)
          \/ CacheHit(p) \/ CacheMiss(p)
          \/ BuildRead(p) \/ BuildOpen(p) \/ BuildClose(p) \/ Rename(p)
          \/ StartFuzzing(p) \/ Finish(p) \/ Fail(p) \/ Crash(p)

Spec == Init /\ [][Next]_vars

-----------------------------------------------------------------------------
(* Properties.                                                             *)

\* Every variable has its type, and a hash in hand is remembered: from Hash to
\* the return Target.savedCacheDir is set, and it is unset until then.
TypeOK ==
    /\ src \in [Funcs -> Versions]
    /\ pc \in [Procs -> Stages]
    /\ env \in [Procs -> Flags]
    /\ targets \in [Procs -> Seq(Key)]
    /\ key \in [Procs -> Key \cup {NoKey}]
    /\ wrapper \in [Procs -> {"none", "present", "parents"}]
    /\ built \in [Procs -> Zip \cup {NoFile}]
    /\ at \in [Procs -> {"closed", "partial", "final", "unlinked"}]
    /\ partial \in [Key -> Content]
    /\ final \in [Key -> Content]
    /\ \A p \in Procs : (key[p] # NoKey) <=> (pc[p] \in Hashed)

\* "In which case we trust it" (exec.go:71): a fuzz.zip that a stat finds is
\* whole, whatever was killed or failed half way and whatever ran meanwhile.
\* Two invocations building one function at a time break it: run
\* instrument_overlap.
ZipTrusted == \A k \in Key : final[k] # Torn

\* The savedCacheDir that Instrument returned leads Start to a zip however
\* often the user edits the sources between instrumenting and fuzzing, while
\* other invocations build, fail and crash (Target.zipPath, exec.go:190-219).
TargetsReady ==
    \A p \in Procs : \A i \in 1 .. Len(targets[p]) :
        final[ZipPath(p, i)] # NoFile

\* A build runs only for a zip that is not in the cache, up to the moment it
\* is published: no work is done twice and no zip is built over another.
\* "Builds ... if they do not already exist in the fzgo cache" (exec.go:12).
BuildOnlyOnMiss ==
    \A p \in Procs : pc[p] \in Building => final[key[p]] = NoFile

\* The zip under a hash was compiled from the contents that were hashed, so a
\* later hit on that hash runs the code it stands for (cache.go:40-41).  With
\* LiveEdits, when a file is saved between Hash and go-fuzz-build's read, it
\* need not be.
CacheNeverStale ==
    \A k \in Key : final[k] \in Zip => final[k].version = k.version

\* The cache directories implement the write-once store of CacheStore.tla.
Store == INSTANCE CacheStore WITH store <- final
WriteOnceCache == Store!Spec

=============================================================================
