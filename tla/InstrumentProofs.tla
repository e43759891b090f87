-------------------------- MODULE InstrumentProofs --------------------------
(***************************************************************************)
(* Proofs about Instrument.tla, for any number of invocations, functions,  *)
(* versions and flags.                                                     *)
(***************************************************************************)
EXTENDS Instrument, SequenceTheorems, TLAPS

\* A stage of Instrument is about a function that was asked for, and the hash
\* in hand is that function's.
HandInv ==
    \A p \in Procs :
        /\ Instrumenting(p) => Len(targets[p]) < Len(Asked[p])
        /\ pc[p] \in Hashed => key[p].func = Current(p)

\* Once go-fuzz-build has read the source it has something to write, and it
\* has a file open only while it writes.
BuiltInv ==
    \A p \in Procs :
        /\ pc[p] \in {"open", "rename"} \cup Writing => built[p] \in Zip
        /\ at[p] # "closed" => pc[p] \in Writing

Base == TypeOK /\ HandInv /\ BuiltInv

\* No function is instrumented twice at a time ...
Apart ==
    \A p, q \in Procs :
        p # q /\ Instrumenting(p) /\ Instrumenting(q) => Current(p) # Current(q)

\* ... so that every build has its fuzz.zip.partial to itself, and no fuzz.zip
\* in its way.
OwnFiles ==
    /\ \A p \in Procs :
          /\ pc[p] # "mixing"
          /\ at[p] \in {"closed", "partial"}
          /\ at[p] = "partial" <=> pc[p] = "writing"
          /\ pc[p] = "rename" => partial[key[p]] = built[p]
    /\ BuildOnlyOnMiss
    /\ ZipTrusted

\* While no source changes between hash and build, what is built is what was
\* hashed.
Fresh ==
    /\ \A p \in Procs :
          /\ pc[p] \in {"stat", "build"} => src[key[p].func] = key[p].version
          /\ pc[p] \in {"open", "rename"} \cup Writing
                => built[p].version = key[p].version
    /\ CacheNeverStale

-----------------------------------------------------------------------------

LEMMA CurrentAsked ==
    ASSUME NEW p \in Procs, TypeOK, Len(targets[p]) < Len(Asked[p])
    PROVE  Current(p) \in Funcs
<1>1. Len(targets[p]) \in Nat /\ Asked[p] \in Seq(Funcs)
  BY ConstantsAssumption DEF ConstantsAssumption, TypeOK
<1> QED
  BY <1>1 DEF Current

LEMMA TypeStep == Base /\ [Next]_vars => TypeOK'
<1> SUFFICES ASSUME Base, [Next]_vars PROVE TypeOK'
  OBVIOUS
<1> USE DEF Base, TypeOK, Stages, Hashed, Building, Writing, disk, Content
<1>1. ASSUME NEW f \in Funcs, NEW v \in Versions, Edit(f, v) PROVE TypeOK'
  BY <1>1 DEF Edit
<1>2. ASSUME NEW p \in Procs, Launch(p) PROVE TypeOK'
  BY <1>2 DEF Launch
<1>3. ASSUME NEW p \in Procs, Prepare(p) PROVE TypeOK'
  BY <1>3 DEF Prepare
<1>4. ASSUME NEW p \in Procs, HashDir(p) PROVE TypeOK'
  <2>1. Current(p) \in Funcs
    BY <1>4, CurrentAsked DEF HashDir, HandInv, Instrumenting
  <2>2. Hash(p) \in Key /\ Hash(p) # NoKey
    BY <2>1, ConstantsAssumption DEF Hash, Key, ConstantsAssumption
  <2> QED
    BY <1>4, <2>2 DEF HashDir
<1>5. ASSUME NEW p \in Procs, CacheHit(p) PROVE TypeOK'
  <2>1. key[p] \in Key
    BY <1>5 DEF CacheHit
  <2> QED
    BY <1>5, <2>1 DEF CacheHit, Return, CleanUp
<1>6. ASSUME NEW p \in Procs, CacheMiss(p) PROVE TypeOK'
  BY <1>6 DEF CacheMiss
<1>7. ASSUME NEW p \in Procs, BuildRead(p) PROVE TypeOK'
  <2>1. [version |-> src[key[p].func], flags |-> env[p]] \in Zip
    BY <1>7 DEF BuildRead, Key, Zip
  <2> QED
    BY <1>7, <2>1 DEF BuildRead
<1>8. ASSUME NEW p \in Procs, BuildOpen(p) PROVE TypeOK'
  BY <1>8 DEF BuildOpen, Sharing
<1>9. ASSUME NEW p \in Procs, BuildClose(p) PROVE TypeOK'
  BY <1>9 DEF BuildClose
<1>10. ASSUME NEW p \in Procs, Rename(p) PROVE TypeOK'
  BY <1>10 DEF Rename, Return, CleanUp
<1>11. ASSUME NEW p \in Procs, StartFuzzing(p) PROVE TypeOK'
  BY <1>11 DEF StartFuzzing
<1>12. ASSUME NEW p \in Procs, Finish(p) PROVE TypeOK'
  BY <1>12 DEF Finish, Stop
<1>13. ASSUME NEW p \in Procs, Fail(p) PROVE TypeOK'
  BY <1>13 DEF Fail, Stop, CleanUp
<1>14. ASSUME NEW p \in Procs, Crash(p) PROVE TypeOK'
  BY <1>14 DEF Crash, Stop
<1>15. CASE UNCHANGED vars
  BY <1>15 DEF vars
<1> QED
  BY <1>1, <1>2, <1>3, <1>4, <1>5, <1>6, <1>7, <1>8, <1>9, <1>10, <1>11,
     <1>12, <1>13, <1>14, <1>15 DEF Next

\* A target is appended only when Instrument returns.
LEMMA HandStep ==
    ASSUME Base, [Next]_vars
    PROVE  HandInv'
<1> USE DEF Base, TypeOK, HandInv, Instrumenting, Current, Hashed, Building, Writing, disk
<1>1. ASSUME NEW f \in Funcs, NEW v \in Versions, Edit(f, v) PROVE HandInv'
  BY <1>1 DEF Edit
<1>2. ASSUME NEW p \in Procs, Launch(p) PROVE HandInv'
  BY <1>2 DEF Launch
<1>3. ASSUME NEW p \in Procs, Prepare(p) PROVE HandInv'
  BY <1>3 DEF Prepare
<1>4. ASSUME NEW p \in Procs, HashDir(p) PROVE HandInv'
  BY <1>4 DEF HashDir, Hash
<1>5. ASSUME NEW p \in Procs, CacheHit(p) PROVE HandInv'
  BY <1>5 DEF CacheHit, Return, CleanUp
<1>6. ASSUME NEW p \in Procs, CacheMiss(p) PROVE HandInv'
  BY <1>6 DEF CacheMiss
<1>7. ASSUME NEW p \in Procs, BuildRead(p) PROVE HandInv'
  BY <1>7 DEF BuildRead
<1>8. ASSUME NEW p \in Procs, BuildOpen(p) PROVE HandInv'
  BY <1>8 DEF BuildOpen, Sharing
<1>9. ASSUME NEW p \in Procs, BuildClose(p) PROVE HandInv'
  BY <1>9 DEF BuildClose
<1>10. ASSUME NEW p \in Procs, Rename(p) PROVE HandInv'
  BY <1>10 DEF Rename, Return, CleanUp
<1>11. ASSUME NEW p \in Procs, StartFuzzing(p) PROVE HandInv'
  BY <1>11 DEF StartFuzzing
<1>12. ASSUME NEW p \in Procs, Finish(p) PROVE HandInv'
  BY <1>12 DEF Finish, Stop
<1>13. ASSUME NEW p \in Procs, Fail(p) PROVE HandInv'
  BY <1>13 DEF Fail, Stop, CleanUp
<1>14. ASSUME NEW p \in Procs, Crash(p) PROVE HandInv'
  BY <1>14 DEF Crash, Stop
<1>15. CASE UNCHANGED vars
  BY <1>15 DEF vars
<1> QED
  BY <1>1, <1>2, <1>3, <1>4, <1>5, <1>6, <1>7, <1>8, <1>9, <1>10, <1>11,
     <1>12, <1>13, <1>14, <1>15 DEF Next

\* What a build has read it keeps until it is published.
LEMMA BuiltStep ==
    ASSUME Base, [Next]_vars
    PROVE  BuiltInv'
<1> USE DEF Base, TypeOK, BuiltInv, Hashed, Building, Writing, disk
<1>1. ASSUME NEW f \in Funcs, NEW v \in Versions, Edit(f, v) PROVE BuiltInv'
  BY <1>1 DEF Edit
<1>2. ASSUME NEW p \in Procs, Launch(p) PROVE BuiltInv'
  BY <1>2 DEF Launch
<1>3. ASSUME NEW p \in Procs, Prepare(p) PROVE BuiltInv'
  BY <1>3 DEF Prepare
<1>4. ASSUME NEW p \in Procs, HashDir(p) PROVE BuiltInv'
  BY <1>4 DEF HashDir, Hash
<1>5. ASSUME NEW p \in Procs, CacheHit(p) PROVE BuiltInv'
  BY <1>5 DEF CacheHit, Return, CleanUp
<1>6. ASSUME NEW p \in Procs, CacheMiss(p) PROVE BuiltInv'
  BY <1>6 DEF CacheMiss
<1>7. ASSUME NEW p \in Procs, BuildRead(p) PROVE BuiltInv'
  <2>1. [version |-> src[key[p].func], flags |-> env[p]] \in Zip
    BY <1>7 DEF BuildRead, Key, Zip
  <2> QED
    BY <1>7, <2>1 DEF BuildRead
<1>8. ASSUME NEW p \in Procs, BuildOpen(p) PROVE BuiltInv'
  BY <1>8 DEF BuildOpen, Sharing
<1>9. ASSUME NEW p \in Procs, BuildClose(p) PROVE BuiltInv'
  BY <1>9 DEF BuildClose
<1>10. ASSUME NEW p \in Procs, Rename(p) PROVE BuiltInv'
  BY <1>10 DEF Rename, Return, CleanUp
<1>11. ASSUME NEW p \in Procs, StartFuzzing(p) PROVE BuiltInv'
  BY <1>11 DEF StartFuzzing
<1>12. ASSUME NEW p \in Procs, Finish(p) PROVE BuiltInv'
  BY <1>12 DEF Finish, Stop
<1>13. ASSUME NEW p \in Procs, Fail(p) PROVE BuiltInv'
  BY <1>13 DEF Fail, Stop, CleanUp
<1>14. ASSUME NEW p \in Procs, Crash(p) PROVE BuiltInv'
  BY <1>14 DEF Crash, Stop
<1>15. CASE UNCHANGED vars
  BY <1>15 DEF vars
<1> QED
  BY <1>1, <1>2, <1>3, <1>4, <1>5, <1>6, <1>7, <1>8, <1>9, <1>10, <1>11,
     <1>12, <1>13, <1>14, <1>15 DEF Next

\* Functions that differ have hashes, and directories, that differ.
LEMMA KeysApart ==
    ASSUME Base, Apart, NEW p \in Procs, NEW q \in Procs, p # q,
           pc[p] \in Hashed, pc[q] \in Hashed
    PROVE  key[p] # key[q]
BY DEF Base, HandInv, Apart, Instrumenting

\* A function is taken up by one invocation at a time.
LEMMA ApartStep ==
    ASSUME ~Overlap, Base, Apart, [Next]_vars
    PROVE  Apart'
<1> USE DEF Base, TypeOK, Apart, Instrumenting, Current, Hashed, Building, Writing, disk
<1>1. ASSUME NEW f \in Funcs, NEW v \in Versions, Edit(f, v) PROVE Apart'
  BY <1>1 DEF Edit
<1>2. ASSUME NEW p \in Procs, Launch(p) PROVE Apart'
  BY <1>2 DEF Launch
<1>3. ASSUME NEW p \in Procs, Prepare(p) PROVE Apart'
  BY <1>3 DEF Prepare
<1>4. ASSUME NEW p \in Procs, HashDir(p) PROVE Apart'
  BY <1>4 DEF HashDir, Hash
<1>5. ASSUME NEW p \in Procs, CacheHit(p) PROVE Apart'
  BY <1>5 DEF CacheHit, Return, CleanUp
<1>6. ASSUME NEW p \in Procs, CacheMiss(p) PROVE Apart'
  BY <1>6 DEF CacheMiss
<1>7. ASSUME NEW p \in Procs, BuildRead(p) PROVE Apart'
  BY <1>7 DEF BuildRead
<1>8. ASSUME NEW p \in Procs, BuildOpen(p) PROVE Apart'
  BY <1>8 DEF BuildOpen, Sharing
<1>9. ASSUME NEW p \in Procs, BuildClose(p) PROVE Apart'
  BY <1>9 DEF BuildClose
<1>10. ASSUME NEW p \in Procs, Rename(p) PROVE Apart'
  BY <1>10 DEF Rename, Return, CleanUp
<1>11. ASSUME NEW p \in Procs, StartFuzzing(p) PROVE Apart'
  BY <1>11 DEF StartFuzzing
<1>12. ASSUME NEW p \in Procs, Finish(p) PROVE Apart'
  BY <1>12 DEF Finish, Stop
<1>13. ASSUME NEW p \in Procs, Fail(p) PROVE Apart'
  BY <1>13 DEF Fail, Stop, CleanUp
<1>14. ASSUME NEW p \in Procs, Crash(p) PROVE Apart'
  BY <1>14 DEF Crash, Stop
<1>15. CASE UNCHANGED vars
  BY <1>15 DEF vars
<1> QED
  BY <1>1, <1>2, <1>3, <1>4, <1>5, <1>6, <1>7, <1>8, <1>9, <1>10, <1>11,
     <1>12, <1>13, <1>14, <1>15 DEF Next

\* Every file of a directory is in the hands of at most one build.
LEMMA OwnFilesStep ==
    ASSUME Base, Apart, OwnFiles, [Next]_vars
    PROVE  OwnFiles'
<1> USE KeysApart DEF Base, TypeOK, OwnFiles, BuiltInv, BuildOnlyOnMiss,
        ZipTrusted, Hashed, Building, Writing, disk
<1>1. ASSUME NEW f \in Funcs, NEW v \in Versions, Edit(f, v) PROVE OwnFiles'
  BY <1>1 DEF Edit
<1>2. ASSUME NEW p \in Procs, Launch(p) PROVE OwnFiles'
  BY <1>2 DEF Launch
<1>3. ASSUME NEW p \in Procs, Prepare(p) PROVE OwnFiles'
  BY <1>3 DEF Prepare
<1>4. ASSUME NEW p \in Procs, HashDir(p) PROVE OwnFiles'
  BY <1>4 DEF HashDir, Hash
<1>5. ASSUME NEW p \in Procs, CacheHit(p) PROVE OwnFiles'
  BY <1>5 DEF CacheHit, Return, CleanUp
<1>6. ASSUME NEW p \in Procs, CacheMiss(p) PROVE OwnFiles'
  BY <1>6 DEF CacheMiss
<1>7. ASSUME NEW p \in Procs, BuildRead(p) PROVE OwnFiles'
  BY <1>7 DEF BuildRead
<1>8. ASSUME NEW p \in Procs, BuildOpen(p) PROVE OwnFiles'
  BY <1>8 DEF BuildOpen, Sharing
<1>9. ASSUME NEW p \in Procs, BuildClose(p) PROVE OwnFiles'
  BY <1>9 DEF BuildClose
<1>10. ASSUME NEW p \in Procs, Rename(p) PROVE OwnFiles'
  <2>1. /\ pc[p] = "rename" /\ key[p] \in Key
        /\ partial[key[p]] \in Zip /\ partial[key[p]] # Torn
    BY <1>10, ConstantsAssumption DEF Rename, ConstantsAssumption
  <2>2. ASSUME NEW q \in Procs, q # p, pc[q] \in Hashed
        PROVE  key[q] # key[p]
    BY <2>1, <2>2, KeysApart
  <2>3. \A q \in Procs : at'[q] = at[q]
    <3> SUFFICES ASSUME NEW q \in Procs, key[q] = key[p]
                 PROVE  at[q] = "closed"
      BY <1>10 DEF Rename
    <3>1. CASE q = p
      BY <2>1, <3>1
    <3>2. CASE q # p
      BY <2>1, <2>2, <3>2
    <3> QED
      BY <3>1, <3>2
  <2>4. /\ pc' = [pc EXCEPT ![p] = "next"]
        /\ key' = [key EXCEPT ![p] = NoKey]
        /\ built' = [built EXCEPT ![p] = NoFile]
        /\ partial' = [partial EXCEPT ![key[p]] = NoFile]
        /\ final' = [final EXCEPT ![key[p]] = partial[key[p]]]
    BY <1>10 DEF Rename, Return
  <2>5. ASSUME NEW q \in Procs
        PROVE  /\ pc'[q] # "mixing"
               /\ at'[q] \in {"closed", "partial"}
               /\ at'[q] = "partial" <=> pc'[q] = "writing"
               /\ pc'[q] = "rename" => partial'[key'[q]] = built'[q]
               /\ pc'[q] \in Building => final'[key'[q]] = NoFile
    <3>1. CASE q = p
      BY <2>1, <2>3, <2>4, <3>1
    <3>2. CASE q # p
      BY <2>1, <2>2, <2>3, <2>4, <3>2
    <3> QED
      BY <3>1, <3>2
  <2>6. \A k \in Key : final'[k] # Torn
    BY <2>1, <2>4
  <2> QED
    BY <2>5, <2>6
<1>11. ASSUME NEW p \in Procs, StartFuzzing(p) PROVE OwnFiles'
  BY <1>11 DEF StartFuzzing
<1>12. ASSUME NEW p \in Procs, Finish(p) PROVE OwnFiles'
  BY <1>12 DEF Finish, Stop
<1>13. ASSUME NEW p \in Procs, Fail(p) PROVE OwnFiles'
  BY <1>13 DEF Fail, Stop, CleanUp
<1>14. ASSUME NEW p \in Procs, Crash(p) PROVE OwnFiles'
  BY <1>14 DEF Crash, Stop
<1>15. CASE UNCHANGED vars
  BY <1>15 DEF vars
<1> QED
  BY <1>1, <1>2, <1>3, <1>4, <1>5, <1>6, <1>7, <1>8, <1>9, <1>10, <1>11,
     <1>12, <1>13, <1>14, <1>15 DEF Next

\* A zip that is in the cache is never taken out again.
LEMMA ReadyStep ==
    ASSUME Base, TargetsReady, [Next]_vars
    PROVE  TargetsReady'
<1> USE ConstantsAssumption DEF ConstantsAssumption, Base, TypeOK, BuiltInv,
        TargetsReady, ZipPath, Hashed, Building, Writing, disk
<1>1. ASSUME NEW f \in Funcs, NEW v \in Versions, Edit(f, v) PROVE TargetsReady'
  BY <1>1 DEF Edit
<1>2. ASSUME NEW p \in Procs, Launch(p) PROVE TargetsReady'
  BY <1>2 DEF Launch
<1>3. ASSUME NEW p \in Procs, Prepare(p) PROVE TargetsReady'
  BY <1>3 DEF Prepare
<1>4. ASSUME NEW p \in Procs, HashDir(p) PROVE TargetsReady'
  BY <1>4 DEF HashDir, Hash
<1>5. ASSUME NEW p \in Procs, CacheHit(p) PROVE TargetsReady'
  BY <1>5 DEF CacheHit, Return, CleanUp
<1>6. ASSUME NEW p \in Procs, CacheMiss(p) PROVE TargetsReady'
  BY <1>6 DEF CacheMiss
<1>7. ASSUME NEW p \in Procs, BuildRead(p) PROVE TargetsReady'
  BY <1>7 DEF BuildRead
<1>8. ASSUME NEW p \in Procs, BuildOpen(p) PROVE TargetsReady'
  BY <1>8 DEF BuildOpen, Sharing
<1>9. ASSUME NEW p \in Procs, BuildClose(p) PROVE TargetsReady'
  BY <1>9 DEF BuildClose
<1>10. ASSUME NEW p \in Procs, Rename(p) PROVE TargetsReady'
  BY <1>10 DEF Rename, Return, CleanUp
<1>11. ASSUME NEW p \in Procs, StartFuzzing(p) PROVE TargetsReady'
  BY <1>11 DEF StartFuzzing
<1>12. ASSUME NEW p \in Procs, Finish(p) PROVE TargetsReady'
  BY <1>12 DEF Finish, Stop
<1>13. ASSUME NEW p \in Procs, Fail(p) PROVE TargetsReady'
  BY <1>13 DEF Fail, Stop, CleanUp
<1>14. ASSUME NEW p \in Procs, Crash(p) PROVE TargetsReady'
  BY <1>14 DEF Crash, Stop
<1>15. CASE UNCHANGED vars
  BY <1>15 DEF vars
<1> QED
  BY <1>1, <1>2, <1>3, <1>4, <1>5, <1>6, <1>7, <1>8, <1>9, <1>10, <1>11,
     <1>12, <1>13, <1>14, <1>15 DEF Next

\* What was hashed is what is built, and what is published.
LEMMA FreshStep ==
    ASSUME ~LiveEdits, Base, Apart, OwnFiles, Fresh, [Next]_vars
    PROVE  Fresh'
<1> USE DEF Base, TypeOK, OwnFiles, Fresh, BuiltInv, CacheNeverStale, Hashed, Building, Writing, disk
<1>1. ASSUME NEW f \in Funcs, NEW v \in Versions, Edit(f, v) PROVE Fresh'
  BY <1>1 DEF Edit
<1>2. ASSUME NEW p \in Procs, Launch(p) PROVE Fresh'
  BY <1>2 DEF Launch
<1>3. ASSUME NEW p \in Procs, Prepare(p) PROVE Fresh'
  BY <1>3 DEF Prepare
<1>4. ASSUME NEW p \in Procs, HashDir(p) PROVE Fresh'
  BY <1>4 DEF HashDir, Hash
<1>5. ASSUME NEW p \in Procs, CacheHit(p) PROVE Fresh'
  BY <1>5 DEF CacheHit, Return, CleanUp
<1>6. ASSUME NEW p \in Procs, CacheMiss(p) PROVE Fresh'
  BY <1>6 DEF CacheMiss
<1>7. ASSUME NEW p \in Procs, BuildRead(p) PROVE Fresh'
  BY <1>7 DEF BuildRead
<1>8. ASSUME NEW p \in Procs, BuildOpen(p) PROVE Fresh'
  BY <1>8 DEF BuildOpen, Sharing
<1>9. ASSUME NEW p \in Procs, BuildClose(p) PROVE Fresh'
  BY <1>9 DEF BuildClose
<1>10. ASSUME NEW p \in Procs, Rename(p) PROVE Fresh'
  BY <1>10 DEF Rename, Return, CleanUp
<1>11. ASSUME NEW p \in Procs, StartFuzzing(p) PROVE Fresh'
  BY <1>11 DEF StartFuzzing
<1>12. ASSUME NEW p \in Procs, Finish(p) PROVE Fresh'
  BY <1>12 DEF Finish, Stop
<1>13. ASSUME NEW p \in Procs, Fail(p) PROVE Fresh'
  BY <1>13 DEF Fail, Stop, CleanUp
<1>14. ASSUME NEW p \in Procs, Crash(p) PROVE Fresh'
  BY <1>14 DEF Crash, Stop
<1>15. CASE UNCHANGED vars
  BY <1>15 DEF vars
<1> QED
  BY <1>1, <1>2, <1>3, <1>4, <1>5, <1>6, <1>7, <1>8, <1>9, <1>10, <1>11,
     <1>12, <1>13, <1>14, <1>15 DEF Next

-----------------------------------------------------------------------------

\* The part of the invariant that holds whatever the environment does.
LEMMA BaseInvariant == Spec => []Base
<1>1. Init => Base
  BY ConstantsAssumption
     DEF Init, Base, TypeOK, HandInv, BuiltInv, ConstantsAssumption, Stages,
         Hashed, Building, Writing, Content, Instrumenting
<1>2. Base /\ [Next]_vars => Base'
  BY TypeStep, HandStep, BuiltStep DEF Base
<1> QED
  BY <1>1, <1>2, PTL DEF Spec

\* Type correctness of the instrumenting invocations and their cache.
THEOREM TypeCorrect == Spec => []TypeOK
<1>1. Base => TypeOK
  BY DEF Base
<1> QED
  BY <1>1, BaseInvariant, PTL

\* A target that Instrument returned stays usable, however the sources, the
\* other invocations and the cache change (Target.savedCacheDir).
THEOREM TargetsStayReady == Spec => []TargetsReady
<1>1. Init => TargetsReady
  BY DEF Init, TargetsReady
<1> QED
  BY <1>1, BaseInvariant, ReadyStep, PTL DEF Spec

\* What holds when no function is instrumented twice at a time.
LEMMA ExclusiveInvariant ==
    ASSUME ~Overlap
    PROVE  Spec => [](Base /\ Apart /\ OwnFiles)
<1>1. Init => Apart /\ OwnFiles
  BY ConstantsAssumption
     DEF Init, Apart, OwnFiles, BuildOnlyOnMiss, ZipTrusted, Instrumenting,
         ConstantsAssumption, Hashed, Building, Writing
<1>2. Base /\ Apart /\ OwnFiles /\ [Next]_vars => (Apart /\ OwnFiles)'
  BY ApartStep, OwnFilesStep
<1> QED
  BY <1>1, <1>2, BaseInvariant, PTL DEF Spec

\* Without overlapping builds of one function no crash and no failure, at any
\* step, leaves a fuzz.zip that is not whole (exec.go:71-110).
THEOREM ZipsAreWhole ==
    ASSUME ~Overlap
    PROVE  Spec => []ZipTrusted
<1>1. OwnFiles => ZipTrusted
  BY DEF OwnFiles
<1> QED
  BY <1>1, ExclusiveInvariant, PTL

\* Without overlapping builds of one function nothing is built that is in the
\* cache already (exec.go:12-13).
THEOREM NoDoubleBuild ==
    ASSUME ~Overlap
    PROVE  Spec => []BuildOnlyOnMiss
<1>1. OwnFiles => BuildOnlyOnMiss
  BY DEF OwnFiles
<1> QED
  BY <1>1, ExclusiveInvariant, PTL

\* All of the invariant.
LEMMA FreshInvariant ==
    ASSUME ~Overlap, ~LiveEdits
    PROVE  Spec => [](Base /\ Apart /\ OwnFiles /\ Fresh)
<1>1. Init => Fresh
  BY ConstantsAssumption
     DEF Init, Fresh, CacheNeverStale, ConstantsAssumption, Writing
<1> QED
  BY <1>1, ExclusiveInvariant, FreshStep, PTL DEF Spec

\* When moreover no file is saved between hash and build, a zip is what its
\* hash says (cache.go:40-41).
THEOREM ZipsAreFresh ==
    ASSUME ~Overlap, ~LiveEdits
    PROVE  Spec => []CacheNeverStale
<1>1. Fresh => CacheNeverStale
  BY DEF Fresh
<1> QED
  BY <1>1, FreshInvariant, PTL

\* Under the same conditions the cache directories, with their partial files,
\* hits, misses, failures and crashes, implement the write-once store.
THEOREM ImplementsStore ==
    ASSUME ~Overlap, ~LiveEdits
    PROVE  Spec => WriteOnceCache
<1>1. Init => Store!Init
  BY DEF Init, Store!Init, Store!Key, Key
<1>2. ASSUME Base, Apart, OwnFiles, Fresh, [Next]_vars
      PROVE  [Store!Next]_final
  <2> USE DEF disk
  <2>1. ASSUME NEW p \in Procs, Rename(p) PROVE Store!Next
    <3>0. pc[p] = "rename" /\ pc[p] \in Building /\ pc[p] \in Hashed
      BY <2>1 DEF Rename, Hashed, Building
    <3>1. key[p] \in Store!Key /\ final[key[p]] = NoFile
      BY <1>2, <3>0
         DEF Base, TypeOK, OwnFiles, BuildOnlyOnMiss, Key, Store!Key
    <3>2. partial[key[p]] = built[p] /\ built[p] \in Store!Zip
      BY <1>2, <3>0 DEF Base, BuiltInv, OwnFiles, Zip, Store!Zip
    <3>3. partial[key[p]].version = key[p].version
      BY <1>2, <3>0, <3>2 DEF Fresh
    <3>4. Store!Publish(key[p], partial[key[p]])
      BY <2>1, <3>1, <3>3 DEF Rename, Store!Publish
    <3> QED
      BY <3>1, <3>2, <3>4 DEF Store!Next
  <2>2. ASSUME NEW p \in Procs, BuildClose(p) PROVE UNCHANGED final
    <3>1. at[p] # "final"
      BY <1>2 DEF OwnFiles
    <3> QED
      BY <2>2, <3>1 DEF BuildClose
  <2>3. CASE UNCHANGED vars
    BY <2>3 DEF vars
  <2>4. ASSUME NEW f \in Funcs, NEW v \in Versions, Edit(f, v)
        PROVE  UNCHANGED final
    BY <2>4 DEF Edit
  <2>5. ASSUME NEW p \in Procs,
               \/ Launch(p) \/ Prepare(p) \/ HashDir(p)
               \/ CacheHit(p) \/ CacheMiss(p)
               \/ BuildRead(p) \/ BuildOpen(p)
               \/ StartFuzzing(p) \/ Finish(p) \/ Fail(p) \/ Crash(p)
        PROVE  UNCHANGED final
    BY <2>5 DEF Launch, Prepare, HashDir, CacheHit, CacheMiss, BuildRead,
                BuildOpen, StartFuzzing, Finish, Fail, Crash, Stop
  <2> QED
    BY <1>2, <2>1, <2>2, <2>3, <2>4, <2>5, Zenon DEF Next
<1> QED
  BY <1>1, <1>2, FreshInvariant, PTL DEF Spec, WriteOnceCache, Store!Spec

-----------------------------------------------------------------------------
(* What a step may do to the zips that are in the cache.                   *)

\* None is taken out.
ZipsStay == [][\A k \in Key : final[k] # NoFile => final'[k] # NoFile]_final

\* None is written again.
PublishedOnce == [][\A k \in Key : final[k] # NoFile => final'[k] = final[k]]_final

\* Only these two steps touch a fuzz.zip.
LEMMA FinalElsewhere ==
    ASSUME [Next]_vars, \A p \in Procs : ~Rename(p) /\ ~BuildClose(p)
    PROVE  final' = final
<1> USE DEF disk
<1>1. ASSUME NEW f \in Funcs, NEW v \in Versions, Edit(f, v) PROVE final' = final
  BY <1>1 DEF Edit
<1>2. ASSUME NEW p \in Procs,
             \/ Launch(p) \/ Prepare(p) \/ HashDir(p)
             \/ CacheHit(p) \/ CacheMiss(p)
             \/ BuildRead(p) \/ BuildOpen(p)
             \/ StartFuzzing(p) \/ Finish(p) \/ Fail(p) \/ Crash(p)
      PROVE  final' = final
  BY <1>2 DEF Launch, Prepare, HashDir, CacheHit, CacheMiss, BuildRead,
              BuildOpen, StartFuzzing, Finish, Fail, Crash, Stop
<1>3. CASE UNCHANGED vars
  BY <1>3 DEF vars
<1> QED
  BY <1>1, <1>2, <1>3, Zenon DEF Next

\* Whatever overlaps, is killed or edited: a zip that a stat has found does not
\* disappear, so a hit never turns into a failure of Start.  It may become
\* another, or torn (exec.go:71-110, fuzz.zip is renamed over and never removed).
THEOREM HitsStay == Spec => ZipsStay
<1> DEFINE Kept == \A k \in Key : final[k] # NoFile => final'[k] # NoFile
<1>1. ASSUME Base, [Next]_vars PROVE Kept
  <2> USE DEF Base, TypeOK
  <2>1. ASSUME NEW p \in Procs, Rename(p) PROVE Kept
    BY <1>1, <2>1 DEF Rename, Hashed, Building
  <2>2. ASSUME NEW p \in Procs, BuildClose(p) PROVE Kept
    <3>1. built[p] # NoFile
      BY <1>1, <2>2, ConstantsAssumption
         DEF BuildClose, BuiltInv, ConstantsAssumption
    <3>2. PICK c \in {built[p], Torn} :
              final' = IF at[p] = "final" THEN [final EXCEPT ![key[p]] = c] ELSE final
      BY <2>2 DEF BuildClose
    <3>3. c # NoFile
      BY <3>1, ConstantsAssumption DEF ConstantsAssumption
    <3> QED
      BY <1>1, <3>2, <3>3
  <2>3. CASE \A p \in Procs : ~Rename(p) /\ ~BuildClose(p)
    BY <1>1, <2>3, FinalElsewhere
  <2> HIDE DEF Kept
  <2> QED
    BY <2>1, <2>2, <2>3
<1> QED
  BY <1>1, BaseInvariant, PTL DEF Spec, ZipsStay

\* Without overlapping builds of one function a zip is written once, even if
\* the user saves files while it is built: invocations that trusted it go on
\* with what they trusted (exec.go:71-110).
THEOREM HitsStaySame ==
    ASSUME ~Overlap
    PROVE  Spec => PublishedOnce
<1> DEFINE Same == \A k \in Key : final[k] # NoFile => final'[k] = final[k]
<1>1. ASSUME Base, OwnFiles, [Next]_vars PROVE Same
  <2>1. ASSUME NEW p \in Procs, Rename(p) PROVE Same
    <3>1. final[key[p]] = NoFile
      BY <1>1, <2>1 DEF Rename, OwnFiles, BuildOnlyOnMiss, Building
    <3> QED
      BY <1>1, <2>1, <3>1 DEF Rename, Base, TypeOK
  <2>2. ASSUME NEW p \in Procs, BuildClose(p) PROVE Same
    <3>1. at[p] # "final"
      BY <1>1 DEF OwnFiles
    <3> QED
      BY <2>2, <3>1 DEF BuildClose
  <2>3. CASE \A p \in Procs : ~Rename(p) /\ ~BuildClose(p)
    BY <1>1, <2>3, FinalElsewhere
  <2> HIDE DEF Same
  <2> QED
    BY <2>1, <2>2, <2>3
<1> QED
  BY <1>1, ExclusiveInvariant, PTL DEF Spec, PublishedOnce

=============================================================================
