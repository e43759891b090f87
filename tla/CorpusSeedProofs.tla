-------------------------- MODULE CorpusSeedProofs --------------------------
(***************************************************************************)
(* Proofs about CorpusSeed.tla, for any number of invocations, names and   *)
(* contents.                                                               *)
(***************************************************************************)
EXTENDS CorpusSeed, TLAPS

\* No two invocations have one corpus directory.
OwnDirs == \A p, q \in Procs : p # q => Dst(p) # Dst(q)

\* Invocations seed one at a time.
Alone == \A p, q \in Procs : Seeding(p) /\ Seeding(q) => p = q

\* From CopyFile's look to the end of the copy an entry belongs to the copier,
\* and what it copies stays there.
HandInv ==
    \A p \in Procs :
        /\ pc[p] = "open" => file[Dst(p)][name[p]] = NoFile
        /\ pc[p] = "copy" => file[Dst(p)][name[p]] = Torn
        /\ pc[p] \in {"open", "copy"} => file[Src(p)][name[p]] # NoFile
        /\ \A x \in todo[p] : file[Src(p)][x] # NoFile
        /\ pc[p] \in {"off", "list", "fuzz"} => todo[p] = {}

\* Only an entry that is being copied is truncated, and an entry that has been
\* listed is in the destination or still to be copied.
CopyInv ==
    ~cut =>
        /\ \A d \in Dirs, x \in Names : file[d][x] = Torn =>
              \E p \in Procs : pc[p] = "copy" /\ Dst(p) = d /\ name[p] = x
        /\ \A p \in Procs : pc[p] # "off" => \A x \in listed[p] :
              \/ Whole(Dst(p), x)
              \/ x \in todo[p]
              \/ pc[p] \in {"open", "copy"} /\ x = name[p]

-----------------------------------------------------------------------------

LEMMA DirsOf ==
    ASSUME TypeOK, NEW p \in Procs
    PROVE  /\ Len(Sources) = 2
           /\ Dst(p) \in Dirs
           /\ from[p] <= Len(Sources) => Src(p) \in Dirs
<1>1. Len(Sources) = 2
  BY DEF Sources
<1>2. from[p] \in 1 .. 3
  BY <1>1 DEF TypeOK
<1>3. from[p] <= 2 => from[p] = 1 \/ from[p] = 2
  BY <1>2
<1>4. Sources[1] \in Dirs /\ Sources[2] \in Dirs
  BY DEF Sources, Dirs
<1> QED
  BY <1>1, <1>3, <1>4, ConstantsAssumption DEF ConstantsAssumption, Dst, Src

LEMMA InitType == Init => TypeOK
<1> SUFFICES ASSUME Init PROVE TypeOK
  OBVIOUS
<1>1. file \in [Dirs -> [Names -> Contents \cup {NoFile, Torn}]]
  BY DEF Init
<1>2. Len(Sources) = 2
  BY DEF Sources
<1>3. from \in [Procs -> 1 .. Len(Sources) + 1]
  BY <1>2 DEF Init
<1>4. cut = FALSE /\ cut \in BOOLEAN
  BY Zenon DEF Init
<1>5. pc \in [Procs -> {"off", "list", "check", "open", "copy", "fuzz"}]
  BY DEF Init
<1>6. /\ todo \in [Procs -> SUBSET Names]
      /\ listed \in [Procs -> SUBSET Names]
      /\ name \in [Procs -> Names]
  BY DEF Init
<1>7. \A p \in Procs : pc[p] = "off"
  BY DEF Init
<1> QED
  BY <1>1, <1>3, <1>4, <1>5, <1>6, <1>7 DEF TypeOK

\* Type correctness is inductive.
LEMMA TypeStep ==
    ASSUME TypeOK, [Next]_vars
    PROVE  TypeOK'
<1> USE DirsOf DEF TypeOK, Dst, Src, Entries
<1>1. ASSUME NEW p \in Procs, Begin(p) PROVE TypeOK'
  BY <1>1 DEF Begin
<1>2. ASSUME NEW p \in Procs, SkipSource(p) PROVE TypeOK'
  BY <1>2 DEF SkipSource
<1>3. ASSUME NEW p \in Procs, List(p) PROVE TypeOK'
  BY <1>3 DEF List
<1>4. ASSUME NEW p \in Procs, Exists(p) PROVE TypeOK'
  BY <1>4 DEF Exists
<1>5. ASSUME NEW p \in Procs, Missing(p) PROVE TypeOK'
  BY <1>5 DEF Missing
<1>6. ASSUME NEW p \in Procs, OpenDst(p) PROVE TypeOK'
  BY <1>6 DEF OpenDst
<1>7. ASSUME NEW p \in Procs, Copy(p) PROVE TypeOK'
  BY <1>7, SMTT(20) DEF Copy
<1>8. ASSUME NEW p \in Procs, NextSource(p) PROVE TypeOK'
  BY <1>8 DEF NextSource
<1>9. ASSUME NEW p \in Procs, Seeded(p) PROVE TypeOK'
  BY <1>9 DEF Seeded
<1>10. ASSUME NEW p \in Procs, Discover(p) PROVE TypeOK'
  BY <1>10 DEF Discover
<1>11. ASSUME NEW p \in Procs, Finish(p) PROVE TypeOK'
  BY <1>11 DEF Finish
<1>12. ASSUME NEW p \in Procs, Abort(p) PROVE TypeOK'
  BY <1>12 DEF Abort
<1>13. CASE UNCHANGED vars
  BY <1>13 DEF vars
<1> QED
  BY <1>1, <1>2, <1>3, <1>4, <1>5, <1>6, <1>7, <1>8, <1>9, <1>10, <1>11,
     <1>12, <1>13 DEF Next

\* Seeding begins only when nobody else is at it.
LEMMA AloneStep ==
    ASSUME ~Overlap, TypeOK, Alone, [Next]_vars
    PROVE  Alone'
<1> USE DEF TypeOK, Alone, Seeding
<1>1. ASSUME NEW p \in Procs, Begin(p) PROVE Alone'
  BY <1>1 DEF Begin
<1>2. ASSUME NEW p \in Procs, SkipSource(p) PROVE Alone'
  BY <1>2 DEF SkipSource
<1>3. ASSUME NEW p \in Procs, List(p) PROVE Alone'
  BY <1>3 DEF List
<1>4. ASSUME NEW p \in Procs, Exists(p) PROVE Alone'
  BY <1>4 DEF Exists
<1>5. ASSUME NEW p \in Procs, Missing(p) PROVE Alone'
  BY <1>5 DEF Missing
<1>6. ASSUME NEW p \in Procs, OpenDst(p) PROVE Alone'
  BY <1>6 DEF OpenDst
<1>7. ASSUME NEW p \in Procs, Copy(p) PROVE Alone'
  BY <1>7, SMTT(20) DEF Copy
<1>8. ASSUME NEW p \in Procs, NextSource(p) PROVE Alone'
  BY <1>8 DEF NextSource
<1>9. ASSUME NEW p \in Procs, Seeded(p) PROVE Alone'
  BY <1>9 DEF Seeded
<1>10. ASSUME NEW p \in Procs, Discover(p) PROVE Alone'
  BY <1>10 DEF Discover
<1>11. ASSUME NEW p \in Procs, Finish(p) PROVE Alone'
  BY <1>11 DEF Finish
<1>12. ASSUME NEW p \in Procs, Abort(p) PROVE Alone'
  BY <1>12 DEF Abort
<1>13. CASE UNCHANGED vars
  BY <1>13 DEF vars
<1> QED
  BY <1>1, <1>2, <1>3, <1>4, <1>5, <1>6, <1>7, <1>8, <1>9, <1>10, <1>11,
     <1>12, <1>13 DEF Next

\* Nobody else touches the entry in hand.
LEMMA HandStep ==
    ASSUME OwnDirs, TypeOK, Alone, HandInv, [Next]_vars
    PROVE  HandInv'
<1> USE DirsOf, ConstantsAssumption DEF ConstantsAssumption, OwnDirs, TypeOK,
        Alone, Seeding, HandInv, Dst, Src, Entries
<1>1. ASSUME NEW p \in Procs, Begin(p) PROVE HandInv'
  BY <1>1 DEF Begin
<1>2. ASSUME NEW p \in Procs, SkipSource(p) PROVE HandInv'
  BY <1>2 DEF SkipSource
<1>3. ASSUME NEW p \in Procs, List(p) PROVE HandInv'
  BY <1>3 DEF List
<1>4. ASSUME NEW p \in Procs, Exists(p) PROVE HandInv'
  BY <1>4 DEF Exists
<1>5. ASSUME NEW p \in Procs, Missing(p) PROVE HandInv'
  BY <1>5 DEF Missing
<1>6. ASSUME NEW p \in Procs, OpenDst(p) PROVE HandInv'
  BY <1>6 DEF OpenDst
<1>7. ASSUME NEW p \in Procs, Copy(p) PROVE HandInv'
  BY <1>7, SMTT(20) DEF Copy
<1>8. ASSUME NEW p \in Procs, NextSource(p) PROVE HandInv'
  BY <1>8 DEF NextSource
<1>9. ASSUME NEW p \in Procs, Seeded(p) PROVE HandInv'
  BY <1>9 DEF Seeded
<1>10. ASSUME NEW p \in Procs, Discover(p) PROVE HandInv'
  BY <1>10 DEF Discover
<1>11. ASSUME NEW p \in Procs, Finish(p) PROVE HandInv'
  BY <1>11 DEF Finish
<1>12. ASSUME NEW p \in Procs, Abort(p) PROVE HandInv'
  BY <1>12 DEF Abort
<1>13. CASE UNCHANGED vars
  BY <1>13 DEF vars
<1> QED
  BY <1>1, <1>2, <1>3, <1>4, <1>5, <1>6, <1>7, <1>8, <1>9, <1>10, <1>11,
     <1>12, <1>13 DEF Next

\* A copy that is not cut short is complete.
LEMMA CopyStep ==
    ASSUME OwnDirs, TypeOK, Alone, HandInv, CopyInv, [Next]_vars
    PROVE  CopyInv'
<1> USE DirsOf, ConstantsAssumption DEF ConstantsAssumption, OwnDirs, TypeOK,
        Alone, Seeding, HandInv, CopyInv, Whole, Dst, Src, Entries
<1>1. ASSUME NEW p \in Procs, Begin(p) PROVE CopyInv'
  BY <1>1 DEF Begin
<1>2. ASSUME NEW p \in Procs, SkipSource(p) PROVE CopyInv'
  BY <1>2 DEF SkipSource
<1>3. ASSUME NEW p \in Procs, List(p) PROVE CopyInv'
  BY <1>3 DEF List
<1>4. ASSUME NEW p \in Procs, Exists(p) PROVE CopyInv'
  BY <1>4 DEF Exists
<1>5. ASSUME NEW p \in Procs, Missing(p) PROVE CopyInv'
  BY <1>5 DEF Missing
<1>6. ASSUME NEW p \in Procs, OpenDst(p) PROVE CopyInv'
  BY <1>6 DEF OpenDst
<1>7. ASSUME NEW p \in Procs, Copy(p) PROVE CopyInv'
  BY <1>7, SMTT(20) DEF Copy
<1>8. ASSUME NEW p \in Procs, NextSource(p) PROVE CopyInv'
  BY <1>8 DEF NextSource
<1>9. ASSUME NEW p \in Procs, Seeded(p) PROVE CopyInv'
  BY <1>9 DEF Seeded
<1>10. ASSUME NEW p \in Procs, Discover(p) PROVE CopyInv'
  BY <1>10 DEF Discover
<1>11. ASSUME NEW p \in Procs, Finish(p) PROVE CopyInv'
  BY <1>11 DEF Finish
<1>12. ASSUME NEW p \in Procs, Abort(p) PROVE CopyInv'
  <2> SUFFICES ASSUME ~cut' PROVE CopyInv'
    OBVIOUS
  <2>1. ~cut /\ pc[p] # "copy"
    BY <1>12 DEF Abort
  <2>2. \A q \in Procs : pc[q] = "copy" => pc'[q] = "copy"
    BY <1>12, <2>1 DEF Abort
  <2>3. \A q \in Procs : pc'[q] # "off" =>
            q # p /\ pc'[q] = pc[q] /\ todo'[q] = todo[q]
    BY <1>12 DEF Abort
  <2>4. UNCHANGED <<file, name, listed>>
    BY <1>12 DEF Abort
  <2> QED
    BY <2>1, <2>2, <2>3, <2>4
<1>13. CASE UNCHANGED vars
  BY <1>13 DEF vars
<1> QED
  BY <1>1, <1>2, <1>3, <1>4, <1>5, <1>6, <1>7, <1>8, <1>9, <1>10, <1>11,
     <1>12, <1>13 DEF Next

-----------------------------------------------------------------------------

\* The inductive invariant, for invocations with a directory each that seed
\* one at a time.
LEMMA SeedInvariant ==
    ASSUME ~Overlap, OwnDirs
    PROVE  Spec => [](TypeOK /\ Alone /\ HandInv /\ CopyInv)
<1>1. Init => TypeOK /\ Alone /\ HandInv /\ CopyInv
  <2> SUFFICES ASSUME Init PROVE TypeOK /\ Alone /\ HandInv /\ CopyInv
    OBVIOUS
  <2>2. TypeOK
    BY InitType
  <2>3. Alone /\ HandInv
    BY DEF Init, Alone, Seeding, HandInv
  <2>4. CopyInv
    BY ConstantsAssumption DEF Init, CopyInv, ConstantsAssumption
  <2> QED
    BY <2>2, <2>3, <2>4
<1>2. TypeOK /\ Alone /\ HandInv /\ CopyInv /\ [Next]_vars
          => (TypeOK /\ Alone /\ HandInv /\ CopyInv)'
  BY TypeStep, AloneStep, HandStep, CopyStep
<1> QED
  BY <1>1, <1>2, PTL DEF Spec

\* Type correctness, whatever overlaps and whatever is shared.
THEOREM TypeCorrect == Spec => []TypeOK
BY InitType, TypeStep, PTL DEF Spec

\* A failure or crash anywhere but in the middle of a copy costs no entry: the
\* next seeding completes what is missing (copyCachedCorpus, CopyFile).
THEOREM SeedingCompletes ==
    ASSUME ~Overlap, OwnDirs
    PROVE  Spec => []SeedComplete
<1>1. HandInv /\ CopyInv => SeedComplete
  BY DEF HandInv, CopyInv, SeedComplete
<1> QED
  BY <1>1, SeedInvariant, PTL

\* No seeding changes a complete entry of any corpus directory (CopyFile's
\* look at the destination before it truncates).
THEOREM EntriesLeftAlone ==
    ASSUME ~Overlap, OwnDirs
    PROVE  Spec => ExistingLeftAlone
<1> DEFINE Kept == \A d \in Dirs, x \in Names :
                       Whole(d, x) => file'[d][x] = file[d][x]
<1>1. ASSUME TypeOK, HandInv, [Next]_vars PROVE [Kept]_file
  <2> USE DirsOf, ConstantsAssumption
      DEF ConstantsAssumption, TypeOK, HandInv, Whole, Entries
  <2>1. ASSUME NEW p \in Procs, OpenDst(p) PROVE Kept
    BY <1>1, <2>1 DEF OpenDst
  <2>2. ASSUME NEW p \in Procs, Copy(p) PROVE Kept
    BY <1>1, <2>2 DEF Copy
  <2>3. ASSUME NEW p \in Procs, Discover(p) PROVE Kept
    BY <1>1, <2>3 DEF Discover
  <2>4. ASSUME NEW p \in Procs,
               \/ Begin(p) \/ SkipSource(p) \/ List(p) \/ Exists(p)
               \/ Missing(p) \/ NextSource(p) \/ Seeded(p) \/ Finish(p)
               \/ Abort(p)
        PROVE  UNCHANGED file
    BY <2>4 DEF Begin, SkipSource, List, Exists, Missing, NextSource, Seeded,
                Finish, Abort
  <2>5. CASE UNCHANGED vars
    BY <2>5 DEF vars
  <2> HIDE DEF Kept
  <2> QED
    BY <1>1, <2>1, <2>2, <2>3, <2>4, <2>5, Zenon DEF Next
<1> QED
  BY <1>1, SeedInvariant, PTL DEF Spec, ExistingLeftAlone

-----------------------------------------------------------------------------
(* The refinement of CorpusStore.tla. *)

LEMMA StageBecomes ==
    ASSUME TypeOK, NEW p \in Procs, NEW where, NEW s,
           pc' = [pc EXCEPT ![p] = where],
           s = IF where \notin {"off", "fuzz"} THEN "seeding"
               ELSE IF where = "fuzz" THEN "fuzzing" ELSE "off"
    PROVE  Stage' = [Stage EXCEPT ![p] = s]
BY DEF TypeOK, Stage, Seeding

LEMMA StageStays ==
    ASSUME TypeOK, NEW p \in Procs, NEW where,
           pc' = [pc EXCEPT ![p] = where],
           Seeding(p), where \notin {"off", "fuzz"}
    PROVE  Stage' = Stage
BY DEF TypeOK, Stage, Seeding

LEMMA CorpusWrites ==
    ASSUME TypeOK, NEW d \in Dirs, NEW x \in Names, NEW c,
           file' = [file EXCEPT ![d][x] = c]
    PROVE  Corpus' = [Corpus EXCEPT ![d][x] = IF c \in Contents THEN c ELSE NoFile]
BY DEF TypeOK, Corpus, Whole

LEMMA CorpusOf ==
    ASSUME NEW d \in Dirs, NEW x \in Names
    PROVE  Corpus[d][x] = IF Whole(d, x) THEN file[d][x] ELSE NoFile
BY DEF Corpus

\* A torn entry is not seen, whether it is made or written over by another.
LEMMA TornUnseen ==
    ASSUME TypeOK, NEW d \in Dirs, NEW x \in Names, ~Whole(d, x),
           file' = [file EXCEPT ![d][x] = Torn]
    PROVE  Corpus' = Corpus
<1>1. Torn \notin Contents
  BY ConstantsAssumption DEF ConstantsAssumption
<1>2. ASSUME NEW e \in Dirs, NEW y \in Names
      PROVE  (IF Whole(e, y) THEN file[e][y] ELSE NoFile)'
                 = IF Whole(e, y) THEN file[e][y] ELSE NoFile
  BY <1>1 DEF TypeOK, Whole
<1> QED
  BY <1>2 DEF Corpus

\* Every step is one of CorpusStore's, or cannot be seen.
LEMMA StoreStep ==
    ASSUME ~Overlap, TypeOK, HandInv, [Next]_vars
    PROVE  [Store!Next]_(Store!vars)
<1> DEFINE Known == {Sources[s] : s \in 1 .. Len(Sources)}
<1>1. ASSUME NEW p \in Procs, Begin(p) PROVE Store!Begin(p)
  <2>1. Stage' = [Stage EXCEPT ![p] = "seeding"]
    <3>1. pc' = [pc EXCEPT ![p] = "list"]
      BY <1>1 DEF Begin
    <3> QED
      BY <3>1, StageBecomes
  <2>2. \A q \in Procs : Stage[q] # "seeding"
    BY <1>1 DEF Begin, Stage
  <2>3. Corpus' = Corpus
    BY <1>1 DEF Begin, Corpus, Whole
  <2> QED
    BY <2>1, <2>2, <2>3 DEF Store!Begin, Store!Become
<1>2. ASSUME NEW p \in Procs, SkipSource(p) \/ Exists(p)
      PROVE  UNCHANGED <<Corpus, Stage>>
  BY <1>2 DEF SkipSource, Exists, Corpus, Stage, Whole, Seeding
<1>3. ASSUME NEW p \in Procs, List(p) \/ Missing(p) \/ NextSource(p)
      PROVE  UNCHANGED <<Corpus, Stage>>
  <2>1. \E where \in {"check", "open", "list"} : pc' = [pc EXCEPT ![p] = where]
    BY <1>3 DEF List, Missing, NextSource
  <2>2. Seeding(p) /\ file' = file
    BY <1>3 DEF List, Missing, NextSource, Seeding
  <2>3. Stage' = Stage
    BY <2>1, <2>2, StageStays
  <2> QED
    BY <2>2, <2>3 DEF Corpus, Whole
<1>4. ASSUME NEW p \in Procs, OpenDst(p) PROVE UNCHANGED <<Corpus, Stage>>
  <2>1. Stage' = Stage
    BY <1>4, StageStays DEF OpenDst, Seeding
  <2>2. ~Whole(Dst(p), name[p]) /\ name[p] \in Names /\ Dst(p) \in Dirs
    BY <1>4, DirsOf, ConstantsAssumption
       DEF OpenDst, HandInv, Whole, TypeOK, ConstantsAssumption
  <2>3. Corpus' = Corpus
    BY <1>4, <2>2, TornUnseen DEF OpenDst
  <2> QED
    BY <2>1, <2>3
<1>5. ASSUME NEW p \in Procs, Copy(p)
      PROVE  \/ UNCHANGED <<Corpus, Stage>>
             \/ \E d \in Known, x \in Names : Store!Copy(p, d, x)
  <2>1. Stage' = Stage /\ Stage[p] = "seeding"
    BY <1>5, StageStays DEF Copy, Seeding, Stage
  <2>2. /\ from[p] <= Len(Sources) /\ Src(p) # Dst(p) /\ from[p] \in 1 .. Len(Sources) + 1
        /\ name[p] \in Names
        /\ file[Dst(p)][name[p]] = Torn
    BY <1>5 DEF Copy, TypeOK, HandInv
  <2>3. Dst(p) \in Dirs /\ Src(p) \in Dirs /\ Src(p) \in Known
    BY <2>2, DirsOf DEF Src
  <2>4. file' = [file EXCEPT ![Dst(p)][name[p]] = file[Src(p)][name[p]]]
    BY <1>5, <2>2 DEF Copy
  <2>5. ~Whole(Dst(p), name[p])
    BY <2>2, ConstantsAssumption DEF Whole, ConstantsAssumption
  <2>6. CASE Whole(Src(p), name[p])
    <3>1. Corpus[Src(p)][name[p]] = file[Src(p)][name[p]]
      BY <2>2, <2>3, <2>6, CorpusOf
    <3>2. Corpus' = [Corpus EXCEPT ![Dst(p)][name[p]] = Corpus[Src(p)][name[p]]]
      BY <2>2, <2>3, <2>4, <2>6, <3>1, CorpusWrites DEF Whole
    <3>3. Corpus[Src(p)][name[p]] # NoFile /\ Corpus[Dst(p)][name[p]] = NoFile
      BY <2>2, <2>3, <2>5, <2>6, <3>1, CorpusOf, ConstantsAssumption
         DEF Whole, ConstantsAssumption
    <3>4. Store!Copy(p, Src(p), name[p])
      BY <2>1, <2>2, <3>2, <3>3 DEF Store!Copy, Store!Add, Dst
    <3> QED
      BY <2>2, <2>3, <3>4
  <2>7. CASE ~Whole(Src(p), name[p])
    <3>1. file[Src(p)][name[p]] = Torn
      BY <1>5, <2>2, <2>3, <2>7 DEF Copy, Whole, TypeOK
    <3>2. Corpus' = Corpus
      BY <2>2, <2>3, <2>4, <2>5, <3>1, TornUnseen
    <3> QED
      BY <2>1, <3>2
  <2> QED
    BY <2>6, <2>7
<1>6. ASSUME NEW p \in Procs, Seeded(p) PROVE Store!StartFuzzing(p)
  <2>1. Stage' = [Stage EXCEPT ![p] = "fuzzing"]
    BY <1>6, StageBecomes DEF Seeded
  <2>2. Stage[p] = "seeding" /\ Corpus' = Corpus
    BY <1>6 DEF Seeded, Stage, Seeding, Corpus, Whole
  <2> QED
    BY <2>1, <2>2 DEF Store!StartFuzzing, Store!Become
<1>7. ASSUME NEW p \in Procs, Discover(p)
      PROVE  \E x \in Names, c \in Contents : Store!Discover(p, x, c)
  <2>1. PICK x \in Names \ Entries(Dst(p)), c \in Contents :
            file' = [file EXCEPT ![Dst(p)][x] = c]
    BY <1>7 DEF Discover
  <2>2. Dst(p) \in Dirs /\ x \in Names /\ file[Dst(p)][x] = NoFile
    BY DirsOf DEF Entries
  <2>3. Corpus' = [Corpus EXCEPT ![Dst(p)][x] = c]
    BY <2>1, <2>2, CorpusWrites
  <2>4. Corpus[Dst(p)][x] = NoFile
    BY <2>2, CorpusOf
  <2>5. Stage' = Stage /\ Stage[p] = "fuzzing"
    BY <1>7 DEF Discover, Stage, Seeding
  <2>6. Store!Discover(p, x, c)
    BY <2>3, <2>4, <2>5 DEF Store!Discover, Store!Add, Dst
  <2> QED
    BY <2>2, <2>6
<1>8. ASSUME NEW p \in Procs, Finish(p) \/ Abort(p) PROVE Store!Stop(p)
  <2>1. Stage' = [Stage EXCEPT ![p] = "off"]
    BY <1>8, StageBecomes DEF Finish, Abort
  <2>2. Stage[p] # "off" /\ Corpus' = Corpus
    BY <1>8 DEF Finish, Abort, Stage, Seeding, Corpus, Whole
  <2> QED
    BY <2>1, <2>2 DEF Store!Stop, Store!Become
<1>9. CASE UNCHANGED vars
  BY <1>9 DEF vars, Store!vars, Corpus, Stage, Whole, Seeding
<1> HIDE DEF Known
<1> QED
  <2>1. CASE \E p \in Procs : SkipSource(p) \/ Exists(p) \/ List(p) \/ Missing(p)
                              \/ NextSource(p) \/ OpenDst(p)
    BY <2>1, <1>2, <1>3, <1>4 DEF Store!vars
  <2>2. ASSUME NEW p \in Procs,
               Begin(p) \/ Seeded(p) \/ Finish(p) \/ Abort(p) \/ Discover(p)
        PROVE  Store!Next
    BY <2>2, <1>1, <1>6, <1>7, <1>8 DEF Store!Next
  <2>3. ASSUME NEW p \in Procs, Copy(p) PROVE [Store!Next]_(Store!vars)
    BY <2>3, <1>5 DEF Store!Next, Store!vars, Known
  <2> QED
    BY <2>1, <2>2, <2>3, <1>9 DEF Next

\* One seeding at a time and a directory for each: the corpora are write-once,
\* and all that is added comes from a known location or a discovery (the copies
\* of copyCachedCorpus and CopyFile, cut short or not).
THEOREM ImplementsCorpus ==
    ASSUME ~Overlap, OwnDirs
    PROVE  Spec => WriteOnceCorpus
<1>1. ASSUME Init PROVE Store!Init
  <2>1. \A d \in Dirs, x \in Names : file[d][x] \in Contents \cup {NoFile}
    BY <1>1 DEF Init
  <2>2. Corpus \in [Dirs -> [Names -> Contents \cup {NoFile}]]
    BY <2>1 DEF Corpus, Whole
  <2>3. Stage = [p \in Procs |-> "off"]
    BY <1>1 DEF Init, Stage, Seeding
  <2> QED
    BY <2>2, <2>3 DEF Store!Init
<1>2. TypeOK /\ HandInv /\ [Next]_vars => [Store!Next]_(Store!vars)
  BY StoreStep
<1> QED
  BY <1>1, <1>2, SeedInvariant, PTL DEF Spec, WriteOnceCorpus, Store!Spec

-----------------------------------------------------------------------------
(* What holds whatever overlaps, shares a directory, fails or is killed. *)

\* An entry that has been listed is in the destination, or p still has it to
\* copy and finds it where it was listed.
NameInv ==
    \A p \in Procs :
        /\ pc[p] \in {"open", "copy"} => file[Src(p)][name[p]] # NoFile
        /\ pc[p] = "copy" => file[Dst(p)][name[p]] # NoFile
        /\ \A x \in todo[p] : file[Src(p)][x] # NoFile
        /\ pc[p] \in {"off", "list", "fuzz"} => todo[p] = {}
        /\ pc[p] # "off" => \A x \in listed[p] :
              \/ file[Dst(p)][x] # NoFile
              \/ x \in todo[p]
              \/ pc[p] \in {"open", "copy"} /\ x = name[p]

\* When go-fuzz starts there is an entry for every name in the known locations.
SeedNamesComplete ==
    \A p \in Procs : pc[p] = "fuzz" =>
        \A x \in listed[p] : file[Dst(p)][x] # NoFile

\* No entry of any directory is removed.
Stays == \A d \in Dirs, x \in Names : file[d][x] # NoFile => file'[d][x] # NoFile

LEMMA StaysStep ==
    ASSUME TypeOK, [Next]_vars PROVE Stays
<1> USE DirsOf, ConstantsAssumption
    DEF ConstantsAssumption, TypeOK, Stays, Entries
<1>1. ASSUME NEW p \in Procs, OpenDst(p) PROVE Stays
  BY <1>1 DEF OpenDst
<1>2. ASSUME NEW p \in Procs, Copy(p) PROVE Stays
  <2>1. PICK c : c # NoFile /\ file' = [file EXCEPT ![Dst(p)][name[p]] = c]
    BY <1>2 DEF Copy
  <2> QED
    BY <2>1
<1>3. ASSUME NEW p \in Procs, Discover(p) PROVE Stays
  BY <1>3 DEF Discover
<1>4. ASSUME NEW p \in Procs,
             \/ Begin(p) \/ SkipSource(p) \/ List(p) \/ Exists(p)
             \/ Missing(p) \/ NextSource(p) \/ Seeded(p) \/ Finish(p)
             \/ Abort(p)
      PROVE  Stays
  BY <1>4 DEF Begin, SkipSource, List, Exists, Missing, NextSource, Seeded,
              Finish, Abort
<1>5. CASE UNCHANGED vars
  BY <1>5 DEF vars
<1> HIDE DEF Stays
<1> QED
  BY <1>1, <1>2, <1>3, <1>4, <1>5, Zenon DEF Next

LEMMA NameStep ==
    ASSUME TypeOK, NameInv, [Next]_vars PROVE NameInv'
<1>0. Stays
  BY StaysStep
<1> USE <1>0, DirsOf DEF TypeOK, Stays, NameInv, Dst, Src, Entries
<1>1. ASSUME NEW p \in Procs, Begin(p) PROVE NameInv'
  BY <1>1 DEF Begin
<1>2. ASSUME NEW p \in Procs, SkipSource(p) PROVE NameInv'
  BY <1>2 DEF SkipSource
<1>3. ASSUME NEW p \in Procs, List(p) PROVE NameInv'
  BY <1>3 DEF List
<1>4. ASSUME NEW p \in Procs, Exists(p) PROVE NameInv'
  BY <1>4 DEF Exists
<1>5. ASSUME NEW p \in Procs, Missing(p) PROVE NameInv'
  BY <1>5 DEF Missing
<1>6. ASSUME NEW p \in Procs, OpenDst(p) PROVE NameInv'
  BY <1>6, ConstantsAssumption DEF OpenDst, ConstantsAssumption
<1>7. ASSUME NEW p \in Procs, Copy(p) PROVE NameInv'
  BY <1>7, SMTT(20) DEF Copy
<1>8. ASSUME NEW p \in Procs, NextSource(p) PROVE NameInv'
  BY <1>8 DEF NextSource
<1>9. ASSUME NEW p \in Procs, Seeded(p) PROVE NameInv'
  BY <1>9 DEF Seeded
<1>10. ASSUME NEW p \in Procs, Discover(p) PROVE NameInv'
  BY <1>10 DEF Discover
<1>11. ASSUME NEW p \in Procs, Finish(p) PROVE NameInv'
  BY <1>11 DEF Finish
<1>12. ASSUME NEW p \in Procs, Abort(p) PROVE NameInv'
  BY <1>12 DEF Abort
<1>13. CASE UNCHANGED vars
  BY <1>13 DEF vars
<1> QED
  BY <1>1, <1>2, <1>3, <1>4, <1>5, <1>6, <1>7, <1>8, <1>9, <1>10, <1>11,
     <1>12, <1>13 DEF Next

\* However many invocations seed at a time, share a directory, fail or are
\* killed: no entry disappears from any corpus directory, and go-fuzz starts on
\* a corpus that has an entry for every name in the known locations.  An entry
\* may be torn, or hold another's content, and that is all that can go wrong
\* (copyCachedCorpus, CopyFile and the errors they return).
THEOREM NamesAreComplete == Spec => ([]SeedNamesComplete /\ [][Stays]_file)
<1>1. Init => NameInv
  BY DEF Init, NameInv
<1>2. TypeOK /\ NameInv /\ [Next]_vars => NameInv' /\ [Stays]_file
  BY NameStep, StaysStep
<1>3. NameInv => SeedNamesComplete
  BY DEF NameInv, SeedNamesComplete
<1> QED
  BY <1>1, <1>2, <1>3, TypeCorrect, PTL DEF Spec

=============================================================================
