----------------------------- MODULE CorpusSeed -----------------------------
(***************************************************************************)
(* Seeding the corpus of one fuzz function before each of its turns:       *)
(* determineWorkDir and copyCachedCorpus (main.go) with CopyDir, CopyFile  *)
(* and PathExists (fuzz/cache.go).                                         *)
(*                                                                         *)
(* fzgo invocations with the same or another -fuzzdir copy the entries of  *)
(* two known corpus directories to their own, one file at a time, while    *)
(* the go-fuzz of an invocation that has been seeded adds new entries.     *)
(***************************************************************************)
EXTENDS Naturals, Sequences

CONSTANTS
    Procs,      \* fzgo invocations that fuzz the function
    Fuzzdir,    \* Fuzzdir[p]: the corpus directory of p, see Dirs
    Names,      \* file names of corpus entries
    Contents,   \* inputs
    Overlap,    \* may two invocations seed at a time?
    NoFile,     \* no entry of this name
    Torn        \* an entry that has been truncated or is not complete

\* Where determineWorkDir puts a corpus: under GOPATH/pkg/fuzz (no -fuzzdir),
\* under the package (-fuzzdir=testdata), or in a directory of the user's.
Dirs == {"gopath", "testdata", "custom"}

\* The known locations, in the order in which copyCachedCorpus reads them.
Sources == << "gopath", "testdata" >>

ASSUME ConstantsAssumption ==
    /\ Fuzzdir \in [Procs -> Dirs]
    /\ Overlap \in BOOLEAN
    /\ NoFile # Torn /\ NoFile \notin Contents /\ Torn \notin Contents

VARIABLES
    file,   \* file[d][x]: entry x of directory d
    pc,     \* pc[p]: where p is in copyCachedCorpus, or "off", "fuzz"
    from,   \* from[p]: the index of the source p is copying
    todo,   \* todo[p]: the names ioutil.ReadDir returned and p has to look at
    name,   \* name[p]: the entry p is copying
    listed, \* listed[p]: the names p has read in this seeding (history)
    cut     \* has a copy been cut short? (history)

vars == <<file, pc, from, todo, name, listed, cut>>

Whole(d, x) == file[d][x] \in Contents
Entries(d) == {x \in Names : file[d][x] # NoFile}

Dst(p) == Fuzzdir[p]
Src(p) == Sources[from[p]]

Seeding(p) == pc[p] \notin {"off", "fuzz"}

-----------------------------------------------------------------------------

\* Users have put whatever they like in the directories.
Init ==
    /\ file \in [Dirs -> [Names -> Contents \cup {NoFile}]]
    /\ pc = [p \in Procs |-> "off"]
    /\ from = [p \in Procs |-> 1]
    /\ todo = [p \in Procs |-> {}]
    /\ name \in [Procs -> Names]
    /\ listed = [p \in Procs |-> {}]
    /\ cut = FALSE

\* A turn of the function: fzgo has been launched, or go-fuzz's time was up.
Begin(p) ==
    /\ pc[p] \in {"off", "fuzz"}
    /\ Overlap \/ \A q \in Procs : ~Seeding(q)
    /\ pc' = [pc EXCEPT ![p] = "list"]
    /\ from' = [from EXCEPT ![p] = 1]
    /\ listed' = [listed EXCEPT ![p] = {}]
    /\ UNCHANGED <<file, todo, name, cut>>

\* The source is the destination: nothing to do.
SkipSource(p) ==
    /\ pc[p] = "list"
    /\ from[p] <= Len(Sources)
    /\ Src(p) = Dst(p)
    /\ from' = [from EXCEPT ![p] = @ + 1]
    /\ UNCHANGED <<file, pc, todo, name, listed, cut>>

\* Fault: a source is copied even if it is the destination.
ListAny(p) ==
    /\ pc[p] = "list"
    /\ from[p] <= Len(Sources)
    /\ todo' = [todo EXCEPT ![p] = Entries(Src(p))]
    /\ listed' = [listed EXCEPT ![p] = @ \cup Entries(Src(p))]
    /\ pc' = [pc EXCEPT ![p] = "check"]
    /\ UNCHANGED <<file, from, name, cut>>

\* CopyDir reads the names in the source, none if it does not exist.
List(p) ==
    /\ pc[p] = "list"
    /\ from[p] <= Len(Sources)
    /\ Src(p) # Dst(p)
    /\ todo' = [todo EXCEPT ![p] = Entries(Src(p))]
    /\ listed' = [listed EXCEPT ![p] = @ \cup Entries(Src(p))]
    /\ pc' = [pc EXCEPT ![p] = "check"]
    /\ UNCHANGED <<file, from, name, cut>>

\* CopyFile leaves an entry that exists in the destination alone ...
Exists(p) ==
    /\ pc[p] = "check"
    /\ \E x \in todo[p] :
          /\ file[Dst(p)][x] # NoFile
          /\ todo' = [todo EXCEPT ![p] = @ \ {x}]
    /\ UNCHANGED <<file, pc, from, name, listed, cut>>

\* Fault: the entry is created by the look (O_CREATE) and truncated later.
MissingCreated(p) ==
    /\ pc[p] = "check"
    /\ \E x \in todo[p] :
          /\ file[Dst(p)][x] = NoFile
          /\ file' = [file EXCEPT ![Dst(p)][x] = Torn]
          /\ name' = [name EXCEPT ![p] = x]
          /\ todo' = [todo EXCEPT ![p] = @ \ {x}]
    /\ pc' = [pc EXCEPT ![p] = "open"]
    /\ UNCHANGED <<from, listed, cut>>

\* Fault: CopyFile does not look.
MissingUnchecked(p) ==
    /\ pc[p] = "check"
    /\ \E x \in todo[p] :
          /\ name' = [name EXCEPT ![p] = x]
          /\ todo' = [todo EXCEPT ![p] = @ \ {x}]
    /\ pc' = [pc EXCEPT ![p] = "open"]
    /\ UNCHANGED <<file, from, listed, cut>>

\* ... and goes on if it does not.
Missing(p) ==
    /\ pc[p] = "check"
    /\ \E x \in todo[p] :
          /\ file[Dst(p)][x] = NoFile
          /\ name' = [name EXCEPT ![p] = x]
          /\ todo' = [todo EXCEPT ![p] = @ \ {x}]
    /\ pc' = [pc EXCEPT ![p] = "open"]
    /\ UNCHANGED <<file, from, listed, cut>>

\* os.OpenFile with O_CREATE and O_TRUNC.
OpenDst(p) ==
    /\ pc[p] = "open"
    /\ file' = [file EXCEPT ![Dst(p)][name[p]] = Torn]
    /\ pc' = [pc EXCEPT ![p] = "copy"]
    /\ UNCHANGED <<from, todo, name, listed, cut>>

\* io.Copy from the source.  If somebody else has filled the entry since it
\* was opened, more of his may be left than p writes over.
Copy(p) ==
    /\ pc[p] = "copy"
    /\ LET new == file[Src(p)][name[p]]
           old == file[Dst(p)][name[p]]
       IN  /\ new # NoFile
           /\ \E c \in {new} \cup (IF old \in {new, Torn} THEN {} ELSE {Torn}) :
                 file' = [file EXCEPT ![Dst(p)][name[p]] = c]
    /\ pc' = [pc EXCEPT ![p] = "check"]
    /\ UNCHANGED <<from, todo, name, listed, cut>>

NextSource(p) ==
    /\ pc[p] = "check"
    /\ todo[p] = {}
    /\ from' = [from EXCEPT ![p] = @ + 1]
    /\ pc' = [pc EXCEPT ![p] = "list"]
    /\ UNCHANGED <<file, todo, name, listed, cut>>

\* copyCachedCorpus returns nil and go-fuzz is started on the destination.
Seeded(p) ==
    /\ pc[p] = "list"
    /\ from[p] > Len(Sources)
    /\ pc' = [pc EXCEPT ![p] = "fuzz"]
    /\ UNCHANGED <<file, from, todo, name, listed, cut>>

\* p's go-fuzz adds an input it found interesting.
Discover(p) ==
    /\ pc[p] = "fuzz"
    /\ \E x \in Names \ Entries(Dst(p)), c \in Contents :
          file' = [file EXCEPT ![Dst(p)][x] = c]
    /\ UNCHANGED <<pc, from, todo, name, listed, cut>>

\* The session is over.
Finish(p) ==
    /\ pc[p] = "fuzz"
    /\ pc' = [pc EXCEPT ![p] = "off"]
    /\ UNCHANGED <<file, from, todo, name, listed, cut>>

\* p is killed, or a step of copyCachedCorpus fails and fzgo exits with
\* OtherErr: nothing is removed.
Abort(p) ==
    /\ Seeding(p)
    /\ cut' = (cut \/ pc[p] = "copy")
    /\ pc' = [pc EXCEPT ![p] = "off"]
    /\ todo' = [todo EXCEPT ![p] = {}]
    /\ UNCHANGED <<file, from, name, listed>>

Next == \E p \in Procs :
    \/ Begin(p) \/ SkipSource(p) \/ List(p)
    \/ Exists(p) \/ Missing(p) \/ OpenDst(p) \/ Copy(p)
    \/ NextSource(p) \/ Seeded(p)
    \/ Discover(p) \/ Finish(p) \/ Abort(p)

Spec == Init /\ [][Next]_vars

-----------------------------------------------------------------------------
(* Properties.                                                             *)

TypeOK ==
    /\ file \in [Dirs -> [Names -> Contents \cup {NoFile, Torn}]]
    /\ pc \in [Procs -> {"off", "list", "check", "open", "copy", "fuzz"}]
    /\ from \in [Procs -> 1 .. Len(Sources) + 1]
    /\ todo \in [Procs -> SUBSET Names]
    /\ name \in [Procs -> Names]
    /\ listed \in [Procs -> SUBSET Names]
    /\ cut \in BOOLEAN
    /\ \A p \in Procs : pc[p] \in {"check", "open", "copy"} =>
          from[p] <= Len(Sources) /\ Src(p) # Dst(p)

\* When go-fuzz starts, every entry that was in a known location is in the
\* destination, and it is not a truncated one, whatever other invocations did
\* and at whatever step an earlier seeding failed or was killed, as long as it
\* was not in the middle of writing a file.
SeedComplete ==
    ~cut => \A p \in Procs : pc[p] = "fuzz" =>
                \A x \in listed[p] : Whole(Dst(p), x)

\* The same without the exception: "always copy all known corpus entries to the
\* destination corpus location in all cases" (main.go:366).  An entry that was
\* cut short exists, and is trusted from then on: run corpus_cut.
SeedAlwaysComplete ==
    \A p \in Procs : pc[p] = "fuzz" =>
        \A x \in listed[p] : Whole(Dst(p), x)

\* "Files that already exist in the destination are left alone" (cache.go:187):
\* no step changes a complete entry, in any directory, the ones being copied
\* from included.  Two invocations that seed one directory break it, because
\* the entry may appear between CopyFile's look and its O_TRUNC.
ExistingLeftAlone ==
    [][\A d \in Dirs, x \in Names :
           Whole(d, x) => file'[d][x] = file[d][x]]_file

\* What there is for others to see: whole entries, and what an invocation is at.
Corpus ==
    [d \in Dirs |-> [x \in Names |-> IF Whole(d, x) THEN file[d][x] ELSE NoFile]]

Stage ==
    [p \in Procs |->
        IF Seeding(p) THEN "seeding" ELSE IF pc[p] = "fuzz" THEN "fuzzing" ELSE "off"]

Store == INSTANCE CorpusStore WITH
    Own <- Fuzzdir,
    Known <- {Sources[s] : s \in 1 .. Len(Sources)},
    corpus <- Corpus,
    stage <- Stage

\* More than that: what appears in a directory is whole when it does, is what
\* another known directory has under that name or a discovery of the owner's
\* go-fuzz, and nothing is written anywhere else, whichever seedings fail or are
\* killed between (main.go:366-395, cache.go:185-240).
WriteOnceCorpus == Store!Spec

=============================================================================
