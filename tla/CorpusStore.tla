----------------------------- MODULE CorpusStore -----------------------------
(***************************************************************************)
(* What fzgo promises of the corpus directories of a function, and nothing *)
(* of how files are copied.  Directories hold whole entries; an entry      *)
(* appears in one step, is never changed or removed, and comes from one of *)
(* two places only: while an invocation seeds its directory, from another  *)
(* known directory under the same name; while it fuzzes, from its go-fuzz. *)
(* Nothing is ever written to another directory than an invocation's own.  *)
(* CorpusSeed.tla is shown to implement this module.                       *)
(***************************************************************************)
CONSTANTS
    Procs,      \* fzgo invocations that fuzz the function
    Dirs,       \* corpus directories
    Own,        \* Own[p]: the corpus directory of p
    Known,      \* the directories that corpora are copied from
    Names,      \* names of entries
    Contents,   \* inputs
    NoFile      \* no whole entry of this name

VARIABLES
    corpus,     \* corpus[d][x]: entry x of directory d
    stage       \* stage[p]: what p is doing

vars == <<corpus, stage>>

Init ==
    /\ corpus \in [Dirs -> [Names -> Contents \cup {NoFile}]]
    /\ stage = [p \in Procs |-> "off"]

Become(p, s) == stage' = [stage EXCEPT ![p] = s]

Add(d, x, c) ==
    /\ corpus[d][x] = NoFile
    /\ corpus' = [corpus EXCEPT ![d][x] = c]

\* One seeding at a time.
Begin(p) ==
    /\ \A q \in Procs : stage[q] # "seeding"
    /\ Become(p, "seeding")
    /\ UNCHANGED corpus

Copy(p, d, x) ==
    /\ stage[p] = "seeding"
    /\ d # Own[p]
    /\ corpus[d][x] # NoFile
    /\ Add(Own[p], x, corpus[d][x])
    /\ UNCHANGED stage

StartFuzzing(p) ==
    /\ stage[p] = "seeding"
    /\ Become(p, "fuzzing")
    /\ UNCHANGED corpus

Discover(p, x, c) ==
    /\ stage[p] = "fuzzing"
    /\ Add(Own[p], x, c)
    /\ UNCHANGED stage

\* The end of the session, a failure or a kill.
Stop(p) ==
    /\ stage[p] # "off"
    /\ Become(p, "off")
    /\ UNCHANGED corpus

Next == \E p \in Procs :
    \/ Begin(p) \/ StartFuzzing(p) \/ Stop(p)
    \/ \E d \in Known, x \in Names : Copy(p, d, x)
    \/ \E x \in Names, c \in Contents : Discover(p, x, c)

Spec == Init /\ [][Next]_vars

=============================================================================
