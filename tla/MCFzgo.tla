------------------------------- MODULE MCFzgo -------------------------------
(* All argument lists of up to Short arguments, and of up to Long of those   *)
(* with which the two scans of ParseArgs could come to disagree.             *)
EXTENDS Fzgo

CONSTANTS Short, Long

Word(t) == [text |-> t, name |-> "", test |-> FALSE, eq |-> FALSE, val |-> ""]
Flag(n) == [text |-> "-" \o n, name |-> n, test |-> FALSE, eq |-> FALSE, val |-> ""]
TestFlag(n) == [text |-> "-test." \o n, name |-> n, test |-> TRUE, eq |-> FALSE, val |-> ""]
With(a, v) == [a EXCEPT !.text = @ \o "=" \o v, !.eq = TRUE, !.val = v]

Core == { Word("p"), Flag("fuzz"), Flag("v"), TestFlag("v"), Flag("run"), Flag("c"),
          With(TestFlag("fuzz"), "p") }

All == Core \cup
       { Word("9s"), Flag("race"), Flag("bench"), Flag("i"), Flag("h"), Flag("args"), Flag("timeout"),
         With(Flag("fuzz"), ""), With(Flag("timeout"), "0.5s"), With(Flag("fuzztime"), "9s"),
         With(Flag("debug"), "nomultifuzz") }

Lists(S, n) == UNION { [1 .. k -> S] : k \in 0 .. n }

MCTexts ==
    UNION {{a.text, a.name, a.val} : a \in All} \cup {"", ".", "0s", "true", "false"}

MCArgLists == Lists(All, Short) \cup Lists(Core, Long)

=============================================================================
