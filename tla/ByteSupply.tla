----------------------------- MODULE ByteSupply -----------------------------
(***************************************************************************)
(* What decoding an input promises the fuzzer (package randparam): every   *)
(* value is a piece of the input as it stands there, byte for byte, and    *)
(* pieces are handed out from left to right, none twice.  Bytes may be     *)
(* passed over; none is made up.                                           *)
(***************************************************************************)
EXTENDS Naturals, Sequences

VARIABLES
    input,  \* the bytes go-fuzz supplies, fixed
    used,   \* how many of them are gone
    given   \* the pieces handed out so far

Init ==
    /\ used = 0
    /\ given = <<>>

Skip ==
    /\ used' \in used .. Len(input)
    /\ UNCHANGED <<input, given>>

\* The n bytes after from; n = 0 for a value that takes nothing from the input.
Give ==
    /\ \E from \in used .. Len(input) :
         \E n \in 0 .. Len(input) - from :
             /\ given' = Append(given, [i \in 1 .. n |-> input[from + i]])
             /\ used' \in from + n .. Len(input)
    /\ UNCHANGED input

Next == Skip \/ Give

Spec == Init /\ [][Next]_<<input, used, given>>

=============================================================================
