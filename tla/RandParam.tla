------------------------------ MODULE RandParam ------------------------------
(***************************************************************************)
(* How a byte string from go-fuzz becomes the arguments of a function with *)
(* a rich signature.  The wrapper that createWrapper and fillVars write    *)
(* (fuzz/richsig.go) makes a Fuzzer of the input, fills one variable after *)
(* the other from it (package randparam), and calls the function.          *)
(*                                                                         *)
(* The sizes are scaled: a byte is 0 .. MaxByte instead of 0 .. 255, a     *)
(* number takes Width bytes instead of 8, and Step stands for 32.          *)
(***************************************************************************)
EXTENDS Naturals, Sequences

CONSTANTS
    MaxByte,    \* the largest byte, 0xFF, which marks an empty string
    Width,      \* the bytes that one Uint64 takes
    Step,       \* the width of the ranges NewFuzzer divides the first byte in
    Inputs,     \* the inputs considered
    Signatures  \* the parameter lists considered, see Kinds

\* What fillVars tells apart by type: a string or []byte; an io.Reader and its
\* like, made of a []byte; a []string; a number of 64 bits, or of fewer; a
\* slice of numbers, which gofuzz walks; an io.Writer, which is ioutil.Discard;
\* and an interface that the switch of fillVars does not list although
\* InterfaceImpl does.
Kinds == {"string", "reader", "strings", "int64", "int8", "ints", "writer", "context"}

Byte == 0 .. MaxByte

ASSUME ConstantsAssumption ==
    /\ MaxByte \in Nat \ {0}
    /\ Width \in Nat \ {0}
    /\ Step \in Nat
    /\ Inputs \subseteq Seq(Byte)
    /\ Signatures \subseteq Seq(Kinds)

VARIABLES
    data,       \* the input, fixed
    sig,        \* the parameters of the function, fixed
    pos,        \* how many bytes the source has consumed
    elements,   \* NumElements for gofuzz; NilChance only changes how often
    arg,        \* the parameter that is being filled
    left,       \* the elements still to be filled if it is a slice
    pc,
    size,       \* the length of the string being copied
    buf,        \* what has been copied of it
    items       \* all values so far, the elements of a slice one by one

fixed == <<data, sig>>
vars == <<data, sig, pos, elements, arg, left, pc, size, buf, items>>

-----------------------------------------------------------------------------

Remaining == Len(data) - pos

\* randSource.Byte: a zero past the end.
NextByte == IF Remaining > 0 THEN data[pos + 1] ELSE 0

\* Fault: nothing stops at the end.
AfterUnbounded(n) == pos + n

\* Where the source stands after n more bytes.
After(n) == IF n <= Remaining THEN pos + n ELSE Len(data)

\* The next n bytes, or what is left of them.
Grab(n) == [i \in 1 .. After(n) - pos |-> data[pos + i]]

\* The type of the next value: that of an element, or of a parameter.
Kind ==
    CASE left = 0 -> sig[arg]
      [] left > 0 /\ sig[arg] = "strings" -> "string"
      [] left > 0 /\ sig[arg] = "ints" -> "int64"

Init ==
    /\ data \in Inputs
    /\ sig \in Signatures
    /\ pos = 0
    /\ elements = [min |-> 0, max |-> 0]
    /\ arg = 1 /\ left = 0
    /\ pc = "new"
    /\ size = 0 /\ buf = <<>>
    /\ items = <<>>

\* NewFuzzer takes the first byte for itself.
NewFuzzer ==
    /\ pc = "new"
    /\ pos' = After(1)
    /\ elements' =
         LET Exactly(n) == [min |-> n, max |-> n]
         IN  CASE NextByte < Step -> Exactly(2)
               [] Step <= NextByte /\ NextByte < 2 * Step -> Exactly(1)
               [] 2 * Step <= NextByte /\ NextByte < 3 * Step -> Exactly(3)
               [] 3 * Step <= NextByte /\ NextByte < 4 * Step -> Exactly(4)
               [] 4 * Step <= NextByte -> [min |-> 0, max |-> 10]
    /\ pc' = "fill"
    /\ UNCHANGED <<fixed, arg, left, size, buf, items>>

Filling == pc = "fill" /\ arg <= Len(sig)

\* Fault: the loop over the elements of a slice starts at 1.
FilledFromOne(kind, bytes, n, upTo) ==
    /\ items' = Append(items, [arg |-> arg, kind |-> kind, bytes |-> bytes, n |-> n, end |-> upTo])
    /\ pos' = upTo
    /\ left' = IF left > 0 THEN left - 1 ELSE IF n > 0 THEN n - 1 ELSE 0
    /\ arg' = IF left' = 0 THEN arg + 1 ELSE arg
    /\ pc' = "fill"
    /\ size' = 0 /\ buf' = <<>>
    /\ UNCHANGED <<fixed, elements>>

\* A value is complete, at the cost of the bytes up to upTo.  kind tells nil
\* from an empty string; n is the length of a slice, whose elements follow.
Filled(kind, bytes, n, upTo) ==
    /\ items' = Append(items, [arg |-> arg, kind |-> kind, bytes |-> bytes, n |-> n, end |-> upTo])
    /\ pos' = upTo
    /\ left' = IF left > 0 THEN left - 1 ELSE n
    /\ arg' = IF left' = 0 THEN arg + 1 ELSE arg
    /\ pc' = "fill"
    /\ size' = 0 /\ buf' = <<>>
    /\ UNCHANGED <<fixed, elements>>

\* randBytes, or calcSize for the length of a []string, starts.
StartSize ==
    /\ Filling
    /\ Kind \in {"string", "reader", "strings"}
    /\ pc' = "size"
    /\ UNCHANGED <<fixed, pos, elements, arg, left, size, buf, items>>

NoBytesLeft ==
    /\ pc = "size"
    /\ Remaining = 0
    /\ Filled("nil", <<>>, 0, pos)

\* Fault: the size field itself is counted among the bytes that remain.
AsksTooMuchOffByOne == NextByte > Remaining

\* Is a size field more than what is left behind it?
AsksTooMuch == NextByte > Remaining - 1

\* Drain the rest.
SizeTooLarge ==
    /\ pc = "size"
    /\ Remaining > 0
    /\ AsksTooMuch
    /\ Filled("nil", <<>>, 0, Len(data))

\* Fault: a zero is looked at and not consumed.
SkipZeroPeeks ==
    /\ pc = "size"
    /\ Remaining > 0
    /\ NextByte = 0
    /\ UNCHANGED vars

SkipZero ==
    /\ pc = "size"
    /\ Remaining > 0
    /\ NextByte = 0
    /\ pos' = pos + 1
    /\ UNCHANGED <<fixed, elements, arg, left, pc, size, buf, items>>

\* Fault: the mark of an empty string is taken for its length.
SizeOfMarkIsLength == NextByte

SizeOf == IF NextByte = MaxByte THEN 0 ELSE NextByte

UsableSize ==
    /\ pc = "size"
    /\ Remaining > 0
    /\ ~AsksTooMuch
    /\ NextByte # 0

\* calcSize returns, and randStringSlice makes its slice.
StringSlice ==
    /\ UsableSize
    /\ Kind = "strings"
    /\ Filled("count", <<>>, SizeOf, pos + 1)

\* randBytes makes its slice and starts to copy.
StartCopy ==
    /\ UsableSize
    /\ Kind # "strings"
    /\ size' = SizeOf
    /\ pos' = pos + 1
    /\ pc' = "copy"
    /\ UNCHANGED <<fixed, elements, arg, left, buf, items>>

CopyByte ==
    /\ pc = "copy"
    /\ Len(buf) < size
    /\ buf' = Append(buf, NextByte)
    /\ pos' = After(1)
    /\ UNCHANGED <<fixed, elements, arg, left, pc, size, items>>

EndCopy ==
    /\ pc = "copy"
    /\ Len(buf) = size
    /\ Filled("string", buf, 0, pos)

\* Fault: the source returns the bytes and keeps them.
FillNumberKept ==
    /\ Filling
    /\ Kind \in {"int64", "int8"}
    /\ Filled(Kind, IF Kind = "int8" THEN Grab(1) ELSE Grab(Width), 0, pos)

\* randInt ... randRune draw 64 bits, little-endian and with zeros past the
\* end, and convert: a short integer keeps the first bytes, any other number,
\* floats included, is computed from all of them.
FillNumber ==
    /\ Filling
    /\ Kind \in {"int64", "int8"}
    /\ Filled(Kind, IF Kind = "int8" THEN Grab(1) ELSE Grab(Width), 0, After(Width))

\* gofuzz draws from the source to decide on nil and on the length.
FillInts ==
    /\ Filling
    /\ Kind = "ints"
    /\ \E draws \in 0 .. 2 :
         \/ Filled("nil", <<>>, 0, After(draws * Width))
         \/ \E n \in elements.min .. elements.max :
                Filled("count", <<>>, n, After(draws * Width))

\* w = ioutil.Discard
FillWriter ==
    /\ Filling
    /\ Kind = "writer"
    /\ Filled("writer", <<>>, 0, pos)

\* fuzzer.Fuzz(&ctx): gofuzz cannot fill an interface and panics.
Panic ==
    /\ Filling
    /\ Kind = "context"
    /\ pc' = "panicked"
    /\ UNCHANGED <<fixed, pos, elements, arg, left, size, buf, items>>

\* The wrapped function is called with everything filled in.
Call ==
    /\ pc = "fill"
    /\ arg > Len(sig)
    /\ pc' = "called"
    /\ UNCHANGED <<fixed, pos, elements, arg, left, size, buf, items>>

Next ==
    \/ NewFuzzer
    \/ StartSize \/ NoBytesLeft \/ SizeTooLarge \/ SkipZero
    \/ StringSlice \/ StartCopy \/ CopyByte \/ EndCopy
    \/ FillNumber \/ FillInts \/ FillWriter \/ Panic
    \/ Call

Spec == Init /\ [][Next]_vars /\ WF_vars(Next)

-----------------------------------------------------------------------------

Item == [arg : 1 .. Len(sig), kind : {"nil", "string", "count", "int64", "int8", "writer"},
         bytes : Seq(Byte), n : Nat, end : 0 .. Len(data)]

\* Types, and the source never stands behind the end of the input
\* (randSource, bytes2rand.go).
TypeOK ==
    /\ data \in Seq(Byte)
    /\ sig \in Seq(Kinds)
    /\ pos \in 0 .. Len(data)
    /\ elements \in [min : Nat, max : Nat]
    /\ arg \in 1 .. Len(sig) + 1
    /\ left \in Nat
    /\ pc \in {"new", "fill", "size", "copy", "called", "panicked"}
    /\ size \in Byte
    /\ buf \in Seq(Byte)
    /\ items \in Seq(Item)

\* Where the source stood before value i.
Start(i) ==
    IF i > 1 THEN items[i - 1].end ELSE IF data = <<>> THEN 0 ELSE 1

\* Is q where randBytes and calcSize, from position p, find their size field?
FieldAfter(p, q) == data[q] # 0 /\ \A r \in p + 1 .. q - 1 : data[r] = 0

\* The length that a size field in position q stands for.
LengthUsed(q) == IF data[q] = MaxByte THEN 0 ELSE data[q]

\* Is v what a size field in position q encodes?
EncodedAt(v, q) ==
    /\ LengthUsed(q) <= Len(data) - q
    /\ \/ /\ v.kind = "string"
          /\ v.bytes = SubSeq(data, q + 1, q + LengthUsed(q))
          /\ v.end = q + LengthUsed(q)
       \/ v.kind = "count" /\ v.n = LengthUsed(q) /\ v.end = q

\* Is v what the input encodes from position p on: what the first size field
\* says, or nil and nothing left if there is none or if the input ends before
\* the bytes it asks for?
Decoded(v, p) ==
    IF v.kind = "nil"
    THEN /\ v.end = Len(data)
         /\ \A q \in p + 1 .. Len(data) : FieldAfter(p, q) => LengthUsed(q) > Len(data) - q
    ELSE \E q \in p + 1 .. Len(data) : FieldAfter(p, q) /\ EncodedAt(v, q)

IsString(v) == sig[v.arg] \in {"string", "reader", "strings"}

\* Strings, []bytes and the lengths of string slices are decoded as the comment
\* of randBytes sums up: zeros, "that non-zero byte is the actual length used,
\* unless that non-zero byte is 0xFF", and "the length value used must be able
\* to draw enough real random bytes" (randparam.go:175-179).  A nil counts as an
\* empty string if nothing behind the mark is lost.  The code does not keep to it
\* for every input: see CutMark.
StringsAsDocumented ==
    \A i \in 1 .. Len(items) : IsString(items[i]) =>
        \/ Decoded(items[i], Start(i))
        \/ /\ items[i].kind = "nil"
           /\ \E q \in Start(i) + 1 .. Len(data) :
                FieldAfter(Start(i), q) /\ LengthUsed(q) = 0 /\ items[i].end = q

\* Is the size field that follows position p the mark of an empty string, too
\* close to the end?  randBytes and calcSize compare the field with what is left
\* before they look for the mark (randparam.go:213, 304), so that the mark, which
\* uses no byte, is refused unless MaxByte bytes follow it.
CutMark(p) ==
    \E q \in p + 1 .. Len(data) :
        FieldAfter(p, q) /\ data[q] = MaxByte /\ MaxByte > Len(data) - q

\* With the exception of cut marks, every string, []byte and length of a string
\* slice is decoded as the comment of randBytes says (randparam.go:175-179).
StringsAsEncoded ==
    \A i \in 1 .. Len(items) :
        IsString(items[i]) /\ ~CutMark(Start(i)) => Decoded(items[i], Start(i))

ItemsOf(k) == {i \in 1 .. Len(items) : items[i].arg = k}

\* When the wrapped function is called, every parameter has been filled once,
\* a slice with as many elements as it is long, and all in their order
\* (fillVars, richsig.go:256-308; randStringSlice).
ArgumentsComplete ==
    pc = "called" =>
        \A k \in 1 .. Len(sig) :
            \E i \in ItemsOf(k) : ItemsOf(k) = i .. i + items[i].n

Supply == INSTANCE ByteSupply WITH
    input <- data,
    used <- IF pc = "copy" THEN pos - Len(buf) ELSE pos,
    given <- [i \in 1 .. Len(items) |-> items[i].bytes]

\* Every value is a piece of the input, from left to right, without bytes that
\* are made up or used twice: "Do not drawing zeros past the end of the input
\* []byte" (randparam.go:163).  That is said of strings; a number does get zeros
\* past the end (343-353), and its value here has only its real bytes.
PiecesOfInput == Supply!Spec

\* Every input leads to a call of the function, however it ends or repeats,
\* unless a parameter is an interface that fillVars cannot fill.
EveryInputArrives ==
    (\A k \in 1 .. Len(sig) : sig[k] # "context") ~> (pc = "called")

=============================================================================
