-------------------------- MODULE RandParamProofs --------------------------
(***************************************************************************)
(* Proofs about RandParam, for all inputs, signatures and sizes of bytes   *)
(* and numbers: types, that strings are decoded as they are encoded, that  *)
(* every parameter is filled, and that values are pieces of the input      *)
(* (ByteSupply).                                                           *)
(***************************************************************************)
EXTENDS RandParam, SequenceTheorems, TLAPS

ItemKinds == {"nil", "string", "count", "int64", "int8", "writer"}

-----------------------------------------------------------------------------
(* Types. *)

LEMMA Sizes ==
    /\ MaxByte \in Nat /\ Width \in Nat /\ 1 <= Width /\ Step \in Nat
    /\ Byte \subseteq Nat /\ 0 \in Byte
    /\ \A b \in Byte : b <= MaxByte
BY ConstantsAssumption DEF Byte

LEMMA Positions ==
    ASSUME TypeOK
    PROVE  /\ Len(data) \in Nat /\ data \in [1 .. Len(data) -> Byte]
           /\ Len(sig) \in Nat /\ sig \in [1 .. Len(sig) -> Kinds]
           /\ pos \in Nat /\ pos <= Len(data)
           /\ arg \in Nat /\ 1 <= arg /\ arg <= Len(sig) + 1
           /\ Len(items) \in Nat /\ items \in [1 .. Len(items) -> Item]
           /\ Len(buf) \in Nat /\ buf \in [1 .. Len(buf) -> Byte]
<1>1. data \in Seq(Byte) /\ sig \in Seq(Kinds) /\ items \in Seq(Item) /\ buf \in Seq(Byte)
    BY DEF TypeOK
<1>2. pos \in 0 .. Len(data) /\ arg \in 1 .. Len(sig) + 1
    BY DEF TypeOK
<1>3. /\ Len(data) \in Nat /\ data \in [1 .. Len(data) -> Byte]
      /\ Len(sig) \in Nat /\ sig \in [1 .. Len(sig) -> Kinds]
    BY <1>1
<1>4. /\ Len(items) \in Nat /\ items \in [1 .. Len(items) -> Item]
      /\ Len(buf) \in Nat /\ buf \in [1 .. Len(buf) -> Byte]
    BY <1>1
<1> QED
    BY <1>2, <1>3, <1>4

LEMMA NextByteIs ==
    ASSUME TypeOK
    PROVE  /\ NextByte \in Byte
           /\ Remaining \in Nat
           /\ Remaining > 0 => pos + 1 \in 1 .. Len(data) /\ NextByte = data[pos + 1]
<1>1. Remaining \in Nat /\ (Remaining > 0 => pos + 1 \in 1 .. Len(data))
    BY Positions DEF Remaining
<1> QED
    BY <1>1, Positions, Sizes DEF NextByte

LEMMA AfterIs ==
    ASSUME TypeOK, NEW n \in Nat
    PROVE  /\ After(n) \in Nat /\ pos <= After(n) /\ After(n) <= Len(data)
           /\ n <= Remaining => After(n) = pos + n
           /\ \A m \in Nat : m <= n => After(m) <= After(n)
BY Positions DEF After, Remaining

LEMMA GrabIs ==
    ASSUME TypeOK, NEW n \in Nat
    PROVE  /\ Grab(n) \in Seq(Byte)
           /\ After(n) - pos \in Nat
           /\ Grab(n) = [k \in 1 .. After(n) - pos |-> data[pos + k]]
<1>0. /\ After(n) \in Nat /\ pos <= After(n) /\ After(n) <= Len(data)
      /\ pos \in Nat /\ Len(data) \in Nat
    BY AfterIs, Positions
<1>1. After(n) - pos \in Nat
    BY <1>0
<1>2. \A k \in 1 .. After(n) - pos : pos + k \in 1 .. Len(data)
    BY <1>0
<1>3. \A k \in 1 .. After(n) - pos : data[pos + k] \in Byte
    BY <1>2, Positions
<1>4. Grab(n) \in [1 .. After(n) - pos -> Byte]
    BY <1>3 DEF Grab
<1> QED
    BY <1>1, <1>4 DEF Grab

\* What a completed value does to the list of values.
LEMMA FilledItems ==
    ASSUME TypeOK, NEW kind \in ItemKinds, NEW bytes \in Seq(Byte), NEW n \in Nat,
           NEW upTo \in 0 .. Len(data), arg <= Len(sig), Filled(kind, bytes, n, upTo)
    PROVE  LET it == [arg |-> arg, kind |-> kind, bytes |-> bytes, n |-> n, end |-> upTo]
           IN  /\ it \in Item
               /\ items' = Append(items, it)
               /\ items' \in Seq(Item)
               /\ Len(items') = Len(items) + 1
               /\ \A k \in 1 .. Len(items) : items'[k] = items[k]
               /\ items'[Len(items) + 1] = it
<1> DEFINE it == [arg |-> arg, kind |-> kind, bytes |-> bytes, n |-> n, end |-> upTo]
<1>1. arg \in 1 .. Len(sig)
    BY Positions
<1>2. it \in Item
    BY <1>1 DEF Item, ItemKinds
<1>3. items \in Seq(Item) /\ items' = Append(items, it)
    BY DEF TypeOK, Filled
<1> QED
    BY <1>2, <1>3

LEMMA FilledType ==
    ASSUME TypeOK, NEW kind \in ItemKinds, NEW bytes \in Seq(Byte), NEW n \in Nat,
           NEW upTo \in 0 .. Len(data), arg <= Len(sig), Filled(kind, bytes, n, upTo)
    PROVE  TypeOK'
<1>1. data' = data /\ sig' = sig /\ elements' = elements /\ pos' = upTo
    BY DEF Filled, fixed
<1>2. Item' = Item
    BY <1>1 DEF Item
<1>3. items' \in Seq(Item')
    BY <1>2, FilledItems
<1>4. left \in Nat
    BY DEF TypeOK
<1>5. left' \in Nat
    <2>1. left' = IF left > 0 THEN left - 1 ELSE n
        BY DEF Filled
    <2> QED
        BY <1>4, <2>1
<1>6. arg' \in 1 .. Len(sig) + 1
    <2>1. arg' = arg \/ arg' = arg + 1
        BY DEF Filled
    <2> QED
        BY <2>1, Positions
<1>7. size' = 0 /\ buf' = <<>> /\ pc' = "fill"
    BY DEF Filled
<1>8. size' \in Byte
    BY <1>7, Sizes
<1>9. buf' \in Seq(Byte)
    BY <1>7
<1> QED
    BY <1>1, <1>3, <1>5, <1>6, <1>7, <1>8, <1>9 DEF TypeOK

LEMMA KindIs ==
    ASSUME left \in Nat
    PROVE  /\ left = 0 => Kind = sig[arg]
           /\ left > 0 /\ sig[arg] = "strings" => Kind = "string"
           /\ left > 0 /\ sig[arg] = "ints" => Kind = "int64"
BY DEF Kind

\* Which values are being filled.
KindInv ==
    /\ left > 0 => arg <= Len(sig) /\ sig[arg] \in {"strings", "ints"}
    /\ pc \in {"size", "copy"} => arg <= Len(sig) /\ Kind \in {"string", "reader", "strings"}
    /\ pc = "copy" => Kind # "strings"

\* Only a slice that has just been made has elements.
LEMMA FilledKind ==
    ASSUME TypeOK, KindInv, NEW kind \in ItemKinds, NEW bytes \in Seq(Byte), NEW n \in Nat,
           NEW upTo \in 0 .. Len(data), Filled(kind, bytes, n, upTo),
           arg <= Len(sig), n > 0 => Kind \in {"strings", "ints"}
    PROVE  KindInv'
<1>1. left \in Nat
    BY DEF TypeOK
<1>2. /\ left' = IF left > 0 THEN left - 1 ELSE n
      /\ arg' = IF left' = 0 THEN arg + 1 ELSE arg
      /\ pc' = "fill" /\ sig' = sig
    BY DEF Filled, fixed
<1>3. SUFFICES ASSUME left' > 0 PROVE arg <= Len(sig) /\ sig[arg] \in {"strings", "ints"}
    BY <1>2 DEF KindInv
<1>4. CASE left > 0
    BY <1>4 DEF KindInv
<1>5. CASE left = 0
    <2>1. n > 0
        BY <1>2, <1>3, <1>5
    <2>2. Kind = sig[arg]
        BY <1>1, <1>5, KindIs
    <2> QED
        BY <2>1, <2>2
<1> QED
    BY <1>1, <1>4, <1>5

\* Every step that completes a value, with what it has found.
Completes(kind, bytes, n, upTo) ==
    \/ NoBytesLeft /\ kind = "nil" /\ bytes = <<>> /\ n = 0 /\ upTo = pos
    \/ SizeTooLarge /\ kind = "nil" /\ bytes = <<>> /\ n = 0 /\ upTo = Len(data)
    \/ StringSlice /\ kind = "count" /\ bytes = <<>> /\ n = SizeOf /\ upTo = pos + 1
    \/ EndCopy /\ kind = "string" /\ bytes = buf /\ n = 0 /\ upTo = pos
    \/ FillNumber /\ kind = Kind /\ bytes = Grab(IF Kind = "int8" THEN 1 ELSE Width)
         /\ n = 0 /\ upTo = After(Width)
    \/ FillInts /\ kind \in {"nil", "count"} /\ bytes = <<>>
         /\ n \in Nat /\ (kind = "nil" => n = 0) /\ upTo \in pos .. Len(data)
    \/ FillWriter /\ kind = "writer" /\ bytes = <<>> /\ n = 0 /\ upTo = pos

Completing ==
    NoBytesLeft \/ SizeTooLarge \/ StringSlice \/ EndCopy \/ FillNumber \/ FillInts \/ FillWriter

\* One of them is taken, and these are its values.
Fills(kind, bytes, n, upTo) ==
    /\ kind \in ItemKinds /\ bytes \in Seq(Byte) /\ n \in Nat
    /\ upTo \in 0 .. Len(data) /\ pos <= upTo
    /\ Filled(kind, bytes, n, upTo) /\ Completes(kind, bytes, n, upTo)
    /\ arg <= Len(sig)
    /\ n > 0 => Kind \in {"strings", "ints"}

LEMMA CompletingFills ==
    ASSUME TypeOK, KindInv, Completing
    PROVE  \E kind, bytes, n, upTo : Fills(kind, bytes, n, upTo)
<1>0. /\ pos \in 0 .. Len(data) /\ Len(data) \in Nat /\ pos \in Nat /\ pos <= pos
      /\ Len(data) \in 0 .. Len(data) /\ pos <= Len(data)
    BY Positions
<1>9. 0 \in Nat /\ ~(0 > 0)
    OBVIOUS
<1>1. <<>> \in Seq(Byte) /\ buf \in Seq(Byte)
    BY DEF TypeOK
<1>2. CASE NoBytesLeft
    <2>1. Filled("nil", <<>>, 0, pos) /\ arg <= Len(sig)
        BY <1>2 DEF NoBytesLeft, KindInv
    <2>2. Completes("nil", <<>>, 0, pos)
        BY <1>2 DEF Completes
    <2>3. Fills("nil", <<>>, 0, pos)
        BY <1>0, <1>1, <1>9, <2>1, <2>2 DEF ItemKinds, Fills
    <2> QED
        BY <2>3
<1>3. CASE SizeTooLarge
    <2>1. Filled("nil", <<>>, 0, Len(data)) /\ arg <= Len(sig)
        BY <1>3 DEF SizeTooLarge, KindInv
    <2>2. Completes("nil", <<>>, 0, Len(data))
        BY <1>3 DEF Completes
    <2>3. Fills("nil", <<>>, 0, Len(data))
        BY <1>0, <1>1, <1>9, <2>1, <2>2 DEF ItemKinds, Fills
    <2> QED
        BY <2>3
<1>4. CASE StringSlice
    <2>1. Filled("count", <<>>, SizeOf, pos + 1) /\ arg <= Len(sig) /\ Kind = "strings"
        BY <1>4 DEF StringSlice, UsableSize, KindInv
    <2>2. Completes("count", <<>>, SizeOf, pos + 1)
        BY <1>4 DEF Completes
    <2>3. SizeOf \in Nat
        BY NextByteIs, Sizes DEF SizeOf
    <2>4. pos + 1 \in 0 .. Len(data) /\ pos <= pos + 1
        BY <1>0, <1>4, NextByteIs DEF StringSlice, UsableSize
    <2> QED
        BY <1>1, <2>1, <2>2, <2>3, <2>4 DEF ItemKinds, Fills
<1>5. CASE EndCopy
    <2>1. Filled("string", buf, 0, pos) /\ arg <= Len(sig)
        BY <1>5 DEF EndCopy, KindInv
    <2>2. Completes("string", buf, 0, pos)
        BY <1>5 DEF Completes
    <2>3. Fills("string", buf, 0, pos)
        BY <1>0, <1>1, <1>9, <2>1, <2>2 DEF ItemKinds, Fills
    <2> QED
        BY <2>3
<1>6. CASE FillNumber
    <2> DEFINE bytes == Grab(IF Kind = "int8" THEN 1 ELSE Width)
    <2>1. Kind \in {"int64", "int8"} /\ arg <= Len(sig)
        BY <1>6 DEF FillNumber, Filling
    <2>2. Filled(Kind, bytes, 0, After(Width))
        <3>1. (IF Kind = "int8" THEN Grab(1) ELSE Grab(Width)) = bytes
            OBVIOUS
        <3> QED
            BY <1>6, <3>1 DEF FillNumber
    <2>3. Completes(Kind, bytes, 0, After(Width))
        BY <1>6 DEF Completes
    <2>4. bytes \in Seq(Byte)
        BY Sizes, GrabIs
    <2>5. After(Width) \in 0 .. Len(data) /\ pos <= After(Width)
        BY <1>0, Sizes, AfterIs
    <2>6. Kind \in ItemKinds
        BY <2>1 DEF ItemKinds
    <2> QED
        BY <1>9, <2>1, <2>2, <2>3, <2>4, <2>5, <2>6 DEF Fills
<1>7. CASE FillInts
    <2>1. Kind = "ints" /\ arg <= Len(sig)
        BY <1>7 DEF FillInts, Filling
    <2>2. elements.min \in Nat /\ elements.max \in Nat
        BY DEF TypeOK
    <2>3. \A draws \in 0 .. 2 : draws * Width \in Nat
        BY Sizes
    <2>4. \A k \in Nat : After(k) \in pos .. Len(data) /\ After(k) \in 0 .. Len(data)
        BY <1>0, AfterIs
    <2>5. PICK draws \in 0 .. 2 :
             \/ Filled("nil", <<>>, 0, After(draws * Width))
             \/ \E n \in elements.min .. elements.max :
                    Filled("count", <<>>, n, After(draws * Width))
        BY <1>7 DEF FillInts
    <2> DEFINE upTo == After(draws * Width)
    <2>9. upTo \in pos .. Len(data) /\ upTo \in 0 .. Len(data)
        BY <2>3, <2>4
    <2>6. upTo \in pos .. Len(data) /\ upTo \in 0 .. Len(data) /\ pos <= upTo
        <3> HIDE DEF upTo
        <3> QED
            BY <1>0, <2>9
    <2> HIDE DEF upTo
    <2>7. CASE Filled("nil", <<>>, 0, upTo)
        <3>1. Completes("nil", <<>>, 0, upTo)
            BY <1>7, <2>6 DEF Completes
        <3> QED
            BY <1>1, <1>9, <2>1, <2>6, <2>7, <3>1 DEF ItemKinds, Fills
    <2>8. CASE \E n \in elements.min .. elements.max : Filled("count", <<>>, n, upTo)
        <3>1. PICK n \in elements.min .. elements.max : Filled("count", <<>>, n, upTo)
            BY <2>8
        <3>2. n \in Nat
            BY <2>2
        <3>3. Completes("count", <<>>, n, upTo)
            BY <1>7, <2>6, <3>2 DEF Completes
        <3> QED
            BY <1>1, <2>1, <2>6, <3>1, <3>2, <3>3 DEF ItemKinds, Fills
    <2> QED
        BY <2>5, <2>7, <2>8 DEF upTo
<1>8. CASE FillWriter
    <2>1. Filled("writer", <<>>, 0, pos) /\ arg <= Len(sig)
        BY <1>8 DEF FillWriter, Filling
    <2>2. Completes("writer", <<>>, 0, pos)
        BY <1>8 DEF Completes
    <2>3. Fills("writer", <<>>, 0, pos)
        BY <1>0, <1>1, <1>9, <2>1, <2>2 DEF ItemKinds, Fills
    <2> QED
        BY <2>3
<1> QED
    BY <1>2, <1>3, <1>4, <1>5, <1>6, <1>7, <1>8 DEF Completing

Resting == StartSize \/ Panic \/ Call

LEMMA Steps ==
    ASSUME [Next]_vars
    PROVE  \/ NewFuzzer \/ Resting \/ Completing \/ SkipZero \/ StartCopy \/ CopyByte
           \/ UNCHANGED vars
BY DEF Next, Resting, Completing

\* StartSize, Panic and Call change pc alone.
LEMMA RestingKeeps ==
    ASSUME Resting
    PROVE  UNCHANGED <<data, sig, pos, elements, arg, left, size, buf, items>>
BY DEF Resting, StartSize, Panic, Call, fixed

LEMMA InitType == Init => TypeOK
<1> SUFFICES ASSUME Init PROVE TypeOK
    OBVIOUS
<1>1. data \in Seq(Byte) /\ sig \in Seq(Kinds)
    BY ConstantsAssumption DEF Init
<1>2. Len(data) \in Nat /\ Len(sig) \in Nat
    BY <1>1
<1>3. pos = 0 /\ arg = 1 /\ left = 0 /\ pc = "new" /\ size = 0 /\ buf = <<>> /\ items = <<>>
    BY DEF Init
<1>4. pos \in 0 .. Len(data) /\ arg \in 1 .. Len(sig) + 1 /\ left \in Nat
    BY <1>2, <1>3
<1>5. elements \in [min : Nat, max : Nat]
    BY DEF Init
<1>6. size \in Byte
    BY <1>3, Sizes
<1>7. buf \in Seq(Byte) /\ items \in Seq(Item)
    BY <1>3
<1> QED
    BY <1>1, <1>3, <1>4, <1>5, <1>6, <1>7 DEF TypeOK

LEMMA StepType ==
    ASSUME TypeOK, KindInv, [Next]_vars PROVE TypeOK'
<1>1. CASE Completing
    BY <1>1, CompletingFills, FilledType DEF Fills
<1>2. CASE NewFuzzer
    <2>1. UNCHANGED <<data, sig, arg, left, size, buf, items>> /\ pc' = "fill"
        BY <1>2 DEF NewFuzzer, fixed
    <2>2. pos' \in 0 .. Len(data)
        <3>1. pos' = After(1)
            BY <1>2 DEF NewFuzzer
        <3>2. After(1) \in Nat /\ After(1) <= Len(data)
            BY AfterIs
        <3> QED
            BY <3>1, <3>2, Positions
    <2>3. elements' \in [min : Nat, max : Nat]
        <3>1. NextByte \in Nat /\ Step \in Nat
            BY NextByteIs, Sizes
        <3> DEFINE Exactly(n) == [min |-> n, max |-> n]
        <3>2. elements' = CASE NextByte < Step -> Exactly(2)
                            [] Step <= NextByte /\ NextByte < 2 * Step -> Exactly(1)
                            [] 2 * Step <= NextByte /\ NextByte < 3 * Step -> Exactly(3)
                            [] 3 * Step <= NextByte /\ NextByte < 4 * Step -> Exactly(4)
                            [] 4 * Step <= NextByte -> [min |-> 0, max |-> 10]
            BY <1>2 DEF NewFuzzer
        <3> HIDE DEF Exactly
        <3>3. \/ elements' = Exactly(1) \/ elements' = Exactly(2) \/ elements' = Exactly(3)
              \/ elements' = Exactly(4) \/ elements' = [min |-> 0, max |-> 10]
            BY <3>1, <3>2
        <3> QED
            BY <3>3 DEF Exactly
    <2>4. Item' = Item
        BY <2>1 DEF Item
    <2> QED
        BY <2>1, <2>2, <2>3, <2>4 DEF TypeOK
<1>3. CASE Resting
    <2>1. UNCHANGED <<data, sig, pos, elements, arg, left, size, buf, items>>
        BY <1>3, RestingKeeps
    <2>2. pc' \in {"size", "panicked", "called"}
        BY <1>3 DEF Resting, StartSize, Panic, Call
    <2>3. Item' = Item
        BY <2>1 DEF Item
    <2> QED
        BY <2>1, <2>2, <2>3 DEF TypeOK
<1>4. CASE SkipZero
    <2>1. UNCHANGED <<data, sig, elements, arg, left, pc, size, buf, items>> /\ pos' = pos + 1
        BY <1>4 DEF SkipZero, fixed
    <2>2. pos' \in 0 .. Len(data)
        BY <1>4, <2>1, NextByteIs, Positions DEF SkipZero
    <2>3. Item' = Item
        BY <2>1 DEF Item
    <2> QED
        BY <2>1, <2>2, <2>3 DEF TypeOK
<1>5. CASE StartCopy
    <2>1. UNCHANGED <<data, sig, elements, arg, left, buf, items>> /\ pos' = pos + 1
          /\ size' = SizeOf /\ pc' = "copy"
        BY <1>5 DEF StartCopy, fixed
    <2>2. pos' \in 0 .. Len(data)
        BY <1>5, <2>1, NextByteIs, Positions DEF StartCopy, UsableSize
    <2>3. Item' = Item
        BY <2>1 DEF Item
    <2>4. size' \in Byte
        BY <2>1, NextByteIs, Sizes DEF SizeOf
    <2> QED
        BY <2>1, <2>2, <2>3, <2>4 DEF TypeOK
<1>6. CASE CopyByte
    <2>1. UNCHANGED <<data, sig, elements, arg, left, pc, size, items>>
        BY <1>6 DEF CopyByte, fixed
    <2>2. pos' = After(1) /\ buf' = Append(buf, NextByte)
        BY <1>6 DEF CopyByte
    <2>3. After(1) \in Nat /\ After(1) <= Len(data)
        BY AfterIs
    <2>4. pos' \in 0 .. Len(data)
        BY <2>2, <2>3, Positions
    <2>5. buf \in Seq(Byte) /\ NextByte \in Byte
        BY NextByteIs DEF TypeOK
    <2>6. buf' \in Seq(Byte)
        BY <2>2, <2>5
    <2>7. Item' = Item
        BY <2>1 DEF Item
    <2> QED
        BY <2>1, <2>4, <2>6, <2>7 DEF TypeOK
<1>7. CASE UNCHANGED vars
    <2>1. UNCHANGED <<data, sig, pos, elements, arg, left, pc, size, buf, items>> /\ Item' = Item
        BY <1>7 DEF vars, Item
    <2> QED
        BY <2>1 DEF TypeOK
<1> QED
    BY <1>1, <1>2, <1>3, <1>4, <1>5, <1>6, <1>7, Steps

LEMMA StepKind ==
    ASSUME TypeOK, KindInv, [Next]_vars PROVE KindInv'
<1>1. CASE Completing
    <2>1. PICK kind, bytes, n, upTo : Fills(kind, bytes, n, upTo)
        BY <1>1, CompletingFills
    <2>2. KindInv'
        BY <2>1, FilledKind DEF Fills
    <2> QED
        BY <2>2
<1>2. CASE NewFuzzer
    <2>1. UNCHANGED <<sig, arg, left>> /\ pc' = "fill"
        BY <1>2 DEF NewFuzzer, fixed
    <2> QED
        BY <2>1 DEF KindInv
<1>3. CASE Resting
    <2>1. UNCHANGED <<sig, arg, left>> /\ Kind' = Kind
        BY <1>3, RestingKeeps DEF Kind
    <2>2. pc' = "size" => arg <= Len(sig) /\ Kind \in {"string", "reader", "strings"}
        BY <1>3 DEF Resting, StartSize, Filling, Panic, Call
    <2>3. pc' \in {"size", "panicked", "called"}
        BY <1>3 DEF Resting, StartSize, Panic, Call
    <2> QED
        BY <2>1, <2>2, <2>3 DEF KindInv
<1>4. CASE SkipZero \/ CopyByte \/ UNCHANGED vars
    <2>1. UNCHANGED <<sig, arg, left, pc>> /\ Kind' = Kind
        BY <1>4 DEF SkipZero, CopyByte, vars, fixed, Kind
    <2> QED
        BY <2>1 DEF KindInv
<1>5. CASE StartCopy
    <2>1. UNCHANGED <<sig, arg, left>> /\ Kind' = Kind
        BY <1>5 DEF StartCopy, fixed, Kind
    <2>2. pc = "size" /\ pc' = "copy" /\ Kind # "strings"
        BY <1>5 DEF StartCopy, UsableSize
    <2> QED
        BY <2>1, <2>2 DEF KindInv
<1> QED
    BY <1>1, <1>2, <1>3, <1>4, <1>5, Steps

\* Whatever the input, the states of a decoding stay within their types, and the
\* source never stands behind the end (randSource, bytes2rand.go:9-73).
THEOREM TypeCorrect == Spec => []TypeOK
<1>1. Init => TypeOK /\ KindInv
    BY InitType DEF Init, KindInv
<1>2. TypeOK /\ KindInv /\ [Next]_vars => (TypeOK /\ KindInv)'
    BY StepType, StepKind
<1> QED
    BY <1>1, <1>2, PTL DEF Spec

-----------------------------------------------------------------------------
(* Where the source stands. *)

\* Before the value that is being filled.
Here == Start(Len(items) + 1)

\* Before a size field there are zeros; behind it there are at least as many
\* bytes as it says, and what has been copied is what stands there.
SourceInv ==
    /\ pc = "new" => pos = 0 /\ items = <<>>
    /\ pc \in {"fill", "called", "panicked"} => pos = Here
    /\ pc = "size" =>
         /\ Here <= pos
         /\ \A k \in 1 .. Len(data) : Here < k /\ k <= pos => data[k] = 0
    /\ pc = "copy" =>
         LET q == pos - Len(buf)
         IN  /\ q \in 1 .. Len(data) /\ Here < q
             /\ FieldAfter(Here, q)
             /\ data[q] <= Len(data) - q
             /\ size = IF data[q] = MaxByte THEN 0 ELSE data[q]
             /\ Len(buf) <= size
             /\ \A k \in 1 .. Len(buf) : buf[k] = data[q + k]
    /\ pc # "copy" => buf = <<>>

\* The places of values that are complete do not change.
LEMMA Starts ==
    ASSUME TypeOK
    PROVE  /\ \A k \in 1 .. Len(items) + 1 : Start(k) \in Nat /\ Start(k) <= Len(data)
           /\ Here \in Nat /\ Here <= Len(data)
<1>1. ASSUME NEW k \in 1 .. Len(items) + 1 PROVE Start(k) \in Nat /\ Start(k) <= Len(data)
    <2>1. CASE k > 1
        <3>1. k - 1 \in 1 .. Len(items)
            BY <2>1, Positions
        <3>2. items[k - 1].end \in 0 .. Len(data)
            BY <3>1, Positions DEF Item
        <3> QED
            BY <2>1, <3>2, Positions DEF Start
    <2>2. CASE ~(k > 1)
        <3>1. data # <<>> => 1 <= Len(data)
            BY Positions
        <3> QED
            BY <2>2, <3>1, Positions DEF Start
    <2> QED
        BY <2>1, <2>2
<1>2. Len(items) + 1 \in 1 .. Len(items) + 1
    BY Positions
<1> QED
    BY <1>1, <1>2 DEF Here

LEMMA FilledStarts ==
    ASSUME TypeOK, NEW kind, NEW bytes, NEW n, NEW upTo, Fills(kind, bytes, n, upTo)
    PROVE  /\ Here' = upTo
           /\ \A k \in 1 .. Len(items) + 1 : Start(k)' = Start(k)
           /\ pos' = upTo /\ pc' = "fill" /\ buf' = <<>>
           /\ data' = data /\ sig' = sig
<1>5. /\ Len(items') = Len(items) + 1
      /\ \A k \in 1 .. Len(items) : items'[k] = items[k]
      /\ items'[Len(items) + 1] = [arg |-> arg, kind |-> kind, bytes |-> bytes, n |-> n, end |-> upTo]
    BY FilledItems DEF Fills
<1>1. /\ Len(items') = Len(items) + 1
      /\ \A k \in 1 .. Len(items) : items'[k] = items[k]
      /\ items'[Len(items) + 1].end = upTo
    BY <1>5
<1>2. pos' = upTo /\ pc' = "fill" /\ buf' = <<>> /\ data' = data /\ sig' = sig
    BY DEF Fills, Filled, fixed
<1>3. Here' = upTo
    <2>1. Len(items) \in Nat
        BY Positions
    <2>2. Len(items') + 1 > 1 /\ (Len(items') + 1) - 1 = Len(items) + 1
        BY <1>1, <2>1
    <2> QED
        BY <1>1, <2>2 DEF Here, Start
<1>4. ASSUME NEW k \in 1 .. Len(items) + 1 PROVE Start(k)' = Start(k)
    <2>1. k > 1 => k - 1 \in 1 .. Len(items)
        BY Positions
    <2> QED
        BY <1>1, <1>2, <2>1 DEF Start
<1> QED
    BY <1>2, <1>3, <1>4

LEMMA StepSource ==
    ASSUME TypeOK, SourceInv, KindInv, [Next]_vars PROVE SourceInv'
<1>0. pos \in Nat /\ Len(data) \in Nat /\ pos <= Len(data)
    BY Positions
<1>1. CASE Completing
    <2>1. PICK kind, bytes, n, upTo : Fills(kind, bytes, n, upTo)
        BY <1>1, CompletingFills
    <2>2. Here' = upTo /\ pos' = upTo /\ pc' = "fill" /\ buf' = <<>>
        BY <2>1, FilledStarts
    <2> QED
        BY <2>2 DEF SourceInv
<1>2. CASE NewFuzzer
    <2>1. /\ UNCHANGED <<data, items, buf>> /\ pc' = "fill" /\ pos' = After(1)
          /\ pos = 0 /\ items = <<>> /\ buf = <<>>
        BY <1>2 DEF NewFuzzer, fixed, SourceInv
    <2>2. Here' = IF data = <<>> THEN 0 ELSE 1
        BY <2>1 DEF Here, Start
    <2>3. data = <<>> <=> Len(data) = 0
        BY DEF TypeOK
    <2>4. After(1) = IF Len(data) = 0 THEN 0 ELSE 1
        BY <1>0, <2>1 DEF After, Remaining
    <2> QED
        BY <2>1, <2>2, <2>3, <2>4 DEF SourceInv
<1>3. CASE Resting
    <2>1. UNCHANGED <<data, pos, items, size, buf>> /\ pc' \in {"size", "panicked", "called"}
        BY <1>3, RestingKeeps DEF Resting, StartSize, Panic, Call
    <2>2. pc = "fill"
        BY <1>3 DEF Resting, StartSize, Panic, Call, Filling
    <2>3. Here' = Here
        BY <2>1 DEF Here, Start
    <2>4. pos = Here /\ buf = <<>>
        BY <2>2 DEF SourceInv
    <2>5. \A k \in 1 .. Len(data) : ~(pos < k /\ k <= pos)
        BY <1>0
    <2> QED
        BY <1>0, <2>1, <2>3, <2>4, <2>5 DEF SourceInv
<1>4. CASE SkipZero
    <2>1. /\ UNCHANGED <<data, pc, items, buf>> /\ pos' = pos + 1 /\ pc = "size"
          /\ Remaining > 0 /\ NextByte = 0
        BY <1>4 DEF SkipZero, fixed
    <2>2. Here' = Here
        BY <2>1 DEF Here, Start
    <2>3. data[pos + 1] = 0
        BY <2>1, NextByteIs
    <2>4. Here <= pos /\ \A k \in 1 .. Len(data) : Here < k /\ k <= pos => data[k] = 0
        BY <2>1 DEF SourceInv
    <2>5. \A k \in 1 .. Len(data) : k <= pos + 1 => k <= pos \/ k = pos + 1
        BY <1>0
    <2>6. \A k \in 1 .. Len(data) : Here < k /\ k <= pos + 1 => data[k] = 0
        BY <2>3, <2>4, <2>5
    <2>7. Here <= pos + 1
        BY <1>0, <2>4, Starts
    <2>8. buf = <<>>
        BY <2>1 DEF SourceInv
    <2> QED
        BY <2>1, <2>2, <2>6, <2>7, <2>8 DEF SourceInv
<1>5. CASE StartCopy
    <2>1. /\ UNCHANGED <<data, items, buf>> /\ pos' = pos + 1 /\ pc = "size" /\ pc' = "copy"
          /\ size' = SizeOf /\ Remaining > 0 /\ ~AsksTooMuch /\ NextByte # 0
        BY <1>5 DEF StartCopy, UsableSize, fixed
    <2>2. Here' = Here
        BY <2>1 DEF Here, Start
    <2>3. buf = <<>> /\ Here <= pos /\ \A k \in 1 .. Len(data) : Here < k /\ k <= pos => data[k] = 0
        BY <2>1 DEF SourceInv
    <2>4. pos' - Len(buf') = pos + 1
        BY <1>0, <2>1, <2>3
    <2>5. pos + 1 \in 1 .. Len(data) /\ NextByte = data[pos + 1] /\ NextByte \in Nat
        BY <2>1, NextByteIs, Sizes
    <2>6. FieldAfter(Here, pos + 1)
        <3>1. \A k \in Here + 1 .. (pos + 1) - 1 : k \in 1 .. Len(data) /\ Here < k /\ k <= pos
            BY <1>0, Starts
        <3> QED
            BY <2>1, <2>3, <2>5, <3>1 DEF FieldAfter
    <2>7. data[pos + 1] <= Len(data) - (pos + 1)
        BY <1>0, <2>1, <2>5 DEF AsksTooMuch, Remaining
    <2>8. SizeOf = IF data[pos + 1] = MaxByte THEN 0 ELSE data[pos + 1]
        BY <2>5 DEF SizeOf
    <2>9. Len(buf) <= SizeOf /\ \A k \in 1 .. Len(buf) : buf[k] = data[(pos + 1) + k]
        BY <2>3, <2>5, <2>8
    <2>10. Here < pos + 1
        BY <1>0, <2>3, Starts
    <2>11. FieldAfter(Here, pos - Len(buf))'
        BY <2>1, <2>2, <2>4, <2>6 DEF FieldAfter
    <2> QED
        BY <2>1, <2>2, <2>4, <2>5, <2>7, <2>8, <2>9, <2>10, <2>11 DEF SourceInv
<1>6. CASE CopyByte
    <2> DEFINE q == pos - Len(buf)
    <2>1. /\ UNCHANGED <<data, items, pc, size>> /\ pc = "copy" /\ Len(buf) < size
          /\ buf' = Append(buf, NextByte) /\ pos' = After(1)
        BY <1>6 DEF CopyByte, fixed
    <2>2. Here' = Here
        BY <2>1 DEF Here, Start
    <2>3. /\ q \in 1 .. Len(data) /\ Here < q
          /\ FieldAfter(Here, q)
          /\ data[q] <= Len(data) - q
          /\ size = IF data[q] = MaxByte THEN 0 ELSE data[q]
          /\ \A k \in 1 .. Len(buf) : buf[k] = data[q + k]
        BY <2>1 DEF SourceInv
    <2>4. data[q] \in Nat /\ size <= data[q] /\ Len(buf) \in Nat /\ size \in Nat /\ q \in Nat
        <3>1. data[q] \in Nat
            BY <2>3, Positions, Sizes
        <3> QED
            BY <2>3, <3>1, Positions
    <2>5. pos = q + Len(buf)
        BY <1>0, <2>4
    <2> HIDE DEF q
    <2>6. Remaining > 0 /\ After(1) = pos + 1
        <3>1. pos + 1 <= Len(data)
            BY <1>0, <2>1, <2>3, <2>4, <2>5
        <3> QED
            BY <1>0, <3>1 DEF Remaining, After
    <2>7. NextByte = data[q + (Len(buf) + 1)] /\ NextByte \in Byte
        <3>1. pos + 1 = q + (Len(buf) + 1)
            BY <2>4, <2>5
        <3> QED
            BY <2>6, <3>1, NextByteIs
    <2>8. /\ Len(buf') = Len(buf) + 1
          /\ \A k \in 1 .. Len(buf) : buf'[k] = buf[k]
          /\ buf'[Len(buf) + 1] = NextByte
        <3>1. buf \in Seq(Byte)
            BY DEF TypeOK
        <3> QED
            BY <2>1, <2>7, <3>1
    <2>9. pos' - Len(buf') = q
        BY <1>0, <2>1, <2>4, <2>5, <2>6, <2>8
    <2>10. \A k \in 1 .. Len(buf) + 1 : buf'[k] = data[q + k]
        <3>1. \A k \in 1 .. Len(buf) + 1 : k \in 1 .. Len(buf) \/ k = Len(buf) + 1
            BY <2>4
        <3> QED
            BY <2>3, <2>7, <2>8, <3>1
    <2>11. Len(buf') <= size
        BY <2>1, <2>4, <2>8
    <2>12. FieldAfter(Here, pos - Len(buf))'
        BY <2>1, <2>2, <2>3, <2>9 DEF FieldAfter
    <2> QED
        BY <2>1, <2>2, <2>3, <2>8, <2>9, <2>10, <2>11, <2>12 DEF SourceInv
<1>7. CASE UNCHANGED vars
    <2>1. UNCHANGED <<data, pos, pc, size, buf, items>> /\ Here' = Here
        BY <1>7 DEF vars, Here, Start
    <2> QED
        BY <2>1 DEF SourceInv, FieldAfter
<1> QED
    BY <1>1, <1>2, <1>3, <1>4, <1>5, <1>6, <1>7, Steps

-----------------------------------------------------------------------------
(* Strings. *)

StringKinds == {"string", "reader", "strings"}

\* v has been decoded from position p, as StringsAsEncoded says.
EncodedFrom(v, p) == ~CutMark(p) => Decoded(v, p)

LEMMA StringKind ==
    ASSUME TypeOK, KindInv, arg <= Len(sig), sig[arg] \in StringKinds
    PROVE  Kind \in StringKinds
<1>1. left \in Nat
    BY DEF TypeOK
<1>2. CASE left = 0
    BY <1>1, <1>2, KindIs
<1>3. CASE left > 0
    BY <1>1, <1>3, KindIs DEF KindInv, StringKinds
<1> QED
    BY <1>1, <1>2, <1>3

LEMMA NilEncodes ==
    ASSUME TypeOK, SourceInv, NEW v, v.kind = "nil", v.end = Len(data),
           NoBytesLeft \/ SizeTooLarge
    PROVE  EncodedFrom(v, Here)
<1> SUFFICES ASSUME ~CutMark(Here) PROVE Decoded(v, Here)
    BY DEF EncodedFrom
<1>0. pos \in Nat /\ Len(data) \in Nat /\ pos <= Len(data) /\ Here \in Nat
    BY Positions, Starts
<1>1. pc = "size"
    BY DEF NoBytesLeft, SizeTooLarge
<1>2. Here <= pos /\ \A k \in 1 .. Len(data) : Here < k /\ k <= pos => data[k] = 0
    BY <1>1 DEF SourceInv
<1>3. ASSUME NEW q \in Here + 1 .. Len(data), FieldAfter(Here, q)
      PROVE  LengthUsed(q) > Len(data) - q
    <2>1. q \in 1 .. Len(data) /\ Here < q /\ q \in Nat
        BY <1>0
    <2>2. data[q] # 0
        BY <1>3 DEF FieldAfter
    <2>3. pos < q
        BY <1>0, <1>2, <2>1, <2>2
    <2>4. Remaining > 0
        BY <1>0, <2>1, <2>3 DEF Remaining
    <2>5. AsksTooMuch
        BY <2>4 DEF NoBytesLeft, SizeTooLarge
    <2>6. NextByte = data[pos + 1] /\ NextByte \in Nat /\ Remaining \in Nat
        BY <2>4, NextByteIs, Sizes
    <2>7. data[pos + 1] # 0
        BY <2>4, <2>5, <2>6 DEF AsksTooMuch
    <2>8. q = pos + 1
        <3>1. SUFFICES ASSUME pos + 1 < q PROVE FALSE
            BY <1>0, <2>1, <2>3
        <3>2. pos + 1 \in Here + 1 .. q - 1
            BY <1>0, <1>2, <2>1, <3>1
        <3> QED
            BY <1>3, <2>7, <3>2 DEF FieldAfter
    <2>9. NextByte > Len(data) - pos - 1
        BY <1>0, <2>5, <2>6 DEF AsksTooMuch, Remaining
    <2>10. Len(data) - pos - 1 = Len(data) - q
        BY <1>0, <2>8
    <2>11. data[q] > Len(data) - q
        BY <2>6, <2>8, <2>9, <2>10
    <2>12. data[q] # MaxByte
        BY <1>3, <2>11 DEF CutMark
    <2> QED
        BY <2>11, <2>12 DEF LengthUsed
<1> QED
    BY <1>3 DEF Decoded

LEMMA CountEncodes ==
    ASSUME TypeOK, SourceInv, StringSlice,
           NEW v, v.kind = "count", v.n = SizeOf, v.end = pos + 1
    PROVE  EncodedFrom(v, Here)
<1>0. pos \in Nat /\ Len(data) \in Nat /\ pos <= Len(data) /\ Here \in Nat
    BY Positions, Starts
<1>1. pc = "size" /\ Remaining > 0 /\ ~AsksTooMuch /\ NextByte # 0
    BY DEF StringSlice, UsableSize
<1>2. Here <= pos /\ \A k \in 1 .. Len(data) : Here < k /\ k <= pos => data[k] = 0
    BY <1>1 DEF SourceInv
<1>3. NextByte = data[pos + 1] /\ NextByte \in Nat /\ pos + 1 \in 1 .. Len(data)
    BY <1>1, NextByteIs, Sizes
<1>4. FieldAfter(Here, pos + 1)
    <2>1. \A k \in Here + 1 .. (pos + 1) - 1 : k \in 1 .. Len(data) /\ Here < k /\ k <= pos
        BY <1>0
    <2> QED
        BY <1>1, <1>2, <1>3, <2>1 DEF FieldAfter
<1>5. data[pos + 1] <= Len(data) - (pos + 1)
    BY <1>0, <1>1, <1>3 DEF AsksTooMuch, Remaining
<1>6. EncodedAt(v, pos + 1)
    <2>1. LengthUsed(pos + 1) = SizeOf
        BY <1>3 DEF LengthUsed, SizeOf
    <2>2. LengthUsed(pos + 1) <= Len(data) - (pos + 1)
        BY <1>0, <1>3, <1>5 DEF LengthUsed
    <2> QED
        BY <2>1, <2>2 DEF EncodedAt
<1>7. pos + 1 \in Here + 1 .. Len(data)
    BY <1>0, <1>2, <1>3
<1> QED
    BY <1>4, <1>6, <1>7 DEF EncodedFrom, Decoded

LEMMA CopyEncodes ==
    ASSUME TypeOK, SourceInv, EndCopy,
           NEW v, v.kind = "string", v.bytes = buf, v.end = pos
    PROVE  EncodedFrom(v, Here)
<1> DEFINE q == pos - Len(buf)
<1>0. pos \in Nat /\ Len(data) \in Nat /\ pos <= Len(data) /\ Here \in Nat /\ Len(buf) \in Nat
    BY Positions, Starts
<1>1. pc = "copy" /\ Len(buf) = size
    BY DEF EndCopy
<1>2. /\ q \in 1 .. Len(data) /\ Here < q
      /\ FieldAfter(Here, q)
      /\ data[q] <= Len(data) - q
      /\ size = IF data[q] = MaxByte THEN 0 ELSE data[q]
      /\ \A k \in 1 .. Len(buf) : buf[k] = data[q + k]
    BY <1>1 DEF SourceInv
<1>7. q + Len(buf) = pos
    BY <1>0
<1>8. q \in Nat
    <2>1. q \in 1 .. Len(data)
        BY <1>2
    <2> HIDE DEF q
    <2> QED
        BY <1>0, <2>1
<1>3. q + Len(buf) = pos /\ q \in Nat
    BY <1>7, <1>8
<1> HIDE DEF q
<1>4. buf = SubSeq(data, q + 1, q + Len(buf))
    <2>1. \A k \in q + 1 .. q + Len(buf) : data[k] \in Byte
        <3>1. \A k \in q + 1 .. q + Len(buf) : k \in 1 .. Len(data)
            BY <1>0, <1>3
        <3> QED
            BY <3>1, Positions
    <2>2. q + 1 \in Int /\ q + Len(buf) \in Int
        BY <1>0, <1>3
    <2> DEFINE t == SubSeq(data, q + 1, q + Len(buf))
    <2>3. /\ t \in Seq(Byte)
          /\ Len(t) = IF q + 1 <= q + Len(buf) THEN (q + Len(buf)) - (q + 1) + 1 ELSE 0
          /\ \A k \in 1 .. (q + Len(buf)) - (q + 1) + 1 : t[k] = data[(q + 1) + k - 1]
        BY <2>1, <2>2, SubSeqProperties
    <2>4. (q + Len(buf)) - (q + 1) + 1 = Len(buf)
        BY <1>0, <1>3
    <2>5. Len(t) = Len(buf)
        BY <1>0, <1>3, <2>3, <2>4
    <2>6. \A k \in 1 .. Len(buf) : (q + 1) + k - 1 = q + k
        BY <1>0, <1>3
    <2>7. \A k \in 1 .. Len(buf) : t[k] = buf[k]
        BY <1>2, <2>3, <2>4, <2>6
    <2>8. buf \in Seq(Byte)
        BY DEF TypeOK
    <2> HIDE DEF t
    <2>9. t \in [1 .. Len(buf) -> Byte] /\ buf \in [1 .. Len(buf) -> Byte]
        BY <2>3, <2>5, <2>8
    <2>10. t = buf
        BY <2>7, <2>9
    <2> QED
        BY <2>10 DEF t
<1>5. EncodedAt(v, q)
    <2>1. LengthUsed(q) = Len(buf)
        BY <1>1, <1>2 DEF LengthUsed
    <2>2. LengthUsed(q) <= Len(data) - q
        <3>1. data[q] \in Nat
            BY <1>2, Positions, Sizes
        <3> QED
            BY <1>0, <1>2, <1>3, <3>1 DEF LengthUsed
    <2> QED
        BY <1>3, <1>4, <2>1, <2>2 DEF EncodedAt
<1>6. q \in Here + 1 .. Len(data)
    BY <1>0, <1>2
<1> QED
    BY <1>2, <1>5, <1>6 DEF EncodedFrom, Decoded

LEMMA StepStrings ==
    ASSUME TypeOK, KindInv, SourceInv, StringsAsEncoded, [Next]_vars
    PROVE  StringsAsEncoded'
<1>1. StringsAsEncoded <=> \A k \in 1 .. Len(items) : sig[items[k].arg] \in StringKinds =>
                               EncodedFrom(items[k], Start(k))
    BY DEF StringsAsEncoded, EncodedFrom, IsString, StringKinds
<1>2. StringsAsEncoded' <=> \A k \in 1 .. Len(items') : sig'[items'[k].arg] \in StringKinds =>
                               EncodedFrom(items[k], Start(k))'
    BY DEF StringsAsEncoded, EncodedFrom, IsString, StringKinds
<1>3. CASE ~Completing
    <2>1. UNCHANGED <<data, sig, items>>
        BY <1>3, Steps, RestingKeeps DEF NewFuzzer, SkipZero, StartCopy, CopyByte, vars, fixed
    <2>2. ASSUME NEW k \in 1 .. Len(items), EncodedFrom(items[k], Start(k))
          PROVE  EncodedFrom(items[k], Start(k))'
        BY <2>1, <2>2 DEF EncodedFrom, Decoded, CutMark, Start, FieldAfter, EncodedAt, LengthUsed
    <2> QED
        BY <1>1, <1>2, <2>1, <2>2
<1>4. CASE Completing
    <2>1. PICK kind, bytes, n, upTo : Fills(kind, bytes, n, upTo)
        BY <1>4, CompletingFills
    <2> DEFINE it == [arg |-> arg, kind |-> kind, bytes |-> bytes, n |-> n, end |-> upTo]
    <2>2. /\ Len(items') = Len(items) + 1
          /\ \A k \in 1 .. Len(items) : items'[k] = items[k]
          /\ items'[Len(items) + 1] = it
        BY <2>1, FilledItems DEF Fills
    <2>3. /\ \A k \in 1 .. Len(items) + 1 : Start(k)' = Start(k)
          /\ data' = data /\ sig' = sig
        BY <2>1, FilledStarts
    <2>4. Len(items) \in Nat /\ pos \in Nat /\ Len(data) \in Nat
        BY Positions
    <2>5. sig[arg] \in StringKinds => EncodedFrom(it, Here)
        <3> HAVE sig[arg] \in StringKinds
        <3>1. Kind \in StringKinds
            BY <2>1, StringKind DEF Fills
        <3>2. Completes(kind, bytes, n, upTo)
            BY <2>1 DEF Fills
        <3>3. it.kind = kind /\ it.bytes = bytes /\ it.n = n /\ it.end = upTo
            OBVIOUS
        <3> HIDE DEF it
        <3>4. CASE NoBytesLeft /\ kind = "nil" /\ upTo = pos
            <4>1. upTo = Len(data)
                BY <2>4, <3>4 DEF NoBytesLeft, Remaining
            <4> QED
                BY <3>3, <3>4, <4>1, NilEncodes
        <3>5. CASE SizeTooLarge /\ kind = "nil" /\ upTo = Len(data)
            BY <3>3, <3>5, NilEncodes
        <3>6. CASE StringSlice /\ kind = "count" /\ n = SizeOf /\ upTo = pos + 1
            BY <3>3, <3>6, CountEncodes
        <3>7. CASE EndCopy /\ kind = "string" /\ bytes = buf /\ upTo = pos
            BY <3>3, <3>7, CopyEncodes
        <3>8. ~(FillNumber \/ FillInts \/ FillWriter)
            BY <3>1 DEF FillNumber, FillInts, FillWriter, StringKinds
        <3> QED
            BY <3>2, <3>4, <3>5, <3>6, <3>7, <3>8 DEF Completes
    <2>6. ASSUME NEW k \in 1 .. Len(items), sig[items[k].arg] \in StringKinds
          PROVE  EncodedFrom(items[k], Start(k))'
        <3>1. EncodedFrom(items[k], Start(k))
            BY <1>1, <2>6
        <3>2. items'[k] = items[k] /\ Start(k)' = Start(k)
            BY <2>2, <2>3, <2>4
        <3> QED
            BY <2>3, <3>1, <3>2 DEF EncodedFrom, Decoded, CutMark, FieldAfter, EncodedAt, LengthUsed
    <2>7. ASSUME NEW m \in 1 .. Len(items) + 1, m = Len(items) + 1, sig[arg] \in StringKinds
          PROVE  EncodedFrom(items[m], Start(m))'
        <3>1. EncodedFrom(it, Here)
            BY <2>5, <2>7
        <3>2. items'[m] = it
            BY <2>2, <2>7
        <3>3. Start(m)' = Here
            BY <2>3, <2>7 DEF Here
        <3> HIDE DEF it
        <3> QED
            BY <2>3, <3>1, <3>2, <3>3 DEF EncodedFrom, Decoded, CutMark, FieldAfter, EncodedAt, LengthUsed
    <2>8. \A k \in 1 .. Len(items') : k \in 1 .. Len(items) \/ k = Len(items) + 1
        BY <2>2, <2>4
    <2>9. it.arg = arg
        OBVIOUS
    <2>10. ASSUME NEW k \in 1 .. Len(items'), sig'[items'[k].arg] \in StringKinds
           PROVE  EncodedFrom(items[k], Start(k))'
        <3>1. CASE k \in 1 .. Len(items)
            BY <2>2, <2>3, <2>6, <2>10, <3>1
        <3>2. CASE k = Len(items) + 1
            <4>1. k \in 1 .. Len(items) + 1
                BY <2>4, <3>2
            <4>2. sig[arg] \in StringKinds
                BY <2>2, <2>3, <2>9, <2>10, <3>2
            <4> QED
                BY <2>7, <3>2, <4>1, <4>2
        <3> QED
            BY <2>8, <3>1, <3>2
    <2> QED
        BY <1>2, <2>10
<1> QED
    BY <1>3, <1>4

LEMMA InitSource == Init => SourceInv /\ StringsAsEncoded
BY DEF Init, SourceInv, StringsAsEncoded

LEMMA AlwaysSource == Spec => [](TypeOK /\ KindInv /\ SourceInv /\ StringsAsEncoded)
<1>1. Init => TypeOK /\ KindInv /\ SourceInv /\ StringsAsEncoded
    BY InitType, InitSource DEF Init, KindInv
<1>2. TypeOK /\ KindInv /\ SourceInv /\ StringsAsEncoded /\ [Next]_vars =>
          (TypeOK /\ KindInv /\ SourceInv /\ StringsAsEncoded)'
    BY StepType, StepKind, StepSource, StepStrings
<1> QED
    BY <1>1, <1>2, PTL DEF Spec

\* For all inputs and sizes, strings and the lengths of string slices are decoded
\* as the comment of randBytes says, unless the next size field is the mark of
\* an empty string and too close to the end (randparam.go:175-179; randBytes,
\* calcSize, 172-335).
THEOREM DecodesStrings == Spec => []StringsAsEncoded
BY AlwaysSource, PTL

-----------------------------------------------------------------------------
(* Decoding implements ByteSupply. *)

Used == IF pc = "copy" THEN pos - Len(buf) ELSE pos
Given == [k \in 1 .. Len(items) |-> items[k].bytes]

\* The n bytes after from.
Piece(from, n) == [k \in 1 .. n |-> data[from + k]]

LEMMA FilledGives ==
    ASSUME TypeOK, NEW kind, NEW bytes, NEW n, NEW upTo, Fills(kind, bytes, n, upTo)
    PROVE  Given' = Append(Given, bytes) /\ Used' = upTo
<1> DEFINE it == [arg |-> arg, kind |-> kind, bytes |-> bytes, n |-> n, end |-> upTo]
<1>1. /\ Len(items') = Len(items) + 1
      /\ \A k \in 1 .. Len(items) : items'[k] = items[k]
      /\ items'[Len(items) + 1] = it
    BY FilledItems DEF Fills
<1>2. it.bytes = bytes
    OBVIOUS
<1>3. /\ Len(items) \in Nat
      /\ \A k \in 1 .. Len(items) : items[k].bytes \in Seq(Byte)
      /\ bytes \in Seq(Byte)
    BY Positions DEF Item, Fills
<1> HIDE DEF it
<1>4. Given \in Seq(Seq(Byte)) /\ Len(Given) = Len(items)
    <2>1. Given \in [1 .. Len(items) -> Seq(Byte)]
        BY <1>3 DEF Given
    <2> QED
        BY <1>3, <2>1
<1>5. Given' = [k \in 1 .. Len(items) + 1 |-> items'[k].bytes]
    BY <1>1 DEF Given
<1>6. \A k \in 1 .. Len(items) + 1 : k \in 1 .. Len(items) \/ k = Len(items) + 1
    BY <1>3
<1>7. ASSUME NEW k \in 1 .. Len(items) + 1 PROVE items'[k].bytes = Append(Given, bytes)[k]
    <2>1. CASE k \in 1 .. Len(items)
        BY <1>1, <1>3, <1>4, <2>1 DEF Given
    <2>2. CASE k = Len(items) + 1
        <3>1. Append(Given, bytes)[Len(Given) + 1] = bytes
            BY <1>3, <1>4
        <3> QED
            BY <1>1, <1>2, <1>4, <2>2, <3>1
    <2> QED
        BY <1>6, <2>1, <2>2
<1>8. Append(Given, bytes) \in Seq(Seq(Byte)) /\ Len(Append(Given, bytes)) = Len(items) + 1
    BY <1>3, <1>4
<1>9. Given' = Append(Given, bytes)
    <2> DEFINE new == Append(Given, bytes)
    <2>1. new \in [1 .. Len(items) + 1 -> Seq(Byte)]
        <3>1. new \in Seq(Seq(Byte)) /\ Len(new) = Len(items) + 1
            BY <1>8
        <3> HIDE DEF new
        <3> QED
            BY <3>1
    <2>2. new = [k \in 1 .. Len(items) + 1 |-> new[k]]
        <3> HIDE DEF new
        <3> QED
            BY <2>1
    <2> QED
        BY <1>5, <1>7, <2>2
<1>10. Used' = upTo
    BY FilledStarts DEF Used
<1> QED
    BY <1>9, <1>10

\* What a completed value has taken is a piece of the input behind all others.
LEMMA FilledPiece ==
    ASSUME TypeOK, SourceInv, NEW kind, NEW bytes, NEW n, NEW upTo, Fills(kind, bytes, n, upTo)
    PROVE  \E from \in Used .. Len(data) : \E m \in 0 .. Len(data) - from :
               bytes = Piece(from, m) /\ upTo \in from + m .. Len(data)
<1>0. pos \in Nat /\ Len(data) \in Nat /\ pos <= Len(data) /\ Len(buf) \in Nat
    BY Positions
<1>1. upTo \in 0 .. Len(data) /\ pos <= upTo /\ Completes(kind, bytes, n, upTo)
    BY DEF Fills
<1>2. CASE pc # "copy" /\ bytes = <<>>
    <2>1. bytes = Piece(pos, 0)
        BY <1>2 DEF Piece
    <2>2. Used = pos /\ pos \in Used .. Len(data) /\ 0 \in 0 .. Len(data) - pos
        BY <1>0, <1>2 DEF Used
    <2>3. upTo \in pos + 0 .. Len(data)
        BY <1>0, <1>1
    <2> QED
        BY <2>1, <2>2, <2>3
<1>3. CASE EndCopy /\ bytes = buf /\ upTo = pos
    <2> DEFINE q == pos - Len(buf)
    <2>1. pc = "copy"
        BY <1>3 DEF EndCopy
    <2>2. q \in 1 .. Len(data) /\ \A k \in 1 .. Len(buf) : buf[k] = data[q + k]
        BY <2>1 DEF SourceInv
    <2>3. buf = [k \in 1 .. Len(buf) |-> buf[k]]
        BY Positions
    <2>4. buf = Piece(q, Len(buf))
        <3> HIDE DEF q
        <3> QED
            BY <2>2, <2>3 DEF Piece
    <2>5. q \in Used .. Len(data)
        BY <1>0, <2>1, <2>2 DEF Used
    <2>6. Len(buf) \in 0 .. Len(data) - q
        BY <1>0
    <2>7. upTo \in q + Len(buf) .. Len(data)
        BY <1>0, <1>3
    <2> QED
        BY <1>3, <2>4, <2>5, <2>6, <2>7
<1>4. CASE FillNumber /\ upTo = After(Width) /\ bytes = Grab(IF Kind = "int8" THEN 1 ELSE Width)
    <2> DEFINE w == IF Kind = "int8" THEN 1 ELSE Width
               m == After(w) - pos
    <2>1. w \in Nat /\ w <= Width
        BY Sizes
    <2>2. /\ After(w) \in Nat /\ pos <= After(w) /\ After(w) <= Len(data)
          /\ After(w) <= After(Width) /\ After(Width) <= Len(data) /\ After(Width) \in Nat
        BY <2>1, Sizes, AfterIs
    <2>3. bytes = Piece(pos, m)
        BY <1>4, <2>1, GrabIs DEF Piece
    <2>4. pos \in Used .. Len(data)
        BY <1>0, <1>4 DEF Used, FillNumber, Filling
    <2> HIDE DEF w
    <2>5. m \in 0 .. Len(data) - pos /\ upTo \in pos + m .. Len(data)
        BY <1>0, <1>4, <2>2
    <2> QED
        BY <2>3, <2>4, <2>5
<1>5. \/ pc # "copy" /\ bytes = <<>>
      \/ EndCopy /\ bytes = buf /\ upTo = pos
      \/ FillNumber /\ upTo = After(Width) /\ bytes = Grab(IF Kind = "int8" THEN 1 ELSE Width)
    BY <1>1 DEF Completes, NoBytesLeft, SizeTooLarge, StringSlice, UsableSize, FillInts, FillWriter,
       Filling
<1> QED
    BY <1>2, <1>3, <1>4, <1>5

LEMMA StepSupply ==
    ASSUME TypeOK, KindInv, SourceInv, SourceInv', [Next]_vars
    PROVE  [Supply!Next]_<<data, Used, Given>>
<1>0. pos \in Nat /\ Len(data) \in Nat /\ pos <= Len(data)
    BY Positions
<1>1. CASE Completing
    <2>1. PICK kind, bytes, n, upTo : Fills(kind, bytes, n, upTo)
        BY <1>1, CompletingFills
    <2>2. Given' = Append(Given, bytes) /\ Used' = upTo /\ data' = data
        BY <2>1, FilledGives, FilledStarts
    <2>3. PICK from \in Used .. Len(data) : \E m \in 0 .. Len(data) - from :
               bytes = Piece(from, m) /\ upTo \in from + m .. Len(data)
        BY <2>1, FilledPiece
    <2>4. Supply!Give
        BY <2>2, <2>3 DEF Supply!Give, Used, Given, Piece
    <2> QED
        BY <2>4 DEF Supply!Next
<1>2. CASE NewFuzzer \/ SkipZero \/ StartCopy
    <2>1. UNCHANGED <<data, items, buf>>
        BY <1>2 DEF NewFuzzer, SkipZero, StartCopy, fixed
    <2>2. pc # "copy" /\ buf = <<>>
        BY <1>2 DEF NewFuzzer, SkipZero, StartCopy, UsableSize, SourceInv
    <2>3. Used' = pos' /\ Used = pos
        <3>1. Len(buf') = 0
            BY <2>1, <2>2
        <3>2. pos' \in Nat
            BY <1>0, <1>2, AfterIs DEF NewFuzzer, SkipZero, StartCopy
        <3>4. \A p \in Nat : p - 0 = p
            OBVIOUS
        <3>3. pos' - Len(buf') = pos'
            BY <3>1, <3>2, <3>4
        <3> QED
            BY <2>2, <3>3 DEF Used
    <2>4. pos' \in pos .. Len(data)
        <3>1. CASE NewFuzzer
            <4>1. After(1) \in Nat /\ pos <= After(1) /\ After(1) <= Len(data)
                BY AfterIs
            <4> QED
                BY <1>0, <3>1, <4>1 DEF NewFuzzer
        <3>2. CASE SkipZero \/ StartCopy
            <4>1. Remaining > 0 /\ pos' = pos + 1
                BY <3>2 DEF SkipZero, StartCopy, UsableSize
            <4> QED
                BY <1>0, <4>1 DEF Remaining
        <3> QED
            BY <1>2, <3>1, <3>2
    <2>5. Supply!Skip
        BY <2>1, <2>3, <2>4 DEF Supply!Skip, Used, Given
    <2> QED
        BY <2>5 DEF Supply!Next
<1>3. CASE Resting
    <2>1. UNCHANGED <<data, pos, items, buf>>
        BY <1>3, RestingKeeps
    <2>2. pc # "copy" /\ pc' # "copy"
        BY <1>3 DEF Resting, StartSize, Panic, Call, Filling
    <2> QED
        BY <2>1, <2>2 DEF Used, Given
<1>4. CASE CopyByte
    <2>1. UNCHANGED <<data, items, pc>> /\ pc = "copy" /\ Len(buf) < size
          /\ buf' = Append(buf, NextByte) /\ pos' = After(1)
        BY <1>4 DEF CopyByte, fixed
    <2> DEFINE q == pos - Len(buf)
    <2>2. q \in 1 .. Len(data) /\ data[q] <= Len(data) - q /\ size = IF data[q] = MaxByte THEN 0 ELSE data[q]
        BY <2>1 DEF SourceInv
    <2>3. data[q] \in Nat /\ size \in Nat /\ Len(buf) \in Nat
        BY <2>2, Positions, Sizes
    <2>4. Remaining > 0
        BY <1>0, <2>1, <2>2, <2>3 DEF Remaining
    <2>5. pos' = pos + 1
        BY <1>0, <2>1, <2>4 DEF After, Remaining
    <2>6. Len(buf') = Len(buf) + 1
        <3>1. buf \in Seq(Byte)
            BY DEF TypeOK
        <3> QED
            BY <2>1, <3>1
    <2>7. Used' = Used
        BY <1>0, <2>1, <2>3, <2>5, <2>6 DEF Used
    <2> QED
        BY <2>1, <2>7 DEF Given
<1>5. CASE UNCHANGED vars
    BY <1>5 DEF vars, Used, Given
<1> QED
    BY <1>1, <1>2, <1>3, <1>4, <1>5, Steps

\* For all inputs and signatures, every value is a piece of the input behind the
\* pieces before it (package randparam, richsig.go:254-311).
THEOREM TakesPieces == Spec => PiecesOfInput
<1>1. Init => Supply!Init
    <2>1. Init => pos = 0 /\ pc = "new" /\ items = <<>>
        BY DEF Init
    <2>2. items = <<>> => [k \in 1 .. Len(items) |-> items[k].bytes] = <<>>
        OBVIOUS
    <2> QED
        BY <2>1, <2>2 DEF Supply!Init
<1>2. TypeOK /\ KindInv /\ SourceInv /\ SourceInv' /\ [Next]_vars => [Supply!Next]_<<data, Used, Given>>
    BY StepSupply
<1>3. TypeOK /\ KindInv /\ SourceInv /\ SourceInv' /\ [Next]_vars =>
          [Supply!Next]_<<data, IF pc = "copy" THEN pos - Len(buf) ELSE pos,
                          [i \in 1 .. Len(items) |-> items[i].bytes]>>
    BY <1>2 DEF Used, Given
<1> QED
    BY <1>1, <1>3, AlwaysSource, PTL DEF Spec, PiecesOfInput, Supply!Spec

-----------------------------------------------------------------------------
(* Every parameter is filled. *)

\* Parameters before arg have their values; of a slice that is being filled,
\* left elements are missing.
OrderInv ==
    /\ \A k \in 1 .. Len(sig) : k < arg =>
         \E j \in ItemsOf(k) : ItemsOf(k) = j .. j + items[j].n
    /\ left = 0 => \A j \in 1 .. Len(items) : items[j].arg < arg
    /\ left > 0 =>
         /\ \A j \in 1 .. Len(items) : items[j].arg <= arg
         /\ \E j \in ItemsOf(arg) :
              /\ ItemsOf(arg) = j .. Len(items)
              /\ items[j].n = Len(items) - j + left

LEMMA OrderGivesComplete ==
    ASSUME TypeOK, OrderInv, pc = "called" => arg > Len(sig) PROVE ArgumentsComplete
<1>1. SUFFICES ASSUME pc = "called", NEW k \in 1 .. Len(sig)
               PROVE  \E j \in ItemsOf(k) : ItemsOf(k) = j .. j + items[j].n
    BY DEF ArgumentsComplete
<1>2. k < arg
    BY <1>1, Positions
<1> QED
    BY <1>2 DEF OrderInv

LEMMA FilledOrder ==
    ASSUME TypeOK, OrderInv, NEW kind, NEW bytes, NEW n, NEW upTo, Fills(kind, bytes, n, upTo)
    PROVE  OrderInv'
<1> DEFINE m == Len(items) + 1
           it == [arg |-> arg, kind |-> kind, bytes |-> bytes, n |-> n, end |-> upTo]
<1>0. /\ Len(items) \in Nat /\ arg \in Nat /\ Len(sig) \in Nat /\ n \in Nat /\ left \in Nat
      /\ \A j \in 1 .. Len(items) : items[j].arg \in Nat /\ items[j].n \in Nat
    <2>1. Len(items) \in Nat /\ arg \in Nat /\ Len(sig) \in Nat
        BY Positions
    <2>2. n \in Nat
        BY DEF Fills
    <2>3. left \in Nat
        BY DEF TypeOK
    <2>4. \A j \in 1 .. Len(items) : items[j] \in Item
        BY Positions
    <2>5. \A x \in Item : x.arg \in 1 .. Len(sig) /\ x.n \in Nat
        BY DEF Item
    <2>6. 1 .. Len(sig) \subseteq Nat
        BY <2>1
    <2> QED
        BY <2>1, <2>2, <2>3, <2>4, <2>5, <2>6
<1>1. /\ Len(items') = m
      /\ \A j \in 1 .. Len(items) : items'[j] = items[j]
      /\ items'[m] = it
    BY FilledItems DEF Fills
<1>2. it.arg = arg /\ it.n = n
    OBVIOUS
<1>3. items'[m].arg = arg /\ items'[m].n = n
    BY <1>1, <1>2
<1> HIDE DEF it
<1>4. /\ left' = IF left > 0 THEN left - 1 ELSE n
      /\ arg' = IF left' = 0 THEN arg + 1 ELSE arg
      /\ sig' = sig
    BY DEF Fills, Filled, fixed
<1>5. \A j \in 1 .. m : j \in 1 .. Len(items) \/ j = m
    BY <1>0
<1>6. m \in Nat /\ m = Len(items) + 1 /\ m \notin 1 .. Len(items) /\ m \in 1 .. m /\ 1 .. Len(items) \subseteq 1 .. m
    BY <1>0
<1> HIDE DEF m
<1>7. \A k \in Nat : k # arg => ItemsOf(k)' = ItemsOf(k)
    BY <1>1, <1>3, <1>5, <1>6 DEF ItemsOf
<1>8. ASSUME NEW k, k = arg PROVE ItemsOf(k)' = ItemsOf(k) \cup {m}
    BY <1>1, <1>3, <1>5, <1>6, <1>8 DEF ItemsOf
<1>9. \A k \in 1 .. Len(sig) : k < arg =>
          \E j \in ItemsOf(k)' : ItemsOf(k)' = j .. j + items'[j].n
    <2> TAKE k \in 1 .. Len(sig)
    <2> HAVE k < arg
    <2>1. PICK j \in ItemsOf(k) : ItemsOf(k) = j .. j + items[j].n
        BY DEF OrderInv
    <2>2. ItemsOf(k)' = ItemsOf(k)
        BY <1>0, <1>7
    <2>3. items'[j] = items[j]
        BY <1>1, <2>1 DEF ItemsOf
    <2> QED
        BY <2>1, <2>2, <2>3
<1>10. ASSUME NEW k, k = arg
       PROVE  \E j \in ItemsOf(k)' :
                 /\ ItemsOf(k)' = j .. m
                 /\ items'[j].n = m - j + left'
    <2>1. CASE left = 0
        <3>1. \A j \in 1 .. Len(items) : items[j].arg # arg
            BY <1>0, <2>1 DEF OrderInv
        <3>2. ItemsOf(k) = {}
            BY <1>10, <3>1 DEF ItemsOf
        <3>3. ItemsOf(k)' = {m}
            BY <1>8, <1>10, <3>2
        <3>4. m .. m = {m} /\ m - m + n = n
            BY <1>0, <1>6
        <3>5. left' = n
            BY <1>4, <2>1
        <3> QED
            BY <1>3, <3>3, <3>4, <3>5
    <2>2. CASE left > 0
        <3>1. PICK j \in ItemsOf(arg) :
                 /\ ItemsOf(arg) = j .. Len(items)
                 /\ items[j].n = Len(items) - j + left
            BY <2>2 DEF OrderInv
        <3>2. j \in 1 .. Len(items)
            BY <3>1 DEF ItemsOf
        <3>3. ItemsOf(k)' = (j .. Len(items)) \cup {m}
            BY <1>8, <1>10, <3>1
        <3>4. (j .. Len(items)) \cup {m} = j .. m
            BY <1>0, <1>6, <3>2
        <3>5. items'[j].n = Len(items) - j + left /\ left' = left - 1
            BY <1>1, <1>4, <2>2, <3>1, <3>2
        <3>6. Len(items) - j + left = m - j + (left - 1)
            BY <1>0, <1>6, <3>2
        <3>7. j \in j .. m
            BY <1>0, <1>6, <3>2
        <3> QED
            BY <3>3, <3>4, <3>5, <3>6, <3>7
    <2> QED
        BY <1>0, <2>1, <2>2
<1>11. \A j \in 1 .. m : items'[j].arg <= arg
    <2>1. \A j \in 1 .. Len(items) : items[j].arg <= arg
        BY <1>0 DEF OrderInv
    <2> QED
        BY <1>0, <1>1, <1>3, <1>5, <2>1
<1>12. left' \in Nat
    BY <1>0, <1>4
<1>13. CASE left' = 0
    <2>1. arg' = arg + 1
        BY <1>4, <1>13
    <2>2. ASSUME NEW k \in 1 .. Len(sig), k < arg'
          PROVE  \E j \in ItemsOf(k)' : ItemsOf(k)' = j .. j + items'[j].n
        <3>1. CASE k < arg
            BY <1>9, <3>1
        <3>2. CASE k = arg
            <4>1. PICK j \in ItemsOf(k)' : ItemsOf(k)' = j .. m /\ items'[j].n = m - j + left'
                BY <1>10, <3>2
            <4>2. j \in 1 .. m
                BY <1>1, <4>1 DEF ItemsOf
            <4>3. j + items'[j].n = m
                BY <1>6, <1>13, <4>1, <4>2
            <4> QED
                BY <4>1, <4>3
        <3> QED
            BY <1>0, <2>1, <2>2, <3>1, <3>2
    <2>3. \A j \in 1 .. m : items'[j].arg < arg'
        <3>1. \A j \in 1 .. m : items'[j].arg \in Nat
            BY <1>0, <1>1, <1>3, <1>5
        <3> QED
            BY <1>0, <1>11, <2>1, <3>1
    <2> QED
        BY <1>1, <1>4, <1>13, <2>2, <2>3 DEF OrderInv
<1>14. CASE left' > 0
    <2>1. arg' = arg
        BY <1>4, <1>14
    <2>2. ASSUME NEW k, k = arg
          PROVE ItemsOf(arg)' = ItemsOf(k)'
        BY <2>1, <2>2 DEF ItemsOf
    <2>3. \E j \in ItemsOf(arg)' : ItemsOf(arg)' = j .. m /\ items'[j].n = m - j + left'
        BY <1>10, <2>2
    <2> QED
        BY <1>1, <1>4, <1>9, <1>11, <1>14, <2>1, <2>3 DEF OrderInv
<1> QED
    BY <1>12, <1>13, <1>14

LEMMA StepOrder ==
    ASSUME TypeOK, KindInv, OrderInv, pc = "called" => arg > Len(sig), [Next]_vars
    PROVE  OrderInv' /\ (pc = "called" => arg > Len(sig))'
<1>1. CASE Completing
    <2>1. PICK kind, bytes, n, upTo : Fills(kind, bytes, n, upTo)
        BY <1>1, CompletingFills
    <2>2. OrderInv'
        BY <2>1, FilledOrder
    <2>3. pc' = "fill"
        BY <2>1, FilledStarts
    <2> QED
        BY <2>2, <2>3
<1>2. CASE ~Completing
    <2>1. UNCHANGED <<sig, arg, left, items>>
        BY <1>2, Steps, RestingKeeps DEF NewFuzzer, SkipZero, StartCopy, CopyByte, vars, fixed
    <2>2. pc' = "called" => arg > Len(sig)
        <3>1. CASE Resting
            BY <3>1, Positions DEF Resting, StartSize, Panic, Call
        <3>2. CASE ~Resting
            BY <1>2, <3>2, Steps DEF NewFuzzer, SkipZero, StartCopy, CopyByte, vars
        <3> QED
            BY <3>1, <3>2
    <2> QED
        BY <2>1, <2>2 DEF OrderInv, ItemsOf
<1> QED
    BY <1>1, <1>2

\* For all inputs and signatures, the function is called with every parameter
\* filled, slices with all their elements (richsig.go:254-311).
THEOREM FillsAllArguments == Spec => []ArgumentsComplete
<1>1. Init => TypeOK /\ KindInv /\ OrderInv /\ (pc = "called" => arg > Len(sig))
    <2> SUFFICES ASSUME Init PROVE OrderInv
        BY InitType DEF Init, KindInv
    <2>1. arg = 1 /\ left = 0 /\ items = <<>>
        BY DEF Init
    <2>2. \A k \in 1 .. Len(sig) : ~(k < 1)
        OBVIOUS
    <2> QED
        BY <2>1, <2>2 DEF OrderInv
<1>2. TypeOK /\ KindInv /\ OrderInv /\ (pc = "called" => arg > Len(sig)) /\ [Next]_vars =>
          (TypeOK /\ KindInv /\ OrderInv /\ (pc = "called" => arg > Len(sig)))'
    BY StepType, StepKind, StepOrder
<1>3. TypeOK /\ OrderInv /\ (pc = "called" => arg > Len(sig)) => ArgumentsComplete
    BY OrderGivesComplete
<1> QED
    BY <1>1, <1>2, <1>3, PTL DEF Spec

-----------------------------------------------------------------------------
(* Decoding comes to an end. *)

Phase ==
    CASE pc = "new" -> 0 [] pc = "fill" -> 1 [] pc = "size" -> 2 [] pc = "copy" -> 3 [] OTHER -> 4

ToCopy == IF pc = "copy" THEN size - Len(buf) ELSE 0

\* What a step brings nearer to the call: in this order the next parameter, the
\* elements of its slice, the phase of its decoding, a byte of the input, or one
\* of the string.
Advances ==
    \/ arg' > arg
    \/ arg' = arg /\ left = 0 /\ left' > 0
    \/ arg' = arg /\ left' > 0 /\ left' < left
    \/ UNCHANGED <<arg, left>> /\ Phase' > Phase
    \/ UNCHANGED <<arg, left, pc>> /\ Remaining' < Remaining
    \/ UNCHANGED <<arg, left, pc, pos>> /\ ToCopy' < ToCopy

\* None of it goes on forever.
Bounded ==
    /\ arg <= Len(sig) + 1 /\ left \in Nat
    /\ Phase <= 4 /\ Remaining \in Nat /\ ToCopy \in Nat

LEMMA DecodingBounded ==
    ASSUME TypeOK, SourceInv PROVE Bounded
<1>1. Len(buf) \in Nat /\ arg <= Len(sig) + 1 /\ left \in Nat
    BY Positions DEF TypeOK
<1>2. Remaining \in Nat
    BY NextByteIs
<1>3. size \in Nat
    BY Sizes DEF TypeOK
<1>4. ToCopy \in Nat
    <2>1. pc = "copy" => Len(buf) <= size
        BY DEF SourceInv
    <2> QED
        BY <1>1, <1>3, <2>1 DEF ToCopy
<1>5. Phase <= 4
    BY DEF Phase
<1> QED
    BY <1>1, <1>2, <1>4, <1>5 DEF Bounded

LEMMA StepAdvances ==
    ASSUME TypeOK, KindInv, SourceInv, Next PROVE Advances
<1>0. arg \in Nat /\ left \in Nat /\ Len(data) \in Nat /\ pos \in Nat /\ pos <= Len(data)
    BY Positions DEF TypeOK
<1>1. CASE Completing
    <2>1. PICK kind, bytes, n, upTo : Fills(kind, bytes, n, upTo)
        BY <1>1, CompletingFills
    <2>2. /\ n \in Nat
          /\ left' = IF left > 0 THEN left - 1 ELSE n
          /\ arg' = IF left' = 0 THEN arg + 1 ELSE arg
        BY <2>1 DEF Fills, Filled
    <2>3. \/ arg' > arg
          \/ arg' = arg /\ left = 0 /\ left' > 0
          \/ arg' = arg /\ left' > 0 /\ left' < left
        BY <1>0, <2>2
    <2> QED
        BY <2>3 DEF Advances
<1>2. CASE NewFuzzer \/ Resting \/ StartCopy
    <2>1. UNCHANGED <<arg, left>>
        BY <1>2, RestingKeeps DEF NewFuzzer, StartCopy
    <2>2. \/ pc = "new" /\ pc' = "fill"
          \/ pc = "fill" /\ pc' \in {"size", "panicked", "called"}
          \/ pc = "size" /\ pc' = "copy"
        BY <1>2 DEF NewFuzzer, StartCopy, UsableSize, Resting, StartSize, Panic, Call, Filling
    <2>3. Phase' > Phase
        BY <2>2 DEF Phase
    <2> QED
        BY <2>1, <2>3 DEF Advances
<1>3. CASE SkipZero
    <2>1. UNCHANGED <<arg, left, pc, data>> /\ pos' = pos + 1
        BY <1>3 DEF SkipZero, fixed
    <2>2. Remaining' < Remaining
        BY <1>0, <2>1 DEF Remaining
    <2> QED
        BY <2>1, <2>2 DEF Advances
<1>4. CASE CopyByte
    <2>1. UNCHANGED <<arg, left, pc, size, data>> /\ pc = "copy" /\ pos' = After(1)
        BY <1>4 DEF CopyByte, fixed
    <2>2. pos' \in Nat /\ pos <= pos'
        BY <2>1, AfterIs
    <2>3. Len(buf') = Len(buf) + 1 /\ Len(buf) \in Nat
        <3>1. buf' = Append(buf, NextByte) /\ buf \in Seq(Byte)
            BY <1>4 DEF CopyByte, TypeOK
        <3> QED
            BY <3>1
    <2>4. size \in Nat
        BY Sizes DEF TypeOK
    <2>5. ToCopy' < ToCopy
        BY <2>1, <2>3, <2>4 DEF ToCopy
    <2>6. pos' = pos \/ Remaining' < Remaining
        BY <1>0, <2>1, <2>2 DEF Remaining
    <2> QED
        BY <2>1, <2>5, <2>6 DEF Advances
<1> QED
    BY <1>1, <1>2, <1>3, <1>4 DEF Next, Resting, Completing

\* Every input is decoded in a bounded number of steps: parameters, elements,
\* zeros in front of a size and bytes of a string are each counted down, so no
\* input keeps go-fuzz waiting for the call (randBytes, calcSize and the loops
\* around them).  It is the half of EveryInputArrives that is a safety property.
THEOREM DecodingIsFinite == Spec => ([]Bounded /\ [][Advances]_vars)
<1>1. TypeOK /\ KindInv /\ SourceInv /\ [Next]_vars => Bounded /\ [Advances]_vars
    BY DecodingBounded, StepAdvances
<1> QED
    BY <1>1, AlwaysSource, PTL DEF Spec

-----------------------------------------------------------------------------
(* What go-fuzz has put there on purpose arrives. *)

\* A size in the second byte and as many bytes behind it, for a first parameter
\* that is a string: the way a literal of the code under test gets to it.
LiteralArrives ==
    /\ items # <<>> /\ sig[1] \in {"string", "reader"}
    /\ Len(data) >= 2 /\ data[2] # 0 /\ data[2] # MaxByte
    /\ data[2] <= Len(data) - 2
    => items[1].kind = "string" /\ items[1].bytes = SubSeq(data, 3, 2 + data[2])

\* The first value belongs to the first parameter; only a slice has a length.
FirstInv ==
    /\ items = <<>> => arg = 1 /\ left = 0
    /\ items # <<>> =>
         items[1].arg = 1 /\ (items[1].kind = "count" => sig[1] \in {"strings", "ints"})

LEMMA StepFirst ==
    ASSUME TypeOK, KindInv, FirstInv, [Next]_vars PROVE FirstInv'
<1>1. CASE Completing
    <2>1. PICK kind, bytes, n, upTo : Fills(kind, bytes, n, upTo)
        BY <1>1, CompletingFills
    <2> DEFINE item == [arg |-> arg, kind |-> kind, bytes |-> bytes, n |-> n, end |-> upTo]
    <2>2. items' = Append(items, item) /\ sig' = sig
        BY <2>1 DEF Fills, Filled, fixed
    <2>3. kind = "count" => Kind \in {"strings", "ints"}
        BY <2>1 DEF Fills, Completes, StringSlice, FillInts, FillNumber
    <2>4. items \in Seq(Item)
        BY DEF TypeOK
    <2>5. items' # <<>> /\ items'[1] = IF items = <<>> THEN item ELSE items[1]
        <3> HIDE DEF item
        <3> QED
            BY <2>2, <2>4
    <2>6. CASE items = <<>>
        <3>1. arg = 1 /\ Kind = sig[1]
            BY <2>6 DEF FirstInv, Kind
        <3> QED
            BY <2>2, <2>3, <2>5, <2>6, <3>1 DEF FirstInv
    <2>7. CASE items # <<>>
        BY <2>2, <2>5, <2>7 DEF FirstInv
    <2> QED
        BY <2>6, <2>7
<1>2. CASE ~Completing
    <2>1. UNCHANGED <<sig, arg, left, items>>
        BY <1>2, Steps, RestingKeeps
           DEF NewFuzzer, SkipZero, StartCopy, CopyByte, fixed, vars
    <2> QED
        BY <2>1 DEF FirstInv
<1> QED
    BY <1>1, <1>2

LEMMA FirstGivesLiteral ==
    ASSUME TypeOK, FirstInv, StringsAsEncoded PROVE LiteralArrives
<1> SUFFICES ASSUME items # <<>>, sig[1] \in {"string", "reader"},
                    Len(data) >= 2, data[2] # 0, data[2] # MaxByte,
                    data[2] <= Len(data) - 2
             PROVE  items[1].kind = "string" /\ items[1].bytes = SubSeq(data, 3, 2 + data[2])
    BY DEF LiteralArrives
<1>1. items[1].arg = 1 /\ items[1].kind # "count"
    BY DEF FirstInv
<1>2. 1 \in 1 .. Len(items) /\ Len(data) \in Nat /\ data # <<>>
    <2>1. items \in Seq(Item) /\ data \in Seq(Byte)
        BY DEF TypeOK
    <2> QED
        BY <2>1
<1>3. Start(1) = 1
    BY <1>2 DEF Start
<1>4. FieldAfter(1, 2)
    <2>1. \A r \in 1 + 1 .. 2 - 1 : FALSE
        OBVIOUS
    <2> QED
        BY <2>1 DEF FieldAfter
<1>5. 2 \in 1 + 1 .. Len(data)
    BY <1>2
<1>6. data[2] \in Nat
    <2>1. data[2] \in Byte
        BY <1>2 DEF TypeOK
    <2> QED
        BY <2>1, Sizes
<1>7. ~CutMark(1)
    <2> SUFFICES ASSUME NEW q \in 1 + 1 .. Len(data), FieldAfter(1, q), data[q] = MaxByte
                 PROVE  FALSE
        BY DEF CutMark
    <2>1. q # 2 => 2 \in 1 + 1 .. q - 1
        BY <1>2
    <2> QED
        BY <2>1 DEF FieldAfter
<1>8. IF items[1].kind = "nil"
      THEN \A q \in 1 + 1 .. Len(data) : FieldAfter(1, q) => LengthUsed(q) > Len(data) - q
      ELSE \E q \in 1 + 1 .. Len(data) : FieldAfter(1, q) /\ EncodedAt(items[1], q)
    <2>1. Decoded(items[1], 1)
        BY <1>1, <1>2, <1>3, <1>7 DEF StringsAsEncoded, IsString
    <2> QED
        BY <2>1 DEF Decoded
<1>9. LengthUsed(2) = data[2]
    BY DEF LengthUsed
<1>10. items[1].kind # "nil"
    <2> SUFFICES ASSUME items[1].kind = "nil" PROVE FALSE
        OBVIOUS
    <2>1. data[2] > Len(data) - 2
        BY <1>4, <1>5, <1>8, <1>9
    <2> QED
        BY <1>2, <1>6, <2>1
<1>11. PICK q \in 1 + 1 .. Len(data) : FieldAfter(1, q) /\ EncodedAt(items[1], q)
    BY <1>8, <1>10
<1>12. q = 2
    <2> SUFFICES ASSUME q # 2 PROVE FALSE
        OBVIOUS
    <2>1. 2 \in 1 + 1 .. q - 1
        BY <1>2, <1>11
    <2> QED
        BY <1>11, <2>1 DEF FieldAfter
<1>13. items[1].kind = "string" /\ items[1].bytes = SubSeq(data, 2 + 1, 2 + data[2])
    BY <1>1, <1>11, <1>12, <1>9 DEF EncodedAt
<1> QED
    BY <1>13

\* go-fuzz replaces a string and the size it finds before it by a literal of the
\* code under test and the length of that: such an input gives the function
\* exactly that literal, whatever stands behind it and whatever parameters follow
\* (randparam.go:132-170, where this is the reason for each rule of the encoding).
THEOREM LiteralsArrive == Spec => []LiteralArrives
<1>1. Init => FirstInv
    BY DEF Init, FirstInv
<1>2. TypeOK /\ KindInv /\ FirstInv /\ [Next]_vars => FirstInv'
    BY StepFirst
<1>3. TypeOK /\ FirstInv /\ StringsAsEncoded => LiteralArrives
    BY FirstGivesLiteral
<1> QED
    BY <1>1, <1>2, <1>3, AlwaysSource, PTL DEF Spec

=============================================================================
