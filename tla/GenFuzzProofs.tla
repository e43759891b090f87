---------------------------- MODULE GenFuzzProofs ----------------------------
(***************************************************************************)
(* Theorems about GenFuzz for every package, function and list of names.   *)
(***************************************************************************)
EXTENDS GenFuzz, FiniteSetTheorems, TLAPS

\* The parameters that stand before those of the function under test.
Front ==
    IF ctor # NoCtor THEN ctor.params ELSE IF IsMethod THEN <<func.recv>> ELSE <<>>

Fixed == func \in Functions /\ decls \in Packages /\ pkg \in PkgNames /\ insert \in BOOLEAN

ListKnown == {"check", "nil", "construct", "call", "done"}
Signed == {"nil", "construct", "call", "done"}

\* What the wrapper's list consists of.
ListInv ==
    /\ ctor # NoCtor => IsMethod /\ ctor \in decls /\ IsSuitable(ctor)
    /\ pc \in {"find", "receiver"} => ctor = NoCtor /\ all = <<>>
    /\ pc = "params" => all = Front
    /\ pc \in ListKnown =>
         /\ Len(all) = Len(Front) + Len(func.params)
         /\ \A j \in 1 .. Len(Front) : all[j] = Front[j]
         /\ \A j \in 1 .. Len(func.params) : all[Len(Front) + j] = func.params[j]
    /\ offset = IF pc \in {"call", "done"} /\ ctor # NoCtor THEN Len(ctor.params) ELSE 0

\* What has been written of the wrapper.
TextInv ==
    /\ declared = IF pc \in Signed THEN EmitArgs(all, 0) ELSE <<>>
    /\ pc \in {"construct", "call", "done"} =>
         /\ Len(checked) = Len(all)
         /\ \A j \in 1 .. Len(all) :
              all[j].type = "pointer" => checked[j] = AvoidCollision(all[j], j)
    /\ IF pc \in {"call", "done"} /\ ctor # NoCtor
       THEN made = AvoidCollision(func.recv, 1) /\ ctorArgs = EmitArgs(ctor.params, 0)
       ELSE made = Unnamed
    /\ pc = "done" =>
         /\ IsMethod => object = AvoidCollision(func.recv, 1)
         /\ args = EmitArgs(func.params, offset)

\* What constructorReplace has seen of the possible constructors.
SearchInv ==
    /\ pc = "find" => ctors = <<>> /\ k = 1
    /\ pc # "find" =>
         /\ insert => \A c \in decls : IsPossible(c) => \E j \in 1 .. Len(ctors) : ctors[j] = c
         /\ InOrder(ctors)
         /\ \A j \in 1 .. k - 1 : ~IsSuitable(ctors[j])
         /\ ctor # NoCtor => k <= Len(ctors) /\ ctor = ctors[k]
    /\ pc \in {"params"} \cup ListKnown /\ IsMethod /\ ctor = NoCtor => k = Len(ctors) + 1

Inv == Fixed /\ TypeOK /\ ListInv /\ SearchInv /\ TextInv

-----------------------------------------------------------------------------

\* What Fixed makes of the assumption on the constants.
LEMMA FunctionFacts ==
    ASSUME Fixed
    PROVE  /\ func \in [recv : Vars \cup {NoVar}, params : Seq(Vars)]
           /\ IsMethod => func.recv \in Vars /\ func.recv.of = "recv"
           /\ \A j \in 1 .. Len(func.params) :
                func.params[j].of = "func" /\ func.params[j].at = j
           /\ pkg \in Names
BY ConstantsAssumption DEF Fixed, ConstantsAssumption, IsMethod

LEMMA CtorFacts ==
    ASSUME Fixed, NEW c \in decls
    PROVE  /\ c \in Ctors /\ c # NoCtor
           /\ c.params \in Seq(Vars)
           /\ \A j \in 1 .. Len(c.params) : c.params[j].of = "ctor" /\ c.params[j].at = j
<1>1. decls \subseteq Ctors \ {NoCtor}
  BY ConstantsAssumption DEF Fixed, ConstantsAssumption
<1>2. c \in Ctors /\ c # NoCtor
  BY <1>1
<1>3. c.params \in Seq(Vars)
  BY <1>2 DEF Ctors
<1>4. \A p \in Packages : \A d \in p : \A j \in 1 .. Len(d.params) :
          d.params[j].of = "ctor" /\ d.params[j].at = j
  BY ConstantsAssumption, Zenon DEF ConstantsAssumption
<1>5. decls \in Packages
  BY DEF Fixed
<1>6. \A j \in 1 .. Len(c.params) : c.params[j].of = "ctor" /\ c.params[j].at = j
  BY <1>4, <1>5, Zenon
<1> QED
  BY <1>2, <1>3, <1>6

LEMMA FrontType ==
    ASSUME Fixed, ctor # NoCtor => ctor \in decls
    PROVE  Front \in Seq(Vars)
BY FunctionFacts, CtorFacts DEF Front

LEMMA PairType ==
    ASSUME NEW a \in Letters, NEW n \in Int
    PROVE  <<a, n>> \in Names
BY DEF Names

LEMMA NameType ==
    ASSUME NEW v \in Vars, NEW n \in Int
    PROVE  AvoidCollision(v, n) \in Names
<1>1. v.name \in Letters \X Int
  BY DEF Vars, Names
<1>2. v.name[1] \in Letters
  BY <1>1
<1>3. <<v.name[1], n>> \in Names
  BY <1>2, PairType
<1>4. "x" \in Letters
  BY ConstantsAssumption DEF ConstantsAssumption
<1>5. <<"x", n>> \in Names
  BY <1>4, PairType
<1> QED
  BY <1>1, <1>3, <1>5 DEF AvoidCollision, Names

LEMMA NamesType ==
    ASSUME NEW params \in Seq(Vars), NEW from \in Int
    PROVE  EmitArgs(params, from) \in Seq(Names)
<1>1. Len(params) \in Nat
  OBVIOUS
<1>2. \A n \in 1 .. Len(params) : AvoidCollision(params[n], n + from) \in Names
  <2> TAKE n \in 1 .. Len(params)
  <2>1. params[n] \in Vars /\ n + from \in Int
    OBVIOUS
  <2> QED
    BY <2>1, NameType
<1>3. EmitArgs(params, from) = [n \in 1 .. Len(params) |-> AvoidCollision(params[n], n + from)]
  BY DEF EmitArgs
<1> QED
  BY <1>1, <1>2, <1>3

\* A name is as long as it was, and stands where its parameter does.
LEMMA EmitArgsAt ==
    ASSUME NEW params \in Seq(Vars), NEW from
    PROVE  /\ Len(EmitArgs(params, from)) = Len(params)
           /\ \A n \in 1 .. Len(params) :
                EmitArgs(params, from)[n] = AvoidCollision(params[n], n + from)
BY DEF EmitArgs

LEMMA UnnamedType == Unnamed \in Names
<1>1. "" \in Letters
  BY ConstantsAssumption DEF ConstantsAssumption
<1>2. \A n \in Int : <<"", n>> \in Names
  BY <1>1, PairType
<1>3. 0 \in Int
  OBVIOUS
<1>4. <<"", 0>> \in Names
  BY <1>2, <1>3, Zenon
<1> QED
  BY <1>4, Zenon DEF Unnamed

-----------------------------------------------------------------------------

LEMMA InitInv == Init => Inv
<1> SUFFICES ASSUME Init PROVE Inv
  OBVIOUS
<1>1. Fixed
  BY DEF Init, Fixed
<1>2. TypeOK
  <2>1. decls \subseteq Ctors
    BY <1>1, ConstantsAssumption DEF Fixed, ConstantsAssumption
  <2> QED
    BY <1>1, <2>1, FunctionFacts, UnnamedType DEF Init, TypeOK
<1>3. ListInv
  BY DEF Init, ListInv, ListKnown
<1>4. TextInv
  BY DEF Init, TextInv, Signed
<1>5. SearchInv
  BY DEF Init, SearchInv, ListKnown
<1> QED
  BY <1>1, <1>2, <1>3, <1>4, <1>5 DEF Inv

LEMMA FixedStays ==
    ASSUME Fixed, [Next]_vars
    PROVE  Fixed' /\ func' = func /\ decls' = decls /\ pkg' = pkg /\ insert' = insert
<1>1. UNCHANGED input
  BY DEF Next, vars, input, FindConstructors, SkipUnnamedReceiver, NoReceiver, SkipConstructor,
         FoundConstructor, NoConstructor, AddParams, SkipWrapper, PanicOnUnnamed, EmitSignature,
         EmitNilChecks, EmitConstructor, EmitNoConstructor, EmitCall
<1> QED
  BY <1>1 DEF Fixed, input

LEMMA ListStep ==
    ASSUME Inv, [Next]_vars
    PROVE  ListInv'
<1>1. ListInv /\ Fixed /\ TypeOK
  BY DEF Inv
<1>2. func' = func /\ decls' = decls /\ pkg' = pkg /\ insert' = insert
  BY <1>1, FixedStays
<1>3. Front \in Seq(Vars) /\ func.params \in Seq(Vars)
  BY <1>1, FrontType, FunctionFacts DEF ListInv
<1> USE DEF ListKnown, Front, IsMethod, Go
<1>4. CASE FindConstructors
  BY <1>1, <1>2, <1>4 DEF FindConstructors, ListInv
<1>5. CASE SkipUnnamedReceiver
  BY <1>1, <1>2, <1>5 DEF SkipUnnamedReceiver, ListInv, choice
<1>6. CASE NoReceiver
  BY <1>1, <1>2, <1>6 DEF NoReceiver, ListInv, choice
<1>7. CASE SkipConstructor
  BY <1>1, <1>2, <1>7 DEF SkipConstructor, ListInv
<1>8. CASE FoundConstructor
  <2>1. ctors[k] \in decls
    BY <1>1, <1>8 DEF FoundConstructor, TypeOK
  <2>2. ctor' # NoCtor
    BY <1>1, <1>8, <2>1, CtorFacts DEF FoundConstructor
  <2> QED
    BY <1>1, <1>2, <1>8, <2>1, <2>2 DEF FoundConstructor, ListInv, IsSuitable
<1>9. CASE NoConstructor
  BY <1>1, <1>2, <1>9 DEF NoConstructor, ListInv
<1>10. CASE AddParams
  <2>1. all = Front /\ Len(Front) \in Nat /\ Len(func.params) \in Nat
    BY <1>1, <1>3, <1>10 DEF AddParams, ListInv
  <2>2. Front' = Front
    BY <1>2, <1>10 DEF AddParams
  <2>3. all' = [n \in 1 .. Len(Front) + Len(func.params) |->
                  IF n <= Len(Front) THEN Front[n] ELSE func.params[n - Len(Front)]]
    BY <1>10, <2>1 DEF AddParams
  <2> HIDE DEF Front
  <2>4. Len(all') = Len(Front) + Len(func.params)
    BY <2>1, <2>3
  <2>5. \A j \in 1 .. Len(Front) : all'[j] = Front[j]
    BY <2>1, <2>3
  <2>6. \A j \in 1 .. Len(func.params) : all'[Len(Front) + j] = func.params[j]
    BY <2>1, <2>3
  <2> QED
    BY <1>1, <1>2, <1>10, <2>2, <2>4, <2>5, <2>6 DEF AddParams, ListInv
<1>11. CASE SkipWrapper
  BY <1>1, <1>2, <1>11 DEF SkipWrapper, ListInv, choice
<1>12. CASE PanicOnUnnamed
  BY <1>1, <1>2, <1>12 DEF PanicOnUnnamed, ListInv, choice
<1>13. CASE EmitSignature
  BY <1>1, <1>2, <1>13 DEF EmitSignature, ListInv, choice
<1>14. CASE EmitNilChecks
  BY <1>1, <1>2, <1>14 DEF EmitNilChecks, ListInv, choice
<1>15. CASE EmitConstructor
  BY <1>1, <1>2, <1>15 DEF EmitConstructor, ListInv
<1>16. CASE EmitNoConstructor
  BY <1>1, <1>2, <1>16 DEF EmitNoConstructor, ListInv, choice
<1>17. CASE EmitCall
  BY <1>1, <1>2, <1>17 DEF EmitCall, ListInv, choice
<1>18. CASE UNCHANGED vars
  BY <1>1, <1>18 DEF vars, input, choice, ListInv
<1> QED
  BY <1>4, <1>5, <1>6, <1>7, <1>8, <1>9, <1>10, <1>11, <1>12, <1>13, <1>14, <1>15, <1>16, <1>17,
     <1>18 DEF Next

LEMMA TextStep ==
    ASSUME Inv, [Next]_vars
    PROVE  TextInv'
<1>1. TextInv /\ ListInv /\ Fixed /\ TypeOK
  BY DEF Inv
<1>2. func' = func /\ decls' = decls /\ pkg' = pkg /\ insert' = insert
  BY <1>1, FixedStays
<1> USE DEF Signed, Go, IsMethod
<1>3. CASE UNCHANGED output /\ pc \notin Signed /\ pc' \notin Signed
  BY <1>1, <1>3 DEF TextInv, output
<1>4. CASE all' = all /\ UNCHANGED output /\ pc = "construct" /\ pc' = "call" /\ ctor' = NoCtor
  BY <1>1, <1>2, <1>4 DEF TextInv, output, EmitArgs, AvoidCollision, Collides
<1>5. CASE EmitSignature
  BY <1>1, <1>2, <1>5 DEF EmitSignature, TextInv, choice, EmitArgs, AvoidCollision, Collides
<1>6. CASE EmitNilChecks
  <2>1. Len(all) \in Nat
    BY <1>1 DEF TypeOK
  <2>2. Len(checked') = Len(all)
    BY <1>6, <2>1 DEF EmitNilChecks
  <2>3. \A j \in 1 .. Len(all) :
          all[j].type = "pointer" => checked'[j] = AvoidCollision(all[j], j)
    BY <1>6, <2>1 DEF EmitNilChecks
  <2> QED
    BY <1>1, <1>2, <1>6, <2>2, <2>3
    DEF EmitNilChecks, TextInv, choice, EmitArgs, AvoidCollision, Collides
<1>7. CASE EmitConstructor
  BY <1>1, <1>2, <1>7 DEF EmitConstructor, TextInv, EmitArgs, AvoidCollision, Collides
<1>8. CASE EmitCall
  BY <1>1, <1>2, <1>8, SMTT(20) DEF EmitCall, TextInv, choice, EmitArgs, AvoidCollision, Collides
<1>9. CASE UNCHANGED vars
  BY <1>1, <1>9 DEF vars, input, choice, output, TextInv, EmitArgs, AvoidCollision, Collides
<1> QED
  BY <1>3, <1>4, <1>5, <1>6, <1>7, <1>8, <1>9
  DEF Next, FindConstructors, SkipUnnamedReceiver, NoReceiver, SkipConstructor, FoundConstructor,
      NoConstructor, AddParams, SkipWrapper, PanicOnUnnamed, EmitNoConstructor, choice

\* FindFunc's result is a finite list of declarations.
LEMMA FoundList ==
    ASSUME Fixed, FindConstructors
    PROVE  /\ ctors' \in Seq(decls)
           /\ insert => \A c \in decls : IsPossible(c) => \E j \in 1 .. Len(ctors') : ctors'[j] = c
           /\ InOrder(ctors')
<1> DEFINE found == IF insert THEN {c \in decls : IsPossible(c)} ELSE {}
           n == Cardinality(found)
<1>1. IsFiniteSet(decls)
  BY ConstantsAssumption DEF Fixed, ConstantsAssumption
<1>2. found \subseteq decls
  OBVIOUS
<1>3. IsFiniteSet(found)
  BY <1>1, <1>2, FS_Subset
<1>4. n \in Nat
  BY <1>3, FS_CardinalityType
<1>5. /\ ctors' \in [1 .. n -> found]
      /\ \A c \in found : \E j \in DOMAIN ctors' : ctors'[j] = c
      /\ InOrder(ctors')
  BY DEF FindConstructors
<1> HIDE DEF n
<1>6. ctors' \in Seq(decls) /\ Len(ctors') = n
  BY <1>2, <1>4, <1>5
<1>7. ASSUME insert, NEW c \in decls, IsPossible(c)
      PROVE  \E j \in 1 .. Len(ctors') : ctors'[j] = c
  <2>1. c \in found
    BY <1>7
  <2>2. DOMAIN ctors' = 1 .. Len(ctors')
    BY <1>5, <1>6
  <2> QED
    BY <2>1, <2>2, <1>5
<1> QED
  BY <1>5, <1>6, <1>7

LEMMA SearchStep ==
    ASSUME Inv, [Next]_vars
    PROVE  SearchInv'
<1>1. SearchInv /\ ListInv /\ Fixed /\ TypeOK
  BY DEF Inv
<1>2. func' = func /\ decls' = decls /\ pkg' = pkg /\ insert' = insert
  BY <1>1, FixedStays
<1>3. k \in Nat /\ Len(ctors) \in Nat /\ k <= Len(ctors) + 1
  BY <1>1 DEF TypeOK
<1> USE DEF ListKnown, Go, IsMethod
<1>4. CASE FindConstructors
  <2>1. k = 1 /\ k' = 1 /\ ctor' = NoCtor /\ pc' = "receiver"
    BY <1>1, <1>4 DEF FindConstructors, SearchInv, ListInv
  <2>2. 1 .. k' - 1 = {}
    BY <2>1
  <2> QED
    BY <1>1, <1>2, <1>4, <2>1, <2>2, FoundList DEF SearchInv, IsPossible
<1>5. CASE SkipConstructor
  <2>1. \A j \in 1 .. k' - 1 : j \in 1 .. k - 1 \/ j = k
    BY <1>3, <1>5 DEF SkipConstructor
  <2> QED
    BY <1>1, <1>2, <1>5, <2>1 DEF SkipConstructor, SearchInv, ListInv
<1>6. CASE FoundConstructor
  <2>1. ctors[k] \in decls /\ ctors[k] # NoCtor
    BY <1>1, <1>6, CtorFacts DEF FoundConstructor, TypeOK
  <2> QED
    BY <1>1, <1>2, <1>6, <2>1 DEF FoundConstructor, SearchInv
<1>7. CASE NoConstructor
  <2>1. k = Len(ctors) + 1
    BY <1>3, <1>7 DEF NoConstructor
  <2> QED
    BY <1>1, <1>2, <1>7, <2>1 DEF NoConstructor, SearchInv, ListInv
<1>8. CASE UNCHANGED <<ctors, k, ctor>> /\ pc # "find" /\ pc' # "find"
           /\ (pc' \in {"params"} \cup ListKnown /\ IsMethod => pc \in {"params"} \cup ListKnown)
  BY <1>1, <1>2, <1>8 DEF SearchInv
<1>9. CASE UNCHANGED vars
  BY <1>1, <1>9 DEF vars, input, choice, SearchInv
<1> QED
  BY <1>4, <1>5, <1>6, <1>7, <1>8, <1>9
  DEF Next, SkipUnnamedReceiver, NoReceiver, AddParams, SkipWrapper, PanicOnUnnamed,
      EmitSignature, EmitNilChecks, EmitConstructor, EmitNoConstructor, EmitCall, choice

LEMMA TypeStep ==
    ASSUME Inv, [Next]_vars
    PROVE  TypeOK'
<1>1. SearchInv /\ ListInv /\ Fixed /\ TypeOK
  BY DEF Inv
<1>2. func' = func /\ decls' = decls /\ pkg' = pkg /\ insert' = insert
  BY <1>1, FixedStays
<1>3. /\ func.params \in Seq(Vars)
      /\ IsMethod => func.recv \in Vars
  BY <1>1, FunctionFacts
<1>4. k \in Nat /\ Len(ctors) \in Nat /\ k >= 1 /\ k <= Len(ctors) + 1 /\ ctors \in Seq(decls)
  BY <1>1 DEF TypeOK
<1>5. \A c \in decls : c.params \in Seq(Vars)
  BY <1>1, CtorFacts
<1>6. all \in Seq(Vars) /\ Len(all) \in Nat
  BY <1>1 DEF TypeOK
<1> USE DEF Go
<1>7. CASE FindConstructors
  <2>1. k = 1
    BY <1>1, <1>7 DEF FindConstructors, SearchInv
  <2>2. ctors' \in Seq(decls)
    BY <1>1, <1>7, FoundList
  <2> QED
    BY <1>1, <1>2, <1>7, <2>1, <2>2 DEF FindConstructors, TypeOK, output
<1>8. CASE SkipConstructor
  BY <1>1, <1>2, <1>4, <1>8 DEF SkipConstructor, TypeOK, output
<1>9. CASE FoundConstructor
  <2>1. ctors[k] \in decls
    BY <1>4, <1>9 DEF FoundConstructor
  <2>2. offset' = 0 /\ all' \in Seq(Vars)
    BY <1>1, <1>5, <1>9, <2>1 DEF FoundConstructor, ListInv
  <2>3. offset' \in 0 .. Len(all')
    BY <2>2
  <2> QED
    BY <1>1, <1>2, <1>9, <2>1, <2>2, <2>3 DEF FoundConstructor, TypeOK, output
<1>10. CASE NoConstructor
  <2>1. offset' = 0 /\ all' \in Seq(Vars)
    BY <1>1, <1>3, <1>10 DEF NoConstructor, ListInv
  <2>2. offset' \in 0 .. Len(all')
    BY <2>1
  <2> QED
    BY <1>1, <1>2, <1>10, <2>1, <2>2 DEF NoConstructor, TypeOK, output
<1>11. CASE AddParams
  <2>1. offset' = 0
    BY <1>1, <1>11 DEF AddParams, ListInv
  <2>2. Len(func.params) \in Nat
    BY <1>3
  <2>3. \A n \in 1 .. Len(all) + Len(func.params) :
          (IF n <= Len(all) THEN all[n] ELSE func.params[n - Len(all)]) \in Vars
    BY <1>3, <1>6, <2>2
  <2>4. all' \in Seq(Vars)
    BY <1>6, <1>11, <2>2, <2>3 DEF AddParams
  <2>5. offset' \in 0 .. Len(all')
    BY <2>1, <2>4
  <2> QED
    BY <1>1, <1>2, <1>11, <2>4, <2>5 DEF AddParams, TypeOK, output
<1>12. CASE EmitSignature
  BY <1>1, <1>2, <1>6, <1>12, NamesType DEF EmitSignature, TypeOK, choice
<1>13. CASE EmitNilChecks
  <2>1. \A n \in 1 .. Len(all) :
          (IF all[n].type = "pointer" THEN AvoidCollision(all[n], n) ELSE Unnamed) \in Names
    <3> TAKE n \in 1 .. Len(all)
    <3>1. all[n] \in Vars /\ n \in Int
      BY <1>6
    <3> QED
      BY <3>1, NameType, UnnamedType
  <2>2. checked' \in Seq(Names)
    BY <1>6, <1>13, <2>1 DEF EmitNilChecks
  <2> QED
    BY <1>1, <1>2, <1>13, <2>2 DEF EmitNilChecks, TypeOK, choice
<1>14. CASE EmitConstructor
  <2>1. ctor \in decls /\ IsMethod /\ ctor.params \in Seq(Vars)
    BY <1>1, <1>5, <1>14 DEF EmitConstructor, ListInv
  <2>2. made' \in Names /\ ctorArgs' \in Seq(Names)
    BY <1>3, <1>14, <2>1, NameType, NamesType DEF EmitConstructor
  <2>3. Len(all) = Len(ctor.params) + Len(func.params)
    BY <1>1, <1>14 DEF EmitConstructor, ListInv, ListKnown, Front
  <2>4. offset' = Len(ctor.params) /\ Len(all') = Len(ctor.params) + Len(func.params)
    BY <1>14, <2>3 DEF EmitConstructor
  <2>5. Len(ctor.params) \in Nat /\ Len(func.params) \in Nat
    BY <1>3, <2>1
  <2>6. offset' \in 0 .. Len(all')
    <3>1. \A m, n \in Nat : m \in 0 .. m + n
      OBVIOUS
    <3> QED
      BY <2>4, <2>5, <3>1
  <2> QED
    BY <1>1, <1>2, <1>14, <2>2, <2>6 DEF EmitConstructor, TypeOK
<1>15. CASE EmitCall
  <2>1. offset \in Int
    BY <1>1, <1>6 DEF TypeOK
  <2>2. object' \in Names /\ args' \in Seq(Names)
    BY <1>3, <1>15, <2>1, NameType, NamesType, UnnamedType DEF EmitCall
  <2> QED
    BY <1>1, <1>2, <1>15, <2>2 DEF EmitCall, TypeOK, choice
<1>16. CASE UNCHANGED <<choice, output>>
            /\ pc' \in {"find", "receiver", "params", "check", "nil", "construct", "call",
                        "done", "skipped", "panicked"}
  BY <1>1, <1>2, <1>16 DEF choice, output, TypeOK
<1>17. CASE UNCHANGED vars
  BY <1>1, <1>17 DEF vars, input, choice, output, TypeOK
<1> QED
  BY <1>7, <1>8, <1>9, <1>10, <1>11, <1>12, <1>13, <1>14, <1>15, <1>16, <1>17
  DEF Next, SkipUnnamedReceiver, NoReceiver, SkipWrapper, PanicOnUnnamed, EmitNoConstructor

LEMMA Invariant == Spec => []Inv
<1>1. Inv /\ [Next]_vars => Inv'
  BY FixedStays, TypeStep, ListStep, SearchStep, TextStep DEF Inv
<1> QED
  BY <1>1, InitInv, PTL DEF Spec

-----------------------------------------------------------------------------

\* Names, kinds and counts keep their types for every package and function
\* (genfuzzfuncs.go:91-225).
THEOREM TypeCorrect == Spec => []TypeOK
BY Invariant, PTL DEF Inv

\* A method gets the simplest suitable constructor, whatever the package holds
\* and in whatever order FindFunc meets it (genfuzzfuncs.go:41-45).
THEOREM ChoosesSimplest == Spec => []SimplestConstructor
<1>1. Inv => SimplestConstructor
  <2> SUFFICES ASSUME Inv,
                      pc \in {"check", "nil", "construct", "call", "done"}, IsMethod, insert,
                      NEW c \in decls, IsPossible(c), IsSuitable(c)
               PROVE  ctor # NoCtor /\ ctor.length <= c.length
    BY DEF SimplestConstructor
  <2>1. PICK j \in 1 .. Len(ctors) : ctors[j] = c
    BY DEF Inv, SearchInv
  <2>2. k \in 1 .. Len(ctors) + 1 /\ Len(ctors) \in Nat
    BY DEF Inv, TypeOK
  <2>3. k <= j
    BY <2>1, <2>2 DEF Inv, SearchInv
  <2>4. ctor # NoCtor /\ ctor = ctors[k]
    BY <2>1, <2>2, <2>3 DEF Inv, SearchInv, ListKnown
  <2>5. CASE k = j
    <3>1. c.length \in Nat
      BY CtorFacts DEF Inv, Ctors
    <3> QED
      BY <2>1, <2>4, <2>5, <3>1
  <2>6. CASE k < j
    BY <2>1, <2>2, <2>4, <2>6 DEF Inv, SearchInv, InOrder
  <2> QED
    BY <2>2, <2>3, <2>4, <2>5, <2>6
<1> QED
  BY <1>1, Invariant, PTL

\* No parameter occurs twice in the wrapper's list.
LEMMA Distinct ==
    ASSUME Inv, pc \in ListKnown,
           NEW i \in 1 .. Len(all), NEW j \in 1 .. Len(all), all[i] = all[j]
    PROVE  i = j
<1>1. ListInv /\ Fixed /\ TypeOK
  BY DEF Inv
<1>2. Front \in Seq(Vars) /\ func.params \in Seq(Vars)
  BY <1>1, FrontType, FunctionFacts DEF ListInv
<1> DEFINE m == Len(Front)
<1>3. m \in Nat /\ Len(func.params) \in Nat /\ Len(all) = m + Len(func.params)
  BY <1>1, <1>2 DEF ListInv
<1>4. \A n \in 1 .. m : all[n] = Front[n] /\ Front[n].at = n /\ Front[n].of # "func"
  <2>1. CASE ctor # NoCtor
    BY <1>1, <2>1, CtorFacts DEF ListInv, Front
  <2>2. CASE ctor = NoCtor /\ IsMethod
    <3>1. Front = <<func.recv>> /\ func.recv.at = 1 /\ func.recv.of = "recv"
      BY <1>1, <2>2, ConstantsAssumption DEF Front, Fixed, ConstantsAssumption, IsMethod
    <3> QED
      BY <1>1, <3>1 DEF ListInv
  <2>3. CASE ctor = NoCtor /\ ~IsMethod
    BY <2>3 DEF Front
  <2> QED
    BY <2>1, <2>2, <2>3
<1>5. \A n \in m + 1 .. Len(all) : all[n].at = n - m /\ all[n].of = "func"
  <2> TAKE n \in m + 1 .. Len(all)
  <2>1. n - m \in 1 .. Len(func.params) /\ n = m + (n - m)
    BY <1>3
  <2>2. all[n] = func.params[n - m]
    BY <1>1, <2>1 DEF ListInv
  <2> QED
    BY <1>1, <2>1, <2>2, FunctionFacts
<1> HIDE DEF m
<1>6. CASE i <= m /\ j <= m
  <2>1. i \in 1 .. m /\ j \in 1 .. m
    BY <1>3, <1>6
  <2>2. all[i].at = i /\ all[j].at = j
    BY <1>4, <2>1
  <2> QED
    BY <2>2
<1>7. CASE i > m /\ j > m
  <2>1. i - m = j - m
    BY <1>3, <1>5, <1>7
  <2> QED
    BY <1>3, <2>1
<1>8. CASE i <= m /\ j > m
  BY <1>3, <1>4, <1>5, <1>8
<1>9. CASE i > m /\ j <= m
  BY <1>3, <1>4, <1>5, <1>9
<1> QED
  BY <1>3, <1>6, <1>7, <1>8, <1>9

\* A name is kept, without a collision, or made up of a letter and the index.
LEMMA KeptOrMade ==
    ASSUME NEW v \in Vars, NEW n \in Int
    PROVE  \/ /\ ~IsRenamed(v) /\ AvoidCollision(v, n) = v.name
           \/ /\ IsRenamed(v) /\ AvoidCollision(v, n)[2] = n
BY DEF IsRenamed, AvoidCollision

LEMMA NamesDiffer ==
    ASSUME Inv, pc \in ListKnown,
           NEW i \in 1 .. Len(all), NEW j \in 1 .. Len(all), i # j,
           AvoidCollision(all[i], i) = AvoidCollision(all[j], j)
    PROVE  KeptMeetsMade(all[i], all[j], j) \/ KeptMeetsMade(all[j], all[i], i)
<1>1. all \in Seq(Vars)
  BY DEF Inv, TypeOK
<1>2. all[i] \in Vars /\ all[j] \in Vars /\ i \in Int /\ j \in Int
  BY <1>1
<1>3. CASE IsRenamed(all[i]) /\ IsRenamed(all[j])
  BY <1>2, <1>3, KeptOrMade
<1>4. CASE ~IsRenamed(all[i]) /\ ~IsRenamed(all[j])
  <2>1. all[i].name = all[j].name
    BY <1>2, <1>4, KeptOrMade
  <2>2. all[i] = all[j]
    BY <1>4, <2>1 DEF IsRenamed, Collides
  <2> QED
    BY <2>2, Distinct
<1>5. CASE IsRenamed(all[i]) /\ ~IsRenamed(all[j])
  <2>1. AvoidCollision(all[i], i)[2] = i /\ AvoidCollision(all[j], j) = all[j].name
    BY <1>2, <1>5, KeptOrMade
  <2> QED
    BY <1>5, <2>1 DEF KeptMeetsMade
<1>6. CASE ~IsRenamed(all[i]) /\ IsRenamed(all[j])
  <2>1. AvoidCollision(all[j], j)[2] = j /\ AvoidCollision(all[i], i) = all[i].name
    BY <1>2, <1>6, KeptOrMade
  <2> QED
    BY <1>6, <2>1 DEF KeptMeetsMade
<1> QED
  BY <1>3, <1>4, <1>5, <1>6

\* What the parameter list of the wrapper holds.
LEMMA DeclaredAt ==
    ASSUME Inv
    PROVE  \/ declared = <<>>
           \/ /\ pc \in Signed /\ pc \in ListKnown
              /\ Len(declared) = Len(all)
              /\ \A n \in 1 .. Len(all) : declared[n] = AvoidCollision(all[n], n)
<1>1. all \in Seq(Vars) /\ Len(all) \in Nat
  BY DEF Inv, TypeOK
<1>2. CASE pc \in Signed
  <2>1. declared = EmitArgs(all, 0)
    BY <1>2 DEF Inv, TextInv
  <2>2. \A n \in 1 .. Len(all) : n + 0 = n
    BY <1>1
  <2> QED
    BY <1>1, <1>2, <2>1, <2>2, EmitArgsAt DEF Signed, ListKnown
<1>3. CASE pc \notin Signed
  BY <1>3 DEF Inv, TextInv
<1> QED
  BY <1>2, <1>3

\* However many parameters there are and however they share names, two of them
\* have one name in the wrapper only if one has kept a name of the form that is
\* made up for the other, like s2 (genfuzzfuncs.go:252-280).
THEOREM NamesDeclaredOnce == Spec => []DeclaredOnce
<1>1. Inv => DeclaredOnce
  <2> SUFFICES ASSUME Inv, NEW i \in 1 .. Len(declared), NEW j \in 1 .. Len(declared),
                      i # j, declared[i] = declared[j]
               PROVE  KeptMeetsMade(all[i], all[j], j) \/ KeptMeetsMade(all[j], all[i], i)
    BY DEF DeclaredOnce
  <2>1. declared # <<>>
    OBVIOUS
  <2> QED
    BY <2>1, DeclaredAt, NamesDiffer
<1> QED
  BY <1>1, Invariant, PTL

\* The package is shadowed neither by a parameter nor by the receiver, except by
\* a made-up name in a package whose own name ends in the place it is made up for,
\* like v1 (genfuzzfuncs.go:256, 268-277).
THEOREM PackageStaysVisible == Spec => []PackageVisible
<1>1. Inv => PackageVisible
  <2> SUFFICES ASSUME Inv PROVE PackageVisible
    OBVIOUS
  <2>1. \A v \in Vars : \A n \in Int :
          AvoidCollision(v, n) = pkg => IsRenamed(v) /\ pkg[2] = n
    <3> SUFFICES ASSUME NEW v \in Vars, NEW n \in Int, AvoidCollision(v, n) = pkg
                 PROVE  IsRenamed(v) /\ pkg[2] = n
      OBVIOUS
    <3>1. CASE IsRenamed(v)
      BY <3>1, KeptOrMade
    <3>2. CASE ~IsRenamed(v)
      BY <3>2, KeptOrMade DEF IsRenamed, Collides
    <3> QED
      BY <3>1, <3>2
  <2>2. \A i \in 1 .. Len(declared) :
          declared[i] = pkg => IsRenamed(all[i]) /\ pkg[2] = i
    <3>1. all \in Seq(Vars) /\ declared \in Seq(Names)
      BY DEF Inv, TypeOK
    <3> TAKE i \in 1 .. Len(declared)
    <3>2. Len(declared) = Len(all) /\ declared[i] = AvoidCollision(all[i], i)
      BY DeclaredAt
    <3>3. all[i] \in Vars /\ i \in Int
      BY <3>1, <3>2
    <3> QED
      BY <2>1, <3>2, <3>3
  <2>3. made = pkg => IsRenamed(func.recv) /\ pkg[2] = 1
    <3>1. CASE made = Unnamed
      BY <3>1, ConstantsAssumption DEF Inv, Fixed, ConstantsAssumption
    <3>2. CASE made = AvoidCollision(func.recv, 1) /\ IsMethod
      <4>1. func.recv \in Vars /\ 1 \in Int
        BY <3>2, FunctionFacts DEF Inv
      <4> QED
        BY <2>1, <3>2, <4>1
    <3> QED
      BY <3>1, <3>2 DEF Inv, TextInv, ListInv
  <2> QED
    BY <2>2, <2>3 DEF PackageVisible
<1> QED
  BY <1>1, Invariant, PTL

\* Every use of a parameter in the wrapper has the name that the list declares
\* for it, except where a method without a constructor has arguments renamed
\* (genfuzzfuncs.go:187-225, 318-333).
THEOREM NamesMatch == Spec => []ArgumentsBound
<1>1. Inv => ArgumentsBound
  <2> SUFFICES ASSUME Inv, pc = "done"
               PROVE  ArgumentsBound
    BY DEF ArgumentsBound
  <2>1. ListInv /\ TextInv /\ Fixed /\ TypeOK
    BY DEF Inv
  <2> DEFINE m == Len(Front)
  <2>2. /\ all \in Seq(Vars) /\ Front \in Seq(Vars) /\ func.params \in Seq(Vars)
        /\ m \in Nat /\ Len(func.params) \in Nat /\ Len(all) = m + Len(func.params)
    BY <2>1, FrontType, FunctionFacts DEF ListInv, TypeOK, ListKnown
  <2>3. declared = EmitArgs(all, 0)
    BY <2>1 DEF TextInv, Signed
  <2>4. /\ Len(declared) = Len(all)
        /\ \A n \in 1 .. Len(all) : declared[n] = AvoidCollision(all[n], n)
    <3>1. \A n \in 1 .. Len(all) : n + 0 = n
      OBVIOUS
    <3> QED
      BY <2>2, <2>3, <3>1, EmitArgsAt
  <2>5. \A n \in 1 .. Len(all) : all[n].type = "pointer" => checked[n] = declared[n]
    BY <2>1, <2>4 DEF TextInv
  <2>6. /\ Len(args) = Len(func.params)
        /\ \A j \in 1 .. Len(args) : args[j] = AvoidCollision(func.params[j], j + offset)
    BY <2>1, <2>2, EmitArgsAt DEF TextInv
  <2>7. \A j \in 1 .. Len(func.params) :
          /\ PlaceOf(j) = m + j /\ m + j \in 1 .. Len(all)
          /\ declared[PlaceOf(j)] = AvoidCollision(func.params[j], m + j)
    <3> TAKE j \in 1 .. Len(func.params)
    <3>1. PlaceOf(j) = m + j /\ m + j \in 1 .. Len(all)
      BY <2>2 DEF PlaceOf
    <3>2. all[m + j] = func.params[j]
      BY <2>1 DEF ListInv, ListKnown
    <3> QED
      BY <2>4, <3>1, <3>2
  <2>8. ctor # NoCtor =>
          /\ object = made
          /\ Len(ctorArgs) = Len(ctor.params)
          /\ \A j \in 1 .. Len(ctorArgs) : ctorArgs[j] = declared[j]
    <3> SUFFICES ASSUME ctor # NoCtor
                 PROVE  /\ object = made
                        /\ Len(ctorArgs) = Len(ctor.params)
                        /\ \A j \in 1 .. Len(ctorArgs) : ctorArgs[j] = declared[j]
      OBVIOUS
    <3>1. object = made
      BY <2>1 DEF TextInv, ListInv
    <3>2. ctor.params = Front /\ ctorArgs = EmitArgs(Front, 0)
      BY <2>1 DEF TextInv, Front
    <3>3. /\ Len(ctorArgs) = m
          /\ \A j \in 1 .. m : ctorArgs[j] = AvoidCollision(Front[j], j + 0)
      BY <2>2, <3>2, EmitArgsAt
    <3>4. \A j \in 1 .. m : j \in 1 .. Len(all) /\ all[j] = Front[j] /\ j + 0 = j
      BY <2>1, <2>2 DEF ListInv, ListKnown
    <3> QED
      BY <2>4, <3>1, <3>2, <3>3, <3>4
  <2>9. IsBare => object = declared[1]
    <3> SUFFICES ASSUME IsBare PROVE object = declared[1]
      OBVIOUS
    <3>1. Front = <<func.recv>>
      BY DEF IsBare, Front
    <3>2. m = 1 /\ Front[1] = func.recv
      BY <3>1
    <3>3. 1 \in 1 .. Len(all) /\ all[1] = func.recv
      BY <2>1, <2>2, <3>2 DEF ListInv, ListKnown
    <3> QED
      BY <2>1, <2>4, <3>3 DEF TextInv, IsBare
  <2>10. ASSUME NEW j \in 1 .. Len(args), IsBare => ~IsRenamed(func.params[j])
         PROVE  args[j] = declared[PlaceOf(j)]
    <3>1. j \in Int /\ m + j \in Int /\ func.params[j] \in Vars
      BY <2>2, <2>6
    <3>2. CASE IsBare
      <4>1. offset = 0 /\ j + offset = j
        BY <2>1, <3>1, <3>2 DEF ListInv, IsBare
      <4>2. ~IsRenamed(func.params[j])
        BY <2>10, <3>2
      <4>3. AvoidCollision(func.params[j], j) = func.params[j].name
        BY <3>1, <4>2, KeptOrMade
      <4>4. AvoidCollision(func.params[j], m + j) = func.params[j].name
        BY <3>1, <4>2, KeptOrMade
      <4> QED
        BY <2>6, <2>7, <4>1, <4>3, <4>4
    <3>3. CASE ~IsBare
      <4>1. offset = m
        <5>1. CASE ctor # NoCtor
          BY <2>1, <5>1 DEF ListInv, Front
        <5>2. CASE ctor = NoCtor
          BY <2>1, <3>3, <5>2 DEF ListInv, Front, IsBare
        <5> QED
          BY <5>1, <5>2
      <4>2. j + offset = m + j
        BY <2>2, <3>1, <4>1
      <4> QED
        BY <2>6, <2>7, <4>2
    <3> QED
      BY <3>2, <3>3
  <2> QED
    BY <2>4, <2>5, <2>6, <2>8, <2>9, <2>10 DEF ArgumentsBound
<1> QED
  BY <1>1, Invariant, PTL

\* The variable made from a constructor can meet a parameter only if that is the
\* constructor's first and both are renamed, or if one of the two has kept a name
\* of the form that is made up for the other, like s2 (genfuzzfuncs.go:197-211,
\* 264, 277).
THEOREM ReceiverStaysNew == Spec => []ReceiverIsNew
<1>1. Inv => ReceiverIsNew
  <2> SUFFICES ASSUME Inv, pc \in {"call", "done"}, ctor # NoCtor,
                      NEW i \in 1 .. Len(declared), made = declared[i]
               PROVE  \/ i = 1 /\ IsRenamed(func.recv) /\ IsRenamed(all[1])
                      \/ KeptMeetsMade(func.recv, all[i], i)
                      \/ KeptMeetsMade(all[i], func.recv, 1)
    BY DEF ReceiverIsNew
  <2>1. made = AvoidCollision(func.recv, 1) /\ func.recv \in Vars /\ func.recv.of = "recv"
    BY FunctionFacts DEF Inv, TextInv, ListInv
  <2>2. all \in Seq(Vars)
    BY DEF Inv, TypeOK
  <2>3. Len(declared) = Len(all) /\ declared[i] = AvoidCollision(all[i], i)
    <3>1. declared # <<>>
      OBVIOUS
    <3> QED
      BY <3>1, DeclaredAt
  <2>4. i \in 1 .. Len(all) /\ all[i] \in Vars /\ i \in Int /\ i >= 1
    BY <2>2, <2>3
  <2>5. all[i] # func.recv
    <3>1. ListInv /\ Fixed
      BY DEF Inv
    <3>2. Front = ctor.params /\ Front \in Seq(Vars) /\ func.params \in Seq(Vars)
      BY <3>1, FrontType, FunctionFacts DEF ListInv, Front
    <3>3. Len(all) = Len(Front) + Len(func.params)
      BY <3>1 DEF ListInv, ListKnown
    <3>4. Len(Front) \in Nat /\ Len(func.params) \in Nat
      BY <3>2
    <3>5. CASE i \in 1 .. Len(Front)
      <4>1. all[i] = ctor.params[i] /\ ctor.params[i].of = "ctor"
        BY <3>1, <3>2, <3>5, CtorFacts DEF ListInv, ListKnown
      <4> QED
        BY <2>1, <4>1
    <3>6. CASE i \notin 1 .. Len(Front)
      <4>1. i - Len(Front) \in 1 .. Len(func.params) /\ i = Len(Front) + (i - Len(Front))
        BY <2>4, <3>3, <3>6, <3>4
      <4>2. all[i] = func.params[i - Len(Front)]
        BY <3>1, <4>1 DEF ListInv, ListKnown
      <4>3. all[i].of = "func"
        BY <3>1, <4>1, <4>2, FunctionFacts
      <4> QED
        BY <2>1, <4>3
    <3> QED
      BY <3>5, <3>6
  <2>6. /\ IsRenamed(func.recv) => made[2] = 1
        /\ ~IsRenamed(func.recv) => made = func.recv.name
    <3>1. 1 \in Int
      OBVIOUS
    <3>2. \/ ~IsRenamed(func.recv) /\ AvoidCollision(func.recv, 1) = func.recv.name
          \/ IsRenamed(func.recv) /\ AvoidCollision(func.recv, 1)[2] = 1
      BY <2>1, <3>1, KeptOrMade, Zenon
    <3> QED
      BY <2>1, <3>2
  <2>7. /\ IsRenamed(all[i]) => made[2] = i
        /\ ~IsRenamed(all[i]) => made = all[i].name
    <3>1. \/ ~IsRenamed(all[i]) /\ AvoidCollision(all[i], i) = all[i].name
          \/ IsRenamed(all[i]) /\ AvoidCollision(all[i], i)[2] = i
      BY <2>4, KeptOrMade, Zenon
    <3> QED
      BY <2>3, <3>1
  <2>8. CASE IsRenamed(func.recv) /\ IsRenamed(all[i])
    <3>1. i = 1
      BY <2>8, <2>6, <2>7
    <3> QED
      BY <2>8, <3>1
  <2>9. CASE ~IsRenamed(func.recv) /\ ~IsRenamed(all[i])
    <3>1. func.recv.name = all[i].name
      BY <2>9, <2>6, <2>7
    <3> QED
      BY <2>4, <2>5, <2>9, <3>1 DEF IsRenamed, Collides
  <2>10. CASE IsRenamed(func.recv) /\ ~IsRenamed(all[i])
    <3>1. made[2] = 1 /\ made = all[i].name
      BY <2>10, <2>6, <2>7
    <3> QED
      BY <2>10, <3>1 DEF KeptMeetsMade
  <2>11. CASE ~IsRenamed(func.recv) /\ IsRenamed(all[i])
    <3>1. made[2] = i /\ made = func.recv.name
      BY <2>11, <2>6, <2>7
    <3> QED
      BY <2>11, <3>1 DEF KeptMeetsMade
  <2> QED
    BY <2>8, <2>9, <2>10, <2>11
<1> QED
  BY <1>1, Invariant, PTL

=============================================================================
