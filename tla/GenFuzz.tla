------------------------------- MODULE GenFuzz -------------------------------
(***************************************************************************)
(* genfuzzfuncs writes, for each function or method of a package, a fuzz   *)
(* function that fzgo can run.  createWrapper names the parameters of the  *)
(* wrapper, and names them again wherever it uses them: in nil checks, in  *)
(* the call of a constructor that it found for the receiver of a method,   *)
(* and in the call under test.  Each place asks avoidCollision anew, with  *)
(* an index of its own.  The model follows one function through it.        *)
(***************************************************************************)
EXTENDS Integers, Sequences, FiniteSets

CONSTANTS
    Letters,        \* what a name can start with
    Functions,      \* functions and methods to wrap: [recv, params]
    Packages,       \* what a package may hold besides: sets of Ctors
    PkgNames        \* its name, never empty or _

\* A name is a letter and the rest: 0 for nothing, n > 0 for the number n, and
\* a negative number for any other rest.
Names == Letters \X Int
Blank == <<"_", 0>>
Unnamed == <<"", 0>>

\* A *types.Var: no two parameters are equal, even of equal name and type.
Vars == [of : {"recv", "ctor", "func"}, at : Nat, name : Names,
         type : {"plain", "pointer", "interface"}]
NoVar == [of |-> "none", at |-> 0, name |-> Unnamed, type |-> "plain"]

\* What FindFunc and constructorReplace look at in a possible constructor.
Ctors == [id : Nat, length : Nat, exported : BOOLEAN, fuzz : BOOLEAN,
          match : BOOLEAN, results : Nat, fits : BOOLEAN, params : Seq(Vars)]
NoCtor == [id |-> 0, length |-> 0, exported |-> FALSE, fuzz |-> FALSE,
           match |-> FALSE, results |-> 0, fits |-> FALSE, params |-> <<>>]

ASSUME ConstantsAssumption ==
    /\ {"", "_", "x"} \subseteq Letters
    /\ Functions \subseteq [recv : Vars \cup {NoVar}, params : Seq(Vars)]
    /\ \A f \in Functions :
         /\ f.recv # NoVar => f.recv.of = "recv" /\ f.recv.at = 1
         /\ \A i \in 1 .. Len(f.params) : f.params[i].of = "func" /\ f.params[i].at = i
    /\ \A p \in Packages :
         /\ p \subseteq Ctors \ {NoCtor}
         /\ IsFiniteSet(p)
         /\ \A c \in p : \A i \in 1 .. Len(c.params) :
              c.params[i].of = "ctor" /\ c.params[i].at = i
    /\ PkgNames \subseteq Names \ {Unnamed, Blank}

VARIABLES
    func,       \* the function to wrap, fixed
    decls,      \* the possible constructors in its package, fixed
    pkg,        \* the name of its package, fixed
    insert,     \* -ctors, fixed
    pc,
    ctors,      \* possibleConstructors, in order
    k,          \* the one that is tried
    ctor,       \* the one that was found
    all,        \* allParams: the parameters of the wrapper
    offset,     \* collisionOffset
    declared,   \* the names in the wrapper's parameter list
    checked,    \* checked[i]: the name in the nil check for parameter i
    made,       \* the variable that holds what the constructor returns
    ctorArgs,   \* the arguments of the constructor
    object,     \* the receiver in the call under test
    args        \* its arguments

input == <<func, decls, pkg, insert>>
choice == <<ctors, k, ctor, all, offset>>
output == <<declared, checked, made, ctorArgs, object, args>>
vars == <<input, pc, choice, output>>

-----------------------------------------------------------------------------

IsMethod == func.recv # NoVar

\* Fault: only the name of the package counts.
CollidesWithPackage(v) == v.name = pkg

\* Fault: only the other parameters count.
CollidesWithParams(v) == \E i \in 1 .. Len(all) : all[i] # v /\ all[i].name = v.name

Collides(v) ==
    \/ v.name = pkg
    \/ \E i \in 1 .. Len(all) : all[i] # v /\ all[i].name = v.name

\* Fault: a suffix without the index.
AvoidCollisionNoIndex(v, i) ==
    IF v.name = Blank THEN <<"x", 1>>
    ELSE IF Collides(v) THEN <<v.name[1], 1>>
    ELSE v.name

\* i counts from 1, which is the code's i+1.
AvoidCollision(v, i) ==
    IF v.name = Blank THEN <<"x", i>>
    ELSE IF Collides(v) THEN <<v.name[1], i>>
    ELSE v.name

\* emitArgs for the parameters of one signature.
EmitArgs(params, from) ==
    [i \in 1 .. Len(params) |-> AvoidCollision(params[i], i + from)]

\* FindFunc's filter with flagExcludeFuzzPrefix and flagRequireExported.
IsPossible(c) == c.match /\ c.exported /\ ~c.fuzz

\* What constructorReplace requires; it compares the names of the types.
IsSuitable(c) == c.params # <<>> /\ c.results = 1 /\ c.fits

Init ==
    /\ func \in Functions
    /\ decls \in Packages
    /\ pkg \in PkgNames
    /\ insert \in BOOLEAN
    /\ pc = "find"
    /\ ctors = <<>> /\ k = 1 /\ ctor = NoCtor
    /\ all = <<>> /\ offset = 0
    /\ declared = <<>> /\ checked = <<>>
    /\ made = Unnamed /\ ctorArgs = <<>>
    /\ object = Unnamed /\ args = <<>>

Go(label) == pc' = label

\* Fault: the constructors stay in the order in which FindFunc met them.
InAnyOrder(cs) == TRUE

\* sort.Slice is not stable and FindFunc's order is that of a map: names of
\* one length come in any order.
InOrder(cs) == \A i, j \in 1 .. Len(cs) : i < j => cs[i].length <= cs[j].length

FindConstructors ==
    /\ pc = "find"
    /\ LET found == IF insert THEN {c \in decls : IsPossible(c)} ELSE {}
       IN  ctors' \in { cs \in [1 .. Cardinality(found) -> found] :
                          /\ \A c \in found : \E i \in DOMAIN cs : cs[i] = c
                          /\ InOrder(cs) }
    /\ Go("receiver")
    /\ UNCHANGED <<input, k, ctor, all, offset, output>>

\* An interface method, or a receiver without a name: no wrapper.
SkipUnnamedReceiver ==
    /\ pc = "receiver"
    /\ IsMethod /\ func.recv.name = Unnamed
    /\ Go("skipped")
    /\ UNCHANGED <<input, choice, output>>

NoReceiver ==
    /\ pc = "receiver"
    /\ ~IsMethod
    /\ Go("params")
    /\ UNCHANGED <<input, choice, output>>

\* constructorReplace, one candidate a step.
SkipConstructor ==
    /\ pc = "receiver"
    /\ IsMethod /\ func.recv.name # Unnamed
    /\ k <= Len(ctors)
    /\ ~IsSuitable(ctors[k])
    /\ k' = k + 1
    /\ UNCHANGED <<input, pc, ctors, ctor, all, offset, output>>

FoundConstructor ==
    /\ pc = "receiver"
    /\ IsMethod /\ func.recv.name # Unnamed
    /\ k <= Len(ctors)
    /\ IsSuitable(ctors[k])
    /\ ctor' = ctors[k]
    /\ all' = ctors[k].params
    /\ Go("params")
    /\ UNCHANGED <<input, ctors, k, offset, output>>

NoConstructor ==
    /\ pc = "receiver"
    /\ IsMethod /\ func.recv.name # Unnamed
    /\ k > Len(ctors)
    /\ all' = <<func.recv>>
    /\ Go("params")
    /\ UNCHANGED <<input, ctors, k, ctor, offset, output>>

AddParams ==
    /\ pc = "params"
    /\ all' = [i \in 1 .. Len(all) + Len(func.params) |->
                   IF i <= Len(all) THEN all[i] ELSE func.params[i - Len(all)]]
    /\ Go("check")
    /\ UNCHANGED <<input, ctors, k, ctor, offset, output>>

\* disallowedParams, or nothing to fuzz.
IsDisallowed == \E i \in 1 .. Len(all) : all[i].type = "interface"

SkipWrapper ==
    /\ pc = "check"
    /\ IsDisallowed \/ all = <<>>
    /\ Go("skipped")
    /\ UNCHANGED <<input, choice, output>>

\* avoidCollision takes the first rune of a name that is empty.
PanicOnUnnamed ==
    /\ pc = "check"
    /\ ~IsDisallowed
    /\ \E i \in 1 .. Len(all) : all[i].name = Unnamed /\ Collides(all[i])
    /\ Go("panicked")
    /\ UNCHANGED <<input, choice, output>>

EmitSignature ==
    /\ pc = "check"
    /\ ~IsDisallowed /\ all # <<>>
    /\ \A i \in 1 .. Len(all) : all[i].name = Unnamed => ~Collides(all[i])
    /\ declared' = EmitArgs(all, 0)
    /\ Go("nil")
    /\ UNCHANGED <<input, choice, checked, made, ctorArgs, object, args>>

\* emitNilChecks: a check for each pointer, Unnamed where there is none.
EmitNilChecks ==
    /\ pc = "nil"
    /\ checked' = [i \in 1 .. Len(all) |->
                      IF all[i].type = "pointer" THEN AvoidCollision(all[i], i) ELSE Unnamed]
    /\ Go("construct")
    /\ UNCHANGED <<input, choice, declared, made, ctorArgs, object, args>>

\* Fault: the parameters of the constructor are not counted.
EmitConstructorNoOffset ==
    /\ pc = "construct"
    /\ ctor # NoCtor
    /\ made' = AvoidCollision(func.recv, 1)
    /\ ctorArgs' = EmitArgs(ctor.params, 0)
    /\ Go("call")
    /\ UNCHANGED <<input, choice, declared, checked, object, args>>

\* Fault: the receiver is counted as well.
EmitConstructorCountsReceiver ==
    /\ pc = "construct"
    /\ ctor # NoCtor
    /\ made' = AvoidCollision(func.recv, 1)
    /\ ctorArgs' = EmitArgs(ctor.params, 0)
    /\ offset' = Len(ctor.params) + 1
    /\ Go("call")
    /\ UNCHANGED <<input, ctors, k, ctor, all, declared, checked, object, args>>

EmitConstructor ==
    /\ pc = "construct"
    /\ ctor # NoCtor
    /\ made' = AvoidCollision(func.recv, 1)
    /\ ctorArgs' = EmitArgs(ctor.params, 0)
    /\ offset' = Len(ctor.params)
    /\ Go("call")
    /\ UNCHANGED <<input, ctors, k, ctor, all, declared, checked, object, args>>

EmitNoConstructor ==
    /\ pc = "construct"
    /\ ctor = NoCtor
    /\ Go("call")
    /\ UNCHANGED <<input, choice, output>>

\* emitWrappedFunc
EmitCall ==
    /\ pc = "call"
    /\ object' = IF IsMethod THEN AvoidCollision(func.recv, 1) ELSE Unnamed
    /\ args' = EmitArgs(func.params, offset)
    /\ Go("done")
    /\ UNCHANGED <<input, choice, declared, checked, made, ctorArgs>>

Next ==
    \/ FindConstructors
    \/ SkipUnnamedReceiver \/ NoReceiver
    \/ SkipConstructor \/ FoundConstructor \/ NoConstructor
    \/ AddParams \/ SkipWrapper \/ PanicOnUnnamed
    \/ EmitSignature \/ EmitNilChecks
    \/ EmitConstructor \/ EmitNoConstructor \/ EmitCall

Spec == Init /\ [][Next]_vars

-----------------------------------------------------------------------------

\* Types; the parameters counted so far are parameters of the wrapper
\* (collisionOffset, genfuzzfuncs.go:187-210).
TypeOK ==
    /\ func \in [recv : Vars \cup {NoVar}, params : Seq(Vars)]
    /\ decls \subseteq Ctors
    /\ pkg \in Names
    /\ insert \in BOOLEAN
    /\ pc \in {"find", "receiver", "params", "check", "nil", "construct", "call",
               "done", "skipped", "panicked"}
    /\ ctors \in Seq(decls)
    /\ k \in 1 .. Len(ctors) + 1
    /\ ctor \in decls \cup {NoCtor}
    /\ all \in Seq(Vars)
    /\ offset \in 0 .. Len(all)
    /\ declared \in Seq(Names) /\ checked \in Seq(Names)
    /\ ctorArgs \in Seq(Names) /\ args \in Seq(Names)
    /\ made \in Names /\ object \in Names

IsRenamed(v) == v.name = Blank \/ Collides(v)

\* v keeps its name, which has the form that AvoidCollision makes up for w in
\* place n, like s2 or x1.  AvoidCollision does not compare what it makes up
\* with the names there are (genfuzzfuncs.go:264, 277).
KeptMeetsMade(v, w, n) == ~IsRenamed(v) /\ IsRenamed(w) /\ v.name[2] = n

\* Two parameters of the wrapper have one name only if one of them has kept a
\* name that has the form of the made-up name of the other, whatever names the
\* receiver, the constructor and the function share: "returns a non-colliding
\* name" (genfuzzfuncs.go:252-253), but for that case.
DeclaredOnce ==
    \A i, j \in 1 .. Len(declared) :
        i # j /\ declared[i] = declared[j] =>
            KeptMeetsMade(all[i], all[j], j) \/ KeptMeetsMade(all[j], all[i], i)

\* A method whose receiver is itself a parameter of the wrapper.
IsBare == IsMethod /\ ctor = NoCtor

\* Where a parameter of the function under test stands in the wrapper's list.
PlaceOf(j) == Len(all) - Len(func.params) + j

\* The call under test passes the parameters declared for it.
EveryArgumentBound ==
    pc = "done" => \A j \in 1 .. Len(args) : args[j] = declared[PlaceOf(j)]

\* Every name in the body is the one declared for that parameter: in the nil
\* checks, the constructor's call and the call under test (genfuzzfuncs.go:
\* 318-319, "handling renaming arguments").  What is left out are the renamed
\* arguments of a method without a constructor, see EveryArgumentBound.
ArgumentsBound ==
    pc = "done" =>
        /\ Len(declared) = Len(all)
        /\ \A i \in 1 .. Len(all) : all[i].type = "pointer" => checked[i] = declared[i]
        /\ ctor # NoCtor =>
             /\ object = made
             /\ Len(ctorArgs) = Len(ctor.params)
             /\ \A j \in 1 .. Len(ctorArgs) : ctorArgs[j] = declared[j]
        /\ IsBare => object = declared[1]
        /\ Len(args) = Len(func.params)
        /\ \A j \in 1 .. Len(args) :
             (IsBare => ~IsRenamed(func.params[j])) => args[j] = declared[PlaceOf(j)]

\* The variable for what the constructor returns is a new one, so that := can
\* declare it (genfuzzfuncs.go:208), with two exceptions: both it and the
\* constructor's first parameter are renamed, so that both get the suffix 1, or
\* a kept name has the form of a made-up one.
ReceiverIsNew ==
    pc \in {"call", "done"} /\ ctor # NoCtor =>
        \A i \in 1 .. Len(declared) : made = declared[i] =>
            \/ i = 1 /\ IsRenamed(func.recv) /\ IsRenamed(all[1])
            \/ KeptMeetsMade(func.recv, all[i], i) \/ KeptMeetsMade(all[i], func.recv, 1)

\* The package, which qualifies the calls in the wrapper, is shadowed by no name
\* that a parameter or the receiver keeps ("handle corner case of using the
\* package name as a parameter name", genfuzzfuncs.go:256); a name made up in
\* place n can shadow it only if the package's own name ends in n, like v1.
PackageVisible ==
    /\ \A i \in 1 .. Len(declared) :
         declared[i] = pkg => IsRenamed(all[i]) /\ pkg[2] = i
    /\ made = pkg => IsRenamed(func.recv) /\ pkg[2] = 1

\* A method gets the simplest constructor there is, approximated by the length
\* of its name (genfuzzfuncs.go:41-45), and goes without only if there is none.
SimplestConstructor ==
    pc \in {"check", "nil", "construct", "call", "done"} /\ IsMethod /\ insert =>
        \A c \in decls :
            IsPossible(c) /\ IsSuitable(c) => ctor # NoCtor /\ ctor.length <= c.length

=============================================================================
