----------------------------- MODULE MCGenFuzz -----------------------------
(* Every way in which up to two parameters, a receiver and the parameters of *)
(* a constructor can share names: s, str, p, s1, s2, _ and none.  The        *)
(* package is p or p1.  What ends in a number can also be made up.           *)
EXTENDS GenFuzz

S == <<"s", 0>>
Str == <<"s", -1>>
P == <<"p", 0>>
S1 == <<"s", 1>>
S2 == <<"s", 2>>
P1 == <<"p", 1>>

Named == {S, Str, P, S1, S2, Blank}

\* What Go allows in one parameter list, with a receiver of name recv.
Legal(names, recv) ==
    \/ \A i \in DOMAIN names : names[i] = Unnamed
    \/ /\ \A i \in DOMAIN names : names[i] # Unnamed /\ (names[i] = recv => recv = Blank)
       /\ \A i, j \in DOMAIN names : i # j => names[i] # names[j] \/ names[i] = Blank

NameLists(n, recv) ==
    { names \in [1 .. n -> Named \cup {Unnamed}] : Legal(names, recv) }

Params(of, names, type) ==
    [i \in DOMAIN names |-> [of |-> of, at |-> i, name |-> names[i], type |-> type]]

Receivers ==
    {NoVar} \cup [of : {"recv"}, at : {1}, name : {S, S2, P, Blank, Unnamed}, type : {"pointer"}]

MCFunctions ==
    UNION { { [recv |-> r, params |-> Params("func", names, type)] :
                names \in UNION {NameLists(n, r.name) : n \in 0 .. 2},
                type \in {"plain", "pointer"} } : r \in Receivers }
    \cup { [recv |-> NoVar, params |-> Params("func", <<S>>, "interface")] }

Ctor(id, length, names) ==
    [id |-> id, length |-> length, exported |-> TRUE, fuzz |-> FALSE, match |-> TRUE,
     results |-> 1, fits |-> TRUE, params |-> Params("ctor", names, "plain")]

NewS(names) == Ctor(1, 4, names)
New == Ctor(2, 3, <<Str>>)

\* Candidates that are refused, each for a reason of its own.
Others ==
    { [Ctor(3, 2, <<S>>) EXCEPT !.exported = FALSE],
      [Ctor(4, 2, <<S>>) EXCEPT !.results = 2],
      [Ctor(5, 3, <<S>>) EXCEPT !.fits = FALSE],
      Ctor(6, 5, <<>>) }

MCPackages ==
    { {NewS(names)} : names \in UNION {NameLists(n, Unnamed) : n \in 0 .. 2} }
    \cup { {NewS(<<P>>), New}, {NewS(<<S>>), New} \cup Others, Others, {} }

MCPkgNames == {P, P1}

=============================================================================
