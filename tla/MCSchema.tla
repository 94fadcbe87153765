------------------------------ MODULE MCSchema ------------------------------
(* Source files of three to five classes, sound and unsound. *)
EXTENDS Naturals, Sequences, FiniteSets, SequencesExt, Functions

\* no class is named
NoClass == "-"

C(name, bases, attrs) == [name |-> name, top |-> FALSE, bases |-> bases, attrs |-> attrs]
Top(name, attrs) == [name |-> name, top |-> TRUE, bases |-> <<>>, attrs |-> attrs]
Is(name) == [name |-> name, vals |-> <<>>]
With(name, vals) == [name |-> name, vals |-> vals]
It(cls) == [cls |-> cls, kids |-> <<>>]
Val(attr, cls) == [attr |-> attr, items |-> <<It(cls)>>]
Att(name, type, ref) == [name |-> name, type |-> type, set |-> FALSE, idx |-> TRUE, impl |-> FALSE, ref |-> ref]

\* Every hierarchy of the classes A, B, C, D with at most two bases each, in
\* either order, the unsound ones (circles, redundant bases) included.
Small == {<<>>} \cup {<<x>> : x \in {"A", "B", "C"}} \cup {<<x, y>> : x \in {"A", "B", "C"}, y \in {"A", "B", "C"}}
Hierarchies ==
    {<<C("A", [k \in 1..Len(a) |-> Is(a[k])], <<>>), C("B", [k \in 1..Len(b) |-> Is(b[k])], <<>>),
       C("C", [k \in 1..Len(c) |-> Is(c[k])], <<>>)>> : a \in {<<>>, <<"B">>}, b \in Small, c \in Small}
    \cup
    {<<a, C("B", <<Is("A")>>, <<>>), C("C", <<Is("A")>>, <<>>),
       C("D", [k \in 1..Len(d) |-> Is(d[k])], <<>>)>> :
         a \in {C("A", <<>>, <<>>), Top("A", <<>>)}, d \in Small}

\* Values: A has an indexed reference r, a set of them rs and a string s.
R == Att("r", "ref", "A")
Rs == [Att("rs", "ref", "A") EXCEPT !.set = TRUE]
S == [Att("s", "str", NoClass) EXCEPT !.idx = FALSE]
BVals == {<<>>, <<Val("r", "A")>>, <<Val("r", "C")>>, <<Val("s", NoClass)>>,
          <<[attr |-> "rs", items |-> <<It("A"), It("C")>>]>>}
CVals == {<<>>, <<Val("r", "B")>>, <<Val("r", "A")>>, <<Val("r", "E")>>, <<Val("q", "A")>>}
DBases == {<<>>, <<With("B", <<Val("r", "C")>>), Is("C")>>, <<Is("B"), With("C", <<Val("r", "B")>>)>>,
           <<Is("C"), Is("B")>>}
Valued == {<<C("A", <<>>, <<R, Rs, S>>), C("B", <<With("A", b)>>, <<>>),
             C("C", <<With("A", c)>>, <<Att("q", "ref", t)>>), C("D", d, <<>>)>> :
             b \in BVals, c \in CVals, d \in DBases, t \in {"A", "B", "E"}}

\* Inner values: T is a template with an implied reference and a plain one.
Ir == [Att("i", "ref", "A") EXCEPT !.impl = TRUE]
P == Att("p", "ref", "A")
Kid(x) == [attr |-> x, cls |-> "B"]
Inner(cls, kids) == <<[cls |-> cls, kids |-> kids]>>
DVals == {<<>>} \cup {<<[attr |-> "n", items |-> Inner(c, k)]>> :
                         c \in {NoClass, "A", "B"}, k \in {<<>>, <<Kid("p")>>, <<Kid("none")>>}}
             \cup {<<[attr |-> "ns", items |-> Inner("A", <<>>) \o Inner("B", <<Kid("p")>>)]>>}
Nested == {<<C("A", <<>>, <<>>), C("B", <<Is("A")>>, <<>>), C("T", <<>>, <<Ir, p>>),
             C("D", <<With("E", d)>>, <<>>), C("E", <<>>, <<n, [Att("ns", "inner", "T") EXCEPT !.set = TRUE]>>)>> :
             d \in DVals, p \in {P, [P EXCEPT !.idx = FALSE]},
             n \in {Att("n", "inner", "T"), Att("n", "inner", "E"), Att("n", "inner", NoClass)}}

\* A name given twice, an attribute given twice.
Doubled == {<<C("A", <<>>, <<R>>), C("A", <<>>, <<>>)>>, <<C("A", <<>>, <<R, R>>), C("B", <<Is("A")>>, <<>>)>>,
            <<C("A", <<With("A", <<>>)>>, <<>>)>>, <<C("A", <<Is("B")>>, <<>>)>>}
MCSourceFiles == Hierarchies \cup Valued \cup Nested \cup Doubled
=============================================================================
