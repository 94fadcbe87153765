---------------------------- MODULE MCValueFile ----------------------------
(* A class whose attributes have every type, and three templates. *)
EXTENDS ValueFile

A(id, type, set, refc) == [id |-> id, type |-> type, set |-> set, refc |-> refc]
Num == A("n", "num", FALSE, "-")
Str == A("s", "str", FALSE, "-")
Strs == A("ss", "str", TRUE, "-")
Ref == A("r", "ref", FALSE, "C")
Refs == A("rs", "ref", TRUE, "C")
Txt == A("t", "text", FALSE, "-")
Bool == A("b", "bool", FALSE, "-")
Rel == A("l", "rel", FALSE, "-")
Rels == A("ls", "rel", TRUE, "-")
Plain == A("p", "inner", FALSE, "P")     \* P has no implied attribute
Plains == A("ps", "inner", TRUE, "P")
ByRef == A("qs", "inner", TRUE, "Q")     \* Q has an implied reference
ByRef1 == A("q", "inner", FALSE, "Q")
ByStr == A("us", "inner", TRUE, "U")     \* U has an implied string
ByBase == A("ws", "inner", TRUE, "W")    \* W inherits one: it has none when read
MCImplRef == A("ir", "ref", FALSE, "C")
MCImplStr == A("is", "str", FALSE, "-")

Plain0 == {Num, Str, Ref, Txt, Bool, Rel}
Inner0 == {Plain, Plains, ByRef, ByRef1, ByStr, ByBase}
MCAttrs == Plain0 \cup {Strs, Refs, Rels, MCImplRef, MCImplStr} \cup Inner0
MCAttrIdx == [c \in {"O", "P", "Q", "U", "W"} |->
    CASE c = "O" -> Plain0 \cup {Strs, Refs, Rels} \cup Inner0
      [] c = "P" -> {Num, Str, Ref, Txt, Bool, Strs, Plain, Plains, ByRef1}
      [] c = "Q" -> {MCImplRef, Num, Refs, Plain}
      [] c = "U" -> {MCImplStr, Ref}
      [] c = "W" -> {MCImplStr, Num}]
MCImplied == [c \in {"O", "P", "Q", "U", "W"} |->
    CASE c \in {"O", "P"} -> NoAttr [] c = "Q" -> MCImplRef [] OTHER -> MCImplStr]
MCImpliedRead == [MCImplied EXCEPT !["W"] = NoAttr]

\* Values nested to depth 2, lists and inner values of at most two elements.
Word(a) == IF a.type \in {"ref", "rel"} THEN {"C1", "C2"} ELSE {"x", "y"}
Seqs(S) == {<<>>} \cup {<<x>> : x \in S} \cup {<<x, y>> : x \in S, y \in S}
Simple(S) == UNION {{[attr |-> a, val |-> w] : w \in Word(a)} : a \in {a \in S : a.type # "inner" /\ ~a.set}}
Lists(S) == UNION {{[attr |-> a, list |-> l] :
                l \in Seqs({[attr |-> a, val |-> w] : w \in Word(a)})} :
                a \in {a \in S : a.type # "inner" /\ a.set}}
Kids(S) == {k \in Seqs(S) : Len(k) = 2 => k[1].attr # k[2].attr}
ImplVal(a) == IF Implied[a.refc] = NoAttr THEN {Null} ELSE Word(Implied[a.refc])
One(a, S) == {[attr |-> a, val |-> v, kids |-> k] : v \in ImplVal(a), k \in Kids(S)}
Inners(S, deep(_)) ==
    UNION {One(a, deep(a.refc)) : a \in {a \in S : a.type = "inner" /\ ~a.set}}
    \cup UNION {{[attr |-> a, list |-> <<i>>] : i \in One(a, deep(a.refc))} :
                a \in {a \in S : a.type = "inner" /\ a.set}}
Depth0(c) == Simple(MCAttrIdx[c]) \cup {l \in Lists(MCAttrIdx[c]) : Len(l.list) = 1}
Depth1(c) == Depth0(c) \cup
    Inners(MCAttrIdx[c], LAMBDA d : {m \in Depth0(d) : m.attr \in {Num, Ref, MCImplStr, Strs} /\
                                        ("val" \in DOMAIN m => m.val \in {"x", "C1"})})

\* The places of such a value and what is given in each.
RECURSIVE Placed(_, _)
Placed(m, p) ==
    LET inside == IF "list" \in DOMAIN m THEN m.list ELSE IF "kids" \in DOMAIN m THEN m.kids ELSE <<>>
        here == [attr |-> m.attr, list |-> "list" \in DOMAIN m,
                 val |-> IF "val" \in DOMAIN m THEN m.val ELSE Null]
    IN {<<p, here>>} \cup UNION {Placed(inside[k], Append(p, k)) : k \in 1..Len(inside)}
AsPlaces(m) ==
    LET all == Placed(m, <<>>)
    IN [p \in {x[1] : x \in all} |-> (CHOOSE x \in all : x[1] = p)[2]]

MCValues == {AsPlaces(m) : m \in Simple(MCAttrIdx["O"]) \cup Lists(MCAttrIdx["O"])
                                    \cup Inners(MCAttrIdx["O"], Depth1)}
=============================================================================
