---------------------------- MODULE MCClassFile ----------------------------
(* Stores are what Schema makes of source files, in any order of the names. *)
EXTENDS ClassFile, MCSchema, TLC

I == [Att("i", "ref", "B") EXCEPT !.impl = TRUE]
N == Att("n", "inner", "T")
\* A reference with a hub; one to its own template; a value of an own attribute;
\* an inner value; an inner attribute nobody uses; values of two bases.
Sources ==
    {<<C("A", <<>>, <<>>), C("B", <<Is("A")>>, <<R>>), C("C", <<With("B", <<Val("r", "D")>>)>>, <<>>), C("D", <<Is("A")>>, <<>>)>>,
     <<C("A", <<>>, <<R>>), C("B", <<With("A", <<Val("r", "C")>>)>>, <<>>), C("C", <<Is("A")>>, <<>>)>>,
     <<C("A", <<>>, <<R>>), C("B", <<With("A", <<Val("r", "A")>>)>>, <<>>)>>,
     <<C("A", <<>>, <<>>), C("B", <<With("A", <<Val("r", "A")>>)>>, <<R>>)>>,
     <<C("B", <<>>, <<>>), C("T", <<>>, <<I>>), C("E", <<>>, <<N>>), C("F", <<With("E", <<Val("n", "B")>>)>>, <<>>)>>,
     <<C("B", <<>>, <<>>), C("T", <<>>, <<I>>), C("E", <<>>, <<N>>), C("F", <<Is("E")>>, <<>>)>>,
     <<C("A", <<>>, <<R>>), C("B", <<With("A", <<Val("r", "B")>>)>>, <<>>), C("C", <<Is("A")>>, <<>>), C("D", <<Is("B"), Is("C")>>, <<>>)>>,
     <<C("A", <<>>, <<R>>), C("B", <<With("A", <<Val("r", "D")>>)>>, <<>>), C("C", <<With("A", <<Val("r", "D")>>)>>, <<>>),
       C("D", <<Is("A")>>, <<>>), C("F", <<Is("B"), Is("C")>>, <<>>)>>}

L == INSTANCE Schema WITH SourceFiles <- Sources, Root <- "/", None <- NoClass, 
                          source <- <<>>, order <- <<>>, phase <- "loaded", pos <- 0, mem <- <<>>
Empty == [ok |-> TRUE, cls |-> ("/" :> L!RootClass), ids |-> 0, attrs |-> 0]
Memory(src, order) ==
    L!Steps(L!Steps(L!Steps(Empty, L!ImportClass, src), L!ResolvedClass, order), L!IndexClass, order)
Orders(src) == {o \in [1..Len(src) -> L!Names(src)] : IsInjective(o)}

AttrName(src, m, id) == CHOOSE n \in {"r", "n", "i"} :
    \E c \in L!Names(src) : id \in DOMAIN m.cls[c].idx /\ m.cls[c].idx[id].attr.name = n
Declarer(src, attr) == (CHOOSE c \in ToSet(src) : \E a \in ToSet(c.attrs) : a.name = attr).name

\* What ClassFile tells apart of it, with glosses, marks of sets, procedures and
\* numbers of instances for some.
Store(src, m, odd) ==
    LET id(c) == IF c = "/" THEN Root ELSE IF c \in L!Names(src) THEN m.cls[c].id ELSE None
        used(a) == \E k \in 1..Len(src) : \E b \in ToSet(src[k].bases) : \E v \in ToSet(b.vals) : v.attr = a.name
        attr(a) == [id |-> a.name, type |-> a.type, quant |-> IF odd = "quant" THEN {"uniq"} ELSE {},
                    flags |-> {f \in {"idx", "impl"} : a[f]}, refc |-> id(a.ref), linked |-> a.type = "ref" \/ used(a),
                    proc |-> IF odd = "proc" /\ a.name = "r" THEN [long |-> TRUE] ELSE None,
                    tr |-> IF odd = "quant" THEN <<"en", "ru">> ELSE <<>>]
        class(c) ==
            [by |-> None, tr |-> IF odd = "quant" THEN <<"ru", "en">> ELSE <<>>,
             bases |-> [k \in 1..Len(c.bases) |-> [c |-> id(c.bases[k].name),
                            vals |-> [i \in 1..Len(c.bases[k].vals) |-> c.bases[k].vals[i].attr]]],
             attrs |-> [k \in 1..Len(c.attrs) |-> attr(c.attrs[k])],
             impl |-> None, anc |-> [k \in 1..Len(c.anc) |-> id(c.anc[k])],
             children |-> [k \in 1..Len(c.children) |-> id(c.children[k])],
             hubs |-> SetToSeq({[tmpl |-> id(Declarer(src, AttrName(src, m, h))), attr |-> AttrName(src, m, h),
                                 topics |-> {id(t) : t \in c.hubs[h]}] : h \in DOMAIN c.hubs}),
             insts |-> IF odd = "quant" THEN 2 ELSE None,
             idx |-> [n \in {c.idx[i].attr.name : i \in DOMAIN c.idx} |->
                        LET i == CHOOSE i \in DOMAIN c.idx : c.idx[i].attr.name = n
                        IN [attr |-> attr(c.idx[i].attr), of |-> None,
                            giver |-> IF c.idx[i].var = L!NoVar THEN None ELSE id(c.idx[i].var.owner)]]]
    IN [i \in 1..m.ids |-> class(m.cls[CHOOSE d \in L!Names(src) : m.cls[d].id = i])]
MCStores ==
    UNION {{Store(src, Memory(src, o), odd) : o \in {o \in Orders(src) : Memory(src, o).ok}, odd \in {"quant"} \cup IF Len(src) = 3 THEN {"proc"} ELSE {}} :
           src \in Sources}
=============================================================================
