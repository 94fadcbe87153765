----------------------------- MODULE ValueFile -----------------------------
(***************************************************************************)
(* Attribute values in a snapshot: what knd_resolve_attr_vars makes of an  *)
(* imported value, what knd_attr_vars_export_GSP writes of that and what   *)
(* knd_read_attr_var makes of the record when its class is loaded.         *)
(*                                                                         *)
(* A value is nested: inner values have values, lists have items.  Each of *)
(* its forms is a function on its places: <<>> is the place of the value   *)
(* itself, Append(p, k) that of the k-th value given in the one at p.  The *)
(* importer and the reader put a value before the ones read so far, so the *)
(* writer meets the last one first and the order given comes back; items   *)
(* of a list keep theirs.                                                  *)
(*                                                                         *)
(* A value has a "code" if it is written as the id of a string in str_idx, *)
(* "cls" if as the id of a class, "raw" if as it stands.                   *)
(* A reader answers "ok", "fail" (an error code), "abort" (an assertion or *)
(* a NULL pointer stops the process) or "garbled" (a code is looked up     *)
(* where the id of a class should be: an error or any class).              *)
(*                                                                         *)
(* Operators whose name ends in _v are wrong variants of the definition    *)
(* that follows them; nothing uses them but the mutation tests.            *)
(***************************************************************************)
EXTENDS Naturals, Sequences

CONSTANTS
    Attrs,       \* attribute declarations: [id, type, set, refc], refc a class
    AttrIdx,     \* AttrIdx[c]: attributes of class c, own and inherited
    Implied,     \* Implied[c]: its implied attribute as it is resolved, or NoAttr
    ImpliedRead, \* ImpliedRead[c]: the one it has after it is read from a file
    Owner,       \* the class whose values are stored
    Values,      \* the values the user may give
    Null, NoAttr

VARIABLES
    src,         \* the value given, or Null
    var,         \* the attribute variable made of it, or Null
    rec,         \* its field in the record of the class, or Null
    got          \* what reading the field gave, or Null

valueVars == <<src, var, rec, got>>

---------------------------------------------------------------------------
(* Places *)

Prefix(p, k) == SubSeq(p, 1, k)
Up(p) == Prefix(p, Len(p) - 1)
\* In every form of a value, `list' says that what is in the one at a place are
\* the items of a list (var->list, an array in a record) and not var->children.
IsItem(t, p) == p # <<>> /\ t[Up(p)].list

\* What may be given: [attr, list, val] at each place, val being the word or the
\* class, for an inner value that of its implied attribute, or Null.
WellGiven(m) ==
    /\ <<>> \in DOMAIN m /\ m[<<>>].attr \in AttrIdx[Owner]
    /\ \A p \in DOMAIN m :
          /\ p \in Seq(Nat \ {0}) /\ \A k \in 0..Len(p) : Prefix(p, k) \in DOMAIN m
          /\ m[p].list \in BOOLEAN /\ (m[p].list => m[p].val = Null)
          /\ IF p = <<>> THEN TRUE
             ELSE IF IsItem(m, p) THEN m[p].attr = m[Up(p)].attr /\ ~m[p].list
             ELSE m[Up(p)].attr.type = "inner" /\ m[p].attr \in AttrIdx[m[Up(p)].attr.refc]

ASSUME ValueFileAssumption ==
    /\ Null \notin Values /\ Null \notin DOMAIN AttrIdx /\ NoAttr \notin Attrs
    /\ Owner \in DOMAIN AttrIdx
    /\ \A c \in DOMAIN AttrIdx :
          /\ AttrIdx[c] \subseteq Attrs
          /\ \A a, b \in AttrIdx[c] : a.id = b.id => a = b
          /\ Implied[c] \in AttrIdx[c] \cup {NoAttr}
          \* inherit_base_attr does not hand it down
          /\ ImpliedRead[c] \in {Implied[c], NoAttr}
    /\ \A a \in Attrs : a.type = "inner" => a.refc \in DOMAIN AttrIdx
    /\ \A m \in Values : WellGiven(m)

Classlike == {"ref", "rel"}

---------------------------------------------------------------------------
(* Importing and resolving (knd_attr_var.import.c, knd_attr_var.resolve.c) *)

\* confirm_attr_var: a record with nothing in it is refused.
Confirmable(m) ==
    \A p \in DOMAIN m :
        \/ m[p].list \/ m[p].val # Null
        \/ m[p].attr.type = "inner" /\ \E q \in DOMAIN m : q # <<>> /\ Up(q) = p

\* resolve_attr_var_list asserts a list and a template class: only these types
\* have one, and strings return before it.
SetTypes == {"inner", "ref", "rel", "str"}
Resolvable(m) ==
    \A p \in DOMAIN m :
        /\ ~IsItem(m, p) => (m[p].attr.set <=> m[p].list)
        /\ m[p].list => /\ m[p].attr.type \in SetTypes
                        /\ \E q \in DOMAIN m : q # <<>> /\ Up(q) = p

\* struct kndAttrVar
Var(a) == [attr |-> a, list |-> FALSE, name |-> Null, val |-> Null, class |-> Null,
           impl |-> NoAttr, text |-> Null]

\* resolve_implied_attr_var: the variable changes its attribute, an implied
\* string becomes the name of the variable.
ResolveImplied(v, a, given, isItem) ==
    LET w == [v EXCEPT !.impl = a, !.attr = a]
    IN CASE a.type = "ref" /\ given # Null -> [w EXCEPT !.val = given, !.class = given]
         [] a.type = "str" -> [w EXCEPT !.val = IF isItem THEN given ELSE v.name]
         [] OTHER -> w

\* resolve_inner_var
ResolveInner(v, c, given, isItem) ==
    IF Implied[c] = NoAttr THEN v ELSE ResolveImplied(v, Implied[c], given, isItem)

\* resolve_attr_var_list, an item: it is named by its value.
ResolveItem(a, given) ==
    LET v == [Var(a) EXCEPT !.name = given, !.val = given]
    IN CASE a.type = "inner" -> ResolveInner(v, a.refc, given, TRUE)
         [] a.type = "ref" -> [v EXCEPT !.class = given]
         [] OTHER -> v

\* knd_resolve_attr_vars, and the children in resolve_inner_var
ResolveVar(a, list, given) ==
    LET v == [Var(a) EXCEPT !.name = a.id, !.list = list]
    IN CASE list -> v
         [] ~list /\ a.type = "inner" -> ResolveInner([v EXCEPT !.val = given], a.refc, given, FALSE)
         [] ~list /\ a.type = "ref" -> [v EXCEPT !.val = given, !.class = given]
         [] ~list /\ a.type = "text" -> [v EXCEPT !.text = given]
         [] OTHER -> [v EXCEPT !.val = given]

Resolve(m) == [p \in DOMAIN m |-> IF IsItem(m, p) THEN ResolveItem(m[p].attr, m[p].val)
                                  ELSE ResolveVar(m[p].attr, m[p].list, m[p].val)]

---------------------------------------------------------------------------
(* Writing (knd_attr_var.gsp.c) *)

\* The number of the string in the snapshot, which stands for it as long as
\* strings keep the numbers they have (Strings).
Code(s) == [enc |-> "code", of |-> s]
Cls(c) == [enc |-> "cls", of |-> c]
Raw(s) == [enc |-> "raw", of |-> s]
NoVal == [enc |-> "none", of |-> Null]
Abort == [enc |-> "abort", of |-> Null]

\* A field of a record: its tag, Null for an item, its value and its text ("_t").
Field(tag, val) == [tag |-> tag, list |-> FALSE, val |-> val, text |-> NoVal]
Array(tag) == [Field(tag, NoVal) EXCEPT !.list = TRUE]
TextField(tag, text) == [Field(tag, NoVal) EXCEPT !.text = IF text = Null THEN Abort ELSE Code(text)]
ClassOut(v) == IF v.class = Null THEN Abort ELSE Cls(v.class)

\* inner_var_export_GSP: the value of the implied attribute.
ImpliedOut(v) ==
    CASE v.impl = NoAttr -> NoVal
      [] v.impl # NoAttr /\ v.impl.type = "ref" -> ClassOut(v)
      [] v.impl # NoAttr /\ v.impl.type = "str" -> Code(v.name)
      [] OTHER -> NoVal

\* attr_var_list_export_GSP, an item of a list of attribute a
ItemOut(a, v) ==
    CASE a.type \in Classlike -> Field(Null, ClassOut(v))
      [] a.type = "text" -> TextField(Null, v.text)
      [] a.type = "inner" -> Field(Null, ImpliedOut(v))
      [] a.type = "str" -> Field(Null, Code(v.name))
      [] OTHER -> Field(Null, Raw(v.name))

\* knd_attr_vars_export_GSP, knd_attr_var_export_GSP, and the children in
\* inner_var_export_GSP
VarOut(v, top) ==
    LET a == v.attr
    IN CASE a.set -> Array(a.id)
         [] ~a.set /\ a.type = "ref" -> Field(a.id, ClassOut(v))
         [] ~a.set /\ a.type = "inner" -> Field(a.id, ImpliedOut(v))
         [] ~a.set /\ a.type = "text" -> TextField(a.id, v.text)
         [] ~a.set /\ ~top /\ a.type = "bool" -> Field(a.id, Raw("t"))
         [] ~a.set /\ top /\ a.type = "proc-ref" -> Field(a.id, NoVal)
         [] OTHER -> Field(a.id, Code(v.val))

\* Whether the writer goes on with what is in the variable at p.
Entered(t, p) ==
    IF IsItem(t, p) THEN t[Up(p)].attr.type = "inner"
    ELSE IF t[p].attr.set THEN t[p].list ELSE t[p].attr.type = "inner" /\ ~t[p].list
Export(t) ==
    [p \in {p \in DOMAIN t : \A k \in 0..(Len(p) - 1) : Entered(t, Prefix(p, k))} |->
        IF IsItem(t, p) THEN ItemOut(t[Up(p)].attr, t[p]) ELSE VarOut(t[p], p = <<>>)]

Aborts(w) == \E p \in DOMAIN w : w[p].val.enc = "abort" \/ w[p].text.enc = "abort"

---------------------------------------------------------------------------
(* Reading (knd_attr_var.read.c) *)

Ok(v) == [st |-> "ok", v |-> v]
Bad(s) == [st |-> s, v |-> Null]

\* A string is decoded if it is one: anything else is no id of str_idx.
Decoded(val, v) == IF val.enc = "code" THEN Ok(v) ELSE Bad("fail")
\* An id is looked up in class_idx.
AsClass(val, v) == IF val.enc = "cls" THEN Ok(v) ELSE Bad("garbled")

\* The class of inner values of an attribute, and the attribute of a class that
\* has an id (knd_set_get).
Template(a) == IF a # NoAttr /\ a.type = "inner" THEN a.refc ELSE Null
Declaration(c, id) ==
    IF c # Null /\ \E a \in AttrIdx[c] : a.id = id THEN CHOOSE a \in AttrIdx[c] : a.id = id
    ELSE NoAttr

\* The attribute of the variable that is made of the field at p, and ctx->class,
\* from those above: the items of a list have no attribute, and those of a nested
\* one no class.
Entry(w, p, above) ==
    LET a == Declaration(IF p = <<>> THEN Owner ELSE above.class, w[p].tag)
    IN IF IsItem(w, p) THEN [attr |-> NoAttr, class |-> IF Len(p) = 1 THEN above.class ELSE Null]
       ELSE [attr |-> a, class |-> Template(a)]
Context(w, p) ==
    LET upto[k \in 0..Len(p)] == Entry(w, Prefix(p, k), IF k = 0 THEN Null ELSE upto[k - 1])
    IN upto[Len(p)]

\* set_attr_var_value puts the value of an implied attribute into a child as well.
ImpliedOf(c) == IF c = Null THEN NoAttr ELSE ImpliedRead[c]
HasImplied(w, p) == /\ ~w[p].list /\ w[p].val.enc # "none"
                    /\ ~IsItem(w, p) /\ ImpliedOf(Context(w, p).class) # NoAttr

\* set_implied_attr_var: the variable, and the child, which comes first (place 0).
\* A string loses its value, other plain values have none.
SetImplied(v, a, val) ==
    CASE a.type = "ref" -> AsClass(val, [v EXCEPT !.class = val.of])
      [] OTHER -> Ok(v)
ImpliedChild(a, val) ==
    LET v == [Var(a) EXCEPT !.impl = a, !.name = a.id]
    IN CASE a.type = "ref" -> [v EXCEPT !.class = val.of]
         [] a.type = "str" -> [v EXCEPT !.val = a.id]
         [] OTHER -> v

\* set_attr_var_value; c is ctx->class.  The code of a string that is not
\* decoded stays as it is: no value that anybody gave.
Stored(val) == IF val.enc = "raw" THEN val.of ELSE Null
DecodedTypes_v == {"num", "float"}
DecodedTypes == {"num", "float", "str"}
SetValue(v, c, val) ==
    LET w == [v EXCEPT !.val = Stored(val)]
    IN CASE v.attr.type \in DecodedTypes -> Decoded(val, [v EXCEPT !.val = val.of])
         [] v.attr.type = "inner" ->
              IF ImpliedOf(c) = NoAttr THEN Ok(w) ELSE SetImplied(w, ImpliedOf(c), val)
         [] v.attr.type \in Classlike -> AsClass(val, [w EXCEPT !.class = val.of])
         [] OTHER -> Ok(w)

\* set_attr_var_name, for an item of a list of attribute a.
SetName(v, a, c, val) ==
    LET w == [v EXCEPT !.impl = ImpliedOf(c)]
        type == IF ImpliedOf(c) # NoAttr THEN ImpliedOf(c).type ELSE a.type
    IN CASE type \in Classlike -> AsClass(val, [w EXCEPT !.class = val.of])
         [] type = "str" -> Decoded(val, [w EXCEPT !.name = val.of])
         [] OTHER -> Ok([w EXCEPT !.name = Stored(val)])

\* read_attr_var_list_item: a text is taken for a field of ctx->class.
ReadListItem(w, p) ==
    LET c == Context(w, p).class
        named == IF w[p].val.enc = "none" THEN Ok(Var(NoAttr))
                 ELSE SetName(Var(NoAttr), Context(w, Up(p)).attr, c, w[p].val)
    IN IF named.st # "ok" \/ w[p].text = NoVal THEN named
       ELSE Bad(IF c = Null THEN "abort" ELSE "fail")

\* knd_read_attr_var, knd_read_attr_var_list, read_nested_attr_var,
\* read_nested_attr_var_list
ReadField(w, p) ==
    LET here == Context(w, p)
        v == [Var(here.attr) EXCEPT !.name = here.attr.id, !.list = w[p].list]
        valued == IF w[p].val.enc = "none" THEN Ok(v) ELSE SetValue(v, here.class, w[p].val)
    IN IF p # <<>> /\ Context(w, Up(p)).class = Null THEN Bad("abort")
       ELSE IF here.attr = NoAttr THEN Bad("fail")
       ELSE IF w[p].list THEN Ok(v)
       ELSE IF valued.st # "ok" \/ w[p].text = NoVal THEN valued
       ELSE Ok([valued.v EXCEPT !.text = w[p].text.of])

ReadAt(w, p) == IF IsItem(w, p) THEN ReadListItem(w, p) ELSE ReadField(w, p)

\* What reading gives: an error is that of a field in which all others were read
\* so far (which one, if there are several, is not told apart).
ReadVar(w) ==
    LET failed == {p \in DOMAIN w : /\ \A k \in 0..(Len(p) - 1) : ReadAt(w, Prefix(p, k)).st = "ok"
                                    /\ ReadAt(w, p).st # "ok"}
        implied == {p \in DOMAIN w : HasImplied(w, p)}
    IN IF failed # {} THEN {Bad(ReadAt(w, p).st) : p \in failed}
       ELSE {Ok([p \in DOMAIN w \cup {Append(q, 0) : q \in implied} |->
                   IF p \in DOMAIN w THEN ReadAt(w, p).v
                   ELSE ImpliedChild(ImpliedOf(Context(w, Up(p)).class), w[Up(p)].val)])}

---------------------------------------------------------------------------
ValueInit == src = Null /\ var = Null /\ rec = Null /\ got = Null

ImportValue(m) == /\ src = Null
                  /\ Confirmable(m) /\ Resolvable(m)
                  /\ src' = m
                  /\ var' = Resolve(m)
                  /\ UNCHANGED <<rec, got>>

ExportValue == /\ var # Null /\ rec = Null
               /\ rec' = Export(var)
               /\ UNCHANGED <<src, var, got>>

ReadValue == /\ rec # Null /\ got = Null
             /\ ~Aborts(rec)
             /\ got' \in ReadVar(rec)
             /\ UNCHANGED <<src, var, rec>>

ValueNext == (\E m \in Values : ImportValue(m)) \/ ExportValue \/ ReadValue
ValueSpec == ValueInit /\ [][ValueNext]_valueVars

---------------------------------------------------------------------------
(* Properties *)

\* What was given, and what the variable that was read back says: which values
\* are where, and the word or class of each.
AsGiven(m) == [p \in DOMAIN m |-> <<m[p].attr.id, m[p].list, m[p].val>>]

ImpliedGot(v) == CASE v.impl = NoAttr -> Null
                   [] v.impl # NoAttr /\ v.impl.type \in Classlike -> v.class
                   [] OTHER -> v.name
AsGot(t) ==
    [p \in DOMAIN t |->
        LET v == t[p]
            a == IF IsItem(t, p) THEN t[Up(p)].attr ELSE v.attr
        IN <<a.id, v.list, CASE v.list -> Null
                             [] ~v.list /\ a.type = "inner" -> ImpliedGot(v)
                             [] ~v.list /\ a.type \in Classlike -> v.class
                             [] ~v.list /\ a.type = "text" -> v.text
                             [] OTHER -> IF IsItem(t, p) THEN v.name ELSE v.val>>]

\* The shapes of a value that a snapshot keeps.  Left out are: a boolean or a
\* date (written as a code or as "t", never decoded), a relation (written as a
\* string or without a class, read as a class), an inner value outside a list
\* with an implied attribute (it is stored under the implied attribute's id),
\* a value for an inner one that has no implied attribute (it is dropped), and
\* a list of inner values inside an inner value (read without its class).
PlainTypes == {"num", "float", "str", "ref", "text"}
KeptAt(m, p) ==
    LET a == m[p].attr
        implied == Implied[a.refc]
    IN IF m[p].list THEN a.type \in {"str", "ref"} \/ (p = <<>> /\ a.type = "inner")
       ELSE IF a.type # "inner" THEN a.type \in PlainTypes
       ELSE IF implied = NoAttr THEN m[p].val = Null
       ELSE /\ IsItem(m, p) /\ m[p].val # Null
            /\ implied.type \in {"str", "ref"} /\ ImpliedRead[a.refc] = implied
KeptShape(m) == \A p \in DOMAIN m : KeptAt(m, p)

\* A value of a kept shape is written without an assertion failing and read
\* back as it was given, through str_idx and class_idx, however deep it is.
ValueRoundTrip ==
    src # Null /\ KeptShape(src) =>
        /\ rec # Null => ~Aborts(rec)
        /\ got # Null => got.st = "ok" /\ AsGot(got.v) = AsGiven(src)
=============================================================================
