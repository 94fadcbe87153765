------------------------------- MODULE Schema -------------------------------
(***************************************************************************)
(* How a repo loads its schema (knd_repo_read_source_files): the classes   *)
(* of the source files are read one by one, then every class of the name   *)
(* index is resolved, then every one is indexed, both times in the order   *)
(* the hash table happens to have.                                         *)
(*                                                                         *)
(* A source class is [name, top, bases, attrs]; a base is [name, vals] and *)
(* a value [attr, items]: one item, or for a set any number.  An item is   *)
(* [cls, kids]: the class it names, or None, and for an inner attribute    *)
(* its nested values [attr, cls].  An attribute is                         *)
(* [name, type, set, idx, impl, ref], ref its template class.              *)
(*                                                                         *)
(* What the C code does to the objects in memory, errors and recursion     *)
(* included, is written as operators from memory to memory: [ok, cls, ids, *)
(* attrs], where ok is FALSE once an error code has been returned.         *)
(* Operators whose name ends in _v are wrong variants of the definition    *)
(* that follows them; nothing uses them but the mutation tests.            *)
(***************************************************************************)
EXTENDS Naturals, Sequences, FiniteSets, SequencesExt, Functions

CONSTANTS
    SourceFiles, \* what the source files may be: sequences of classes
    Root,        \* name of repo->root_class
    None

VARIABLES
    source,      \* the classes in the files
    order,       \* the class names in the order of the hash table
    phase,       \* "read", "resolve", "index" or "loaded"
    pos,         \* how far the phase has come
    mem          \* the classes in memory

schemaVars == <<source, order, phase, pos, mem>>

NoVar == [owner |-> None, items |-> <<>>]

\* struct kndClass; idx maps ids of attributes to [attr, var], impl is one of them or 0.
NewClass(src) ==
    [bases |-> src.bases, attrs |-> src.attrs, top |-> src.top,
     anc |-> <<>>, baseBusy |-> FALSE, baseDone |-> FALSE, busy |-> FALSE, done |-> FALSE,
     impl |-> 0, idx |-> <<>>, id |-> 0,
     children |-> <<>>, numChildren |-> 0, desc |-> {}, terminals |-> 0, hubs |-> <<>>]

RootClass == NewClass([bases |-> <<>>, attrs |-> <<>>, top |-> TRUE])

Bad(m) == [m EXCEPT !.ok = FALSE]
\* Steps of a C function: the first that fails is the last.
Then(m, Op(_)) == IF m.ok THEN Op(m) ELSE m
Steps(m, Op(_, _), seq) == FoldLeft(LAMBDA n, x : IF n.ok THEN Op(n, x) ELSE n, m, seq)
Known(m, name) == name \in DOMAIN m.cls /\ name # Root

---------------------------------------------------------------------------
(* Reading: knd_class_import *)

\* knd_import_attr: an inner attribute has a template.
AttrAccepted(a) == a.type = "inner" => a.ref # None

\* set_class_name: the name of a class is taken once.
NameTaken(m, name) == Known(m, name)

ImportClass(m, src) ==
    IF NameTaken(m, src.name) \/ \E k \in 1..Len(src.attrs) : ~AttrAccepted(src.attrs[k]) THEN Bad(m)
    ELSE [m EXCEPT !.cls = (src.name :> NewClass(src)) @@ @]

---------------------------------------------------------------------------
(* Resolving: knd_class.resolve.c, knd_attr.resolve.c, knd_attr_var.resolve.c *)

\* link_ancestor, after its check for doublets.
LinkAncestor_v(m, c, a) == [m EXCEPT !.cls[c].anc = <<a>> \o @]
LinkAncestor(m, c, a) ==
    IF a \in ToSet(m.cls[c].anc) THEN m ELSE [m EXCEPT !.cls[c].anc = <<a>> \o @]

\* link_baseclass: the ancestors of the base, then the base itself, unchecked.
LinkBaseclass(m, c, b) ==
    Then(Steps(m, LAMBDA n, a : IF m.cls[a].top THEN n ELSE LinkAncestor(n, c, a), m.cls[b].anc),
         LAMBDA n : [n EXCEPT !.cls[c].anc = <<b>> \o @])

RECURSIVE ResolveBases(_, _)
\* resolve_baseclasses, and resolve_base for each base that it has not been done for.
ResolveBases(m, c) ==
    Then(Steps(m, LAMBDA n, base :
                      IF ~Known(n, base.name) \/ base.name = c THEN Bad(n)
                      ELSE Then(IF n.cls[base.name].baseDone THEN n
                                ELSE IF n.cls[base.name].baseBusy THEN Bad(n)
                                ELSE ResolveBases([n EXCEPT !.cls[base.name].baseBusy = TRUE], base.name),
                                LAMBDA r : LinkBaseclass(r, c, base.name)),
               m.cls[c].bases),
         LAMBDA n : [n EXCEPT !.cls[c].baseDone = TRUE])

\* resolve_base
ResolveBase(m, c) ==
    IF m.cls[c].baseDone THEN m
    ELSE IF m.cls[c].baseBusy THEN Bad(m)
    ELSE ResolveBases([m EXCEPT !.cls[c].baseBusy = TRUE], c)

\* knd_resolve_class_ref, knd_is_base: a class by its name, which inherits from
\* base unless base is None or the class itself.
IsBase(m, base, c) == base \in ToSet(m.cls[c].anc)
ResolveClassRef(m, name, base) ==
    IF ~Known(m, name) THEN Bad(m)
    ELSE Then(Steps(m, ResolveBase, IF base = None THEN <<name>> ELSE <<name, base>>),
              LAMBDA n : IF base \in {None, name} \/ IsBase(n, base, name) THEN n ELSE Bad(n))

\* check_attr_name_conflict: at that time attr_idx has only attributes of c.
NameConflict(m, c, a) == \E id \in DOMAIN m.cls[c].idx : m.cls[c].idx[id].attr.name = a.name

\* register_attr: the id is unique in the repo.
RegisterAttr(m, c, a) ==
    [m EXCEPT !.attrs = @ + 1,
              !.cls[c].idx = ((m.attrs + 1) :> [attr |-> a, var |-> NoVar]) @@ @,
              !.cls[c].impl = IF a.impl THEN m.attrs + 1 ELSE @]

\* knd_resolve_primary_attrs
ResolvePrimaryAttrs(m, c) ==
    Steps(m, LAMBDA n, a : IF NameConflict(n, c, a) \/ (a.type = "ref" /\ ~Known(n, a.ref)) THEN Bad(n)
                           ELSE RegisterAttr(n, c, a),
          m.cls[c].attrs)

\* inherit_attr: what the base says of a value overrides what c has so far.
InheritAttr_v(m, c, b, id) ==
    IF id \in DOMAIN m.cls[c].idx THEN m ELSE [m EXCEPT !.cls[c].idx = (id :> m.cls[b].idx[id]) @@ @]
InheritAttr(m, c, b, id) ==
    LET theirs == m.cls[b].idx[id]
    IN IF id \in DOMAIN m.cls[c].idx
       THEN IF theirs.var = NoVar THEN m ELSE [m EXCEPT !.cls[c].idx[id].var = theirs.var]
       ELSE [m EXCEPT !.cls[c].idx = (id :> theirs) @@ @,
                      !.cls[c].impl = IF theirs.attr.impl /\ @ = 0 THEN id ELSE @]

\* knd_class_get_attr: of the attributes with a name the one with the least id.
AttrIds(m, c, name) == {id \in DOMAIN m.cls[c].idx : m.cls[c].idx[id].attr.name = name}
GetAttr(m, c, name) == CHOOSE id \in AttrIds(m, c, name) : \A i \in AttrIds(m, c, name) : id <= i

RECURSIVE ResolveClass(_, _)
ResolvedClass(m, c) == IF m.cls[c].done THEN m ELSE ResolveClass(m, c)

\* resolve_ref: the template is resolved, the class only as far as its bases.
ResolveRef(m, a, cls) == Then(ResolvedClass(m, a.ref), LAMBDA r : ResolveClassRef(r, cls, a.ref))

\* The references an inner value makes: resolve_implied_attr_var for the class it
\* names, then its nested values.
InnerRefs(m, a, item) ==
    LET t == m.cls[a.ref]
        refs == {id \in DOMAIN t.idx : t.idx[id].attr.type = "ref"}
    IN (IF t.impl \in refs /\ item.cls # None THEN <<[id |-> t.impl, cls |-> item.cls]>> ELSE <<>>)
       \o [k \in 1..Len(item.kids) |->
              [cls |-> item.kids[k].cls,
               id |-> IF AttrIds(m, a.ref, item.kids[k].attr) = {} THEN 0
                      ELSE GetAttr(m, a.ref, item.kids[k].attr)]]

\* resolve_ref, resolve_inner_var: the classes that an item names.
ResolveItem(m, a, item) ==
    IF a.type = "ref" THEN ResolveRef(m, a, item.cls)
    ELSE Steps(m, LAMBDA n, r : IF r.id = 0 THEN Bad(n)
                                ELSE IF n.cls[a.ref].idx[r.id].attr.type # "ref" THEN n
                                ELSE ResolveRef(n, n.cls[a.ref].idx[r.id].attr, r.cls),
               InnerRefs(m, a, item))

\* knd_resolve_attr_vars, resolve_attr_var_list: the template of an inner
\* attribute, or of a set, is resolved before the items are.
ResolveItems(m, a, items) ==
    IF a.type = "str" THEN m
    ELSE Then(IF a.type = "inner" \/ a.set THEN ResolveClassRef(m, a.ref, None) ELSE m,
              LAMBDA n : Then(ResolvedClass(n, a.ref),
                              LAMBDA r : Steps(r, LAMBDA k, item : ResolveItem(k, a, item), items)))
ResolveAttrVar(m, c, v) ==
    IF AttrIds(m, c, v.attr) = {} THEN Bad(m)
    ELSE ResolveItems([m EXCEPT !.cls[c].idx[GetAttr(m, c, v.attr)].var = [owner |-> c, items |-> v.items]],
                      m.cls[c].idx[GetAttr(m, c, v.attr)].attr, v.items)

\* inherit_attrs, and the values given along with the base.
TakeBase(m, c, base) ==
    Then(ResolvedClass(m, base.name),
         LAMBDA r : Steps(Steps(r, LAMBDA n, id : InheritAttr(n, c, base.name, id),
                                SetToSortSeq(DOMAIN r.cls[base.name].idx, <)),
                          LAMBDA n, v : ResolveAttrVar(n, c, v), base.vals))

\* knd_class_resolve, from the primary attributes to the id of the class.
ResolveClass(m, c) ==
    IF m.cls[c].busy THEN Bad(m)
    ELSE Then(Then(Then(ResolvePrimaryAttrs([m EXCEPT !.cls[c].busy = TRUE], c),
                        LAMBDA n : IF m.cls[c].bases = <<>> THEN LinkBaseclass(n, c, Root)
                                   ELSE IF n.cls[c].baseDone THEN n ELSE ResolveBases(n, c)),
                   LAMBDA n : Steps(n, LAMBDA k, base : TakeBase(k, c, base), m.cls[c].bases)),
              LAMBDA n : [n EXCEPT !.cls[c].done = TRUE, !.ids = @ + 1, !.cls[c].id = n.ids + 1])

---------------------------------------------------------------------------
(* Indexing: knd_class.index.c, knd_attr_var.index.c *)

\* index_ancestor: a class is a descendant of an ancestor once.
IndexAncestor_v(m, c, a) ==
    IF c \in m.cls[a].desc THEN Bad(m) ELSE [m EXCEPT !.cls[a].terminals = @ + 1, !.cls[a].desc = @ \cup {c}]
IndexAncestor(m, c, a) ==
    IF c \in m.cls[a].desc THEN m
    ELSE [m EXCEPT !.cls[a].terminals = @ + 1, !.cls[a].desc = @ \cup {c}]

\* set_child_ref, and the second count of a bulk load.
SetChildRef(m, c, b) == [m EXCEPT !.cls[b].children = <<c>> \o @, !.cls[b].numChildren = @ + 2]

\* index_baseclass: the ancestors of the base, then the base, where the class
\* must not be registered yet.
IndexBaseclass_v(m, c, b) ==
    LET up == Steps(SetChildRef(m, c, b), LAMBDA n, a : IndexAncestor(n, c, a), m.cls[b].anc)
    IN IF c \in up.cls[b].desc THEN Bad(up)
       ELSE [up EXCEPT !.cls[b].terminals = @ + 1, !.cls[b].desc = @ \cup {c}]
IndexBaseclass(m, c, b) ==
    LET up == Steps(SetChildRef(m, c, b),
                    LAMBDA n, a : IF n.cls[a].top THEN n ELSE IndexAncestor(n, c, a), m.cls[b].anc)
    IN IF c \in up.cls[b].desc THEN Bad(up)
       ELSE [up EXCEPT !.cls[b].terminals = @ + 1, !.cls[b].desc = @ \cup {c}]

\* attr_hub_fetch, attr_hub_add_classref: topic c in the hub of attribute id.
HubAdd_v(m, spec, id, c) == [m EXCEPT !.cls[spec].hubs = (id :> {c}) @@ @]
HubAdd(m, spec, id, c) ==
    LET hubs == m.cls[spec].hubs
    IN [m EXCEPT !.cls[spec].hubs =
            (id :> ({c} \cup IF id \in DOMAIN hubs THEN hubs[id] ELSE {})) @@ hubs]

\* index_inner_attr_var: nested references are filed under the outer attribute.
IndexInner(m, c, id, item) ==
    LET t == m.cls[m.cls[c].idx[id].attr.ref]
        refs(k) == t.idx[GetAttr(m, m.cls[c].idx[id].attr.ref, k.attr)].attr
        named == t.impl # 0 /\ t.idx[t.impl].attr.type = "ref" /\ item.cls # None
    IN Steps(IF named THEN HubAdd(m, item.cls, id, c) ELSE m,
             LAMBDA n, k : IF refs(k).idx /\ refs(k).type = "ref" THEN HubAdd(n, k.cls, id, c) ELSE n,
             item.kids)

\* index_attr, knd_index_attr_var, knd_index_attr_var_list: only a value that
\* the class itself has given.
IndexAttr(m, c, id) ==
    LET a == m.cls[c].idx[id].attr
        var == m.cls[c].idx[id].var
    IN IF var = NoVar \/ var.owner # c \/ ~a.idx THEN m
       ELSE CASE a.type = "ref" -> Steps(m, LAMBDA n, item : HubAdd(n, item.cls, id, c), var.items)
              [] a.type = "inner" /\ ~a.set -> IndexInner(m, c, id, var.items[1])
              [] OTHER -> m

\* knd_class_index
IndexClass(m, c) ==
    LET bases == IF m.cls[c].bases = <<>> THEN <<[name |-> Root]>> ELSE m.cls[c].bases
        placed == Steps(m, LAMBDA n, base : IndexBaseclass(n, c, base.name), bases)
    IN Steps(placed, LAMBDA n, id : IndexAttr(n, c, id), SetToSortSeq(DOMAIN m.cls[c].idx, <))

---------------------------------------------------------------------------
(* The load *)

Names(src) == {src[k].name : k \in 1..Len(src)}

SchemaInit ==
    /\ source \in SourceFiles
    /\ order \in {s \in [1..Cardinality(Names(source)) -> Names(source)] : IsInjective(s)}
    /\ phase = "read"
    /\ pos = 0
    /\ mem = [ok |-> TRUE, cls |-> (Root :> RootClass), ids |-> 0, attrs |-> 0]

Go(next, len, m) ==
    /\ mem' = m
    /\ IF pos + 1 = len THEN phase' = next /\ pos' = 0
       ELSE phase' = phase /\ pos' = pos + 1
    /\ UNCHANGED <<source, order>>

\* read_GSL_file, parse_GSL: one class after the other.
ReadClass == /\ phase = "read" /\ mem.ok
             /\ Go("resolve", Len(source), ImportClass(mem, source[pos + 1]))

\* resolve_classes
ResolveNext == /\ phase = "resolve" /\ mem.ok
               /\ Go("index", Len(order), ResolvedClass(mem, order[pos + 1]))

\* index_classes
IndexNext == /\ phase = "index" /\ mem.ok
             /\ Go("loaded", Len(order), IndexClass(mem, order[pos + 1]))

SchemaNext == ReadClass \/ ResolveNext \/ IndexNext
SchemaSpec == SchemaInit /\ [][SchemaNext]_schemaVars
---------------------------------------------------------------------------
(* What the files say, independent of any order.  The names of attributes  *)
(* are taken to be unique in the files, and a class to have at most one    *)
(* implied attribute.                                                      *)

Src(c) == source[CHOOSE k \in 1..Len(source) : source[k].name = c]
Bases(c) == Src(c).bases
BaseSet(c) == {Bases(c)[k].name : k \in 1..Len(Bases(c))}
Classes == Names(source)
\* No set of classes from each of which a pair leads into the set.
Acyclic(pairs) ==
    \E P \in {pairs} : \A S \in SUBSET Classes \ {{}} : \E c \in S : \A d \in S : <<c, d>> \notin P

\* Ancestors: of those with _state_top, and of the root, only parents.
RECURSIVE Above(_)
Above(c) == IF Bases(c) = <<>> THEN {Root}
            ELSE BaseSet(c) \cup UNION {{a \in Above(b) : a # Root /\ ~Src(a).top} : b \in BaseSet(c)}

Own(c) == ToSet(Src(c).attrs)
RECURSIVE AllAttrs(_)
AllAttrs(c) == Own(c) \cup UNION {AllAttrs(b) : b \in BaseSet(c)}
AttrOf(c, name) == CHOOSE a \in AllAttrs(c) : a.name = name

\* Who has given the value of an attribute of c that is in force: the last base
\* that has one, or c itself if it has spoken after that.
RECURSIVE Giver(_, _)
Giver(c, name) ==
    FoldLeft(LAMBDA g, base : IF \E k \in 1..Len(base.vals) : base.vals[k].attr = name THEN c
                              ELSE LET theirs == Giver(base.name, name) IN IF theirs = None THEN g ELSE theirs,
             None, Bases(c))

\* All values c gives, with the attributes it has when it does.
ValsOf(c) == UNION {{[v |-> v, attrs |-> Own(c) \cup UNION {AllAttrs(Bases(c)[i].name) : i \in 1..k}] :
                        v \in ToSet(Bases(c)[k].vals)} : k \in 1..Len(Bases(c))}
ImpliedAttrs(t) == {a \in AllAttrs(t) : a.impl}
Fits(cls, a) == cls \in Classes /\ a.ref \in {cls} \cup Above(cls)

\* References made by an item: pairs of an attribute and a class.
ItemRefs(a, item) ==
    IF a.type = "ref" THEN {<<a, item.cls>>}
    ELSE {<<i, item.cls>> : i \in {i \in ImpliedAttrs(a.ref) : i.type = "ref" /\ item.cls # None}}
         \cup {<<AttrOf(a.ref, k.attr), k.cls>> :
                  k \in {k \in ToSet(item.kids) : AttrOf(a.ref, k.attr).type = "ref"}}
SoundItem(a, item) ==
    /\ a.type = "inner" => \A k \in ToSet(item.kids) : \E b \in AllAttrs(a.ref) : b.name = k.attr
    /\ \A r \in ItemRefs(a, item) : Fits(r[2], r[1])
SoundValue(v, attrs) ==
    \E a \in attrs : /\ a.name = v.attr
                     /\ a.type = "inner" => a.ref \in Classes
                     /\ a.type # "str" => \A item \in ToSet(v.items) : SoundItem(a, item)

\* What must be resolved before c is: its bases, and the templates of the
\* attributes it gives values.
Needs(c) == BaseSet(c) \cup UNION {LET a == AttrOf(c, x.v.attr)
                                  IN IF a.type = "str" THEN {}
                                     ELSE {a.ref} \cup UNION {{r[1].ref : r \in ItemRefs(a, i)} : i \in ToSet(x.v.items)} :
                                  x \in ValsOf(c)}

\* A base that an earlier base already inherits from, or is.
Redundant(c) == \E i, j \in 1..Len(Bases(c)) : i < j /\ Bases(c)[j].name \in
                   {Bases(c)[i].name} \cup {a \in Above(Bases(c)[i].name) : a # Root /\ ~Src(a).top}

Loadable ==
    /\ Cardinality(Classes) = Len(source)
    /\ \A c \in Classes : BaseSet(c) \subseteq Classes
    /\ Acyclic(UNION {{<<c, b>> : b \in BaseSet(c)} : c \in Classes})
    /\ \A c \in Classes :
          /\ Cardinality({a.name : a \in Own(c)}) = Len(Src(c).attrs)
          /\ \A a \in Own(c) : /\ a.type = "ref" => a.ref \in Classes
                               /\ a.type = "inner" => a.ref # None
          /\ \A x \in ValsOf(c) : SoundValue(x.v, x.attrs)
          /\ ~Redundant(c)
    /\ Acyclic(UNION {{<<c, d>> : d \in Needs(c)} : c \in Classes})

---------------------------------------------------------------------------
(* Properties *)

\* Whether a schema loads is a matter of the schema alone: never of the order
\* in which the hash table has the classes, and so of the size of the table.
\* (The circle that is refused may be one of values: two classes that refer to
\* each other by attributes whose templates they are.)
LoadFollowsSchema ==
    /\ phase = "loaded" /\ mem.ok => Loadable
    /\ ~mem.ok => ~Loadable

\* The ancestors of a resolved class, and each of them once, though the bases
\* may be resolved long before the class or on its behalf.
AncestorsExact ==
    \A c \in DOMAIN mem.cls \ {Root} : mem.ok /\ mem.cls[c].done =>
        /\ ToSet(mem.cls[c].anc) = Above(c)
        /\ ~Redundant(c) => IsInjective(mem.cls[c].anc)

\* Descendants are ancestors seen from the other end, for the root too, and a
\* class is listed once as a child of each of its bases.
DescendantsExact ==
    phase = "loaded" /\ mem.ok => \A a \in Classes \cup {Root} :
        /\ mem.cls[a].desc = {c \in Classes : a \in Above(c)}
        /\ mem.cls[a].terminals = Cardinality(mem.cls[a].desc)
        /\ IsInjective(mem.cls[a].children)
        /\ ToSet(mem.cls[a].children) =
               {c \in Classes : a \in BaseSet(c) \/ (a = Root /\ Bases(c) = <<>>)}

\* A resolved class has every attribute of the classes above it under its id,
\* with the value the last of its bases, or the class itself, has given it.
AttrsExact ==
    \A c \in DOMAIN mem.cls \ {Root} : mem.ok /\ mem.cls[c].done =>
        LET idx == mem.cls[c].idx
        IN /\ {idx[id].attr : id \in DOMAIN idx} = AllAttrs(c)
           /\ Cardinality(DOMAIN idx) = Cardinality(AllAttrs(c))
           /\ \A id \in DOMAIN idx : idx[id].var.owner = Giver(c, idx[id].attr.name)
           /\ \A b \in BaseSet(c) : /\ mem.cls[b].id < mem.cls[c].id
                                    /\ DOMAIN mem.cls[b].idx \subseteq DOMAIN idx

\* The inverse index: the hub of an indexed attribute at a class has exactly the
\* classes whose value of that attribute, in force and their own, names it.
Indexed(c) ==
    UNION {LET a == AttrOf(c, x.v.attr)
           IN IF ~a.idx \/ Giver(c, a.name) # c \/ a.type = "str" \/ (a.type = "inner" /\ a.set) THEN {}
              ELSE UNION {{<<r[2], a, c>> : r \in {r \in ItemRefs(a, i) : a.type = "ref" \/ r[1].idx \/ r[1].impl}} :
                          i \in ToSet(x.v.items)} :
           x \in ValsOf(c)}
HubsExact ==
    phase = "loaded" /\ mem.ok =>
        UNION {UNION {{<<s, mem.cls[c].idx[id].attr, c>> :
                          c \in (IF id \in DOMAIN mem.cls[s].hubs THEN mem.cls[s].hubs[id] ELSE {})} :
                      id \in 1..mem.attrs} : s \in Classes}
        = UNION {Indexed(c) : c \in Classes}
=============================================================================
