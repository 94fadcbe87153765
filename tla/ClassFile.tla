----------------------------- MODULE ClassFile -----------------------------
(***************************************************************************)
(* The classes of a repo on their way through a snapshot: every class is   *)
(* written to the class file (knd_class_marshall), the repo is opened with *)
(* the names of the classes only, and tasks load a class when they ask for *)
(* it (knd_class_acquire), with all the classes its record needs.          *)
(*                                                                         *)
(* A class is [tr, bases, attrs, anc, children, hubs, insts, idx]: glosses,*)
(* bases [c, vals] with the ids of the attributes they give values, own    *)
(* attributes, ancestors, children, hubs [tmpl, attr, topics] and number   *)
(* of instances.  idx maps the id of an attribute, own or inherited, to    *)
(* [attr, of, giver]: whose object it is, and the class whose value is in  *)
(* force.  Lists are as they stand in memory.                              *)
(*                                                                         *)
(* Operators whose name ends in _v are wrong variants of the definition    *)
(* that follows them; nothing uses them but the mutation tests.            *)
(***************************************************************************)
EXTENDS Naturals, Sequences, SequencesExt

CONSTANTS
    Stores,      \* what the memory may hold: functions from the ids of classes
    Tasks,
    Root,        \* the root class, which has no id
    None

VARIABLES
    db,          \* the classes before the snapshot
    file,        \* file[c]: the record of c, if it is written
    cls,         \* cls[c]: the class that the entry of c points to, if it does
    stack,       \* stack[t]: classes that t is reading, the innermost last
    asked,       \* asked[t]: class that t has asked for
    said,        \* said[t]: how that ended: "ok", "fail" or "" so far
    opened,      \* the repo was opened from files
    up           \* "runs", "overflow" or "assert": what has stopped the process

fileVars == <<db, file, cls, stack, asked, said, opened, up>>

---------------------------------------------------------------------------
(* What importing, resolving and indexing leave in memory (Schema).        *)

IsSeq(s) == s \in Seq(ToSet(s))

\* Base k of class c has a value of an attribute, given with it or inherited.
Gives(d, c, k, id) == id \in ToSet(d[c].bases[k].vals)
Carries(d, c, k, id) == LET idx == d[d[c].bases[k].c].idx IN id \in DOMAIN idx /\ idx[id].giver # None
Speaks(d, c, k, id) == Gives(d, c, k, id) \/ Carries(d, c, k, id)

BasesResolved(d, c) ==
    /\ IsSeq(d[c].bases)
    /\ \A k \in 1..Len(d[c].bases) :
          LET b == d[c].bases[k]
          IN /\ b = [c |-> b.c, vals |-> b.vals] /\ IsSeq(b.vals)
             /\ b.c \in DOMAIN d /\ ToSet(b.vals) \subseteq DOMAIN d[c].idx

\* An attribute is declared in one class of those a class inherits from.
AttrsResolved(d, c) ==
    /\ IsSeq(d[c].attrs)
    /\ \A k \in 1..Len(d[c].attrs) :
          LET a == d[c].attrs[k]
          IN /\ a.type = "inner" /\ a.linked => a.refc \in DOMAIN d
             /\ d[c].idx[a.id].attr = a
             /\ \A b \in ToSet(d[c].bases) : a.id \notin DOMAIN d[b.c].idx

\* The value in force is that of the last base that has one.
IdxResolved(d, c) ==
    /\ DOMAIN d[c].idx = {a.id : a \in ToSet(d[c].attrs)} \cup UNION {DOMAIN d[b.c].idx : b \in ToSet(d[c].bases)}
    /\ \A b \in ToSet(d[c].bases) : \A id \in DOMAIN d[b.c].idx : d[c].idx[id].attr = d[b.c].idx[id].attr
    /\ \A id \in DOMAIN d[c].idx :
          /\ \A k \in 1..Len(d[c].bases) :
                Speaks(d, c, k, id) /\ (\A j \in (k + 1)..Len(d[c].bases) : ~Speaks(d, c, j, id)) =>
                    d[c].idx[id].giver = IF Gives(d, c, k, id) THEN c ELSE d[d[c].bases[k].c].idx[id].giver
          /\ (\A k \in 1..Len(d[c].bases) : ~Speaks(d, c, k, id)) => d[c].idx[id].giver = None

RefsResolved(d, c) ==
    /\ IsSeq(d[c].tr) /\ IsSeq(d[c].anc) /\ IsSeq(d[c].children) /\ IsSeq(d[c].hubs)
    /\ d[c].anc = <<Root>> \/ ToSet(d[c].anc) \subseteq DOMAIN d
    /\ ToSet(d[c].children) \subseteq DOMAIN d
    /\ \A h \in ToSet(d[c].hubs) : h.tmpl \in DOMAIN d /\ h.attr \in DOMAIN d[h.tmpl].idx

ASSUME StoresAssumption ==
    \A d \in Stores :
        /\ DOMAIN d \subseteq Nat /\ None \notin DOMAIN d
        /\ \A c \in DOMAIN d : /\ BasesResolved(d, c) /\ AttrsResolved(d, c)
                              /\ IdxResolved(d, c) /\ RefsResolved(d, c)

---------------------------------------------------------------------------
(* Writing: knd_class.gsp.c, knd_attr.gsp.c.  A record is a sequence of    *)
(* items <<tag, content>>; a base has its values inside.                   *)

Items(tag, seq) == [k \in 1..Len(seq) |-> <<tag, seq[k]>>]

\* knd_attr_export_GSP: the template by the id of its entry, if that is linked;
\* the marks of a set (quant) are not written.
AttrRecord(a) == [id |-> a.id, type |-> a.type, flags |-> a.flags,
                  refc |-> IF a.linked THEN a.refc ELSE None, proc |-> a.proc, tr |-> a.tr]

\* export_glosses
Glosses(tr) == IF tr = <<>> THEN <<>> ELSE <<tr>>

\* export_ancestors: the root alone is left out.
Ancestors_v(anc) == IF Len(anc) = 1 THEN <<>> ELSE anc
Ancestors(anc) == IF anc = <<Root>> THEN <<>> ELSE anc

\* What there is to write of each kind.
AttrRecords(attrs) == [k \in 1..Len(attrs) |-> AttrRecord(attrs[k])]
NumInsts(n) == IF n = None THEN <<>> ELSE <<n>>

\* knd_class_export_GSP, with export_baseclass_vars, export_inverse_rels
ClassRecord(c) ==
    Items("g", Glosses(c.tr)) \o (Items("is", c.bases) \o (Items("attr", AttrRecords(c.attrs))
    \o (Items("anc", Ancestors(c.anc)) \o (Items("c", c.children) \o (Items("rel", c.hubs)
    \o Items("insts", NumInsts(c.insts)))))))

---------------------------------------------------------------------------
(* Reading: knd_class.read.c, knd_attr.read.c                              *)

NewClass(t) == [by |-> t, tr |-> <<>>, bases |-> <<>>, attrs |-> <<>>, impl |-> None, anc |-> <<>>,
                children |-> <<>>, hubs |-> <<>>, insts |-> None, idx |-> <<>>]

\* knd_attr_read: an inner attribute must have its template; the name of a
\* procedure is taken for an id, so it must not be longer than one.
AttrReadable_v(w) == ~(w.type = "inner" /\ w.refc = None)
AttrReadable(w) == ~(w.type = "inner" /\ w.refc = None) /\ (w.proc # None => ~w.proc.long)
ReadAttr(w) == [id |-> w.id, type |-> w.type, flags |-> w.flags, quant |-> {}, refc |-> w.refc,
                linked |-> w.refc # None, proc |-> w.proc, tr |-> Reverse(w.tr)]

WithGiver(ref, giver) == [attr |-> ref.attr, of |-> ref.of, giver |-> giver]
\* inherit_base_attr: the first base that gives a value is the one that counts.
Inherit(idx, theirs) ==
    [id \in DOMAIN idx \cup DOMAIN theirs |->
        IF id \notin DOMAIN idx THEN theirs[id]
        ELSE IF id \in DOMAIN theirs /\ idx[id].giver = None THEN WithGiver(idx[id], theirs[id].giver)
        ELSE idx[id]]
Given(idx, id, giver) == [idx EXCEPT ![id] = WithGiver(@, giver)]
Declared(idx, a, of) ==
    [id \in {a.id} \cup DOMAIN idx |-> IF id = a.id THEN [attr |-> a, of |-> of, giver |-> None] ELSE idx[id]]

\* read_attr_var: a value goes to the base that is being read.
WithVal(bases, v) ==
    Append(Front(bases), [c |-> Last(bases).c, vals |-> Append(Last(bases).vals, v)])

Frame(t) == Last(stack[t])
Item(t) == Head(Frame(t).todo)

\* The class that must be loaded before the item is read: set_baseclass,
\* build_attr_var, set_rel_attr.
Needed(f, item) ==
    CASE item[1] = "is" -> item[2].c
      [] item[1] = "rel" -> item[2].tmpl
      [] item[1] = "val" /\ item[2] \in DOMAIN f.obj.idx ->
            LET a == f.obj.idx[item[2]].attr IN IF a.type = "inner" THEN a.refc ELSE None
      [] OTHER -> None

\* The item is in order, once what it needs is there.
Readable(f, item) ==
    CASE item[1] = "is" -> item[2].c \in DOMAIN db
      [] item[1] \in {"anc", "c"} -> item[2] \in DOMAIN db
      [] item[1] = "val" -> item[2] \in DOMAIN f.obj.idx
      [] item[1] = "attr" -> AttrReadable(item[2])
      [] item[1] = "rel" -> item[2].attr \in DOMAIN cls[item[2].tmpl].idx
      [] OTHER -> TRUE

\* parse_baseclass_array_item, read_attr_var, read_attr, parse_ancestor_array_item,
\* parse_child_item, parse_rel_item
WithItem(f, item) ==
    LET o == f.obj
        x == item[2]
    IN CASE item[1] = "g" -> [o EXCEPT !.tr = Reverse(x)]
         [] item[1] = "is" -> [o EXCEPT !.bases = Append(@, [c |-> x.c, vals |-> <<>>]),
                                        !.idx = Inherit(@, cls[x.c].idx)]
         [] item[1] = "val" -> [o EXCEPT !.bases = WithVal(@, x), !.idx = Given(@, x, f.id)]
         [] item[1] = "attr" -> [o EXCEPT !.attrs = Append(@, ReadAttr(x)),
                                          !.impl = IF "impl" \in x.flags THEN x.id ELSE @,
                                          !.idx = Declared(@, ReadAttr(x), <<f.id, o.by>>)]
         [] item[1] = "anc" -> [o EXCEPT !.anc = <<x>> \o @]
         [] item[1] = "c" -> [o EXCEPT !.children = <<x>> \o @]
         [] item[1] = "rel" -> [o EXCEPT !.hubs = <<x>> \o @]
         [] item[1] = "insts" -> [o EXCEPT !.insts = x]

\* What is to be read before the next item: the values of a base.
Inside(item) == IF item[1] = "is" THEN Items("val", item[2].vals) ELSE <<>>

---------------------------------------------------------------------------
FileComplete == DOMAIN file = DOMAIN db

\* The entry of c gets its class, or its record.
Filled(f, c, x) == [d \in DOMAIN f \cup {c} |-> IF d = c THEN x ELSE f[d]]

FileInit ==
    /\ db \in Stores
    /\ file = <<>>
    /\ cls = db
    /\ stack = [t \in Tasks |-> <<>>]
    /\ asked = [t \in Tasks |-> None]
    /\ said = [t \in Tasks |-> ""]
    /\ opened = FALSE
    /\ up = "runs"

\* knd_class_marshall for the next class of class_idx; it asserts that the entry
\* has its class.
WriteClass ==
    \E c \in DOMAIN db :
        /\ up = "runs" /\ DOMAIN file = {d \in DOMAIN db : d < c}
        /\ IF c \notin DOMAIN cls THEN up' = "assert" /\ UNCHANGED file
           ELSE file' = Filled(file, c, ClassRecord(cls[c])) /\ UNCHANGED up
        /\ UNCHANGED <<db, cls, stack, asked, said, opened>>

\* The shard starts anew: fetch_class_storage, knd_class_entry_unmarshall.
Reopen ==
    /\ FileComplete /\ ~opened
    /\ opened' = TRUE
    /\ cls' = <<>>
    /\ UNCHANGED <<db, file, stack, asked, said, up>>

\* The second snapshot goes to a file of its own.
SnapshotAgain ==
    /\ opened /\ up = "runs" /\ FileComplete /\ \A t \in Tasks : stack[t] = <<>>
    /\ file' = <<>>
    /\ UNCHANGED <<db, cls, stack, asked, said, opened, up>>

\* knd_class_acquire: the class is there, or it is read (knd_class_unmarshall).
NewFrame(t, c) == [id |-> c, obj |-> NewClass(t), todo |-> file[c]]
Acquire(t, c) ==
    /\ up = "runs" /\ opened /\ FileComplete /\ asked[t] = None
    /\ asked' = [asked EXCEPT ![t] = c]
    /\ IF c \in DOMAIN cls THEN said' = [said EXCEPT ![t] = "ok"] /\ UNCHANGED stack
       ELSE stack' = [stack EXCEPT ![t] = <<NewFrame(t, c)>>] /\ UNCHANGED said
    /\ UNCHANGED <<db, file, cls, opened, up>>

Reading(t) == up = "runs" /\ stack[t] # <<>> /\ Frame(t).todo # <<>>

\* The same within a record.  No mark of a class being read is shared (each
\* reading has an object of its own), so a class that needs itself is read
\* again and again, until the call stack ends.
AcquireNeeded(t) ==
    /\ Reading(t)
    /\ LET n == Needed(Frame(t), Item(t))
       IN /\ n \in DOMAIN db
          /\ n \notin DOMAIN cls
          /\ IF \E k \in 1..Len(stack[t]) : stack[t][k].id = n
             THEN up' = "overflow" /\ UNCHANGED stack
             ELSE stack' = [stack EXCEPT ![t] = Append(@, NewFrame(t, n))] /\ UNCHANGED up
    /\ UNCHANGED <<db, file, cls, asked, said, opened>>

Ready(t) == Reading(t) /\ LET n == Needed(Frame(t), Item(t)) IN n \in DOMAIN db => n \in DOMAIN cls

ReadItem(t) ==
    /\ Ready(t) /\ Readable(Frame(t), Item(t))
    /\ stack' = [stack EXCEPT ![t] = Append(Front(@),
                    [id |-> Frame(t).id, obj |-> WithItem(Frame(t), Item(t)),
                     todo |-> Inside(Item(t)) \o Tail(Frame(t).todo)])]
    /\ UNCHANGED <<db, file, cls, asked, said, opened, up>>

\* An error goes through all the calls.
FailRead(t) ==
    /\ Ready(t) /\ ~Readable(Frame(t), Item(t))
    /\ stack' = [stack EXCEPT ![t] = <<>>]
    /\ said' = [said EXCEPT ![t] = "fail"]
    /\ UNCHANGED <<db, file, cls, asked, opened, up>>

\* The compare-and-swap at the end of knd_class_acquire.  The loser takes the
\* class of the winner.
Kept_v(c, obj) == obj
Kept(c, obj) == IF c \in DOMAIN cls THEN cls[c] ELSE obj
Publish(t) ==
    /\ up = "runs" /\ stack[t] # <<>> /\ Frame(t).todo = <<>>
    /\ cls' = Filled(cls, Frame(t).id, Kept(Frame(t).id, Frame(t).obj))
    /\ stack' = [stack EXCEPT ![t] = Front(@)]
    /\ said' = [said EXCEPT ![t] = IF Len(stack[t]) = 1 THEN "ok" ELSE @]
    /\ UNCHANGED <<db, file, asked, opened, up>>

FileNext ==
    \/ WriteClass \/ Reopen \/ SnapshotAgain
    \/ \E t \in Tasks : \/ \E c \in DOMAIN db : Acquire(t, c)
                        \/ AcquireNeeded(t) \/ ReadItem(t) \/ FailRead(t) \/ Publish(t)
FileSpec == FileInit /\ [][FileNext]_fileVars

---------------------------------------------------------------------------
(* Properties *)

\* What the class that is asked for needs, and all that those need.
Needs(d, c) == {d[c].bases[k].c : k \in 1..Len(d[c].bases)}
               \cup {d[c].hubs[k].tmpl : k \in 1..Len(d[c].hubs)}
               \cup UNION {{d[c].idx[v].attr.refc : v \in {v \in ToSet(d[c].bases[k].vals) :
                                                             d[c].idx[v].attr.type = "inner"}} :
                           k \in 1..Len(d[c].bases)}
Reach(d, S) == {x \in DOMAIN d : \A T \in SUBSET DOMAIN d :
                   S \subseteq T /\ (\A y \in T : Needs(d, y) \subseteq T) => x \in T}

\* A record that can be read: templates are linked, names of procedures short,
\* and values are of attributes that the bases so far have.
Sound(d, c) ==
    /\ \A k \in 1..Len(d[c].attrs) : LET a == d[c].attrs[k]
                                     IN (a.type = "inner" => a.linked) /\ (a.proc # None => ~a.proc.long)
    /\ \A k \in 1..Len(d[c].bases) : \A v \in ToSet(d[c].bases[k].vals) :
          \E i \in 1..k : v \in DOMAIN d[d[c].bases[i].c].idx

\* Loading a class fails only for a record it needs that cannot be read,
\* succeeds only with all it needs, and the process dies only of a class that
\* needs itself: never for the order of the requests or what another task does.
FailsForCause ==
    /\ \A t \in Tasks : said[t] = "fail" => \E c \in Reach(db, {asked[t]}) : ~Sound(db, c)
    /\ \A t \in Tasks : said[t] = "ok" => \A c \in Reach(db, {asked[t]}) : Sound(db, c) /\ c \in DOMAIN cls
    /\ up = "overflow" => \E c \in DOMAIN db : c \in Reach(db, Needs(db, c))

\* A loaded class is the one that was written, its lists turned round where the
\* reader puts each item in front of the last.
SameAttr(a, b) == /\ <<b.id, b.type, b.flags, b.proc>> = <<a.id, a.type, a.flags, a.proc>>
                  /\ b.refc = (IF a.linked THEN a.refc ELSE None)
                  /\ b.tr = Reverse(a.tr)
LoadedAsWritten ==
    opened => \A c \in DOMAIN cls :
        LET o == cls[c]
            w == db[c]
        IN /\ o.tr = Reverse(w.tr) /\ o.bases = w.bases
           /\ o.anc = IF w.anc = <<Root>> THEN <<>> ELSE Reverse(w.anc)
           /\ o.children = Reverse(w.children)
           /\ ToSet(o.hubs) = ToSet(w.hubs)
           /\ o.insts = w.insts
           /\ Len(o.attrs) = Len(w.attrs)
           /\ \A k \in 1..Len(o.attrs) : SameAttr(w.attrs[k], o.attrs[k])

\* Values given along more than one base: resolving takes the last, reading the first.
Contested(d, c, id) ==
    \E j, k \in 1..Len(d[c].bases) : j < k /\ Speaks(d, c, j, id) /\ Speaks(d, c, k, id)
\* A loaded class has the attributes it had, with the same values in force, and
\* each of them is the attribute object of the one published class that declares
\* it, whoever else was loading that class at the time.
InheritedAsResolved ==
    opened => \A c \in DOMAIN cls :
        LET idx == cls[c].idx
        IN /\ DOMAIN idx = DOMAIN db[c].idx
           /\ \A id \in DOMAIN idx :
                 /\ idx[id].of[1] \in DOMAIN cls
                 /\ \E a \in ToSet(db[idx[id].of[1]].attrs) : a.id = id
                 /\ idx[id].of = <<idx[id].of[1], cls[idx[id].of[1]].by>>
                 /\ ~(\E d \in Reach(db, {c}) : Contested(db, d, id)) => idx[id].giver = db[c].idx[id].giver

=============================================================================
