------------------------------ MODULE Grammar ------------------------------
(***************************************************************************)
(* The grammar of clauses in a text: what the importer makes of one        *)
(* (knd_text.import.c), whether the reader of a snapshot takes it          *)
(* (knd_text.read.c), and what of it is shown (knd_text.json.c).           *)
(*                                                                         *)
(* A clause is given as a tree of nodes [k, name, kids]: the tag, the      *)
(* implied value and the nested records in their order.  A synode is       *)
(* [name, term, topic, spec], a clause [name, subj, pred]; a part that may *)
(* be missing is a sequence with at most one element.                      *)
(* Operators whose name ends in _v are wrong variants of the definition    *)
(* that follows them; nothing uses them but the mutation tests.            *)
(***************************************************************************)
EXTENDS Naturals, Sequences, SequencesExt

Tagged(kids, tags) == SelectSeq(kids, LAMBDA n : n.k \in tags)
LastOnly(s) == IF s = <<>> THEN <<>> ELSE <<Last(s)>>
MapSeq(s, Op(_)) == [i \in 1..Len(s) |-> Op(s[i])]

---------------------------------------------------------------------------
(* Import *)

\* parse_term_synode
TermOf(n) == [name |-> n.name, term |-> TRUE, topic |-> <<>>, spec |-> <<>>]

\* parse_synode: of several topics, and of several specifiers, the last stays.
RECURSIVE SynodeOf(_)
\* parse_synode_spec
SpecOf(n) == [name |-> n.name, synode |-> MapSeq(LastOnly(Tagged(n.kids, {"syn"})), SynodeOf)]
TopicOf(n) == IF n.k = "term" THEN TermOf(n) ELSE SynodeOf(n)
SynodeOf(n) == [name |-> n.name, term |-> FALSE,
                topic |-> MapSeq(LastOnly(Tagged(n.kids, {"syn", "term"})), TopicOf),
                spec |-> MapSeq(LastOnly(Tagged(n.kids, {"spec"})), SpecOf)]

\* parse_clause, parse_subj, parse_pred: a nested clause is parsed, dropped, and
\* leaves ctx->clause NULL; a subject or a predicate after it writes through it.
RECURSIVE ClauseCrashes(_)
ClauseCrashes_v(n) == Tagged(n.kids, {"clause"}) # <<>>
ClauseCrashes(n) ==
    \E i \in 1..Len(n.kids) :
        /\ n.kids[i].k = "clause"
        /\ ClauseCrashes(n.kids[i]) \/ \E j \in (i + 1)..Len(n.kids) : n.kids[j].k \in {"syn", "pred"}
ClauseOf(n) == [name |-> n.name,
                subj |-> MapSeq(LastOnly(Tagged(n.kids, {"syn"})), SynodeOf),
                pred |-> MapSeq(LastOnly(Tagged(n.kids, {"pred"})), SynodeOf)]

---------------------------------------------------------------------------
(* Reading: what is made of a record is the same, but it is refused at the *)
(* first tag that the reader of the node does not have.                    *)

KidsOf(n) == ToSet(n.kids)
RECURSIVE ReadsSynode(_)
ReadsTerm(n) == n.kids = <<>>
ReadsSpec(n) == \A c \in KidsOf(n) : c.k = "syn" /\ ReadsSynode(c)
ReadsSynode(n) ==
    \A c \in KidsOf(n) : \/ c.k = "syn" /\ ReadsSynode(c)
                         \/ c.k = "term" /\ ReadsTerm(c)
                         \/ c.k = "spec" /\ ReadsSpec(c)
ReadsSubj(n) == n.k = "syn" /\ ReadsSynode(n)
ReadsPred(n) == n.k = "pred" /\ \A c \in KidsOf(n) : c.k = "syn" /\ ReadsSynode(c)
RECURSIVE ReadsClause(_)
ReadsClause(n) == n.k = "clause" /\
    \A c \in KidsOf(n) : ReadsClause(c) \/ ReadsSubj(c) \/ ReadsPred(c)

---------------------------------------------------------------------------
(* The reply *)

\* synode_export_JSON: the predicate of a clause is not shown; a terminal stops.
RECURSIVE SynodeView(_)
SpecView(p) == <<p.name, MapSeq(p.synode, SynodeView)>>
SynodeView(s) == IF s.term THEN <<s.name>>
                 ELSE <<s.name, MapSeq(s.topic, SynodeView), MapSeq(s.spec, SpecView)>>
=============================================================================
