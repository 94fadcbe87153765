---------------------------- MODULE MCTextFile -----------------------------
(* Texts of up to two paragraphs, with clauses, statements, translations.  *)
EXTENDS TextFile, Grammar, TLC

Node(k, name, kids) == [k |-> k, name |-> name, kids |-> kids]
Syn(kids) == Node("syn", "Np", kids)
Term == Node("term", "N", <<>>)
SynSpec(kids) == Node("spec", "Det", kids)
Pred == Node("pred", "Vp", <<Syn(<<Term>>)>>)
Synodes == {Syn(<<Term>>), Syn(<<Syn(<<Term>>), SynSpec(<<Syn(<<Term>>)>>)>>), Syn(<<Term, Syn(<<SynSpec(<<>>)>>)>>)}
ClauseNode(kids) == Node("clause", "S", kids)
OneClause == {ClauseNode(<<s, Pred>>) : s \in Synodes} \cup {ClauseNode(<<Pred>>)}
TextClauses == OneClause \cup
    {ClauseNode(<<s, c>>) : s \in {Syn(<<Term>>)}, c \in OneClause} \cup
    {ClauseNode(<<c, Syn(<<Term>>)>>) : c \in OneClause}

Inst(i, c) == [inst |-> i, cls |-> c, nth |-> 1]
Stms == {{}, {Inst("x", "C")}, {Inst("y", "C"), Inst("z", "D")}}
NoKids == [tag \in {} |-> <<>>]
SentRec(seq, kids) == [seq |-> seq, kids |-> kids]
PlainSent(seq) == SentRec(seq, NoKids)
StmSent(seq, m) == SentRec(seq, [stm |-> <<m>>])
Sents == {PlainSent(w) : w \in {"One", "Two"}}
    \cup {SentRec("One", [clause |-> <<c>>]) : c \in TextClauses}
    \cup {StmSent(w, m) : w \in {"One", "Two"}, m \in Stms}
    \cup {SentRec("One", [clause |-> <<ClauseNode(<<Syn(<<Term>>)>>)>>, stm |-> <<m>>]) : m \in Stms}
Few == {StmSent("Two", m) : m \in Stms} \cup
       {PlainSent("Two"), SentRec("Two", [clause |-> <<ClauseNode(<<Pred>>)>>])}
ParSeqs == {<<>>} \cup {<<s>> : s \in Sents} \cup {<<s, t>> : s \in Sents, t \in Few}
ParsGiven == {<<p>> : p \in ParSeqs} \cup
    {<<p, q>> : p \in {p \in ParSeqs : Len(p) = 1},
                q \in {q \in ParSeqs : Len(q) < 2 /\ ToSet(q) \subseteq Few}}
Trn(l, w) == [locale |-> l, seq |-> w]
Heads == {NoKids, [lang |-> <<"en">>], [trn |-> <<Trn("ru", "Raz")>>],
          [trn |-> <<Trn("ru", "Raz"), Trn("de", "Eins"), Trn("ru", "Odin")>>]}
MCTexts == {[seq |-> "One Two", kids |-> h @@ p] :
               h \in Heads, p \in {NoKids} \cup {[p |-> ps] : ps \in ParsGiven}}

----------------------------------------------------------------------------
\* A clause that has its subject first and nested clauses last.
SubjectFirst(c) == LET k == SelectInSeq(c.kids, LAMBDA x : x.k = "clause")
                   IN /\ Tagged(c.kids, {"syn"}) # <<>>
                      /\ k # 0 => \A j \in k..Len(c.kids) : c.kids[j].k = "clause"
RECURSIVE Tidy(_)
Tidy(c) == SubjectFirst(c) /\ \A x \in ToSet(Tagged(c.kids, {"clause"})) : Tidy(x)

\* Import and reply survive every record all of whose clauses are such.
TidyTextsServed ==
    given # Nil /\ (\A p \in Places(given) : \A c \in ToSet(Of(Sent(given, p), "clause")) : Tidy(c)) =>
        text.st # "crash" /\ (shown # Nil => shown.st = "ok")
=============================================================================
