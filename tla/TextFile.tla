------------------------------ MODULE TextFile ------------------------------
(***************************************************************************)
(* Texts: the record a user gives (knd_text_import), the text it makes,    *)
(* what of it is shown (knd_text_export_JSON) and what a snapshot keeps    *)
(* (knd_text_export_GSP, knd_text_read).                                   *)
(*                                                                         *)
(* A record is [seq, kids]: the words, and for each tag it has the items   *)
(* with that tag in their order.  The items of a text are languages        *)
(* ("lang"), translations [locale, seq] ("trn") and paragraphs ("p"), a    *)
(* paragraph is a sequence of records of sentences; those of a sentence    *)
(* are clauses ("clause"), whose grammar is a parameter, and statements    *)
(* ("stm"), a statement is the set of the declarations [inst, cls, nth] of *)
(* instances in it, where nth tells equal ones apart.                      *)
(*                                                                         *)
(* In memory a text is [seq, locale, trs, pars], a paragraph a sequence of *)
(* sentences [seq, clause, stm], the last two of them sequences with at    *)
(* most one element.                                                       *)
(* Operators whose name ends in _v are wrong variants of the definition    *)
(* that follows them; nothing uses them but the mutation tests.            *)
(***************************************************************************)
EXTENDS Naturals, Sequences, SequencesExt

CONSTANTS
    Texts,           \* the records a user may give
    Locales,         \* the languages a reply may be asked in
    Nil,             \* a NULL pointer
    Clause(_),       \* what the importer makes of the record of a clause
    ClauseBreaks(_), \* whether that stops the process
    ClauseReads(_),  \* whether the reader of a snapshot takes the record
    SubjView(_)      \* how the subject of a clause is shown

VARIABLES
    given,      \* the record, or Nil
    text,       \* [st, text]: what became of the import, or Nil
    shown,      \* [st, locale, view]: what became of the JSON reply, or Nil
    kept,       \* the record of the text in a snapshot, or Nil
    read        \* what became of reading that, or Nil

textVars == <<given, text, shown, kept, read>>

Of(n, tag) == IF tag \in DOMAIN n.kids THEN n.kids[tag] ELSE <<>>
Pars(n) == Of(n, "p")

\* Places of sentences, in the order they are parsed.
Places(n) == UNION {{i} \X (1..Len(Pars(n)[i])) : i \in 1..Len(Pars(n))}
Sent(n, p) == Pars(n)[p[1]][p[2]]
NotAfter(p, q) == p[1] < q[1] \/ (p[1] = q[1] /\ p[2] <= q[2])

\* What a user gives is a record.  (A sentence has at most one statement here.)
Sequenced(s) == s \in Seq(ToSet(s))
ASSUME TextsAssumption ==
    /\ Nil \notin Texts
    /\ \A n \in Texts :
          /\ Sequenced(Of(n, "trn")) /\ Sequenced(Pars(n))
          /\ \A i \in 1..Len(Pars(n)) : Sequenced(Pars(n)[i])
          /\ \A p \in Places(n) : /\ Sequenced(Of(Sent(n, p), "clause"))
                                  /\ Sequenced(Of(Sent(n, p), "stm"))
                                  /\ Len(Of(Sent(n, p), "stm")) <= 1

---------------------------------------------------------------------------
(* Import *)

HasStm(n, p) == Of(Sent(n, p), "stm") # <<>>

\* knd_import_class_inst in an inner state: task->ctx->class_declars, a list of
\* classes, each with a list of its instances.
Labelled(D, p) == {[inst |-> d.inst, cls |-> d.cls, nth |-> <<p, d.nth>>] : d \in D}
DeclaredAt(n, p) == IF HasStm(n, p) THEN Labelled(Of(Sent(n, p), "stm")[1], p) ELSE {}
DeclaredIn(n, P) == UNION {DeclaredAt(n, p) : p \in P}

\* knd_statement_import: the statement takes the head of the list as it is then;
\* the list is not reset before the next one, and what a later statement declares
\* of a class that is in it goes into the entry that both have.
StmOf(n, p) == {d \in DeclaredIn(n, Places(n)) :
                   \E e \in DeclaredIn(n, {q \in Places(n) : NotAfter(q, p)}) : e.cls = d.cls}

\* parse_sentence: the first clause stays.
SentOf(n, p) ==
    [seq |-> Sent(n, p).seq,
     clause |-> IF Of(Sent(n, p), "clause") = <<>> THEN <<>> ELSE <<Clause(Of(Sent(n, p), "clause")[1])>>,
     stm |-> IF HasStm(n, p) THEN <<StmOf(n, p)>> ELSE <<>>]

\* parse_translation: put before the ones parsed so far.
TranslationsOf(n) == Reverse(Of(n, "trn"))

TextOf(n) ==
    [seq |-> n.seq,
     locale |-> IF Of(n, "lang") = <<>> THEN Nil ELSE Last(Of(n, "lang")),
     trs |-> TranslationsOf(n),
     pars |-> [i \in 1..Len(Pars(n)) |-> [j \in 1..Len(Pars(n)[i]) |-> SentOf(n, <<i, j>>)]]]

Made(t) == [st |-> "ok", text |-> t]
Fail == [st |-> "fail", text |-> Nil]
Crashed == [st |-> "crash", text |-> Nil]

\* confirm_valid_par, confirm_statement: a paragraph has a sentence, and before
\* the end of a statement something has been declared.
EmptyPar(n, i) == Pars(n)[i] = <<>>
EmptyStm(n, p) == HasStm(n, p) /\ StmOf(n, p) = {}
Valid(n) == /\ \A i \in 1..Len(Pars(n)) : ~EmptyPar(n, i)
            /\ \A p \in Places(n) : ~EmptyStm(n, p)

\* A clause is parsed unless something before it has been refused.
Crashing(n) ==
    \E p \in Places(n) :
        /\ \E c \in ToSet(Of(Sent(n, p), "clause")) : ClauseBreaks(c)
        /\ \A i \in 1..(p[1] - 1) : ~EmptyPar(n, i)
        /\ \A q \in Places(n) : NotAfter(q, p) /\ q # p => ~EmptyStm(n, q)

ImportText(n) == IF Crashing(n) THEN Crashed ELSE IF Valid(n) THEN Made(TextOf(n)) ELSE Fail

(* Reading (knd_text.read.c): what is made of a record is the same, but it *)
(* is refused at the first tag that the reader of the node does not have.  *)
TextTags_v == {"lang", "p", "tr"}
TextTags == {"lang", "p", "trn"}
SentTags == {"clause", "stm"}
Understood(n) == /\ DOMAIN n.kids \subseteq TextTags
               /\ \A p \in Places(n) : /\ DOMAIN Sent(n, p).kids \subseteq SentTags
                                       /\ \A c \in ToSet(Of(Sent(n, p), "clause")) : ClauseReads(c)
ReadText(n) == IF Understood(n) THEN ImportText(n) ELSE Fail

---------------------------------------------------------------------------
(* The reply (knd_text.json.c) *)

\* sent_export_JSON: a clause is shown through its subject.
SentShows(s) == s.clause # <<>> => s.clause[1].subj # <<>>
SentView(s) == [txt |-> s.seq, stm |-> s.stm,
                clause |-> IF s.clause = <<>> THEN <<>> ELSE <<SubjView(s.clause[1].subj[1])>>]

\* export_translation: the first one in the language of the task.
Rendering_v(t, locale) == t.seq
Rendering(t, locale) ==
    LET same == {k \in 1..Len(t.trs) : t.trs[k].locale = locale}
    IN IF same = {} THEN t.seq ELSE t.trs[Min(same)].seq

\* knd_text_export_JSON
ShowText(t, locale) ==
    IF \E i \in 1..Len(t.pars) : \E j \in 1..Len(t.pars[i]) : ~SentShows(t.pars[i][j])
    THEN [st |-> "crash", locale |-> locale, view |-> Nil]
    ELSE [st |-> "ok", locale |-> locale,
          view |-> [txt |-> Rendering(t, locale),
                    pars |-> [i \in 1..Len(t.pars) |->
                                [j \in 1..Len(t.pars[i]) |-> SentView(t.pars[i][j])]]]]

---------------------------------------------------------------------------
(* The snapshot (knd_text.gsp.c) *)

\* sent_export_GSP: a clause is not written.
SentOut(s) == [seq |-> s.seq, kids |-> [tag \in (IF s.stm = <<>> THEN {} ELSE {"stm"}) |-> s.stm]]

\* knd_text_export_GSP: the language has the tag _lang, which no reader knows.
TextOut(t) ==
    [seq |-> t.seq,
     kids |-> [tag \in {"trn", "p"} \cup (IF t.locale = Nil THEN {} ELSE {"_lang"}) |->
                 CASE tag = "trn" -> t.trs
                   [] tag = "p" -> [i \in 1..Len(t.pars) |->
                                      [j \in 1..Len(t.pars[i]) |-> SentOut(t.pars[i][j])]]
                   [] OTHER -> <<t.locale>>]]

---------------------------------------------------------------------------
TextInit == given = Nil /\ text = Nil /\ shown = Nil /\ kept = Nil /\ read = Nil

Give(n) == /\ given = Nil
           /\ given' = n
           /\ text' = ImportText(n)
           /\ UNCHANGED <<shown, kept, read>>

\* A record in a file somebody wrote.
Find(n) == /\ given = Nil
           /\ given' = n
           /\ text' = ReadText(n)
           /\ UNCHANGED <<shown, kept, read>>

\* knd_text_build_JSON
BuildJSON(locale) == /\ text # Nil /\ text.st = "ok" /\ shown = Nil
                     /\ shown' = ShowText(text.text, locale)
                     /\ UNCHANGED <<given, text, kept, read>>

KeepText == /\ text # Nil /\ text.st = "ok" /\ kept = Nil
            /\ kept' = TextOut(text.text)
            /\ UNCHANGED <<given, text, shown, read>>

LoadText == /\ kept # Nil /\ read = Nil
            /\ read' = ReadText(kept)
            /\ UNCHANGED <<given, text, shown, kept>>

TextNext == \/ \E n \in Texts : Give(n) \/ Find(n)
            \/ \E l \in Locales : BuildJSON(l)
            \/ KeepText \/ LoadText

TextSpec == TextInit /\ [][TextNext]_textVars

---------------------------------------------------------------------------
(* Properties *)

\* Of the translations into a language the one given last is shown, and the text
\* itself if there is none.
NewestShown(n, locale, txt) ==
    LET trs == Of(n, "trn")
    IN \/ txt = n.seq /\ \A k \in 1..Len(trs) : trs[k].locale # locale
       \/ \E k \in 1..Len(trs) : /\ trs[k].locale = locale /\ txt = trs[k].seq
                                 /\ \A m \in (k + 1)..Len(trs) : trs[m].locale # locale

\* A sentence is shown with its words, its first clause, all that is declared in
\* it and nothing that is not declared in the text.
SentAsGiven(n, p, v) ==
    /\ v.txt = Sent(n, p).seq
    /\ v.clause = IF Of(Sent(n, p), "clause") = <<>> THEN <<>>
                  ELSE <<SubjView(Clause(Of(Sent(n, p), "clause")[1]).subj[1])>>
    /\ (v.stm = <<>>) <=> ~HasStm(n, p)
    /\ HasStm(n, p) => /\ DeclaredAt(n, p) \subseteq v.stm[1]
                       /\ v.stm[1] \subseteq DeclaredIn(n, Places(n))

\* A reply shows every sentence in its order, and the right translation.
ShownAsGiven ==
    shown # Nil /\ shown.st = "ok" =>
        /\ NewestShown(given, shown.locale, shown.view.txt)
        /\ Len(shown.view.pars) = Len(Pars(given))
        /\ \A i \in 1..Len(Pars(given)) : Len(shown.view.pars[i]) = Len(Pars(given)[i])
        /\ \A p \in Places(given) : SentAsGiven(given, p, shown.view.pars[p[1]][p[2]])

OneStatement(t) == \A i, k \in 1..Len(t.pars) : \A j \in 1..Len(t.pars[i]), l \in 1..Len(t.pars[k]) :
                      t.pars[i][j].stm # <<>> /\ t.pars[k][l].stm # <<>> => i = k /\ j = l

\* Sentence r at place p is what is read where s was written: its clause is lost,
\* its declarations are not, and if `alone' holds no others are added.
SameSent(s, r, p, alone) ==
    /\ s.seq = r.seq /\ r.clause = <<>>
    /\ (s.stm = <<>>) <=> (r.stm = <<>>)
    /\ s.stm # <<>> => /\ Labelled(s.stm[1], p) \subseteq r.stm[1]
                       /\ alone => r.stm[1] = Labelled(s.stm[1], p)

\* A text that has no language of its own is read from every snapshot, with all
\* but its clauses; translations are in the reverse order, and a statement comes
\* back as it was when there is no other one in the text.  (A language is
\* written under a tag the reader refuses; a second statement is read with
\* instances of the first one.)
Same(t, u) ==
    /\ t.seq = u.seq /\ Reverse(t.trs) = u.trs
    /\ Len(t.pars) = Len(u.pars)
    /\ \A i \in 1..Len(t.pars) :
          /\ Len(t.pars[i]) = Len(u.pars[i])
          /\ \A j \in 1..Len(t.pars[i]) : SameSent(t.pars[i][j], u.pars[i][j], <<i, j>>, OneStatement(t))
TextRoundTrip ==
    read # Nil /\ text.text.locale = Nil => read.st = "ok" /\ Same(text.text, read.text)
=============================================================================
