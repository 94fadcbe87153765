------------------------------ MODULE Requests ------------------------------
(***************************************************************************)
(* One task that answers class queries, one request after another.         *)
(*                                                                         *)
(* knd_task_reset clears a task before each request, but not all of it:    *)
(* the paging options batch_max, batch_from and start_from and the counter *)
(* batch_size keep what the previous requests left there.  The module      *)
(* follows a task through a series of requests: a class shown by name, the *)
(* descendants of a base class listed page by page (with an attribute      *)
(* clause, or divided into subsets), and what is asked of a class chosen   *)
(* by its _id.                                                             *)
(*                                                                         *)
(* The classes come from a bulk load and do not change: every class is in  *)
(* memory.  A crash is a NULL dereference or a failed assertion; the       *)
(* program is then started again with a new task.                          *)
(***************************************************************************)
EXTENDS Naturals, Sequences

CONSTANTS
    Classes,      \* the class names in the repo
    Names,        \* the names a request may use, unknown ones included
    Descendants,  \* [Classes -> Seq(Classes)], in the order of knd_set_map;
                  \* the empty sequence when self->descendants is NULL
    Topics,       \* [Classes -> Seq(Nat)], of each attr hub the number of
                  \* its topics, 0 when it has none (topics is NULL)
    Attrs,        \* the attributes of every class, each named by its type
    Batches,      \* the numbers given as _batch,
    FromBatches,  \* as _from_batch
    Froms,        \* and as _from
    NoOpt,        \* an option that the request leaves out
    MaxBatch      \* KND_RESULT_MAX_BATCH_SIZE

\* What the repo holds, and numbers as options; no option is a number.
ASSUME RequestsAssumption ==
    /\ Descendants \in [Classes -> Seq(Classes)]
    /\ Topics \in [Classes -> Seq(Nat)]
    /\ Batches \subseteq Nat /\ FromBatches \subseteq Nat /\ Froms \subseteq Nat
    /\ MaxBatch \in Nat /\ NoOpt \notin Nat

VARIABLES
    task,     \* the fields of kndTask that knd_task_reset leaves alone
    answer,   \* [result, page]: how the last request ended, and the classes
              \* written into task->out
    asked     \* history: the last request, NoOpt before the first one

requestVars == <<task, answer, asked>>

Formats == {"GSL", "JSON", "HTML"}
ClauseForms == {"value", "unknown", "_null", "_or", "nested", "unknown base"}

(***************************************************************************)
(* The requests.                                                           *)
(***************************************************************************)
Shows == [kind : {"show"}, class : Names, format : Formats]

Clauses == [attr : Attrs \cup {"absent"}, form : ClauseForms]

\* a page of the descendants, a division into subsets, an attribute clause
Pages == [kind : {"list"}, base : Names, format : {"GSL", "JSON"},
          batch : Batches \cup {NoOpt}, fromBatch : FromBatches \cup {NoOpt},
          from : Froms \cup {NoOpt}, subsets : {FALSE}, clause : {NoOpt}]
Divided == [kind : {"list"}, base : Names, format : Formats,
            batch : {NoOpt}, fromBatch : {NoOpt}, from : {NoOpt},
            subsets : {TRUE}, clause : {NoOpt}]
Filtered == [kind : {"list"}, base : Names, format : {"GSL"},
             batch : Batches, fromBatch : {NoOpt}, from : {NoOpt},
             subsets : {FALSE}, clause : Clauses]
Lists == Pages \cup Divided \cup Filtered

Tails == {"none", "_state", "_state filter", "_desc", "_desc _state",
          "attr", "attr value", "absent", "_rm"}

Selected == [kind : {"id", "name"}, class : Names, tail : Tails \ {"none"},
             format : Formats]
            \cup [kind : {"id"}, class : Names, tail : {"none"}, format : Formats]

Ok(page) == [result |-> "ok", page |-> page]
Ended(result) == [result |-> result, page |-> <<>>]

NewTask == [batchMax |-> 0, batchFrom |-> 0, startFrom |-> 0, batchSize |-> 0]

RequestsInit == /\ task = NewTask
        /\ answer = Ended("none")
        /\ asked = NoOpt

\* knd_task_reset: the type, the depths, the context (with the format) and the
\* buffers start anew, the paging fields stay.
Reset(t) == t

(***************************************************************************)
(* Showing one class.                                                      *)
(***************************************************************************)
\* export_class_ref: the counter restarts with each hub that has topics, and
\* counts them.
HubListed(size, topics) == IF topics = 0 THEN size ELSE topics

\* export_inverse_rels
InverseRels(t, c) ==
    LET size[i \in 0 .. Len(Topics[c])] ==
            IF i = 0 THEN t.batchSize ELSE HubListed(size[i - 1], Topics[c][i])
    IN  [t EXCEPT !.batchSize = size[Len(Topics[c])]]

\* Both exports list the inverse relations of the class they show.
ExportedGSL(t, c) == [task |-> InverseRels(t, c), answer |-> Ok(<<c>>)]
ExportedJSON(t, c) == [task |-> InverseRels(t, c), answer |-> Ok(<<c>>)]

\* knd_class_export: any other format (but GSP) fails an assertion.
ClassExported(t, c, format) ==
    CASE format = "GSL"  -> ExportedGSL(t, c)
      [] format = "JSON" -> ExportedJSON(t, c)
      [] OTHER           -> [task |-> t, answer |-> Ended("crash")]

\* run_get_class, then present_class_selection.
ShowClass(t, r) ==
    IF r.class \notin Classes THEN [task |-> t, answer |-> Ended("fail")]
    ELSE ClassExported(t, r.class, r.format)

(***************************************************************************)
(* Listing a set of classes.                                               *)
(***************************************************************************)
Skipped(t, count) == count < t.startFrom
Full(t) == t.batchSize >= t.batchMax

\* mutant: the limit is enforced by moving the counter it is compared with
ConcElem_v(u, count, elem) ==
    IF Skipped(u.task, count) \/ Full(u.task) THEN u
    ELSE [task |-> [u.task EXCEPT !.batchSize = @ + 1], page |-> Append(u.page, elem)]

\* export_conc_elem_GSL: the counter it moves, ctx->batch_size, is not the one
\* it compares with the limit.
ConcElem(u, count, elem) ==
    IF Skipped(u.task, count) \/ Full(u.task) THEN u
    ELSE [task |-> u.task, page |-> Append(u.page, elem)]

\* knd_class_set_export_GSL: the elements in the order of the set.
SetExportedGSL(t, set) ==
    LET listed[i \in 0 .. Len(set)] ==
            IF i = 0 THEN [task |-> t, page |-> <<>>]
            ELSE ConcElem(listed[i - 1], i - 1, set[i])
    IN  [task |-> listed[Len(set)].task, answer |-> Ok(listed[Len(set)].page)]

\* knd_class_set_export_JSON writes the total and no element.
SetExportedJSON(t) == [task |-> t, answer |-> Ok(<<>>)]

SetExported(t, set, format) ==
    IF format = "JSON" THEN SetExportedJSON(t) ELSE SetExportedGSL(t, set)

EmptyExported == Ok(<<>>)

\* knd_class_facets_export: only JSON has an answer, and it is always empty.
FacetsExported(t, format) ==
    [task |-> t, answer |-> IF format = "JSON" THEN Ok(<<>>) ELSE Ended("fail")]

\* select_by_attr for a plain value: facet_idx is set by nobody, so a value of a
\* REF attribute selects nothing; NUM and STR have no ref_class_entry, and an
\* INNER clause has no class in its context.
ByAttr(attr, form) ==
    IF attr # "ref" THEN "crash"
    ELSE IF form = "unknown" THEN "fail" ELSE "ok"

\* set_logic_OR_val collects values that no query reads.
OrValues == "ok"

\* parse_nested_attr_var takes any name; its _is must name a class.
Nested(form) == IF form = "unknown base" THEN "fail" ELSE "ok"

ClassrefClause(form) == IF form = "_or" THEN OrValues ELSE ByAttr("ref", form)
PlainClause(attr, form) == IF form = "_or" THEN OrValues ELSE ByAttr(attr, form)
InnerClause(form) == IF form \in {"nested", "unknown base"} THEN Nested(form)
                     ELSE ByAttr("inner", form)

\* The forms an attribute's parser has a spec for; another one is refused.
FormsOf(attr) == IF attr = "inner"
                 THEN ClauseForms \ {"_or"}
                 ELSE ClauseForms \ {"nested", "unknown base"}

\* knd_attr_select_clause
AttrClause(attr, form) ==
    CASE attr = "ref"            -> ClassrefClause(form)
      [] attr \in {"num", "str"} -> PlainClause(attr, form)
      [] attr = "inner"          -> InnerClause(form)
      [] OTHER                   -> "fail"

\* validate_select_by_baseclass_attr
BaseAttr(clause) ==
    IF clause = NoOpt THEN "ok"
    ELSE IF clause.attr = "absent" \/ clause.form \notin FormsOf(clause.attr) THEN "fail"
    ELSE AttrClause(clause.attr, clause.form)

Given(opt, old) == IF opt = NoOpt THEN old ELSE opt

\* The options of parse_select_by_baseclass, written straight into the task.
WithOptions(t, r) == [batchMax  |-> Given(r.batch, t.batchMax),
                      batchFrom |-> Given(r.fromBatch, t.batchFrom),
                      startFrom |-> Given(r.from, t.startFrom),
                      batchSize |-> t.batchSize]

\* The end of parse_select_by_baseclass: a numbered page decides the start.
FromBatch(t) ==
    IF t.batchFrom = 0 THEN t
    ELSE [t EXCEPT !.startFrom = t.batchMax * (t.batchFrom - 1)]

\* present_class_selection with a selected_base.  task->num_sets stays 0: there
\* is never a set to intersect with.
BasePresented(t, r) ==
    IF Descendants[r.base] = <<>> THEN [task |-> t, answer |-> EmptyExported]
    ELSE IF r.subsets THEN FacetsExported(t, r.format)
    ELSE SetExported(t, Descendants[r.base], r.format)

\* parse_select_by_baseclass: the base, the options, the clause, the limit.
ListBase(t, r) ==
    IF r.base \notin Classes THEN [task |-> t, answer |-> Ended("fail")]
    ELSE LET given == WithOptions(t, r)
             clause == BaseAttr(r.clause)
         IN  IF clause # "ok" THEN [task |-> given, answer |-> Ended(clause)]
             ELSE IF given.batchMax > MaxBatch THEN [task |-> given, answer |-> Ended("limit")]
             ELSE BasePresented(FromBatch(given), r)

(***************************************************************************)
(* What is asked of a class after it was chosen.  Only _id sets            *)
(* selected_class; a class chosen by its name is "not selected".           *)
(***************************************************************************)
\* present_class_state: no filter is implemented; knd_class_export_state knows
\* GSL and JSON.
StateShown(filtered, format) ==
    IF filtered THEN Ended("fail")
    ELSE IF format = "HTML" THEN Ended("crash") ELSE Ok(<<>>)

\* present_class_desc_state is not implemented.
DescState == Ended("fail")

\* present_class_desc: the descendants, under the paging fields the task has.
DescShown(t, r) ==
    IF Descendants[r.class] = <<>> THEN [task |-> t, answer |-> Ended("fail")]
    ELSE SetExported(t, Descendants[r.class], r.format)

\* knd_select_attr_var and its two handlers: a value is stored through the
\* context's repo, which is NULL.
AttrVarSet == Ended("crash")
AttrVarShown == Ok(<<>>)

\* run_remove_class fails on every path.
Removed == Ended("fail")

\* The fields of knd_class_select that follow an _id; without any, the default
\* handler finds neither a base nor a class entry.
OfSelected(t, r) ==
    CASE r.tail = "_desc"        -> DescShown(t, r)
      [] r.tail = "_state"       -> [task |-> t, answer |-> StateShown(FALSE, r.format)]
      [] r.tail = "_state filter" -> [task |-> t, answer |-> StateShown(TRUE, r.format)]
      [] r.tail = "_desc _state" -> [task |-> t, answer |-> DescState]
      [] r.tail = "attr"         -> [task |-> t, answer |-> AttrVarShown]
      [] r.tail = "attr value"   -> [task |-> t, answer |-> AttrVarSet]
      [] r.tail = "_rm"          -> [task |-> t, answer |-> Removed]
      [] OTHER                   -> [task |-> t, answer |-> Ended("fail")]

\* parse_get_class_by_numid
SelectById(t, r) ==
    IF r.class \notin Classes THEN [task |-> t, answer |-> Ended("fail")]
    ELSE OfSelected(t, r)

\* knd_class_select
ClassSelect(t, r) ==
    CASE r.kind = "show" -> ShowClass(t, r)
      [] r.kind = "list" -> ListBase(t, r)
      [] r.kind = "id"   -> SelectById(t, r)
      [] r.kind = "name" -> [task |-> t, answer |-> Ended("fail")]

(***************************************************************************)
(* The steps.                                                              *)
(***************************************************************************)
\* A request: knd_task_reset, knd_task_run.
Request(r) ==
    /\ answer.result # "crash"
    /\ \E done \in {ClassSelect(Reset(task), r)} :
         /\ task' = done.task
         /\ answer' = done.answer
    /\ asked' = r

\* The program is started again after a crash, with a new task.
Restart ==
    /\ answer.result = "crash"
    /\ task' = NewTask
    /\ answer' = Ended("none")
    /\ asked' = NoOpt

Show == \E r \in Shows : Request(r)
List == \E r \in Lists : Request(r)
AskSelected == \E r \in Selected : Request(r)

RequestsNext == Show \/ List \/ AskSelected \/ Restart

RequestsSpec == RequestsInit /\ [][RequestsNext]_requestVars

(***************************************************************************)
(* Properties                                                              *)
(***************************************************************************)
IsList == IF asked = NoOpt THEN FALSE ELSE asked.kind = "list"

\* What the documentation of the paging says of _batch: it sets the largest size
\* of a page.  The code does not keep it: the limit is compared with
\* task->batch_size, and what export_conc_elem_GSL counts is ctx->batch_size, so
\* a page is all the rest of the set.
PageWithinBatch ==
    IsList => (asked.batch # NoOpt => Len(answer.page) <= asked.batch)

\* Asking the same thing twice gives the same answer: what a request leaves in
\* the task never changes the answer to its own repetition (no listing consumes
\* the page it gave, no _from_batch moves on).
AskedTwiceSame ==
    [][asked' = asked /\ asked # NoOpt => answer' = answer]_requestVars
=============================================================================
