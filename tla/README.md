# A TLA+ model of Knowdy

Knowdy keeps a graph of classes, their instances and procs in memory, lets several
tasks read and change it at once, journals the changes and writes snapshots.  This
directory holds TLA+ modules that model its concurrent and its crash-prone parts and
the algorithms that must agree with each other (what is written and what is read),
configurations that check them with TLC, and proofs that TLAPS checks.  Paths like
`src/knd_repo.commit.c` are those of the repository; `PROJECT.json` names, for each
definition, the lines it stands for.

    tlc -workers 2 -config RepoCommit_state.cfg MCRepoCommit.tla
    tlapm SharedDictProofs.tla

## 1. The system

| Part | State it keeps | Operations | What makes it hard |
|---|---|---|---|
| shared name dictionary (`knd_shared_dict.c`) | buckets of linked items with a phase; `num_items` | get, set, remove; callers promote items | lock-free, used by all tasks |
| commit pipeline (`knd_repo.commit.c`, `knd_commit.c`, `knd_class.import.c`) | `snapshot->commits`, `num_commits`, a `kndCommit` per request, journal files | import, confirm: index, number and push, journal | checks and effects are far apart; the disk may fail between them |
| restore (`knd_repo.open.c`, `knd_set.c`) | `commit_idx`, the rebuilt list of commits | read the journals of all agents, apply the commits | crash at any point, also in a restore |
| shared memory pool (`knd_mempool.c`) | linked lists of free pages | take a page | the link of a page is read without owning it |
| user contexts (`knd_user.c`, `knd_cache.c`) | cache cells with reader counts; the cell noted at each user | select a user, set, get, evict | two levels of lock-free state that must agree |
| tasks (`knd_task.c`, `knd_task.select.c`) | buffers, role, context of a request | reset, run, parse | buffers outlive requests |
| bulk load (`knd_repo.gsl.c`, `knd_class.import.c`, `knd_class.resolve.c`, `knd_class.index.c`, `knd_attr*.c`) | classes, attributes, ancestors, descendants, hubs | read files, resolve, index | recursion over classes in the order of a hash table |
| snapshots (`knd_repo.gsp.c`, `*.gsp.c`, `*.read.c`) | files of strings, classes and instances | write, open, read a record on demand | writer and reader are separate hand-written code; several tasks read |
| shared ordered sets (`knd_shared_set.c`, `knd_shared_set.gsp.c`) | a trie of ids, and its file | add, get, map, marshall, unmarshall, fetch | lock-free growth of nodes; blocks in four forms |
| strings (`knd_text.c`) | `str_dict`, `str_idx`, `num_strs` | fetch the number of a string | dictionary, counter and set change one after the other |
| class instances (`knd_class_inst*.c`) | lazily made indices of a class, its instance file | import, index, fetch, remove, snapshot | two tasks make the index at once; ids restart |
| attribute values, texts (`knd_attr_var*.c`, `knd_text*.c`) | trees of values; paragraphs, sentences, translations | import, resolve, write, read, show | nested formats read and written by hand |
| queries (`knd_class.select.c`, `knd_attr.select.c`) | the options of a task | select, filter, page | options outlive the request |
| procs | definitions like classes | parse, resolve, export | sequential |
| shard, Go service, shell | the tasks | configuration, scheduling | see below |

How they interact.  The Go service (`service/knowdy.go:34-122`) makes N tasks with
ids 1..N and hands each request to a free one, so that as many requests run at the
same time; with the role Arbiter each of them commits on its own.  A request
selects a user (user contexts), parses a class (`set_class_name` looks the name up
in the shared dictionary of the repo), and at its end `knd_parse_task` calls
`knd_confirm_commit`: names into the dictionary (pages from the shared pool), commit
onto the list, record into the task's own journal.  `knd_repo_open` reads the
journals of all agents into `commit_idx` and applies them through the same parser.

What makes each part correct:

* dictionary: a name is bound once; an answer is true at some moment of its call;
* commits: one chain with consecutive numbers; no commit creates a name of the state
  it started from; "OK" means in the list and on disk; journals agree with the list;
* restore: what was acknowledged is in the indices again, and the journals stay readable;
* pool: a page has one owner; no page is lost;
* user contexts: a task works for the user it asked for; cells do not get stuck, a
  user has one context and one in use stays (of these only the second is a property:
  section 2);
* ordered sets: an id is bound once, an element that was added is found and shown; a
  file has every record, and one record read is the one that was written;
* bulk load: it succeeds or fails whatever order the hash table has; ancestors,
  descendants, attributes and hubs are those the schema implies;
* snapshots: strings, values, texts and classes come back as they were written, and a
  class that several tasks ask for is one object;
* strings: a number decodes to the string it was given for, for good;
* instances: what was acknowledged is found by its id, its name and in the file;
* requests: an answer follows from the request and the data.

## 2. Modules

| Module | Models | Abstract specification |
|---|---|---|
| `SharedDict` | `knd_shared_dict.c`, and the promotion in `knd_class_inst.index.c:147` | `NameMap` |
| `SharedDictObs` | adds a history variable to `SharedDict` | |
| `SharedDictProofs` | proofs about `SharedDict` and `SharedDictObs`; and about `SetFile` | |
| `RepoCommit` | import checks, `knd_confirm_commit` and what it calls | `CommitLog` |
| `Restore` | `knd_repo_restore`, `knd_apply_commit`, crashes | |
| `RestoreProofs` | proofs about what a shard reads when it is opened again: `Restore`, `ClassFile`, `TextFile` and `ValueFile` | |
| `MemPool` | `get_shared_page` | |
| `UserCache` | `run_get_user`, `knd_cache_set`, `knd_cache_get`, eviction | |
| `SharedSet` | `knd_shared_set.c`: add, get, the traversal, node by node | `PathSet`, and this `IdMap` |
| `SetIds` | ids and slots, common to `SharedSet` and `PathSet` | |
| `PathSetProofs`, `SharedSetProofs` | proofs about `PathSet`; about `SharedSet` and `MemPool` | |
| `SetFile` | the file of a set: `knd_shared_set_marshall`, `knd_shared_set.gsp.c` | the set itself |
| `Strings`, `StringsProofs` | `knd_charseq_fetch`, the file of strings | |
| `Instances`, `InstancesProofs` | instances of one class: creation, indices, file, fetching, removal | |
| `ValueFile` | values of attributes: import, resolving, `knd_attr_var.gsp.c`, `knd_attr_var.read.c` | the value itself |
| `TextFile` | texts: `knd_text.import.c`, `.json.c`, `.gsp.c`, `.read.c` | the text itself |
| `Grammar` | clauses of a text and their synodes; `TextFile` has them as parameters | |
| `Schema` | `knd_repo_read_source_files`: import, resolving, indexing of classes | what the schema implies |
| `ClassFile` | the record of a class, and `knd_class_acquire` by several tasks | the class itself |
| `Requests` | a task that answers class queries one after another | |
| `ServeProofs` | proofs about the parts of `MCServe`: `UserCache`, `Strings`, `Instances`, `Requests` | |
| `MC...` | instances for TLC; `MCShared`, `MCFiles`, `MCOpening` and `MCServe` put several modules into one run | |

`RepoCommit` uses what `SharedDict` establishes: it treats the set of a name as two
steps, the load of the head and the push that fails if the name was pushed
meanwhile.  `Restore` uses what `RepoCommit` establishes: a commit is numbered and
pushed in one step.  `UserCache` ends where a task has its context.  `Strings` uses
what `SharedDict` and `SharedSet` establish for callers without a commit: a dictionary
that binds a free name and a set that binds a free id, each in one step.  `Instances`
takes that of the set only: its names are bound for a commit and promoted later, so it
has the steps of `knd_shared_dict_set` itself; of `SetFile` it uses that a record is
found by its id.  `ClassFile` starts from what `Schema`
makes: `MCClassFile` computes the memory by `Schema`'s own operators from source
files, in any order of the names, and `ClassFile` takes that through the files.

`MCShared`, `MCFiles`, `MCOpening` and `MCServe` have a variable `which`, fixed from the first state on: a
behaviour is one of a single module and the variables of the others rest.  Nothing is
shared between the parts of such a run; they are in one run because each is small.

### SharedDict

A bucket is the sequence of its items in the order of their pushes, a pointer into
it a length.  That is exact, because items are only pushed at the head and never
freed.  The key and link of an item never change after it is published, so a walk is
one step; its phase does change, so deciding on the phase is a step.  A set is:
`SetCall` (load `orig_head`), `SetConflict`/`SetPass` (first walk), `SetAlloc`/
`SetNoMem`, then rounds of `RecheckPass`/`RecheckConflict` (load the head, second
walk) and `Push`/`PushRetry` (compare-and-swap, which may also fail spuriously), and
`Count`.  The constants say what the callers do: whether a commit is given
(`CommitModes`), `allow_overwrite`, whether they promote and remove.

| Run | Callers | Checks |
|---|---|---|
| `SharedDict_answers` | no commit, removes; two keys in one bucket | the lists implement `NameMap`; no valid item is hidden by a newer one; every answer was true at some moment of the call |
| `SharedDict_callers` | all kinds of sets and removes of one name; fair | the type; every call returns |

Two threads suffice for the races of the code: each involves a call, one
that overtakes it, and one that makes the name free or taken.  The pages bound the
number of sets.

`ValidIsNewest` is a claim about names that nobody promotes, with commits (as class names
are) or without; the theorem `NamesUnique` covers both.  With instance names, which
are promoted, it does not hold: a pending item met in the first walk is no conflict
(`knd_shared_dict.c:90`) and the second walk looks only at newer items, so two commits
can register one instance name and both promote it (`knd_class_inst.index.c:147`).
`Instances` has these steps, and says what is still true of such names.

### RepoCommit

A request is `Start` (the commit notes `orig_state_id`), `Import` of one class after
the other, `IndexLoad`/`IndexPush` for each name (`update_indices` prepends state
references, so the names come last one first), `LoadHead` (writes `prev` and
`numid`), `PushCommit`/`PushRetry`, `SetValid`, `Count`, then the journal:
`JournalHasRoom`, `JournalCreate` or `JournalRotate`, and `AppendRecord`.
`IndexConflict`, `JournalFail` and `AppendFail` are the error paths; none undoes
anything, as in the code: a failing write may leave a part of the record in the file, and
the next record is put after it.  `check_class_conflicts` lies between `LoadHead` and the
compare-and-swap and never finds anything, because the item it looks at belongs to
its own commit.

The name index starts empty.  Names of the bulk load would be valid items that
`Registered` finds like the others.  Validation failures before the index is
touched are not modelled: the request ends with no effect.

`Recycled` says where the commit is allocated.  In `parse_class_import` and its
like it is `task->mempool`, which `knd_task_reset` empties before every request;
`RepoCommit_recycled` shows what follows.  The other runs take `Recycled = FALSE`,
a commit that keeps its memory, which is what the list of commits needs and what
tasks whose mempool is not reset in between have (one commit each in
`RepoCommit_state`); what they show of several requests of one task
(`RepoCommit_journals`) holds only once that is repaired.

| Run | Instance | Checks |
|---|---|---|
| `RepoCommit_state` | 3 tasks, requests `<<n1,n2>>`, `<<n2,n1>>`, `<<n3>>` | `WellNumbered`: the type and the chain; `CommitLog` |
| `RepoCommit_journals` | 2 tasks, 2 requests each of `<<n1,n2>>` and `<<n3>>`, failing writes, small files; fair | journals agree with the list; a file overruns by less than a record; every request is answered |
| `RepoCommit_unique` | 2 tasks | **violated**: a class is created by two commits |
| `RepoCommit_recycled` | 1 task, 3 requests, commits in `task->mempool` | **violated**: numbers 1, 2, 2 |

`JournalsFollowLog` and `JournalOverrun` count such parts as records; `CommitLog`, in which
what is durable is the whole ones, does not.  What a reader makes of a part is not in
`Restore`, whose journals have whole records only.

`JournalOverrun` is what is left of the size limit: the planned size counts the length
of the file name, which is in the buffer at that point, and not that of the record
(`knd_repo.commit.c:328`), so a file does grow beyond `max_journal_size`, by less than
a record.

That `ImplementsCommitLog` holds while `UniqueClassNames` fails is the point: a commit
never creates a name that was in the log *when it started*, but two that overlap may
create the same one.

### Restore

The clients' requests, the journals (one sequence of records per agent: its files
are read in the order they were written) and the memory of the shard, which `Crash`
loses at any moment: the list of commits (`log`) and the indices of classes and instances
(`known`).  `ReadSkip`, `ReadAgent`, `ReadFail` and `ReadEnd` are the loop
over the agent folders, `ApplyInst`, `ApplyClass` and `ApplyRefused` the traversal of
`commit_idx` in the order of `VisitedBefore`.  A restored class import turns the task into
a committing one (`knd_repo.c:271`): the commit is numbered, pushed and counted once
more (`ApplyClass`), written to the journal of agent 0 (`ApplyJournal`) and pushed
again by `knd_apply_commit` (`ApplyPush`).  By then it is the head of the list, so that
`commit->prev = head` makes it its own predecessor (`knd_repo.commit.c:445-448`): all
commits before it leave the list.  A request that has two records of different numbers is
refused at the second one, because its class exists, and the restore fails
(`ApplyRefused`).  Here too the numbers are those of commits that keep their memory.

| Run | Instance | Checks |
|---|---|---|
| `Opening` (with `ClassFile`) | class and instance commits, radix 4, three crashes, no gap in the folders; fair | what was acknowledged is in the indices of a repo that is up (`AckedSurvive`); the index of commits is complete; as long as only instances are created and ids have one digit, numbers stay unique, and the list has what was acknowledged, in the order of the numbers (`InstsInOrder`); every opening ends |
| `Restore_reopen` | class commits, two crashes | **violated**: a number is in the journals twice, and the repo cannot be opened again |

Two of these claims need their instance.  Without `Folders = {1, 2}` agent 2 may have a
journal and agent 1 none; the loop ends at the first missing folder
(`knd_repo.open.c:280`) and `AllCommitsIndexed` fails.  With more commits than the
radix `TimelyOrder` fails, since ids are traversed from their least significant digit: of
a log of 124 commits #124 is applied before #63.  With classes `NumbersUnique` fails
(`Restore_reopen`).  `InstsInOrder` therefore speaks of the histories without either.

`AckedSurvive` speaks of repos that open (`phase = "up"`); that a repo may fail to
open is `Restore_reopen`.  It speaks of the indices, which serve the requests, and not
of the list of commits: a restored class import cuts the list, so that only histories
without one keep it (`InstsInOrder`).

### MemPool

One page size; the five are copies.  `ReadNext` reads the first word of a page that
may have a new owner, and `Use` is that owner writing to it.  Pages are never given
back, which is why the head never returns to a page and the compare-and-swap is safe.

The run `Shared` (3 tasks, 3 pages, so that the pool runs dry; fair) checks that the
list is the free pages, each once (`FreeListIntact`), that the counter of pages in use does
not exceed them (`PagesCounted`), that a page that was given stays with its task
(`PageGivenOnce`), that `knd_NOMEM` is true (`NoMemOnlyWhenFull`) and that every
allocation returns (`CallsReturn`).

### UserCache

`noted` is `entry->cache_cell_num`, `readers` and `data` the cells.  A request is
`Select`, `LoadNote`, then either `Get`, `ReadData` and `Use`/`Retry`, or `Build`,
`knd_cache_set` (`SetStart` ... `Open`, `Evict`), `StoreNote` and then `Get`.  A
positive reader count is 1, since nothing decreases it: `knd_cache_release` has no
caller.  The compare-and-swaps do not fail spuriously here (they do not on x86); on
a machine where they do, `SwapFail` could leave a cell at -1 with no writer in it.

The run `Serve` (2 tasks, 2 users, 3 cells, 2 contexts per task) checks that a cell that
is closed has a writer at work and that no context is in two cells (`CellsExclusive`).
That holds although the model, like the code, has steps one would not expect:

* the first cell is `rand() % num_cells - 1`, so one draw in `num_cells` fails the
  assertion of `knd_cache.c:25` (`SetOutOfRange`);
* the test in the loop of `knd_cache_set` that would go back to the initial cells is
  never true, so when the cells from the first one on have readers, set answers
  `knd_OK` without a cell, and `run_get_user` reads cell 0 (`ScanEnd`, `StoreNote`);
* a second writer of a cell reads `num_readers` -1, swaps -1 for -1 and may replace the
  context that a reader has begun to use (`Grab`, `Swap`);
* when the cell noted for a user has another user's context, `run_get_user` tries the
  same cell again and again (`Retry`), so requests need not end;
* two tasks that select a user at the same time both build a context and store it in two
  cells; the note is that of the later one.

What one would wish for beyond `CellsExclusive` is false of this code or the shape of its
last step: a user may have two contexts, a context may be evicted while it is used, set
may say `knd_OK` without a cell; and that a task uses no other user's context is the
comparison that `run_get_user` makes just before (`knd_user.c:277`).  They are in no property.

The instance stops when the process does (a failed assertion, a NULL context) or when
the bound on contexts is reached, so deadlock is not checked; in `Restore` it is not
either, because the requests and crashes are bounded and a repo may fail to open.

### SharedSet

Nodes have identities: `idxs[n][d]` and `elems[n][d]` are the two slots of digit `d` in
node `n`, and a page of the pool that is taken is the next node.  An add goes down digit
by digit: `Descend` into the node that is there, or `NewIdx`, a node of its own that nobody
else knows (`new`), and then the compare-and-swap into the slot.  The winner's node is
linked; the loser (`LinkLost`) goes on in the winner's and its own is lost.  In the last
node the element is put into its slot by another compare-and-swap, or there is a
`Conflict`.  A traversal reads slot by slot.  Pages can run out in the
middle of an add, which leaves empty nodes, and a lost race costs a page.  The exchanges
do not fail spuriously here; where they do, an add costs a page more.

`PathSet` is the set as one would describe it: a node is no more than the digits that lead
to it, `dirs` the nodes there are, `elems` the element at each id.  `ImplementsPathSet`
says that the trie behaves like that: what starts at the root reaches (`Linked`, `Held`)
grows by what was linked and loses nothing.  A node that replaces another one, with the
elements below it, or an element put into a node that is not linked, is no step of
`PathSet`.  `ImplementsIdMap` says the same of the callers' view, in which an id gets one
element for good.

The run `Shared` (3 tasks, 3 calls, 4 ids, 2 pages; fair; 430,258 states with those of the
pool) checks both, that the count is exact when nobody is adding (`NumElemsExact`), that a
traversal shows all that was there when it began, each once and in order
(`WalkMissesNothing`), and that every call returns (`CallsReturn`).

### SetFile (run `Files`)

The bytes of the file of a set: a block per node with records and sub-blocks, each with
a footer that either names the digits or has an entry for every digit, sizes packed
into as many bytes as the largest needs, and for short blocks no sizes but zero bytes
between records.  `Marshall`, `Unmarshall` and `FetchElem` are the writer and the two
readers; their recursions are functions of the number of levels, so that they can be
proved about.  `RecordsKept`: opening the file gives the records that were written, each
once, under its id and byte for byte, and their number; and fetching one id gives its
record.  `Unpack` has what `knd_unpack_u32` does with sizes of 2^31 and more: it shifts
a byte as an `int`, whose sign is then extended to 64 bits (`SignBits`).

### ValueFile and TextFile (run `Files`)

What becomes of a value or a text on the way import, resolve, write, read.  The models
have what the readers refuse, where an assertion or a NULL pointer stops the process
and where a code is taken for the wrong kind of id.

A value is nested: inner values have values, lists have items.  In each of its forms
(given, in memory, in the record, read back) it is a function on its places, which are
the sequences of positions that lead to a value; `MCValueFile` turns trees into such
functions.  The places of a record are those the writer comes to (`Export`, `Entered`).
What the reader has at hand at a place, the attribute and `ctx->class`, it has from the
fields above (`Context`): the items of a list have the list's class, the items of a list
inside an inner value have none, because `read_nested_attr_var_list` makes its context
without one.  `ValueRoundTrip` says of the values of a kept shape (`KeptShape`) that they
are written without an assertion failing and come back as they were given, however deep.
Not of that shape are values of types without a code (`bool`, `rel`), inner values in a
single field that name their implied value, a value for an inner one whose template has
no implied attribute (it is dropped), lists of inner values inside an inner value, and
inner values whose template inherits its implied attribute, which `inherit_base_attr`
does not hand down when the template is read.

A text is given as a record: words, translations, and paragraphs of sentences, each with
clauses and a statement that declares instances.  `TextFile` has everything but the
inside of a clause, which is a tree: what parsing makes of it, whether that stops the
process, whether the reader takes it and how it is shown are four operators, constants of
the module, and `Grammar` defines them by the recursion of the code.  A statement is a
set of declarations; in memory it has those of all classes that were declared up to its
end, wherever in the text, because `class_declars` is one list that is never reset
(`StmOf`).

`ShownAsGiven`: a reply has every paragraph and sentence in its order, each with its
words, its first clause, all it declares and nothing that is not declared in the text,
and of the translations into the language that was asked for the one given last.
`TextRoundTrip`: a text without a language of its own is read from its snapshot, with
every sentence at its place and all that was declared in it; a statement that is alone in
its text comes back exactly.  What is lost is in the property: clauses are not written,
translations come back in the reverse order (so that of two into one language the other
one is shown), and a language is written under the tag `_lang`, which the reader refuses.
`TidyTextsServed`: import and reply survive every text whose clauses have their subject
first and nested clauses last.  Others stop the process: a clause within a clause leaves
a NULL pointer that the next tag writes through (`knd_text.import.c:505`), and a clause
without a subject stops the export (`knd_text.json.c:200`).

### Schema (run `Files`)

The bulk load: `ReadClass` for each class of the files, `ResolveNext` and `IndexNext` for
each class of the name index in every order (`order`).  The recursion of the C code is in
the operators `ResolveClass`, `ResolveBases` and `InheritAttr`, which map memory to
memory; `ok` is FALSE after an error.  `SchemaExact` compares the ancestors,
descendants, attributes and hubs in memory with what the source files imply, and
`LoadFollowsSchema` says that a schema loads exactly if it is `Loadable`.  That
definition has the surprises:

* bases `<<C, B>>` where C is a B fail the load (`knd_class.index.c:216`), `<<B, C>>`
  succeed;
* two classes that are the templates of each other's attributes are refused as a "vicious
  circle", although nothing is circular among their bases;
* names of attributes are checked for conflicts before the inherited ones are known;
* a value of the class itself gives way to one that a later base has
  (`knd_class.resolve.c:67`).

`num_children` is counted twice in a bulk load and is in no property.

### ClassFile (run `Opening`)

`WriteClass` writes the records, `Reopen` starts with entries only, and two tasks
`Acquire` classes: each reads a record item by item (`ReadItem`), which may require other
classes first (`AcquireNeeded`), and publishes its object by a compare-and-swap
(`Publish`, `Kept`).  `stack` is the C stack of `knd_class_read`.  `SnapshotAgain` is a
second snapshot: `knd_class.gsp.c:449` asserts that every class has been loaded.

`Stores` are the memories a snapshot may be taken of.  `StoresAssumption` says what
importing, resolving and indexing leave there: bases and templates that exist, an index of
attributes that is made of the own and the inherited ones, and in force the value of the
last base that has one.  In the run the stores are those that the operators of `Schema`
make of eight schemas in every order of their classes, with references, hubs, inner
values, values along two bases, marks of sets and names of procedures; TLC evaluates the
assumption for each of them.

* `LoadedAsWritten`: every loaded class has the items it was written with.
* `InheritedAsResolved`: it has the attributes it was resolved with, each of them the
  object of the published class that declares it (`of` names the class and the task whose
  object it is: a task that loses the compare-and-swap must go on with the winner's), and
  the values in force are the same, except where two bases give one (`Contested`: the
  first base counts when reading, the last one when loading the sources).
* `FailsForCause`: a load fails only for a record that cannot be read, and succeeds only
  with everything it needs, whatever another task is doing.

Records that cannot be read exist: an INNER attribute that nobody uses is written without
its template, and its class cannot be loaded.

Not restored from files are the counters of ids of classes, attributes and instances;
`Instances` has what follows.

### Strings and Instances (run `Serve`)

`Strings`: `Number` takes the number by a fetch-and-add, `Enter` puts the string into the
dictionary, `AddToIdx` into the set of ids; a task that finds the string entered by
another gives up with a conflict (`GiveUp`), and its number stays unused.
`NumbersDecode`: before the first restart every number that a fetch has returned decodes
to its string, or will when the task that entered the string has added its id, and an id
of the file stands for the same string ever after.  `kndCharSeq.numid` is 0 for strings that were read from a file, so that a snapshot taken
after a restart writes 0 for them: what a file says of strings is checked for files written in
the first run.

`Instances`: the index of names and the index of ids are each made by whichever tasks get
there first (`LoadName`/`CasName`, `LoadIdx`/`CasIdx`).  Then the name is registered as
`knd_shared_dict_set` does it for a commit: `Register` is the first walk, which takes a
pending item for none and keeps `orig_head`; `Push` is the second walk, down to that
head, and the compare-and-swap; `Conflict` the refusal by either; `Promote` makes the item
valid (`knd_class_inst.index.c:147`).  Two tasks that create instances of one name at the
same time can both succeed, and the later item then hides the earlier instance.  `AddId`
puts the id into the other index.  `Snapshot` writes the file, `Reopen` loses the memory,
and the first `Get` fetches all records (`Record`, `RecordId`, `FetchEnds`).  A
snapshot is one step, also while instances are being created; it does not overlap a fetch
or a read of the file it replaces (the code writes to a folder of its own).
`AckedFound`: an instance whose commit succeeded is found by its id, and by its name unless
the creation of another of that name overlapped its own; one that begins later is
refused, whichever task made the indices.  What had succeeded when a snapshot was written
is there again once its file is fetched, with its own values (`AckedKept`, in the same
sense of names).  The model has, and the property
allows for:

* `inst_id_count` starts from 0 after a reopening, so that new instances conflict with
  those of the file (`IdFree`);
* a fetch that overlaps another finds an index that is not filled yet, or no directory,
  where the code asserts that there is one; one that fails leaves the class without a
  directory for good;
* instances of a bulk load are registered by name only and get into no file;
* a record without a name makes the fetch of the whole file fail, and a short name that
  equals the code of a string is read as that string (`Decode`).

### Requests (run `Serve`)

One task and its requests: a class by name in three formats, the descendants of a class
by pages, with clauses of an attribute, or in subsets, and selections on top of an id.
`task` is what `knd_task_reset` leaves alone: `batch_max`, `batch_from`, `start_from` and
`batch_size`.  The callers reset and reuse one task (`shell.c:140`).  `PageWithinBatch` is
what `docs/gsl/class-select-paginate.gsl:13` says, that a listing has at most `_batch`
classes; `Requests_page` shows that a GSL listing does not keep to it: the counter that is
compared with `_batch` (`knd_class.gsl.c:130`) is not the one that is counted up (line
157), so a page is never cut.  `AskedTwiceSame`: a request repeated at once has the
same answer, although the first may have left something behind.  A request with too large a `_batch` is refused after the number has
been stored, so that later requests without one are refused as well
(`knd_class.select.c:369`); `batch_from` stays and overrides a later `_from`.

## 3. Fairness

Steps of a running call are weakly fair: the threads are scheduled by the operating
system and no step waits for another.  A compare-and-swap that can succeed again and
again is strongly fair: a weak one may fail, on the machines the code runs on not for
ever.  Starting a call or a request, and crashing, are not fair.  In `Restore` a
shard that is down is started again.

`RequestsAnswered` needs strong fairness of the push only because other commits may be
pushed in between: a round of the loop is lost only to one of them, and requests are
finite in number.

In `MCShared` only the steps of one task are fair, and its exchange on the list of pages
strongly so: its calls return whatever the others do, also if they stop for good in the
middle of theirs.  That one stands for all of them, since the instance treats tasks
alike.  The exchanges of the set need no strong fairness: one that fails has found the
slot filled, and the add goes on from there.

## 4. Bounds

`NumPages` bounds the sets of `SharedDict`; `Rounds` the requests of a task in
`RepoCommit`; `MaxRequests` and `MaxCrashes` those of `Restore`; `MaxBuilds` the
contexts in `UserCache`.  Two crashes are needed to see the effect of a restore on the
next one, three to crash in the middle of the second.  Sizes of files are small
numbers chosen so that files fill up and rotate.  `Radix = 2` stands for 62 where the
order of a longer log matters.

In `RepoCommit_journals` a record has a byte per class, so that one of two classes can be
cut short and one of a single class cannot.

`MaxCalls` bounds the calls of `SharedSet`, `PoolPages` the pool: three calls are an add that loses, the
one that wins and a get or a traversal beside them.  The ids of its instance put an
element and an inner node under one digit and two ids into one node; two pages for
inner nodes are one too few after a lost race.  `SetFile` has `Base` 4 and bytes of 12
values, so that sizes of two bytes and blocks of all four forms occur with records of
1, 3 and 12 bytes and ids of up to three digits.  `MaxStrs`, `MaxMade` and
`MaxRestarts` bound the numbers of `Strings`, the instances of `Instances`, and the
restarts of both.  The source files of `MCSchema` have three to five classes: every
hierarchy with up to two bases per class, circles and redundant bases included, and
families of values that name classes, lists and inner values.  Values are nested to
depth 2 in `MCValueFile`, texts have up to two paragraphs of up to two sentences in
`MCTextFile`.  `Requests` has a result limit of 2 (500 in the code) and batches up to
3, so that the limit is exceeded, and no bound on the number of requests.

## 5. Proofs

Each theorem holds for every value of the constants that the named assumptions of the
modules allow (finite sets of tasks, sizes that are numbers, `NULL` not among the
values, `MaxJournalSize` with room for the header); TLC evaluates these for the runs.
Where a theorem needs more, its statement says so, and below is why.

| Module | Theorem | States | Supposes |
|---|---|---|---|
| `SharedDictProofs` | `TypeCorrect` | `TypeOK` | |
| | `NamesUnique` | `ValidIsNewest` | `StrictCallers` |
| | `DictImplementsNameMap` | `ImplementsNameMap` | `PlainCallers` |
| | `CallsAnswerTruly` | `AnswersWereTrue` | `PlainCallers` |
| | `SetFileKeeps` | `RecordsKept` | a file of less than 2^31 bytes |
| `SharedSetProofs` | `ListIntact`, `GivenOnce`, `NoMemTrue`, `CounterRight` | `FreeListIntact`, `PageGivenOnce`, `NoMemOnlyWhenFull`, `PagesCounted` | |
| | `NodesAsPaths`, `SetAsMap` | `ImplementsPathSet`, `ImplementsIdMap` | |
| | `CountExact`, `WalkComplete` | `NumElemsExact`, `WalkMissesNothing` | |
| `RepoCommitProofs` | `ChainNumbered`, `JournalsFollow`, `OverrunBounded` | `WellNumbered`, `JournalsFollowLog`, `JournalOverrun` | `~Recycled` |
| | `RepoImplementsCommitLog` | `ImplementsCommitLog` | `~Recycled` |
| `RestoreProofs` | `AckedAreKept`, `IndexComplete` | `AckedSurvive`, `AllCommitsIndexed` | `NoGap` |
| | `InstsStayInOrder` | `InstsInOrder` | `NoGap` |
| | `ReadAsWritten`, `InheritsAsResolved`, `FailsOnlyForCause` | `LoadedAsWritten`, `InheritedAsResolved`, `FailsForCause` | |
| | `TextsAreShown`, `TextsComeBack` | `ShownAsGiven`, `TextRoundTrip` | |
| | `ValuesComeBack` | `ValueRoundTrip` | |
| `StringsProofs` | `StringsKeepNumbers` | `FirstRunDecodes`, `FileKept` | `Proper` |
| `InstancesProofs` | `InstancesKept` | `AckedFound`, `AckedKept` | `Proper` |
| `ServeProofs` | `CellsOneWriter` | `CellsExclusive` | |
| | `NumbersStay`, `InstancesFound` | `NumbersDecode`, `AckedFound` | `CIP!Proper` for the second |
| | `AskedAgain` | `AskedTwiceSame` | |

`PathSetProofs` has what these rest on for the trie: the theorems about `PathSet` itself,
for which nodes are paths.

What is supposed:

* `StrictCallers`: callers neither overwrite nor promote.  The names of attributes and
  proc arguments (`knd_attr.resolve.c:77`, `knd_repo.c:365`) and of the users' repos are
  overwritten; the index of instances promotes, and loses `ValidIsNewest` by it
  (section 2).  The names of classes, procs and strings do neither.  `PlainCallers`: nor
  is a commit given, as with strings (`knd_text.c:93`) and the names read from snapshots.
* `~Recycled`: a commit keeps its memory.  The code does not give it that in
  `parse_class_import`, and `RepoCommit_recycled` shows what follows.  Without it there
  is nothing to prove; with it the rest of the pipeline is right.
* `NoGap`: every agent has its folder.  The search for journals ends at the first agent
  without one, and `AllCommitsIndexed` is false then (section 2).
* Nothing but `StoresAssumption` for the classes of a snapshot.  The numbers of classes,
  bases, values and tasks, the shape of the hierarchy and the order of the requests are
  left open, classes that need each other or themselves included.
* Nothing but `TextsAssumption` for texts: a record is made of sequences, and a sentence
  has one statement at most.  The grammar is any: the theorems do not depend on what the
  four operators say about a clause.
* A file of less than 2^31 bytes (`2 * Len(file) < Byte4`), for `RecordsKept`.  A longer
  one may have a part whose size `knd_unpack_u32` takes for one near 2^64, and then
  opening it fails (`knd_LIMIT`, `knd_IO_FAIL`).  The rest is `SetFileAssumption`:
  `Base + 2` digits and marks fit into a byte, sizes have up to four bytes, ids up to
  `IdSize` digits, and a record is not empty and has no zero byte, because a linear block
  separates its records by one and an empty cell says that there is none.
* `Proper`: `NULL` is not a string, a number or an index.  In `Requests` it is an
  assumption of the module, with the types of the hierarchy.

Why the invariants are what they are:

* `SharedDict`.  Of a thread between its first walk and its push, no valid item with
  its key lies below `orig_head` (it may have been removed, it cannot have become
  valid again); of one about to compare, nothing with its key lies between
  `orig_head` and the head it loaded.  If the compare-and-swap succeeds the head is
  still that one, and both together say that the name is free.  `DictImplementsNameMap`
  uses the same invariant.  For `CallsAnswerTruly`, `SeenSoFar` says that what a walk
  would answer is among what its name has shown since the call began (`WalkSeen`), and
  that a name pushed meanwhile was seen bound (`PushSeen`).
* `MemPool` (in `SharedSetProofs`).  The free pages are those from the head on, in their
  first order (`InOrder`), and a task about to compare holds the right link if its page is
  still the head (`LinksRight`).  `CounterRight` counts: the pages given away are the ones
  counted and one for each task that has yet to count.
* `SharedSet`.  Two steps.  That the nodes are the paths: a linked node hangs in one slot
  only, with the digits of the node it hangs in and one more, and no two linked nodes have
  the same digits (`Hangs`); a task on its way down is in the linked node of the digits it
  has consumed (`TaskOK`); the node it has made and not linked is nobody else's and empty
  (`Own`).  The exchange keeps this because the slot is empty, so that the node which comes
  into it replaces none (`Filled`); with a plain store two linked nodes would have the same
  digits, and what hangs below the first would be lost.  This gives `NodesAsPaths`.
  Then everything else is shown of `PathSet` (in `PathSetProofs`) and carried over: nothing
  is taken out there, so a task on its way down needs to remember only that the nodes it
  came through are linked (`OnTheWay`); a get that meets a missing node is a lookup of
  an absent id at that moment, which gives the refinement of `IdMap`; of a walk, `WalkInv`
  says that what was there at its beginning was either seen or lies under a slot still to
  do, and that the slots are in order.
* `RepoCommit`.  What a task noted of the head (`NotedHead`) stays right for that
  commit, and its compare-and-swap succeeds only on that one.  The names of a commit
  are in the index before it is in the list (`NamesIndexed`) and it is in the list before
  it is counted (`CountsBehind`), so that a commit creates no name of the state it
  started from, which is what `CommitLog` asks of a push.
* `Restore`.  An acknowledged request has a record and records stay; what has a record
  is in `commit_idx` after the reading (`Indexed`); what is there and not left to be
  applied is in the indices (`known`, `Applied`); a journal that is written in a restore gets
  only what the index has (`Confirmed`).  None of this speaks of the list, which a restored
  class import cuts off.  `Ordered` adds that the number of a record is that
  of its request or less, that the list and each journal are in the order of the
  numbers, and that new numbers are above all that were restored (`Fresh`), as long as the
  commits are of instances and their ids have one digit (`Calm`): then the trie is walked in
  the order of the numbers (`InOrder`), and the list has all that is known.
  `VisitedBefore` is a recursive function; that it is the one its equation describes
  (`Visited`) is shown by induction on the number.
* `ClassFile`.  Of every class being read, the items still to read are what the record has
  after so many glosses, bases, values of the last base, attributes, ancestors, children,
  hubs (`Left`), and the object is what those items make (`FrameRead`): its lists are the
  first parts of the written ones, and its index has what the bases so far have.  Which
  value is then in force (`InForce`) takes knowing, after each base and each of its
  values, who has spoken; at the end of the record it is `IdxResolved` again (`FrameEnd`).
  Every attribute is the object of a published class or of the class being read by this
  task (`Theirs`), so the loser of a compare-and-swap, whose object is in no index, is
  forgotten.  Of the stack, each reading waits for the class of the one above it
  (`StackOK`); so all of them are in the `Reach` of the class that was asked for, an
  error has its cause there, and a class that comes twice needs itself.  A published
  class has everything it needs published (`Published`): thus `said = "ok"` means all of
  `Reach`.  `FilesInv` is their conjunction; none of the three properties is inductive
  without it.
* `TextFile`.  The invariant says that the record given and the language decide what is
  shown, kept and read (`TextInv`).  The rest is about the operators: the first element of
  the reversed list is the last one given (`RenderingNewest`), and the record that is
  written has the places of the one that was given (`WrittenSents`), with the statement in
  memory in place of the one given, so that what is made of it again has all of that
  (`SentComesBack`) and is refused nowhere (`WrittenIsRead`).
* `SetFile`.  The invariant (`FileInv`) says that the file is what `Marshall` makes of the
  set, and what was opened is what the set holds (`CallsFor`).  All the work is in two
  lemmas about the operators.  `Written`, `FooterAt`, `TableAt`, `LinearAt` and `BlockAt`
  say where a sequence of bytes, a footer, records or sub-blocks with their footer, and a
  block are in the file; that a reader which starts there gets back what was written rests
  on the packing of sizes (`PackedIs`), on the sums of sizes being places (`TotalTo`), and,
  for linear blocks, on records having no zero byte.  `FileGives`: reading a block gives
  its records if reading those of its sub-nodes does (`NextGives`), by induction on the
  levels below (`BlocksGive`); the records of different digits are different, so that the
  counts add up.  `Fetched`: after each digit of an id the block looked at is that of the
  node there (`Reached`, `WayLeads`), and the one scan that stops early stops only at a
  digit beyond the one it looks for.  That the recursive functions are what their
  equations say is shown first (`LevelsExist`, `WaysExist`, `Iteration`).
* `ValueFile` (in `RestoreProofs`).  What there is was made of the value given, by the
  operators of the steps before (`MadeOf`); the work is about these operators, place by
  place.  What is at a place of a value of a kept shape is one of nine things (`Shapes`:
  outside a list an array, an inner value, a word, a class or a text; in one an inner
  value with or without its implied attribute, a class or a string).  For each of them it
  is shown what is resolved (`ResolvedAt`), that the writer comes there and what it writes
  (`AllWritten`, `WrittenAt`), and what is read (`ReadBack`), which takes that the reader
  has the right attribute and class there: by induction on the depth, as the ids of a
  class's attributes tell them apart (`ContextIs`, `DeclarationIs`).  No value of a kept
  shape gets a child for an implied attribute (`NoImplied`), so that the places are those
  that were given.
* `Strings`.  What is bound stays bound until the process dies, and each
  task's place in its call says what it has bound (`TaskOK`).
* `Instances`.  The name of an entry can be pushed over, so the invariant says by what:
  of two items of a name that lie one above the other, the lower one was not acknowledged
  when the entry of the upper one was made (it is not in its `after`), because an item
  acknowledged by then is no longer pending and the first walk of the upper one stops at it.
  That takes that pending items are not acknowledged, that the entries being created belong to
  different tasks, and that what a task noted as `orig_head` is a part of the list.  A
  fetch that comes to the end of the file has bound all of it, because no snapshot
  replaces the file meanwhile.
* `UserCache` (in `ServeProofs`).  A cell closed to readers has a live writer
  (`HasLiveWriter`): one that stops being live does so because another one swaps, and
  that one is live then.  That each context is stored once takes that a context about to
  be stored is in no cell (`CtxNew`).
* `Requests` (in `ServeProofs`).  The answer is that of the request in the task it *left*
  (`RequestsInv`), because options given once are given again without effect.  The
  loops over a set and over the hubs are recursive functions; what they compute for any
  length is proved by induction over sets of numbers (`UpTo`, from the theorem `WFMin`
  about well-founded relations).

`ServeProofs` takes the theorems about `Strings` and `Instances` from their modules
(`INSTANCE`) and shows that the steps of `MCServe` are theirs; `SharedSetProofs` does the
same with `PathSetProofs`.

Only model-checked:

* liveness (`OpeningEnds`, `RequestsAnswered`, the calls that return): fairness and
  `ENABLED` are beyond the prover;
* of the run `Files`, `Schema` and the grammar of clauses (`TidyTextsServed`): they follow
  the code's recursion over data with RECURSIVE operators, which the prover's main backend
  does not accept.  That `Schema` establishes `StoresAssumption` is therefore checked (run
  `Opening`) and not proved;
* the properties that are violated, for which the runs give counterexamples.

## 6. Not modelled

* Formatting: the wording of the exports to JSON, GSL, HTML and SVG, and the GSL parser.
  A request's answer is the list of what it shows.
* Updates of classes and their states, logic clauses of queries, dates.
* The index and the search of texts (`knd_text.index.c`, `knd_text.search.c`).
* Procs, which are registered and committed as classes are.
* Memory ordering: all atomics are sequentially consistent here.  The code uses
  relaxed loads in places (`knd_shared_dict.c:54`), which x86 does not reorder with
  the stores they depend on.
* The mempools of single tasks, but for the recycling of commits.
* Commits of a Reader or Writer, which delegate to an arbiter: nothing in the
  repository receives what they delegate.
* A journal with a part of a record in it, as a reader sees it (`Restore`); `RepoCommit` has
  the writer's side.
* Of the hazards that `PROJECT.json` lists some are in no property; each has a note that
  says why.  Those of the user contexts are real and the code is exposed to them
  (section 2, `UserCache`).
* Files that are not built: `knd_queue.c`, `knd_storage.c`, `knd_shared_idx.c`,
  `knd_shard.config.c`, `knd_shard_runtime.c`, `knd_permit.c`, `knd_class.compute.c`,
  `knd_commit.json.c`, `knd_proc.gsp.c`, `knd_date.c`.

## 7. Plan

1. (done) `SharedDict`, `RepoCommit`, `Restore`, `MemPool`, `UserCache`.
2. (done) `SharedSet`, `SetFile`, `Strings`, `Instances`, `ValueFile`, `TextFile`,
   `Schema`, `ClassFile`, `Requests`.
3. (done) Proofs about `SharedSet`, `RepoCommit`, `Restore`, `Strings`, `Instances`,
   `UserCache`, `Requests`, and the rest of `SharedDict` and `MemPool`; `PathSet` between
   `SharedSet` and `IdMap`.
4. (done) `ClassFile` for any stores: what is read, what is inherited, why it fails.
   `TextFile` for any texts and any grammar.
5. (done) `SetFile` for any set, base and depth; `ValueFile` for any values.
6. Left for whoever extends the models: proofs about `Schema`, whose recursions over the
   classes would become functions as those of `SetFile` did; `RepoCommit` with updates,
   removals and procs; the files of an agent in `Restore`, beyond `KND_MAX_JOURNALS`, and
   records that were cut short; the output buffers of a task.
