# A TLA+ model of hansei

hansei is a post-mortem debugger for Rust programs that run on tokio. It reads
a core dump (illumos or Linux), pairs it with a `tokio-info` bundle extracted
from the program's DWARF, finds every task the process held, and answers
questions about them: what each task waits for, who could wake it, what its
future's state is, which runtime owns it.

The debugger has no retry and no second source: the target is frozen, often
damaged, and whatever the analysis gets wrong is reported to a person as fact.
That is what the properties here are about: nothing is lost without a report,
nothing is read twice or out of a selection's bounds, and no answer depends on
the order in which evidence happened to be met.

## Inventory of the system

| part | state it keeps | operations | what is hard | what makes it correct |
|---|---|---|---|---|
| `hansei-runtime/src/tokio/{work,discovery,bundle}.rs`: hidden-task discovery | a store of task records, admitted owners, seven FIFOs of work, retained links | list walks, thread-local probe, validation of finds, scans, registry and pool harvests, scope, projection | order of routes, damaged lists, the work cap, an excluded runtime met by a route | every reachable task is found once, an excluded runtime is never read, damage is reported, no row depends on the order of routes |
| `exegesis/src/{reader,string_table,cgu}.rs`: the DWARF reader | string and namespace tables shared by worker threads, a bounded channel, the collector's maps; then a substitution map, a worklist of groups of types | parse units in parallel, intern, send, ingest; partition types, place declarations, merge the nameless | racing interners, back-pressure, the first error; stale partitions, two releases of one crate | the result of a parallel read is that of a serial one; two copies are one type exactly when they agree all the way down |
| `hansei/src/{cursor,repl,main,tasks,futures,threads}.rs`: the session's cursor | a cursor (lwp, root, pinned future, frame, `$_`) | selectors, frame moves, scoped commands, `--exec` loops, quit | nested scopes and loops, early returns | the coordinates agree; only selectors and moves outside scopes move it |
| `hansei/src/main.rs`: the session's cells | thirteen once-computed cells, three audit flags | a launch worker, adopt, fold, listings that ask for one another's inputs | a worker that dies half way, an initialisation that asks for itself | every answer descends from one census and one sweep |
| `hansei/src/{repl,pager}.rs`: the prompt | two channels, a completer's cache, a pager's state, SIGINT's disposition | prompts, lines, questions mid-line, paging | two threads, one terminal | one reader of the terminal; nobody waits for nobody |
| `hansei-runtime/src/tokio/wakers.rs`: the waker sweep | chunks, a shared counter, each worker's matches | plan, claim, search, pair, name, classify | parallel claims, chunk seams, unreadable pages, dead wakers in freed memory | every waker of owned memory is listed once, whoever found it |
| `hansei-runtime/src/tokio/{assess,observe,graph}.rs`: what a task waits on | observations of one pass, verdicts | observe a queue, a list, a channel; decide by the resource's protocol; barriers, what is behind them, cycles | a core taken inside a call of another thread; words of one protocol from different moments | no verdict the program's next poll contradicts; a futurelock or a cycle claimed is one |
| `hansei-runtime/src/tokio/{waitset,attribution}.rs`: who is behind a wait | wait sets, attributions | decode wait lists, join and rank evidence | conflicting evidence | evidence joined without regard to order |
| `hansei-runtime/src/tokio/{census,observe,chain}.rs`: the future census | rows of futures, sets and join sets, the spans of set nodes, a visited set, reports | scan a task's frames, follow chains, pointers, containers and node lists | bent links, freed storage, sharing, bounds | every future of a sound target is one row; what is missing or damaged is said |
| `hansei-runtime/src/tokio/{scan,contract,graph,pairing,stackjoin}.rs` | none between calls | rules over the census | large pure functions | |
| `hansei-runtime/src/heap`: the umem heap view | caches, slabs, parked buffers, arena extents, counts of what was declined | walk each layer, cross-check it, fold, give a verdict on an address | a core caught inside `malloc`, a layer missing or at odds | never wrongly freed; a walk that covered less says so |
| `hansei-runtime/src/capture.rs`, `proc/src/snapshot.rs` | a log of reads shared by threads, runs already covered | record, merge, replay | reads logged out of order, seams | a replay answers what the capture answered |
| `proc/src/coredump`: core files | segments, file mappings, files opened | read, and find how far a read may go | pages left to files that are gone or another build | a byte is read from the image the process ran, or refused |
| `hansei-bundle`: the bundle's schema, checks, reading and writing | a document | write, read, validate | partial files | what is read is what was written |
| `unwind`, `reify` | none between calls | unwinding by CFI, rendering values | pure functions of the core | they end, and stay in bounds |
| `hansei` listings, summaries and graph output | none | formatting | none | |

How they interact. A session attaches to a target (`proc`) with a bundle
(`exegesis`, `hansei-bundle`), runs discovery once (`discover_hidden_tasks`),
then launches a worker thread that computes extents, census and sweep while the
session prepares its listings, adopts what the worker built, and answers lines.
A line's commands move or borrow the cursor and read the cells; at a terminal
the lines come from the editor's thread over a channel, whose completer asks the
session questions over the same channel, and the answers go through a pager.

`PROJECT.json` lists every part under `components`, with the reason for the ones
left out, and under `hazards` what is hard to test, at its line.

## The modules

| module | what it models | checked by | proved in |
|---|---|---|---|
| `Discovery` | the discovery of a session: `Context::enumerate_all_tasks`, the thread-local probe, `work::sweep`, `discovery::TaskStore`, `apply_scope`, the projection to rows | `MCDiscovery`, `MCDiscoveryDamaged` | `DiscoveryProofs` |
| `CguReader` | `DwReader::read_jobs`: workers, `ShardedInterner`, `ShardedNamespaces`, the channel, the collector, `compiler_producer`, `group_key` | `MCCguReader` | `CguReaderProofs` |
| `TypeIdentity` | `DwReader::finalize_types`: the partition of definitions, the worklist, the placing of declarations, the merging of pointers and arrays | `MCTypeIdentity` | |
| `CoreFile` | a Linux core as `proc/src/coredump/linux.rs` serves it (an illumos core is the case without file mappings) | `MCWakerSweep` | |
| `Recorder` | `proc/src/snapshot.rs`: the read log, `merge_reads`, the snapshot's reads | `MCWakerSweep` | |
| `WakerScan` | what a waker sweep promises: the abstract specification | through `WakerSweep` | |
| `WakerSweep` | `wakers.rs`: the parallel sweep of a core through a recorder, then of the snapshot; extends `CoreFile` and `Recorder`, implements `WakerScan` | `MCWakerSweep` | |
| `Census` | `census.rs` with what it uses of `observe.rs` and `chain.rs` | `MCCensus` | `CensusProofs` |
| `Umem` | libumem and the core taken of it (external: modelled from what `heap/umem.rs` reads and says of it) | `MCUmemHeap` | |
| `UmemHeap` | the walk and the index of `heap/umem.rs`; extends `Umem` | `MCUmemHeap` | |
| `Tokio` | a one-worker tokio runtime and the program's other threads (external: modelled from what `assess.rs`, `observe.rs` and `bundle.rs` read and say of it) | `MCAssessWait` | `TokioProofs` |
| `AssessWait` | the verdicts of `assess.rs` on the observations of `bundle.rs` and `observe.rs`, the polling barriers, `Analysis::behind`, the cycles of `hansei/src/graph.rs`; extends `Tokio` | `MCAssessWait` | `AssessProofs` |
| `SessionCursor` | `cursor.rs` and the execution of lines in `repl.rs`, `main.rs` and the three `exec_exec` loops | `MCSessionCursor` | `SessionCursorProofs` |
| `SessionCells` | the cells of `Session`, `warm_worker`, `warm_listings`, `adopt`, `fold`, `first_audit` | itself | `SessionCellsProofs` |
| `Prompt` | `interactive`, `edit_loop`, `LineCompleter::answer`, `PagerSink`, `Interrupts` | `MCPrompt` | `PromptProofs` |

The compositions follow the code's own calls. `WakerSweep` reads its target
through `Recorder` over `CoreFile`, and sweeps again over the snapshot the
recording makes, because the sweep tells the two kinds of target apart.
`UmemHeap` reads the core `Umem` leaves, wherever the program stood, and
`AssessWait` judges the program of `Tokio` in every state. The other
modules have separate state: `SessionCursor` takes the cells' contents as
constants (which chains, finds and rows the target has), `SessionCells` takes
discovery's population as settled before the launch, as the code does, `Prompt`
takes the execution of a line as steps that may write, move the cursor, fail or
quit, `TypeIdentity` takes the DIEs as `CguReader` collects them, and `Census`
takes the allocator's verdicts as part of the target.

### Discovery

The target is frozen, so everything that is read from it is one immutable record,
`world`, chosen in the initial state: list heads and links, ids, cells, headers,
references, registries, pool queues, the runtimes the threads' contexts reach,
the selection and the cap. The session is one thread: for each world the
behaviour is deterministic, and TLC's states are the worlds times the steps.
`phase` follows the session: `enumerate` (list walks of the runtimes the contexts
reach), `probe` (local sets in thread-locals), `schedule` (owners admitted so
far put on the queue), `sweep` (one action per kind of work, in the queue's
priority order, `Before`), `done`. A walk of an intrusive list is a step per
node, with the visited set the code keeps; `WalkFails` is its every early return.
`Observe` is `TaskStore::observe`: sources (the references capped at
`RetainedReferences` and then only counted), kinds, claims. `Scope` is
`apply_scope`, stated as the least closed set that its breadth-first walk
computes.

### CguReader

A worker takes a unit, parses it, interns its namespaces parent first, its types
and its producer, and sends the result. `Intern` is one locked operation on a
string's shard; a namespace is found under a shard's lock (`FindSpace`), its
parent's depth read under the parent's (`ReadDepth`), then found again or
inserted under its own (`InsertSpace`): three steps, because the code releases
the lock between them. Ids encode shard and position with the width of the table
(`Encode`). The collector ingests in arrival order into maps keyed by unit; on
an error the flag is raised and the units left are dropped.

### TypeIdentity

A program is its type DIEs: kind, name, size, alignment, the two lists of
references (either of which a unit may leave out), whether the DIE is a bare
declaration, and its unit. `Link` resolves
specifications and partitions every group by name; `StartCascade` seeds the
worklist, `Pass` partitions again by class the groups on it, `EndCascade` leaves
when it is empty; `Place` gives the declarations between classes to the class
their unit's siblings are in and starts over; `MergeAnonymous`
merges nameless pointers and arrays by their targets. A pass's groups are
partitioned in parallel in the code, from one map and independently, so a pass
is one step. `Dependencies` is which groups a change puts back on the worklist.
Two references are the same when their names are; two of which one or both have
none, when they are pointers or arrays of the same thing (`SameIdentity`), and
alignment counts for base types and enums only. `Coarsest` is the reference
definition: all definitions of a kind and name are taken for one at first, and
pairs that differ, in layout or through a reference, are struck out until none do.

### CoreFile, Recorder, WakerSweep and WakerScan

A core never changes while it is read, so `CoreFile` is operators over a record:
which segment or file mapping holds an address, how far a read may go, whether a
file on disk is the image the core ran (`OpenBacking`, by build id), the readable
runs hunted past holes page by page. `Recorder` is the same for the log: `Covers`
and `Cover` keep the runs already logged, `MergeReads` makes segments of which
the latest read of a byte wins.

`WakerSweep` is a state machine: prior reads of an analysis, a plan of
overlapping chunks, workers that claim a chunk from the shared counter, read it,
search it and only then log it (two steps, so that logs land in any order), the
join that sorts, deduplicates, pairs, names and classifies, then the snapshot
and the second sweep. The search for vtables before it reads the words beside each
candidate record, and those reads are logged too (`CompanionReads`). `WakerScan` has two variables and one action per target:
it lists every aligned word of readable memory that holds a known vtable's
address and whose companion reads, admitting those that wake a listed task or
node from memory the program owns. `SweepIsSerial` is `Scan!Spec` under the
mapping of a classified hit to its slot and whether it is admitted.

### Census

The recursion of `Walker` is a stack of finds still to record (`work`), innermost
first, so one action records one find. A value stands for its (address, type),
which is the key the code's visited set uses. `Fresh` is the check of the visited set, `Alias` that of a wrapper
whose future is already listed; `TooFar` counts what the bound cuts off; `Admit`
the checks a node passes before it is read; `RouteRefused` what the allocator says
of the future a pointer leads to, freed or longer than the block it is in. By-value holding is a forest, as it
is in memory; awaiting and pointing are any graph.

### Umem and UmemHeap

`Umem` allocates and frees at the layer the request reaches: a thread's list, a
CPU's loaded and previous magazines, the depot, the slab with its freelist,
count and hash table, an arena. An operation may be caught after some of its
stores (`Caught`, for the layers in `Torn`), and otherwise the core may have one
structure missing or at odds with another (`Damaged`, for the kinds in
`Faults`): one tear or one fault per core, which is what a cross-check can be
asked to survive. One kind of fault is written down and left out of the run,
`"live"` (`OddLive`): a thread's list, a CPU's round or the last link of a
freelist overwritten by the address of a buffer the program holds, of the very
cache the list or round belongs to, with every count left right. Nothing in such
a core is at odds with anything, the walk calls the buffer free, and TLC refutes
`NeverWronglyFreed` at once with `Faults = {"live"}`. So the property is about
damage that shows; a list or round that leads anywhere else, a freelist that
runs on into a held buffer past its count included, is in the run. `UmemHeap` is `Walk::run` part by part: each cache with its
slabs, hash table, depot and CPUs, then `DropOverlaps`, `WalkPtc`, `FoldParked`,
`WalkArenas`; every early return of the walk is a condition of the part it
declines. `Locate` is the index's verdict.

### Tokio and AssessWait

`Tokio` is the part of tokio whose words the debugger reads: the state word of a
task and its trailer, the batch semaphore with its queue and lock, `Notify` with
its list, state and count of calls, a oneshot, a bounded channel with its blocks
and the receiver's `AtomicWaker`. A call is as many steps as it has stores that
another thread, or a core, may see between: `add_permits` hands out permits
waiter by waiter under the lock and wakes after it; `notify_waiters` takes the
list, then notifies in batches between which the lock is let go; a send claims
its slot, links its block and sets the ready bit, and then takes the waker in two
steps. A task starts, polls, parks, is starved of its budget and deferred, is
aborted, drops what it holds one thing after another, completes and wakes its
joiner. Which futures a task awaits, in which shape (a plain await, a waker
relayed by another executor, a wrapper that polls a kept future too, a select),
and which calls the other threads make, is the program, a constant.

`AssessWait` adds no state of the debugger's: a core does not change while it is
read, so every verdict is an operator on the program's state and on a view, what
the core and the bundle let the debugger see. Each protocol is the list of its
checks in the code's order (`Decide`), each with the answer its early return
gives. `Capture` takes a core and keeps what its analysis says of the future (the
barriers, the waits behind them, the cycles); the program then goes on and is held
to it. `Cycles` are the paths that may be marked: whether the listing reaches a
given one is its order of printing.

### SessionCursor

The execution of a line is a stack: words to answer, a parsed command to
dispatch, an answer to flush, a cursor to restore after a scoped command, a loop
over rows. A return pops it with `ok`, `error` or `quit`, so that every `?` of
the code is a transition, including the ones that leave a loop. `home` and
`asked` are history.

### SessionCells

Every cell holds its lineage: which thread built it and what it was built from.
The session's thread runs a program of small instructions (ask for a cell, fill
it, put beside it, check, expect) translated from the accessors; asking for an
empty cell pushes the body of its initialiser. The worker fills extents, census
and sweep in order and may stand down or panic between any two.

### Prompt

Each thread is a program counter. `session` is `interactive`'s: sending a
prompt, waiting for an event, running a line, waiting for a pager, closing.
`editor` is `edit_loop`'s. The pager's process and its user are the environment:
a pager reads, stops reading or exits whenever it likes. `InterruptKills` is the
default disposition of SIGINT, enabled wherever it is not parked and the editor
does not hold the terminal in raw mode.

## What the runs check

| run | states | shows |
|---|---|---|
| `discovery_healthy` | 183,000 | `PopulationComplete`: the sweep finds exactly the least set the target's links define; `RowsRouteFree`: each row's owner and kind are what all the evidence adds up to |
| `discovery_damaged` | 92,000 | `ExcludedNeverRead`, `ScannedNeverExcluded`, `NoLateExclusion`: a selection stays a filter; `SweepAccounts`: nothing is queued twice or dropped and the final scope leaves no row out, and damage met is reported; `Terminates`, with lists and references that loop |
| `reader_read` | 113,000 | `ReadIsSerial`: types spelled as the debug information spells them, grouped by path, one compiler, whatever the order, and a failed unit is an error; `Settles` |
| `types_settle` | 55,000 | `IdentitySettles`: the worklist ends where whole passes would, and there on the coarsest identity; `DeclarationsGoHome`: a declaration goes to the release its unit links, or is reported; `EveryLoopEnds`: before the cap on passes |
| `session_commands` | 506,000 | `CursorHolds`: the coordinates agree; `CursorComesBack`, `QuestionsAreTheCursors`; `EveryLineEnds`, with answers whose reader may leave at any write |
| `session_output` | violation | a finding: a failed write inside `--exec` leaves the cursor on the loop's row |
| `cells_launch` | 4,400 | `OneLineage`: every answer descends from one census and one sweep, and nothing built is thrown away; `AccessorsHold`: no accessor panics and a warm session is complete and audited once; `Answers` |
| `prompt_session` | 16,000 | `OneReader`, `LabelIsCurrent`, `SomethingIsOnItsWay`, `LinesRunInOrder`, `OffersAreFresh`, `NotKilledUnderThePager`; `NobodyHangs`: the session ends once its input does, and every question is answered |
| `sweep_replay` | 41,000 | `SweepIsSerial`: the parallel sweep implements `WakerScan`, over the core and over its snapshot; `ReplayIsFaithful`: whatever a reader was lent, the snapshot lends |
| `census_bent` | 187,000 | `CompleteUnlessItSaysSo`, `NoRowTwiceNorFreed`, `ViasNameTheHolder`, `DamageIsNamed`; `WalkMakesHeadway`: every step records something new or has less to do |
| `heap_damaged` | 1,199,000 | `NeverWronglyFreed`, `MissingIsSaid`, `SelfCheckIsClean` |
| `assess_verdicts` | 376,000 | `VerdictIsTrue`: of a verified wait a poll would find nothing, of a ready resource the next poll returns; `RestIsDecided`: a program at rest and seen whole is decided; `FuturelockHolds`: a kept acquire is not polled, nor anyone served behind it; `CyclesAreStuck`: a marked cycle is a deadlock |

Every property of a passing run has a mutant in `PROJECT.json`: the definition
the code's slip would change, changed, and the property found violated. The
mutated forms are the `Mut...` definitions.

### Bounds, and why they are enough

- Discovery: three tasks, two runtimes (one of them under two flavors in the
  damaged run) and a local set. Three tasks are what it takes to have a task
  found by a task found by a list; three owners, an included one, an excluded one
  and one no context reaches. `RetainedReferences = 1` makes the second reference
  already the counted one. The healthy run takes every placement of the tasks;
  the damaged one every tangle of three nodes' links and a product of
  contradicting ids, cells, pools and selections. `limit` is 99 (never reached)
  or small enough to cut the sweep.
- CguReader: three workers, a one-slot channel, two shards, up to three units.
  Three workers race for one namespace while a fourth party, the collector, is
  behind. `IdSpace = 32` is never exhausted; the code's table of 2^24 strings per
  shard would wrap, and no program's debug information comes near it.
- SessionCursor: three tasks (one without an id), three futures (two at one
  address, one a child node), two lwps, two dozen lines in any order without
  limit, each write allowed to fail; loops run over all rows; scopes and loops nest as deep as the lines
  write them.
- TypeIdentity: eight DIEs, eight thousand programs in five families: pointers with
  and without a name (copies that mix them as long as the copy walked is not the
  only one that goes by the name, or the targets are alike: see the divergences),
  layers three deep with every list
  present or left out, definitions linked to declarations, lists that refer to
  themselves, and four units of two releases of a crate. `MaxPasses = 12` is more
  than any of them needs, and `EveryLoopEnds` says so.
- WakerSweep: two workers and chunks of two words over a dozen words, so that
  every word is at some chunk's seam; a vtable whose two halves are alike, so that
  its bytes match across two words; pages dumped, undumped, missing and unlisted;
  an allocator or none; two prior reads that touch and are off the alignment; a
  candidate whose companion lies past the chunk's end.
- Census: eleven values; lists of three nodes whose links take every value; two
  tasks; containers with wrong counts; `MAX_NESTING = 1` and `MAX_CHILDREN = 2`
  are the smallest bounds with something on either side of them.
- Heap: two caches (three slabs), three magazines of one round, one CPU, two
  threads with a list each, two arenas; a program works the small cache or the rest.
  `Torn = {"slab", "depot"}`, every kind of fault but `"live"`. More rounds or CPUs repeat the
  same checks; a magazine of one round is empty and full in one step, so that
  exchanges and the depot are reached soon.
- AssessWait: three tasks and two other threads, in six programs: three acquires
  on a semaphore (one of two permits, one with a relayed waker) against two
  `add_permits` and a close; `notify_one` against `notify_waiters` with an abort;
  a kept acquire with a waiter ahead of it and one behind, under a plain await and
  under a wrapper that would poll it; two tasks that join each other, one of them
  perhaps through a select; a bounded channel of two senders closed from either
  end; a oneshot or an acquire starved of its first polls. `Batch = 1` puts a lock
  released between any two notified waiters, `BlockCap = 2` a block's end inside
  three messages. One worker polls: tasks interleave at their polls and with every
  step of the other threads. Five views: the whole core, a lock no rule decodes,
  lists cut at one node, missing memory, an unreviewed primitive with a task of
  uncertain kind.
- SessionCells: three commands after the launch, from any of the programs that
  reach a cell; with and without `--audit`, warmed and not.
- Prompt: two places for the cursor and two lines (`MaxLines`), with any number
  of questions, interrupts and pagers in between; a second line is what it takes
  to have one typed while the first is being answered.

Deadlock is checked wherever a system has something left to do. The runs that say
`CHECK_DEADLOCK FALSE` end in a state with nothing to do: the walk, the read and
the settling of types finish, and so do a session, a prompt and a program of
`Tokio`, which may also deadlock: that is what some of its tasks are there for.

### Fairness

- `Discovery!FairSpec`, `CguReader!Spec`: weak fairness of the whole next-state
  relation. The sweep is a loop that waits for nothing; the reader's threads are
  a rayon pool and a receiving loop, and some one of them runs whenever one can.
- `SessionCursor`: weak fairness of `Execute` only; the user need not type and
  the reader of an answer need not leave.
- `SessionCells`: weak fairness of each of the two threads.
- `AssessWait` states no fairness: its claims about what comes next are that
  something does not happen.
- `TypeIdentity`, `Census` and `UmemHeap` state no fairness: they are loops of one
  thread, and that they end is the safety property that every step makes
  headway (`WalkMakesHeadway`) or stays below the cap (`EveryLoopEnds`).
  `SweepIsSerial` is a safety refinement.
- `Prompt`: weak fairness of the session's and of the editor's own steps. The
  user's keystrokes, the pager's exit and the editor's panics are never assumed.
  `NobodyHangs` therefore holds of a user who walks away.

## What is proved

### Discovery's selection

For every set of tasks, runtimes, handles, local sets and ids, every bound on
retained references and every set of targets, of any size and damage:

- `DiscoveryProofs!TypeCorrect`: `Spec => []TypeOK`.
- `DiscoveryProofs!ExclusionHolds`: `Spec => []ExclusionInv`, the inductive
  invariant, and from it `SelectionIsAFilter` (`[]ExcludedNeverRead`),
  `ScansStayInSelection` (`[]ScannedNeverExcluded`) and `ExclusionIsNeverLate`
  (`NoLateExclusion`).

The assumption is `ConstantsAssumption`: the sets are disjoint and hold none of
the markers, `HandleOf` maps runtimes to handles, and every world is well typed,
its selected runtimes are not excluded and no handle is listed twice. TLC
evaluates it on every run.

The argument. That no record carries what an excluded runtime's list, registries
or pool said is not inductive: the claim must hold of the work that will file
records. `ExclusionInv` adds `FrontierIncluded`: everything the session still has
to do (the runtimes to enumerate, the walk in progress, each queue, each pending
find) comes from an included owner or from a task that has a record. And that a
scanned task never becomes excluded-owned needs what may happen to one record in
a step: `RecordStep` says that a record that exists only gains claims of included
owners (a cell's claim, the one route by which an excluded owner enters, is made
when the record is created), so a record that was not owned by an excluded
runtime alone stays so. `StoreStep` proves it action by action, `FrontierStep`
the frontier, and `ExclusionHolds` puts them together.

### Discovery's accounts

For the same targets, and with no assumption besides:

- `DiscoveryProofs!BooksHold`: `Spec => []BooksInv`, and from it
  `NoWorkTwiceOrLost` (`[]WorkAccounting`).
- `DiscoveryProofs!ScopeHolds`: `Spec => []ScopeInv`, and from it
  `ScopeNeverRemoves` (`[]ScopeIsTotal`).
- `DiscoveryProofs!DamageHolds`: `Spec => []DamageInv`, and from the three
  `SweepKeepsAccounts` (`[]SweepAccounts`).

The argument for the books. That the counts add up needs that an owner is
scheduled once and only when admitted, and that a record is queued for a scan in
the very step in which it becomes resident: `FrontierAdmitted`, `OwnersBooked`,
`ScansBooked`. There are two dozen actions and few things any of them does to a
count, so every step is first shown to be one of a few moves (`Stays`, `Takes`,
`Adds` of the owners' work, `ScansStay`, `ScansGain`, `ScansTake` of the scans),
and the counts are argued once for each move.

For the scope. `apply_scope` computes a least fixed point, about which nothing can
be proved by induction over its rounds here. It is not needed: `ScopeInv` says that
*every* set closed under the scope's rule holds all records and all admitted
owners. What a record leads to only grows (`Files`, `Marks`, `Rescopes` are all a
step may do to records), and what a step adds is led to by what it was found from.

For the damage. The links of an owner's lists are numbered, a head's by its place
and a node's by its node. `Shape` says what a walk that has followed some of them
has seen: each link followed but the one it stands at leads to a node met or out of
the list, every node met is led to by one of them, and a link that leads twice to a
node or out of mapped memory has been reported. A walk that ends has followed all
of them (`WalkCompletes`: what it met is closed under the links, so it is the
least such set, and finite although the set of tasks need not be). `Covered`
carries that to the end of the sweep: an owner's lists wait (`Pending`), are being
walked, or were read to the end (`Complete`). `BentIsDamaged` turns two links to
one node into a count of links above one, which is how `Damaged` has it.

### What a sweep finds

For the same targets:

- `DiscoveryProofs!FoundHolds`: `Spec => []FoundInv`, and from it
  `PopulationIsComplete` (`[](RoutesAgree => PopulationComplete)`),
  `RowsAreRouteFree` (`[](RoutesAgree => RowsRouteFree)`) and
  `EveryRowIsScanned` (`[](RoutesAgree => RowsAreScanned)`).

`RoutesAgree` is a hypothesis on the frozen target, not on the session: a task that an
owner lists or queues is one its cell gives to that owner or to nobody, a home is
known under one key, and a pooled task that is also on a list decodes. tokio keeps
all three: it links a task into the list of the scheduler in its cell, and queues
only blocking cells in a pool. Every world of `discovery_healthy` is built so (the
head of `MCDiscovery` says how), and there the run checks the first two with no
hypothesis. Without it they are false (`MislinkedWorlds`, `DoublyOwnedWorlds` below).
The target may be damaged in every other way: loops, wild links, unreadable nodes,
contradicting ids and undecodable headers are all within the theorems.

The argument. The population is the least set closed under the target's edges, so
there are two halves, and neither is an induction over its rounds. Nothing too
much: `Sound` says that *every* closed set holds what was found so far. A step adds
a list's member, a decoded find or a cell's owner, and each is an edge from
something found, if what the record says of where it was found is so (`StoreTrue`
of the records, `FindsTrue` of the finds queued) and if storage is scanned only
where the population's rule has it scanned (`CellDecides`: the record of a task whose
cell names an excluded runtime is that runtime's, so it was not scanned). Nothing
too little: what an uncapped sweep found is itself closed (`FoundIsClosed`). The
lists are by `DamageInv`, the sets the probe reads by `RootsTaken`, and a pointer in
a registry, a pool or a storage was `Dealt` with: queued, or on record with the
source it brought, or at a header that does not decode (`HarvestsDealt`,
`ScansDealt`); every resident record waits for its scan, was scanned, or is one its
cell excludes (`ResidentsDue`). A cell's owner is admitted under the key the cell
gives because a home has one key (`AdmittedNamed`, `CellOwnerIn`). A row's owners and
kinds follow from the same facts, once the scope's walk is known to reach admitted
owners only (`Reaches`: what was found is closed under the scope's rule too).

### The parallel read

For any number of workers, units, strings, shards and slots of the channel, any
nesting of namespaces and any spread over the shards (`ReaderAssumption`: a unit's
parents come before their children and its types live in namespaces it lists):

- `CguReaderProofs!ReaderHolds`: `Spec /\ []Room => []ReaderInv`, and from it
  `ReadsAreSerial` (`[]ReadIsSerial`).

`Room` says that no shard's next id is past the width of an id. It is a hypothesis
on the behaviour because the code does not look: an id that wraps names another
entry's string. A shard has room for 2^24 - 1 strings; `reader_read` stays within.

The argument. What a finished read promises is about paths, which are defined by
recursion, and what the workers do is about ids. Until the read has ended the
invariant speaks of ids alone: what a worker, the channel or the collector holds
of a unit is `Spelt`, the id of each namespace being the one the index has for the
id of its parent and the id of its name. That survives any other worker's step
because the tables only grow (`Grows`: `MoreNames`, `MoreIndex`, `MoreEntries`),
and it is what a worker that was overtaken between its two looks at a shard gets
anyway (`InsertIs`, `NamedStep`). `SpacesKept` says that a pair has one entry and
one id, `SpacesNest` that an entry is one deeper than its parent, which needs that
the depth read with no lock held is still the parent's (`AtASpace`);
`UnitsAccounted`, that a unit is waiting, in a worker, in the channel or
collected unless the read has failed. Paths come last: they exist because depths
fall on the way up (`PathsExist`, an induction by least counterexample), the two
recursions agree entry by entry (`PathsAgree`), and no two ids spell one path
(`PathsDiffer`).

### The prompt

For any set of cursors and any `MaxLines` (the assumption
is `PromptAssumption`: the prompt starts somewhere, and the cap is a number):

- `PromptProofs!PromptHolds`: `Spec => []PromptInv`, the inductive invariant, and
  from it `TerminalHasOneReader` (`[]OneReader`), `PromptIsCurrent`
  (`[]LabelIsCurrent`), `NoMutualWait` (`[]SomethingIsOnItsWay`),
  `LinesRunOnce` (`[]LinesRunInOrder`), `InterruptsSpareThePager`
  (`NotKilledUnderThePager`) and `CompletionsAreFresh` (`OffersAreFresh`).

The argument. `OneReader` speaks of the two threads and not of what is in the
channels between them, and a label or an event left in a channel would start the
second reader a step later. So the invariant has four parts. `Turn`: the turn is
a token that is in one place, a label on its way (`Prompted`), the line being
edited (`AtTheLine`), a question or its answer (`Asking`), what was entered
(`Entered`), the session (`Busy`), or nowhere since a thread has ended
(`EditorLost`, `Closing`), and each place fixes the contents of every channel.
`PagerInv`: a pager's process runs only while the sink that started it holds
SIGINT parked. `CacheInv`: the completer keeps only answers that are
no cursor's (values and types), so a kept one is never stale; it needs `Turn`,
which says that the reply filed is the answer to the question asked. `LinesInv`:
the lines taken in are the lines run, and one more exactly while a line's event is
on its way (`OnItsWay`), whose number is the next (`Numbered`). Each part has its
own step lemma, one case per action.

### The session's cells

For any number of commands after the launch, warmed or not, audited or not
(`CellsAssumption`: the switches are Booleans and the cap a number):

- `SessionCellsProofs!CellsHold`: `Spec => []CellsInv`, and from it `LineageIsOne`
  (`[]OneLineage`) and `AccessorsNeverPanic` (`[]AccessorsHold`).

The argument. That a set never lands in a full cell is about the instructions the
session has still to run, at any depth of initialisers inside initialisers. The
cells are ranked by what asks for what; the pending instructions are in rank
order (`Ordered`), so an initialiser never asks for its own cell; every cell some
pending instruction fills is empty (`SetsAwait`); the attribution is filled
before or beside the analysis (`AttributionFirst`, `Expected`); nothing the worker
builds is asked for before it is joined (`BeforeJoin`), which is why adopt and
fold find the cells empty; and what the launch owes is pending or filled
(`Warming`, `Audited`).

### The session's cursor

For any target (tasks, futures, threads, their chains and addresses) and any lines
(`SessionAssumption`: an address names one task at most, a chain's frames have
addresses, a scoped command scopes by a selector):

- `SessionCursorProofs!CursorIsKept`: `Spec => []CursorInv`, and from it
  `CursorAgrees` (`[]CursorHolds`) and `CursorIsReturned` (`[]CursorComesBack`).
- `QuestionsAreCurrent` (`QuestionsAreTheCursors`), for lines in which `whatis` is
  given `$_` or nothing. `Carried(Q)` says so of a set that holds the lines'
  commands and the ones they carry; an address that is spelled out is not the
  cursor's, and the property is not about it.

The argument. A cursor comes from a selector, a move or a restore. `Good(c)` is
`CursorHolds` of any cursor; one lemma for each way of making a cursor shows the
result good, and every saved cursor on the stack is (`Kept`), so a restore is good
too. `ComesBack` says where a cursor will come back to: while the output is open,
the outermost scope or loop on the stack has saved `home`, and with none on it the
cursor is `home`; `AtRest`, that the stack is empty at the prompt.

A question is the cursor's own because `$_` is read by the very step that makes a
call ready to be dispatched: `Asks` says that only the call on top of the stack may
have words left to read or dispatch, and that a `whatis` about to be dispatched was
given the `$_` of the cursor as it is now. No step moves the cursor while such a call
is on top. `Rooted`, that a cursor pinning no future is on a task, is what makes a
bare `future` with nothing pinned answer nothing rather than something else.

### The census

For every target, of any number of tasks, frames, sets and nodes, whose links,
heads, counts and awaits are bent in any way (`TargetsAssumption`: there are
finitely many values, they have addresses, and a target's tables are well typed):

- `CensusProofs!CensusTypes`: `Spec => []Typed`.
- `RowsAreOnceAndLive` (`[]NoRowTwiceNorFreed`), `TheWalkMakesHeadway`
  (`WalkMakesHeadway`), `DamageIsAlwaysNamed` (`[]DamageIsNamed`) and
  `ViasAlwaysNameTheHolder` (`[]ViasNameTheHolder`).

The argument. The walks of lists and chains are iterated functions, so what they
return is known by their fixed number of rounds: nodes a walk admitted, no node
twice. A step is then one of six moves (`StepIsMove`: `ScanMove`, `DropMove`,
`FinishMove`, `JoinMove`, `ThroughMove`, `FutureMove`, the sets a step lists being
a `SetMove`), and each invariant is shown to survive each. That no future is two
rows needs that a row's future has been visited and a fresh find has not
(`HeldInv`, `SetsInv`); that damage is named, that the spans are exactly those of
the children listed (`SpansInv`) and that a join set's row agrees or is named
(`JoinsInv`), after which the comparison of neighbours at the end finds a sharing
(`DoneInv`). That a find names its holder is about indices handed out before the
rows they name are complete: every find still queued is one its holder's frames
offer, directly or through the adapters between (`Offered`, which closes in no
more rounds than there are values), and rows are only added (`RowsKept`), so an
index once given keeps naming the same row.

### The runtime and the verdicts

For any programs, tasks and threads, any sizes of a batch and of a channel's block
(`TokioAssumption`) and any views of the core (`ViewsAssumption`: the
primitives a view has reviewed are ones there are, its cap on nodes is a number):

- `TokioProofs!ProgramHolds`: `Spec => []ProgramInv`.
- `AssessProofs!AssessHolds`: `AssessSpec => []AssessInv`, and from it
  `VerdictsAreTrue` (`[]VerdictIsTrue`), `DiagnosesHold` (`[]FuturelockHolds`) and
  `CyclesAreDeadlocks` (`[]CyclesAreStuck`).

The argument. A verdict looks at one instant, and is right because of what every
reachable program keeps: `QueuedOnce` and `LinkedFirst` (who is queued or listed,
once, and for how many permits), `LockHeld` (what the holder of a lock has left to
do), `Suspended` and `Midway` (which words of a future go together), `LeavesLive`,
`LeavesAwaited` and `DropsLate` (a future awaited is alive until its task gets past
it), `ClosedList` (what a `notify_waiters` under way has taken). There are three
dozen steps and ten conjuncts; what a step does to a future, a task, a queue, a
lock, a drop and a leaf is summarised once (`FutMoves`, `TaskMoves`, `QueueMoves`,
`LockMoves`, `DropMoves`, `LeafMoves`), and each conjunct is shown to survive the
summary (the `...Kept` lemmas). `DecideIs` says that a list of checks answers what
its first failing check says; with it each protocol has a lemma
(`AcquireVerdict` to `RecvVerdict`) that its last answer is true. A report is about
the future: `BarrierKept`, `BehindKept` and `CycleKept` carry what it says over
one step of the program, and `CaptureHolds` shows that it is true when made.

### Only model-checked

- `CompleteUnlessItSaysSo` of `Census`: a find is dropped for its value, whichever
  of its routes came first, and the reference it is compared with is a least fixed
  point.
- `RestIsDecided` of `AssessWait`: it needs that a program nobody is waking has left
  no call half done in any of its resources.
- Every property of `TypeIdentity` (the coarsest partition is computed over data),
  of `WakerSweep` (its refinement of `WakerScan` and `ReplayIsFaithful`: the merging
  of reads) and of `UmemHeap` (folds over the slabs and rounds of a whole core).
- Liveness (`Terminates`, `Settles`, `EveryLineEnds`, `Answers`, `NobodyHangs`), which
  is out of the prover's reach.

`Discovery!TypeOK`, `Discovery!RowsAreScanned` (where the routes agree) and `Census!Typed`
are proved and not run.

## Findings

A disagreement that is a fault of the code, and a run that TLC refutes;
`PROJECT.json` quotes the lines.

- `session_output`: "the session's own cursor comes back once the loop is done"
  (`tasks.rs`). A failed write inside the loop returns before it does.

### Other divergences observed

What the code says of itself and does not do in a corner: first the ones with a
property kept beside the module and the constants under which TLC refutes it,
none of them a run of its own, then two found by reading.

- `Discovery!RowsRouteFree` over `MislinkedWorlds`: "Which route met a task first
  decides nothing about its row" (`bundle.rs`). A task first met in a list that
  does not claim it never has its cell followed home. It takes a target whose
  list links a task bound to another owner.
- `Discovery!RowsAreScanned` over `DoublyOwnedWorlds`: "A conflict naming an
  excluded owner is a row and is scanned" (`work.rs`). It is not when the
  conflicting claim comes after the scan was skipped. On targets whose routes agree
  the property holds (`EveryRowIsScanned`).
- `TypeIdentity!WorklistMissesNothing` over `MCTypeIdentity!MixedPrograms`: "the
  class's members reference the same names" (`exegesis/src/reader.rs:770`), and
  "the outcome is the whole-pass fixpoint" (`reader.rs:706`). The worklist walks one
  definition of a class for what the class depends on. A copy that goes through a
  named pointer and one that goes through an unnamed one are compared by what they
  point at (`reader.rs:1627`, and the test at 3967), so they are one class and do not
  refer to the same names; when the pointers' targets split, nothing puts the class
  on the worklist, and it stays one type where a whole pass would part it. It takes
  debug information in which the copies of one path mix the two, which no compiler
  is known to write.
- `Prompt!AnswerStillPrints` in `prompt_session`: "The answer still prints" when
  the pager cannot be started (`pager.rs`). The sink is set to swallow it.
- `WakerSweep!FindClaimsItsStorage` over `MCWakerSweep!NestedWorlds`:
  `Class::Find` is "Inside a census find" (`wakers.rs`). A slot of a held
  future's storage past another one stored in it is not classed so, because only
  the last span that starts at or before it is looked at.
- `WakerSweep!CoreLendsWhatItPromises` over `FileWorlds`: `readable_len` is
  "exactly the longest slice `pslice` can lend there" (`coredump/linux.rs`). It
  counts pages left to a file that is missing, another build or short.
- `Census!EveryOverlapIsReported` over `MCCensus!NestedWorlds`: "The reports for
  any two sorted spans claiming one byte" (`census.rs`). Only neighbours are
  compared.
- `UmemHeap!NeverWronglyFreed` with `Torn = {"cpu"}`: "never toward wrongly Freed"
  (`heap/umem.rs`). A core caught half way through the exchange of a CPU's
  magazines, or between a count and its round, has stale rounds that every check
  of the walk takes for parked buffers.
- `UmemHeap!IncompleteSaysSo` with `Faults = {"thread"}`: `Stats::incomplete` is
  "Whether anything was declined". It looks at neither `ptc_walked` nor
  `oversize_walked`, which a reader must ask for besides; `MissingIsSaid` does.

- By reading: the dispatcher's `history` arm "never reaches here" and is an
  `unreachable!` (`hansei/src/main.rs:2221-2223`). A line typed at the prompt does
  not, but `tasks --exec history` hands the word to the same dispatcher.
- By reading: "the row that closes the loop says so" (`hansei/src/graph.rs`). When
  the first task printed waits for `n`, which waits for it, and holds the handle of
  a task behind `n`'s barrier, the walk reaches `n` through relations first; the
  closing edge is then printed as `(above)`, and the genuine cycle of joins is not
  marked. `AssessWait!Cycles` has every path that may be.

## What is not modelled

The parts listed `not_modelled` in `PROJECT.json`. Most of the repository's lines
are sequential pattern matching over DWARF (`exegesis/src/extract`, `detect`),
rules over finished listings (`attribution.rs`, `waitset.rs`, `contract.rs`),
formatting, and tests: pure functions of large data, in which there
is no order of steps for a model checker to explore.

Within the modelled parts: the bytes behind each route of discovery; the parsing
of DIEs; filters, groupings and limits of the listings; the scripted mode, which
is one loop with no second thread; a shell pipeline's own failures; the grammar
of completion; signals of reedline's that nothing binds. Of discovery: the reports of
a registry or queue that was not read whole and of a thread-local probe that
failed (the finds lost are: a world's registries yield any finds), and the guards on
registry entries met before when two keys name one handle. A list walk the sweep gives
up, at a shard array cut short or a head that does not navigate, is a world whose
heads end in an unmapped one; for a runtime the session starts from, it ends the
session. Of the census: the depth
to which one frame's bytes are scanned, a table's control bytes and its entries of
no size, more than one find in a table's entry, a frame whose variant does not
decode or whose state the layout does not have (it holds nothing, and the census
does not say so either: `CompleteUnlessItSaysSo` is about what the decoded frames
hold), the pools read beside the finds, a read of a
node's own link that fails, and what is noted of the far end of a find. Of the
heap: malloc's headers, the walk's size bounds, the source of a magazine's size,
the switch that turns the threads' lists off, more than one CPU, the snapshot's
policy. Of the verdicts: I/O resources, timers, HTTP, watch and unbounded
channels, futures driven by a set, the budgets of referents, and threads that
poll in parallel; checks that cannot fail on a core of a program of `Tokio` (a
waiter's count read twice from one node, words no protocol writes, chains that
returned, panicked or do not resolve, kept acquires behind a borrow), and a
task's header that is missing behind a waker, a cyclic list of blocks and a spent
budget, which are told from memory that is missing by their wording only. In all
of these the code answers "unknown" or reports nothing, so none can make a verdict
the model calls true a false one. Of cores: the parsing of headers and notes, and live targets.

## Plan

Modelled so far, in this order: discovery, the reader, the cursor, the cells, the
prompt, the identity of types, the waker sweep with its core and its recorder,
the census, the heap, the verdicts on waits. Next, most important first.

1. The join of evidence in `attribution.rs`: no order of evidence decides an
   attribution. It would read `Census`, `WakerScan` and `AssessWait`.
2. `WaitSet`, timers and I/O resources in `Tokio`; the blocking pool's ring at its wrap.
3. `BundleFile`: the write to a temporary file and its rename.

Theorems worth proving next:

- of `UmemHeap`, `SelfCheckIsClean`: the slabs kept are disjoint and in order
  whatever the core;
- of `WakerSweep`, that its steps map to steps of `WakerScan`.
