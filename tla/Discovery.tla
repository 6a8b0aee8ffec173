----------------------------- MODULE Discovery -----------------------------
(***************************************************************************)
(* How a debugging session finds the tasks of a frozen tokio process:     *)
(* the owned lists of the runtimes its worker threads reach are walked    *)
(* first (Context::enumerate_all_tasks), the thread-local probe admits    *)
(* the local sets threads are polling, and then one queue of work         *)
(* (work::sweep) follows references, registries, blocking-pool queues and *)
(* cells to the owners no thread's context reaches, to a fixed point.     *)
(* Every route files what it saw in one store of records, keyed by task   *)
(* header address (discovery::TaskStore).                                 *)
(*                                                                        *)
(* The target is frozen: everything read from it is the immutable record  *)
(* "world", chosen in the initial state.  The session is one thread, so   *)
(* the specification is deterministic for each world; the actions are the *)
(* steps of the walks and one action per item of work.                    *)
(***************************************************************************)
EXTENDS Naturals, Sequences, FiniteSets

CONSTANTS
    Tasks,               \* addresses of task headers
    Runtimes,            \* runtime owner keys: a flavor and a handle address
    Handles,             \* addresses of runtime handles
    HandleOf,            \* the handle address in a runtime's key
    LocalSets,           \* local-set owner keys (addresses of a Shared)
    Ids,                 \* owned-list ids
    RetainedReferences,  \* references a record keeps before it only counts
    Worlds               \* the frozen targets considered

Owners == Runtimes \cup LocalSets

(* Where an owner's list lives: a runtime's at its handle, whichever      *)
(* flavor the key records.                                                *)
Homes == Handles \cup LocalSets
Home(o) == IF o \in Runtimes THEN HandleOf[o] ELSE o

NoId == "no id"              \* an id that is absent or does not read
Null == "null"               \* the end of an intrusive list
Wild == "wild"               \* a link to an unmapped address
Broken == "broken"           \* a node whose header or links do not read
Blocking == "blocking"       \* the cell of a spawn_blocking task
Unclassified == "unclassified"   \* a cell the tokio info cannot classify
Nobody == "nobody"

Markers == {NoId, Null, Wild, Broken, Blocking, Unclassified, Nobody}

Nodes == Tasks \cup Owners

(* What a target holds.  shards: the list heads at an owner's home; next: *)
(* the owned-list link in a task's trailer; listId, ownerId: the ids of   *)
(* the lists and in the headers; cell: what a task's cell records as its  *)
(* scheduler; decodable: the headers a bare pointer may be decoded at;    *)
(* complete: the tasks whose state word says they finished; refs, timers, *)
(* io, pool: the task pointers in a task's storage and in a runtime's     *)
(* registries and blocking queue; runtimes: those the worker threads'     *)
(* contexts reach, less the ones "--runtime" left out (excluded); tls:    *)
(* what the thread-local probe reads; limit: the cap on work items.       *)
WorldType ==
    [shards    : [Homes -> Seq(Tasks \cup {Null, Wild})],
     next      : [Tasks -> Tasks \cup {Null, Wild, Broken}],
     listId    : [Homes -> Ids \cup {NoId}],
     ownerId   : [Tasks -> Ids \cup {NoId}],
     cell      : [Tasks -> Owners \cup {Blocking, Unclassified}],
     decodable : SUBSET Tasks,
     complete  : SUBSET Tasks,
     refs      : [Tasks -> Seq(Tasks)],
     timers    : [Handles -> Seq(Tasks)],
     io        : [Handles -> Seq(Tasks)],
     pool      : [Handles -> Seq(Tasks)],
     runtimes  : Seq(Runtimes),
     excluded  : SUBSET Handles,
     tls       : Seq(LocalSets),
     limit     : Nat]

(* What session start guarantees: the runtimes discovery is given are     *)
(* distinct handles and none is excluded.                                 *)
WorldOK(w) ==
    /\ w \in WorldType
    /\ \A i \in DOMAIN w.runtimes : HandleOf[w.runtimes[i]] \notin w.excluded
    /\ \A i, j \in DOMAIN w.runtimes :
         HandleOf[w.runtimes[i]] = HandleOf[w.runtimes[j]] => i = j

ASSUME ConstantsAssumption ==
    /\ HandleOf \in [Runtimes -> Handles]
    /\ Tasks \cap (Owners \cup Handles) = {}
    /\ Runtimes \cap LocalSets = {}
    /\ Handles \cap LocalSets = {}
    /\ (Nodes \cup Handles \cup Ids) \cap Markers = {}
    /\ RetainedReferences \in Nat \ {0}
    /\ \A w \in Worlds : WorldOK(w)

VARIABLES
    world,       \* the frozen target
    phase,       \* how far the session has come
    todo,        \* owners the current phase has yet to take
    roots,       \* the owners the sweep starts from
    walk,        \* the owned-list walk under way
    rec,         \* TaskStore: the record at each header address
    scannable,   \* TaskStore: records that became resident, untaken
    admitted,    \* the runtimes and sets admitted
    scheduled,   \* the owners whose work was queued
    queue,       \* the sweep's FIFOs, one per kind
    processed,   \* the sweep's count of items done, per kind
    foundFrom,   \* which task or owner each validated find came from
    capped,      \* the item cap ended the sweep with work left
    reached,     \* the owners the selection's scope reaches
    errors       \* what was reported as lost: what failed, and where

store == <<rec, scannable>>
work == <<scheduled, queue, processed, foundFrom>>
vars == <<world, phase, todo, roots, walk, rec, scannable, admitted,
          scheduled, queue, processed, foundFrom, capped, reached, errors>>

----------------------------------------------------------------------------
(* The store of records. *)

Kinds == {"async", "blocking"}
Routes == {"list", "queue", "scan", "timers", "io"}
Source == [route : Routes, at : Nodes, nth : Nat]
Claim == [owner : Owners, evidence : {"list", "queue", "cell"}]
Record == [sources : SUBSET Source, omitted : Nat, kinds : SUBSET Kinds,
           claims : SUBSET Claim, mismatches : SUBSET Owners,
           scanned : BOOLEAN, inScope : BOOLEAN]

NoRecord == [sources |-> {}, omitted |-> 0, kinds |-> {}, claims |-> {},
             mismatches |-> {}, scanned |-> FALSE, inScope |-> TRUE]

(* A record exists from its first observation, which brings a source. *)
Known(t) == rec[t].sources # {}

Lists(s) == s.route \in {"list", "queue"}

SourceKind(s) ==
    CASE s.route = "list"  -> {"async"}
      [] s.route = "queue" -> {"blocking"}
      [] OTHER             -> {}

(* The kind the cell's scheduler class makes a task (header_kind). *)
HeaderKind(t) ==
    CASE world.cell[t] = Unclassified -> {}
      [] world.cell[t] = Blocking     -> {"blocking"}
      [] OTHER                        -> {"async"}

OwnersOf(r) == {c.owner : c \in r.claims}

MutIsExcluded(o) == o \in Runtimes /\ o \in world.excluded

IsExcluded(o) == o \in Runtimes /\ HandleOf[o] \in world.excluded

(* The record's one established owner is an excluded runtime. *)
ExcludedOwned(r) == \E o \in Owners : OwnersOf(r) = {o} /\ IsExcluded(o)

Resident(t, r) ==
    \/ \E s \in r.sources : Lists(s)
    \/ r.sources # {} /\ t \notin world.complete

References(r) == {s \in r.sources : ~Lists(s)}

(* TaskRecord::add_source: a reference past the retained ones is counted. *)
Omits(r, s) ==
    /\ s \notin r.sources
    /\ ~Lists(s)
    /\ Cardinality(References(r)) >= RetainedReferences

MutObserve(r, s, kinds, claims) ==
    [r EXCEPT !.sources = @ \cup {s},
              !.kinds   = @ \cup SourceKind(s) \cup kinds,
              !.claims  = IF r.sources = {} THEN claims ELSE @]

(* TaskStore::observe_at on one record. *)
Observe(r, s, kinds, claims) ==
    [r EXCEPT !.sources = IF Omits(r, s) THEN @ ELSE @ \cup {s},
              !.omitted = IF Omits(r, s) THEN @ + 1 ELSE @,
              !.kinds   = @ \cup SourceKind(s) \cup kinds,
              !.claims  = @ \cup claims]

MutScannableAtBirth(t, r) ==
    IF rec[t].sources = {} /\ Resident(t, r) THEN <<t>> ELSE <<>>

MutScannableAgain(t, r) ==
    IF Resident(t, r) /\ ~r.scanned THEN <<t>> ELSE <<>>

(* The records that become resident by replacing t's record with r. *)
Scannable(t, r) ==
    IF ~Resident(t, rec[t]) /\ Resident(t, r) /\ ~r.scanned
    THEN <<t>> ELSE <<>>

(* An owner's list or scheduler is credited with a task where its id is   *)
(* the header's owner_id; a readable id that differs is kept as a         *)
(* mismatch (list_claim, runtime_claim, local_set_claim).                 *)
IdAgrees(o, t) ==
    world.listId[Home(o)] # NoId /\ world.listId[Home(o)] = world.ownerId[t]

ListClaim(o, t) ==
    IF IdAgrees(o, t) THEN {[owner |-> o, evidence |-> "list"]} ELSE {}

ListMismatch(o, t) ==
    IF world.listId[Home(o)] # NoId /\ ~IdAgrees(o, t) THEN {o} ELSE {}

(* The cell of a fresh record, followed home: only a scheduler-owned      *)
(* task's, and only where the header records an id to check.              *)
CellOwner(t) == {o \in Owners : o = world.cell[t] /\ world.ownerId[t] # NoId}

CellClaim(t) ==
    {[owner |-> o, evidence |-> "cell"] : o \in {p \in CellOwner(t) : IdAgrees(p, t)}}

CellMismatch(t) ==
    {o \in CellOwner(t) : world.listId[Home(o)] # NoId /\ ~IdAgrees(o, t)}

CellFails(t) ==
    \E o \in Owners : /\ o = world.cell[t]
                      /\ world.ownerId[t] = NoId \/ world.listId[Home(o)] = NoId

(* An owner is looked up by its home, not by its whole key. *)
IsAdmitted(o) == \E a \in admitted : Home(a) = Home(o)

(* A fresh record admits the owner its cell names, where the owner claims *)
(* the task and is neither admitted nor excluded.                         *)
Admits(t) ==
    {o \in CellOwner(t) : IdAgrees(o, t) /\ ~IsAdmitted(o) /\ ~IsExcluded(o)}

----------------------------------------------------------------------------
(* The walk of an owner's intrusive lists, shard by shard. *)

Idle == [owner |-> Nobody, shards |-> <<>>, at |-> Null, visited |-> {}]

WalkFrom(o) == [owner |-> o, shards |-> world.shards[Home(o)],
                at |-> Null, visited |-> {}]

Walking == walk # Idle

MutNodeReads == walk.at \in Tasks /\ world.next[walk.at] # Broken

(* The next node is mapped, not met before in this walk, and reads. *)
NodeReads ==
    /\ walk.at \in Tasks \ walk.visited
    /\ world.next[walk.at] # Broken

(* observe_listed: the list is the task's source, and its owner where the *)
(* ids agree.                                                             *)
ObserveListed(o, t) ==
    [Observe(rec[t], [route |-> "list", at |-> o, nth |-> 0],
             HeaderKind(t), ListClaim(o, t))
       EXCEPT !.mismatches = @ \cup ListMismatch(o, t)]

(* walk_owned_list, one node: file the task and follow its link. *)
WalkNode ==
    /\ Walking
    /\ walk.at # Null
    /\ NodeReads
    /\ LET t == walk.at
           r == ObserveListed(walk.owner, t)
       IN /\ rec' = [rec EXCEPT ![t] = r]
          /\ scannable' = scannable \o Scannable(t, r)
          /\ walk' = [walk EXCEPT !.at = world.next[t],
                                  !.visited = @ \cup {t}]
    /\ UNCHANGED <<world, phase, todo, roots, admitted, work, capped,
                   reached, errors>>

MutWalkFails ==
    /\ Walking
    /\ walk.at # Null
    /\ ~NodeReads
    /\ walk' = [walk EXCEPT !.at = Null, !.shards = <<>>]
    /\ errors' = errors \cup {[what |-> "walk", at |-> walk.owner]}
    /\ UNCHANGED <<world, phase, todo, roots, store, admitted, work, capped,
                   reached>>

(* A node that is unmapped, met before or unreadable ends its shard with  *)
(* an error; the other shards are unaffected.                             *)
WalkFails ==
    /\ Walking
    /\ walk.at # Null
    /\ ~NodeReads
    /\ walk' = [walk EXCEPT !.at = Null,
                            !.visited = @ \cup ({walk.at} \cap Tasks)]
    /\ errors' = errors \cup {[what |-> "walk", at |-> walk.owner]}
    /\ UNCHANGED <<world, phase, todo, roots, store, admitted, work, capped,
                   reached>>

(* An enumeration the sweep has to give up, at a shard array that claims  *)
(* more than reads or a shard whose head does not navigate, is that of a  *)
(* home whose heads end there in a Wild one: what was listed before it    *)
(* stays, and the walk has one error.  For a runtime the session starts   *)
(* from the same error ends the session, before any state of this module. *)
NextShard ==
    /\ Walking
    /\ walk.at = Null
    /\ walk.shards # <<>>
    /\ walk' = [walk EXCEPT !.at = Head(walk.shards), !.shards = Tail(@)]
    /\ UNCHANGED <<world, phase, todo, roots, store, admitted, work, capped,
                   reached, errors>>

(* What became resident is queued to be scanned (take_scannable). *)
TakeScannable(q, more) == [q EXCEPT !.scans = @ \o scannable \o more]

(* The walk is over; a walk of the sweep hands its finds to the scans     *)
(* (take_scannable).                                                      *)
EndWalk ==
    /\ Walking
    /\ walk.at = Null
    /\ walk.shards = <<>>
    /\ walk' = Idle
    /\ IF phase = "sweep"
       THEN /\ queue' = TakeScannable(queue, <<>>)
            /\ scannable' = <<>>
       ELSE UNCHANGED <<queue, scannable>>
    /\ UNCHANGED <<world, phase, todo, roots, rec, admitted, scheduled,
                   processed, foundFrom, capped, reached, errors>>

(* A list with no readable id is walked all the same, and reported. *)
StartWalk(o) ==
    /\ walk' = WalkFrom(o)
    /\ errors' = IF world.listId[Home(o)] = NoId
                 THEN errors \cup {[what |-> "unbound", at |-> o]}
                 ELSE errors

----------------------------------------------------------------------------
(* Before the sweep: the root runtimes' lists, the thread-local probe. *)

(* enumerate_all_tasks: the lists of the runtimes threads reach, in turn. *)
EnumerateRoot ==
    /\ phase = "enumerate"
    /\ ~Walking
    /\ todo # <<>>
    /\ StartWalk(Head(todo))
    /\ todo' = Tail(todo)
    /\ UNCHANGED <<world, phase, roots, store, admitted, work, capped, reached>>

EndEnumerate ==
    /\ phase = "enumerate"
    /\ ~Walking
    /\ todo = <<>>
    /\ phase' = "probe"
    /\ todo' = world.tls
    /\ UNCHANGED <<world, roots, walk, store, admitted, work, capped, reached,
                   errors>>

ReadsSet(l) == world.listId[l] # NoId

(* One find of the thread-local probe: a set seen before is skipped, and  *)
(* one whose id does not read is reported.                                *)
ProbeTls ==
    /\ phase = "probe"
    /\ todo # <<>>
    /\ LET l == Head(todo)
           reads == ReadsSet(l)
       IN IF l \in admitted
          THEN UNCHANGED <<admitted, roots, errors>>
          ELSE /\ admitted' = IF reads THEN admitted \cup {l} ELSE admitted
               /\ roots' = IF reads THEN Append(roots, l) ELSE roots
               /\ errors' = IF reads THEN errors
                            ELSE errors \cup {[what |-> "set", at |-> l]}
    /\ todo' = Tail(todo)
    /\ UNCHANGED <<world, phase, walk, store, work, capped, reached>>

EndProbe ==
    /\ phase = "probe"
    /\ todo = <<>>
    /\ phase' = "schedule"
    /\ todo' = roots
    /\ UNCHANGED <<world, roots, walk, store, admitted, work, capped, reached,
                   errors>>

----------------------------------------------------------------------------
(* The sweep. *)

QueueKinds ==
    {"validations", "runtimes", "sets", "scans", "timers", "io", "queues"}

Candidate ==
    [addr : Tasks, route : {"scan"}, from : Tasks, nth : Nat]
      \cup [addr : Tasks, route : {"timers", "io", "queue"}, from : Runtimes, nth : Nat]

EmptyQueue ==
    [validations |-> <<>>, runtimes |-> <<>>, sets |-> <<>>, scans |-> <<>>,
     timers |-> <<>>, io |-> <<>>, queues |-> <<>>]

(* Queue::pop drains the kinds in this order. *)
Before(k) ==
    CASE k = "validations" -> {}
      [] k = "runtimes" -> {"validations"}
      [] k = "sets"     -> {"validations", "runtimes"}
      [] k = "scans"    -> {"validations", "runtimes", "sets"}
      [] k = "timers"   -> {"validations", "runtimes", "sets", "scans"}
      [] k = "io"       -> {"validations", "runtimes", "sets", "scans", "timers"}
      [] k = "queues"   -> QueueKinds \ {"queues"}

NothingQueued == \A k \in QueueKinds : queue[k] = <<>>

Total == processed.validations + processed.runtimes + processed.sets
           + processed.scans + processed.timers + processed.io + processed.queues

AtLimit == Total >= world.limit

(* The loop pops an item of kind k. *)
Pops(k) ==
    /\ phase = "sweep"
    /\ ~Walking
    /\ ~AtLimit
    /\ queue[k] # <<>>
    /\ \A j \in Before(k) : queue[j] = <<>>
    /\ processed' = [processed EXCEPT ![k] = @ + 1]

Popped(k) == [queue EXCEPT ![k] = Tail(@)]

(* schedule_owner: once per owner, and never an excluded one. *)
Schedules(o) == ~IsExcluded(o) /\ o \notin scheduled

Schedule(q, o, enumerate) ==
    IF o \in Runtimes
    THEN [q EXCEPT !.runtimes = IF enumerate THEN Append(@, o) ELSE @,
                   !.timers   = Append(@, o),
                   !.io       = Append(@, o),
                   !.queues   = Append(@, o)]
    ELSE [q EXCEPT !.sets = Append(@, o)]

ScheduleRoot ==
    /\ phase = "schedule"
    /\ todo # <<>>
    /\ LET o == Head(todo)
       IN IF Schedules(o)
          THEN /\ scheduled' = scheduled \cup {o}
               /\ queue' = Schedule(queue, o, FALSE)
          ELSE UNCHANGED <<scheduled, queue>>
    /\ todo' = Tail(todo)
    /\ UNCHANGED <<world, phase, roots, walk, store, admitted, processed,
                   foundFrom, capped, reached, errors>>

StartSweep ==
    /\ phase = "schedule"
    /\ todo = <<>>
    /\ phase' = "sweep"
    /\ queue' = TakeScannable(queue, <<>>)
    /\ scannable' = <<>>
    /\ UNCHANGED <<world, todo, roots, walk, rec, admitted, scheduled,
                   processed, foundFrom, capped, reached, errors>>

(* A find at an address already decoded adds its source and claim to the  *)
(* record there.                                                          *)
SourceOf(c) == [route |-> c.route, at |-> c.from, nth |-> c.nth]

QueueClaim(c) ==
    IF c.route = "queue" THEN {[owner |-> c.from, evidence |-> "queue"]} ELSE {}

(* Where each find that left a record came from. *)
Filed(c) == foundFrom \cup {<<c.from, c.addr>>}

MutValidateKnown ==
    /\ Pops("validations")
    /\ LET c == Head(queue.validations)
           t == c.addr
           r == Observe(rec[t], SourceOf(c), {}, QueueClaim(c) \cup CellClaim(t))
       IN /\ Known(t)
          /\ rec' = [rec EXCEPT ![t] = r]
          /\ queue' = TakeScannable(Popped("validations"), Scannable(t, r))
          /\ scannable' = <<>>
          /\ foundFrom' = Filed(c)
    /\ UNCHANGED <<world, phase, todo, roots, walk, admitted, scheduled, capped,
                   reached, errors>>

ValidateKnown ==
    /\ Pops("validations")
    /\ LET c == Head(queue.validations)
           t == c.addr
           r == Observe(rec[t], SourceOf(c), {}, QueueClaim(c))
       IN /\ Known(t)
          /\ rec' = [rec EXCEPT ![t] = r]
          /\ queue' = TakeScannable(Popped("validations"), Scannable(t, r))
          /\ scannable' = <<>>
          /\ foundFrom' = Filed(c)
    /\ UNCHANGED <<world, phase, todo, roots, walk, admitted, scheduled, capped,
                   reached, errors>>

(* A find at a new address is decoded, and its cell followed home.  The   *)
(* reference is filed before the cell's claim is known.                   *)
ValidateFresh ==
    /\ Pops("validations")
    /\ LET c == Head(queue.validations)
           t == c.addr
           r == Observe(rec[t], SourceOf(c), HeaderKind(t), QueueClaim(c))
           new == {o \in Admits(t) : Schedules(o)}
           q == TakeScannable(Popped("validations"), Scannable(t, r))
       IN /\ ~Known(t)
          /\ t \in world.decodable
          /\ rec' = [rec EXCEPT ![t] =
                       [r EXCEPT !.claims = @ \cup CellClaim(t),
                                 !.mismatches = @ \cup CellMismatch(t)]]
          /\ admitted' = admitted \cup Admits(t)
          /\ scheduled' = scheduled \cup new
          /\ queue' = IF new = {} THEN q ELSE Schedule(q, world.cell[t], TRUE)
          /\ errors' = IF CellFails(t)
                       THEN errors \cup {[what |-> "home", at |-> t]}
                       ELSE errors
          /\ scannable' = <<>>
          /\ foundFrom' = Filed(c)
    /\ UNCHANGED <<world, phase, todo, roots, walk, capped, reached>>

(* A find that does not decode is reported and leaves no record. *)
ValidateFails ==
    /\ Pops("validations")
    /\ LET c == Head(queue.validations)
       IN /\ ~Known(c.addr)
          /\ c.addr \notin world.decodable
          /\ errors' = errors \cup {[what |-> "decode", at |-> c.addr]}
    /\ queue' = TakeScannable(Popped("validations"), <<>>)
    /\ scannable' = <<>>
    /\ UNCHANGED <<world, phase, todo, roots, walk, rec, admitted, scheduled,
                   foundFrom, capped, reached>>

EnumerateRuntime ==
    /\ Pops("runtimes")
    /\ StartWalk(Head(queue.runtimes))
    /\ queue' = Popped("runtimes")
    /\ UNCHANGED <<world, phase, todo, roots, store, admitted, scheduled,
                   foundFrom, capped, reached>>

EnumerateLocalSet ==
    /\ Pops("sets")
    /\ StartWalk(Head(queue.sets))
    /\ queue' = Popped("sets")
    /\ UNCHANGED <<world, phase, todo, roots, store, admitted, scheduled,
                   foundFrom, capped, reached>>

(* What a list of task pointers found along a route becomes. *)
Candidates(found, route, from) ==
    [i \in 1..Len(found) |->
       [addr |-> found[i], route |-> route, from |-> from, nth |-> i]]

MutScanTask ==
    /\ Pops("scans")
    /\ LET t == Head(queue.scans)
       IN /\ rec' = [rec EXCEPT ![t].scanned = TRUE]
          /\ queue' = [Popped("scans") EXCEPT !.validations =
                         @ \o Candidates(world.refs[t], "scan", t)]
    /\ UNCHANGED <<world, phase, todo, roots, walk, scannable, admitted,
                   scheduled, foundFrom, capped, reached, errors>>

(* A task an excluded runtime owns is left unscanned for good. *)
ScanTask ==
    /\ Pops("scans")
    /\ LET t == Head(queue.scans)
       IN IF ExcludedOwned(rec[t])
          THEN /\ queue' = Popped("scans")
               /\ UNCHANGED rec
          ELSE /\ rec' = [rec EXCEPT ![t].scanned = TRUE]
               /\ queue' = [Popped("scans") EXCEPT !.validations =
                              @ \o Candidates(world.refs[t], "scan", t)]
    /\ UNCHANGED <<world, phase, todo, roots, walk, scannable, admitted,
                   scheduled, foundFrom, capped, reached, errors>>

(* What a registry or a queue yields is the world's: less where an entry  *)
(* was met before in the walk, its words do not read or a scan's budget   *)
(* ran out.  Two keys of one handle yield the same here; the guards on    *)
(* entries met before span the harvests, so the second finds none.  The   *)
(* report of what a harvest lost is left out of errors, as is that of a   *)
(* thread-local probe that fails: no later step of discovery reads them.  *)
Harvest(k, found, route) ==
    /\ Pops(k)
    /\ LET o == Head(queue[k])
       IN queue' = [Popped(k) EXCEPT !.validations =
                     @ \o Candidates(found[HandleOf[o]], route, o)]
    /\ UNCHANGED <<world, phase, todo, roots, walk, store, admitted, scheduled,
                   foundFrom, capped, reached, errors>>

HarvestTimers == Harvest("timers", world.timers, "timers")
HarvestIo == Harvest("io", world.io, "io")
HarvestBlockingQueue == Harvest("queues", world.pool, "queue")

----------------------------------------------------------------------------
(* The selection's scope, recomputed when the sweep ends. *)

(* What a node of the scope leads to: an owner to what its list, queue    *)
(* and registries carry, and a task no excluded runtime owns to what its  *)
(* storage named and to the owners its cell was validated against.        *)
LeadsTo(n) ==
    IF n \in Owners
    THEN {t \in Tasks : \/ \E s \in rec[t].sources : Lists(s) /\ s.at = n
                        \/ <<n, t>> \in foundFrom}
    ELSE IF ExcludedOwned(rec[n])
    THEN {}
    ELSE {t \in Tasks : <<n, t>> \in foundFrom}
           \cup {o \in Owners : /\ [owner |-> o, evidence |-> "cell"] \in rec[n].claims
                               /\ ~IsExcluded(o)}

ScopeRoots == {o \in Owners : ~IsExcluded(o) /\ \E i \in DOMAIN roots : roots[i] = o}

(* The least set that holds the roots and what its nodes lead to:         *)
(* apply_scope's breadth-first walk.                                      *)
Scope ==
    LET next == [n \in Nodes |-> LeadsTo(n)]
        closed == {S \in SUBSET Nodes : /\ ScopeRoots \subseteq S
                                        /\ \A n \in S : next[n] \subseteq S}
    IN {n \in Nodes : \A S \in closed : n \in S}

(* The loop ends at the cap or on an empty queue; apply_scope follows. *)
Finish ==
    /\ phase = "sweep"
    /\ ~Walking
    /\ AtLimit \/ NothingQueued
    /\ phase' = "done"
    /\ capped' = (AtLimit /\ ~NothingQueued)
    /\ LET S == Scope
       IN /\ reached' = S \cap Owners
          /\ rec' = [t \in Tasks |-> IF Known(t)
                                     THEN [rec[t] EXCEPT !.inScope = (t \in S)]
                                     ELSE rec[t]]
    /\ UNCHANGED <<world, todo, roots, walk, scannable, admitted, work, errors>>

(* The listing rows (TaskStore::project). *)
Rows == {t \in Tasks : /\ Resident(t, rec[t])
                       /\ rec[t].inScope
                       /\ ~ExcludedOwned(rec[t])}

(* The owners the session keeps as groups. *)
Kept == admitted \cap reached

Terminated == phase = "done" /\ UNCHANGED vars

----------------------------------------------------------------------------
Init ==
    /\ world \in Worlds
    /\ phase = "enumerate"
    /\ todo = world.runtimes
    /\ roots = world.runtimes
    /\ walk = Idle
    /\ rec = [t \in Tasks |-> NoRecord]
    /\ scannable = <<>>
    /\ admitted = {world.runtimes[i] : i \in DOMAIN world.runtimes}
    /\ scheduled = {}
    /\ queue = EmptyQueue
    /\ processed = [k \in QueueKinds |-> 0]
    /\ foundFrom = {}
    /\ capped = FALSE
    /\ reached = {}
    /\ errors = {}

Walk == WalkNode \/ WalkFails \/ NextShard \/ EndWalk

Prepare == \/ EnumerateRoot \/ EndEnumerate
           \/ ProbeTls \/ EndProbe
           \/ ScheduleRoot \/ StartSweep

Sweep == \/ ValidateKnown \/ ValidateFresh \/ ValidateFails
         \/ EnumerateRuntime \/ EnumerateLocalSet \/ ScanTask
         \/ HarvestTimers \/ HarvestIo \/ HarvestBlockingQueue

Next == Walk \/ Prepare \/ Sweep \/ Finish \/ Terminated

Spec == Init /\ [][Next]_vars

(* The session's thread runs the sweep to its end: it waits for nothing. *)
FairSpec == Spec /\ WF_vars(Next)

----------------------------------------------------------------------------
(* Properties. *)

Error == [what : {"walk", "unbound", "set", "decode", "home"}, at : Nodes]

QueueType ==
    [validations : Seq(Candidate), runtimes : Seq(Runtimes),
     sets : Seq(LocalSets), scans : Seq(Tasks), timers : Seq(Runtimes),
     io : Seq(Runtimes), queues : Seq(Runtimes)]

WalkState ==
    {Idle} \cup [owner : Owners, shards : Seq(Tasks \cup {Null, Wild}),
                at : Tasks \cup {Null, Wild}, visited : SUBSET Tasks]

(* Every variable has its type: the type invariant of the session. *)
TypeOK ==
    /\ world \in WorldType
    /\ phase \in {"enumerate", "probe", "schedule", "sweep", "done"}
    /\ todo \in Seq(Owners)
    /\ roots \in Seq(Owners)
    /\ walk \in WalkState
    /\ rec \in [Tasks -> Record]
    /\ scannable \in Seq(Tasks)
    /\ admitted \subseteq Owners
    /\ scheduled \subseteq Owners
    /\ queue \in QueueType
    /\ processed \in [QueueKinds -> Nat]
    /\ foundFrom \subseteq (Nodes \X Tasks)
    /\ capped \in BOOLEAN
    /\ reached \subseteq Owners
    /\ errors \subseteq Error

(* The store holds nothing an excluded runtime's own list, registries or  *)
(* pool said, however many routes lead to that runtime: "--runtime" stays *)
(* a filter.                                                              *)
ExcludedNeverRead ==
    \A t \in Tasks : \A s \in rec[t].sources :
        s.at \in Runtimes => HandleOf[s.at] \notin world.excluded

(* A task's storage, once scanned, was never the storage of a task an     *)
(* excluded runtime owns, even after every later claim is reconciled.     *)
ScannedNeverExcluded ==
    \A t \in Tasks : rec[t].scanned => ~ExcludedOwned(rec[t])

(* No later route turns a record the selection holds into one an excluded *)
(* runtime owns: that is decided at the first decode or never.            *)
NoLateExclusion ==
    [][\A t \in Tasks : /\ Known(t)
                        /\ ~ExcludedOwned(rec[t])
                        => ~ExcludedOwned(rec'[t])]_vars

(* The recomputed scope never removes anything the sweep kept: every      *)
(* record is in scope and every admitted owner reached, so the "reached   *)
(* only through tasks of an excluded runtime" report cannot appear.       *)
ScopeIsTotal ==
    phase = "done" =>
        /\ \A t \in Tasks : rec[t].inScope
        /\ Kept = admitted

(* Each scheduled owner's list and registries and each resident record's  *)
(* storage is queued exactly once over the sweep's life: what was popped  *)
(* and what is queued add up, so nothing is done twice and nothing drops. *)
WorkAccounting ==
    LET runtimes == scheduled \cap Runtimes
        atStart == {world.runtimes[i] : i \in DOMAIN world.runtimes}
    IN /\ \A k \in {"timers", "io", "queues"} :
            processed[k] + Len(queue[k]) = Cardinality(runtimes)
       /\ processed.runtimes + Len(queue.runtimes) = Cardinality(runtimes \ atStart)
       /\ processed.sets + Len(queue.sets) = Cardinality(scheduled \cap LocalSets)
       /\ processed.scans + Len(queue.scans) + Len(scannable)
            = Cardinality({t \in Tasks : Resident(t, rec[t])})

----------------------------------------------------------------------------
(* Reference definitions: what a target's session should find, from the   *)
(* target alone and with no order of routes.                              *)

Heads(o) == {world.shards[Home(o)][i] : i \in DOMAIN world.shards[Home(o)]}

(* The tasks the links of an owner's lists reach. *)
Linked(o) ==
    {t \in Tasks : \A S \in SUBSET Tasks :
        (/\ Heads(o) \cap Tasks \subseteq S
         /\ \A u \in S : world.next[u] \in Tasks => world.next[u] \in S)
        => t \in S}

Members == [o \in Owners |-> {t \in Linked(o) : world.next[t] # Broken}]

(* An owner's lists are damaged where a link leaves the mapped memory, a  *)
(* node does not read, or a node is linked to twice.                      *)
LinksTo(o, t) ==
    Cardinality({i \in DOMAIN world.shards[Home(o)] : world.shards[Home(o)][i] = t})
      + Cardinality({u \in Linked(o) : world.next[u] = t})

Damaged(o) ==
    \/ Wild \in Heads(o)
    \/ \E t \in Linked(o) : \/ world.next[t] \in {Wild, Broken}
                            \/ LinksTo(o, t) > 1

SeqRange(s) == {s[i] : i \in DOMAIN s}

Pooled(o) == IF o \in Runtimes THEN SeqRange(world.pool[HandleOf[o]]) ELSE {}

Registered(o) ==
    IF o \in Runtimes
    THEN SeqRange(world.timers[HandleOf[o]]) \cup SeqRange(world.io[HandleOf[o]])
    ELSE {}

ClosedPopulation(S, members) ==
    /\ SeqRange(world.runtimes) \subseteq S
    /\ {l \in SeqRange(world.tls) : world.listId[l] # NoId} \subseteq S
    /\ \A o \in S \cap Owners :
         /\ members[o] \subseteq S
         /\ (Pooled(o) \cup Registered(o)) \cap world.decodable \subseteq S
    /\ \A t \in S \cap Tasks :
         /\ \A o \in CellOwner(t) : IdAgrees(o, t) /\ ~IsExcluded(o) => o \in S
         /\ \/ \E o \in CellOwner(t) : IdAgrees(o, t) /\ IsExcluded(o)
            \/ /\ t \in world.complete
               /\ \A o \in S \cap Owners : t \notin members[o] \cup Pooled(o)
            \/ SeqRange(world.refs[t]) \cap world.decodable \subseteq S

Population ==
    LET members == Members
        closed == {S \in SUBSET Nodes : ClosedPopulation(S, members)}
    IN {n \in Nodes : \A S \in closed : n \in S}

(* A target whose routes agree: a task that an owner lists or queues is   *)
(* one its cell gives to that owner or to nobody; a home is known under   *)
(* one key; and a pooled task that is also on a list decodes.             *)
RoutesAgree ==
    LET named == SeqRange(world.runtimes)
                   \cup {o \in Owners : \E t \in Tasks : world.cell[t] = o}
    IN /\ \A o \in Owners : \A t \in Members[o] \cup Pooled(o) :
            \A p \in CellOwner(t) : IdAgrees(p, t) => p = o
       /\ \A o, p \in named : Home(o) = Home(p) => o = p
       /\ \A o, p \in Owners : Members[o] \cap Pooled(p) \subseteq world.decodable

(* A sweep that was not capped found exactly the tasks and owners that    *)
(* can be reached from the roots, whichever order the routes ran in.      *)
PopulationComplete ==
    phase = "done" /\ ~capped =>
        {t \in Tasks : Known(t)} \cup admitted = Population

(* What the evidence about a task adds up to when no route has an order.  *)
AllOwners(t) ==
    {o \in reached : t \in Members[o] /\ IdAgrees(o, t)}
      \cup {o \in reached : t \in Pooled(o)}
      \cup {o \in CellOwner(t) : IdAgrees(o, t)}

AllKinds(t) ==
    HeaderKind(t)
      \cup (IF \E o \in reached : t \in Members[o] THEN {"async"} ELSE {})
      \cup (IF \E o \in reached : t \in Pooled(o) THEN {"blocking"} ELSE {})

(* Which route met a task first decides nothing about its row: a row's    *)
(* owner and kind are what all the evidence in the target adds up to.     *)
RowsRouteFree ==
    phase = "done" /\ ~capped =>
        \A t \in Rows : /\ OwnersOf(rec[t]) = AllOwners(t)
                        /\ rec[t].kinds = AllKinds(t)

(* A row's storage was searched: the sweep ran to a fixed point in which  *)
(* only tasks an excluded runtime is proven to own are left unscanned.    *)
RowsAreScanned ==
    phase = "done" /\ ~capped => \A t \in Rows : rec[t].scanned

(* A list's damage is reported, and costs no readable task: an uncapped   *)
(* sweep files every task the links of an admitted owner's lists reach,   *)
(* and reports a failed walk of exactly the owners whose lists are bad.   *)
DamageIsReported ==
    phase = "done" /\ ~capped =>
        \A o \in admitted :
            /\ \A t \in Members[o] : Known(t)
            /\ [what |-> "walk", at |-> o] \in errors <=> Damaged(o)

(* The sweep's books balance and its scope agrees: work is neither done   *)
(* twice nor lost, and what was found is what is kept.                    *)
SweepAccounts == WorkAccounting /\ ScopeIsTotal /\ DamageIsReported

(* The sweep ends: its queue is finite work however the target's          *)
(* references and lists loop.                                             *)
Terminates == <>(phase = "done")
=============================================================================
