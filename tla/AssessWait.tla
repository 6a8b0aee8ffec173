----------------------------- MODULE AssessWait -----------------------------
(***************************************************************************)
(* The debugger's verdict on what a task waits for, on the running program *)
(* of Tokio stopped anywhere: the chain walked from the task's future, the *)
(* observation of the resource it ends in, the resource's protocol, the    *)
(* polling barriers of acquires kept in locals, the waits behind them, and *)
(* the cycles the graph marks.                                             *)
(*                                                                         *)
(* A verdict is a function of one state, since a core does not change      *)
(* while it is read.  Capture keeps what one core's analysis claims about  *)
(* more than that instant, and the program goes on, as a process does      *)
(* after its core is taken: the claims are held against what it then does. *)
(***************************************************************************)
EXTENDS Tokio

CONSTANTS
    Views,      \* what the core and the tokio info let the debugger see
    NoReport    \* no core has been taken

ASSUME ViewsAssumption ==
    \A v \in Views : /\ v.reviewed \subseteq {"acquire", "notified", "join", "oneshot", "recv"}
                     /\ v.lockRule \in BOOLEAN /\ v.maxChildren \in Nat

VARIABLE report   \* what the analysis of one core said that is to stay true

allvars == <<vars, report>>

----------------------------------------------------------------------------
(* The state word and the chain.                                          *)

Lifecycle(t) ==
    CASE task[t].done -> "complete"
      [] ~task[t].done /\ task[t].run -> "running"
      [] ~task[t].done /\ ~task[t].run /\ task[t].notif -> "queued"
      [] OTHER -> "idle"

(* Mutant: a select is walked through as if it polled one future. *)
MutChainEnd(t) ==
    CASE Lifecycle(t) = "running" -> "active_poll"
      [] fut[t].shape = "new" -> "unresumed"
      [] OTHER -> "primitive"

(* How the walk of the task's chain ends.  Of the code's other ends, each  *)
(* a "not waiting" or an "unknown" of its own: a future that returned or   *)
(* panicked is one of a task that is complete or running; none here is     *)
(* pending(); every frame and vtable of the program is recognized.         *)
ChainEnd(t) ==
    CASE Lifecycle(t) = "running" -> "active_poll"
      [] fut[t].shape = "new" -> "unresumed"
      [] fut[t].shape = "select" -> "unknown_continuation"
      [] OTHER -> "primitive"

(* Mutant: every edge of a chain is taken for an exclusive one. *)
MutAllExclusive(t) == TRUE

(* The edge into a wrapper's future is no reviewed exclusive one. *)
AllExclusive(t) == fut[t].shape \in {"new", "await", "relayed"}

ClassOf(leaf) == IF leaf = "held" THEN "acquire" ELSE leaf

----------------------------------------------------------------------------
(* Observations.  A resource whose memory the core lacks observes nothing. *)

Readable(v, r) == r \notin v.missing

SeesAll(v) ==
    /\ v.missing = {} /\ v.conflicts = {} /\ v.lockRule
    /\ v.maxChildren >= Cardinality(Acquires)
    /\ v.reviewed = {"acquire", "notified", "join", "oneshot", "recv"}

(* A waker as its two words tell it.  Behind a task's waker the code also  *)
(* reads that task's header, and fails where the core lacks it: a walk     *)
(* that ends there is incomplete and proves less than the one here.        *)
RawWaker(w) ==
    CASE w = NoWaker -> [kind |-> "unarmed", task |-> NoOne]
      [] w # NoWaker /\ w.own -> [kind |-> "task", task |-> w.task]
      [] OTHER -> [kind |-> "other", task |-> NoOne]

(* Mutant: the null box of a lock never taken is no evidence. *)
MutLockConsistency(v, holder) ==
    IF v.lockRule /\ holder # NoOne THEN "mutating" ELSE "unknown"

(* A lock whose word no rule decodes says nothing; one in a box that was  *)
(* never made was never taken.                                            *)
LockConsistency(v, holder) ==
    CASE ~v.lockRule -> "unknown"
      [] v.lockRule /\ holder # NoOne -> "mutating"
      [] OTHER -> "quiescent"

(* A list walked newest first, up to the visit limit, and turned into     *)
(* wake order only when its end was reached.                              *)
WalkNodes(v, list) ==
    IF Len(list) <= v.maxChildren
    THEN [complete |-> TRUE, waiters |-> Reverse(list)]
    ELSE [complete |-> FALSE, waiters |-> SubSeq(list, 1, v.maxChildren)]

ObserveSemaphoreQueue(v) ==
    LET nodes == IF Readable(v, "sem") THEN WalkNodes(v, sem.queue)
                 ELSE [complete |-> FALSE, waiters |-> <<>>]
    IN [read        |-> Readable(v, "sem"),
        closed      |-> Readable(v, "sem") /\ sem.closed,
        queueClosed |-> Readable(v, "sem") /\ sem.qclosed,
        available   |-> sem.avail,
        consistency |-> IF Readable(v, "sem") THEN LockConsistency(v, sem.lock) ELSE "unknown",
        complete    |-> nodes.complete,
        waiters     |-> nodes.waiters]

ObserveNotify(v) ==
    LET nodes == IF Readable(v, "notify") THEN WalkNodes(v, ntf.list)
                 ELSE [complete |-> FALSE, waiters |-> <<>>]
    IN [read        |-> Readable(v, "notify"),
        state       |-> ntf.state,
        calls       |-> ntf.calls,
        consistency |-> IF Readable(v, "notify") THEN LockConsistency(v, ntf.lock) ELSE "unknown",
        complete    |-> nodes.complete,
        waiters     |-> nodes.waiters]

Established(obs) == obs.complete /\ obs.consistency = "quiescent"

Position(obs, node) ==
    IF Established(obs) /\ Contains(obs.waiters, node)
    THEN (CHOOSE i \in DOMAIN obs.waiters : obs.waiters[i] = node) - 1 ELSE NoOne

Listed(obs, node) == Cardinality({i \in DOMAIN obs.waiters : obs.waiters[i] = node})

(* What Rx::pop would find at the read index.  A block the core lacks, a   *)
(* block list that comes back on itself and a budget spent on the way are  *)
(* one failure to observe.                                                 *)
ObserveSlot(v) ==
    CASE ~Readable(v, "block") -> "unknown"
      [] Readable(v, "block") /\ BlockOf(chan.index) > chan.blocks -> "noblock"
      [] Readable(v, "block") /\ BlockOf(chan.index) <= chan.blocks ->
           IF chan.index \in chan.ready THEN "value"
           ELSE IF chan.marker = BlockOf(chan.index) THEN "closed" ELSE "empty"

(* The channel's words, the slot at the read index, the bounded semaphore *)
(* and the receiver's waker; each part may be missing while others read.  *)
ObserveChannel(v) ==
    [read     |-> Readable(v, "chan"),
     permits  |-> Readable(v, "permits"),
     rxwaker  |-> Readable(v, "rxwaker"),
     words    |-> chan,
     slot     |-> ObserveSlot(v),
     waker    |-> RawWaker(chan.waker)]

----------------------------------------------------------------------------
(* Verdicts. *)

Unknown(reason) == [is |-> "unknown", reason |-> reason]
ResourceReady(reason) == [is |-> "ready", reason |-> reason]
Waiting(target, position) == [is |-> "waiting", target |-> target, position |-> position]

(* Every protocol ends in the same question: is the parked waker t's?     *)
(* The reasons an empty slot is given differ.                             *)
VerifyWaker(t, waker, unarmed, wait) ==
    CASE waker.kind = "task" /\ waker.task = t -> wait
      [] waker.kind = "task" /\ waker.task # t -> Unknown("conflicting")
      [] waker.kind = "other" -> Unknown("unproven")
      [] waker.kind = "unarmed" -> Unknown(unarmed)

(* A protocol is a list of checks, each with what it returns; the first   *)
(* that holds decides.                                                    *)
Decide(checks, otherwise) ==
    LET hits == {i \in DOMAIN checks : checks[i][1]}
    IN IF hits = {} THEN otherwise
       ELSE checks[CHOOSE i \in hits : \A j \in hits : i <= j][2]

(* The node is part of the future, and the queue's walk reads it there:    *)
(* the permits the two say it needs are one word of one core, and the      *)
(* code's check that they agree has nothing to find.                       *)
AssessAcquire(v, t, a) ==
    LET queue == ObserveSemaphoreQueue(v)
    IN Decide(<<
         <<acq[a].need > acq[a].want,          Unknown("conflicting")>>,
         <<queue.closed \/ queue.queueClosed,  ResourceReady("semaphore_closed")>>,
         <<acq[a].need = 0,                    ResourceReady("permits_granted")>>,
         <<~acq[a].queued,                     Unknown("conflicting")>>,
         <<~queue.read,                        Unknown("unreadable")>>,
         <<~Established(queue),                Unknown("unproven")>>,
         <<Listed(queue, a) # 1,               Unknown("conflicting")>>>>,
         VerifyWaker(t, RawWaker(acq[a].waker), "conflicting",
                     IF queue.available > 0 THEN Unknown("conflicting")
                     ELSE Waiting("semaphore", Position(queue, a))))

(* The states are those Notify writes; a word that is none of them, which  *)
(* no program here leaves, is "unknown" to the code wherever it is met.    *)
AssessNotified(v, t) ==
    LET list == ObserveNotify(v)
    IN Decide(<<
         <<nod[t].state = "done",              ResourceReady("notified")>>,
         <<nod[t].state = "init",              Unknown("conflicting")>>,
         <<nod[t].note # "none",               ResourceReady("notified")>>,
         <<~list.read,                         Unknown("unreadable")>>,
         <<list.state # "waiting",             Unknown("conflicting")>>,
         <<list.calls # nod[t].calls,          Unknown("conflicting")>>,
         <<~Established(list),                 Unknown("unproven")>>,
         <<Listed(list, t) # 1,                Unknown("conflicting")>>>>,
         VerifyWaker(t, RawWaker(nod[t].waker), "conflicting",
                     Waiting("notify", Position(list, t))))

(* Mutant: the join waker is believed without asking for COMPLETE. *)
MutAssessJoin(v, t) ==
    LET u == fut[t].joins
    IN Decide(<<<<~task[u].jint, Unknown("conflicting")>>, <<~task[u].jwaker, Unknown("unproven")>>>>,
              VerifyWaker(t, RawWaker(task[u].trailer), "unproven", Waiting(u, NoOne)))

AssessJoin(v, t) ==
    LET u == fut[t].joins
    IN Decide(<<
         <<~Readable(v, "header"),             Unknown("unreadable")>>,
         <<task[u].done,                       ResourceReady("join_complete")>>,
         <<~task[u].jint,                      Unknown("conflicting")>>,
         <<~task[u].jwaker,                    Unknown("unproven")>>,
         <<~Readable(v, "trailer"),            Unknown("unreadable")>>>>,
         VerifyWaker(t, RawWaker(task[u].trailer), "unproven", Waiting(u, NoOne)))

AssessOneshot(t) ==
    Decide(<<
      <<one.sent,                              ResourceReady("oneshot_complete")>>,
      <<one.closed,                            ResourceReady("oneshot_closed")>>,
      <<~one.rxset,                            Unknown("conflicting")>>>>,
      VerifyWaker(t, RawWaker(one.waker), "unreadable", Waiting("oneshot", NoOne)))

AssessRecv(v, t) ==
    LET channel == ObserveChannel(v)
        words == channel.words
    IN Decide(<<
         <<~channel.read,                      Unknown("unreadable")>>,
         <<words.index > words.tail,           Unknown("conflicting")>>,
         <<channel.slot = "value",             ResourceReady("message")>>,
         <<channel.slot = "closed",            ResourceReady("channel_closed")>>,
         <<channel.slot = "unknown",           Unknown("unreadable")>>,
         <<words.rxClosed /\ ~channel.permits, Unknown("unproven")>>,
         <<words.rxClosed /\ words.avail = prog.cap, ResourceReady("channel_closed")>>,
         <<~channel.rxwaker,                   Unknown("unreadable")>>,
         <<words.wstate # "waiting",           Unknown("unproven")>>>>,
         VerifyWaker(t, channel.waker, "conflicting",
                     IF words.senders = 0 THEN Unknown("conflicting")
                     ELSE Waiting("channel", NoOne)))

(* The walk observes the primitive it ends in: the words of the future    *)
(* itself, and for a oneshot those of the cell behind it.                 *)
Observed(v, t) == fut[t].leaf = "oneshot" => Readable(v, "oneshot")

AssessPrimitive(v, t) ==
    CASE fut[t].leaf \in {"acquire", "held"} -> AssessAcquire(v, t, LeafAcquire(t))
      [] fut[t].leaf = "notified" -> AssessNotified(v, t)
      [] fut[t].leaf = "join" -> AssessJoin(v, t)
      [] fut[t].leaf = "oneshot" -> AssessOneshot(t)
      [] fut[t].leaf = "recv" -> AssessRecv(v, t)

(* A task that runs, is queued or is done is told by its state word; its  *)
(* future is only interpreted while it is idle.                           *)
AssessWait(v, t) ==
    CASE Lifecycle(t) = "complete" -> [is |-> "not_waiting"]
      [] Lifecycle(t) \in {"running", "queued"} -> [is |-> "runnable"]
      [] Lifecycle(t) = "idle" ->
           Decide(<<
             <<t \in v.conflicts,                     Unknown("task_kind")>>,
             <<ChainEnd(t) = "unresumed",             [is |-> "unresumed"]>>,
             <<ChainEnd(t) = "unknown_continuation",  Unknown("continuation")>>,
             <<~Observed(v, t),                       Unknown("unreadable")>>,
             <<ClassOf(fut[t].leaf) \notin v.reviewed, Unknown("unproven")>>>>,
             AssessPrimitive(v, t))

----------------------------------------------------------------------------
(* Polling barriers and what stands behind them. *)

(* The acquire in t's local is off the chain, owned, queued or granted,   *)
(* and t cannot poll it before what it awaits completes.  The local is    *)
(* the acquire itself: not a borrow of one, which the code passes over,   *)
(* and an alias of what the chain reaches only where that is the leaf.    *)
IsBarrier(v, t) ==
    /\ Lifecycle(t) = "idle"
    /\ AllExclusive(t)
    /\ ChainEnd(t) = "primitive"
    /\ ClassOf(fut[t].leaf) \in v.reviewed
    /\ fut[t].leaf # "held"
    /\ acq[<<t, "held">>].live /\ acq[<<t, "held">>].queued

PollingBarriers(v) ==
    {[holder |-> t, n |-> fut[t].n, granted |-> acq[<<t, "held">>].need = 0,
      position |-> Position(ObserveSemaphoreQueue(v), <<t, "held">>)] :
       t \in {u \in Tasks : IsBarrier(v, u)}}

Before(p, q) == p # NoOne /\ q # NoOne /\ p < q

Behind(v) ==
    LET verdict == [t \in Tasks |-> AssessWait(v, t)]
        waiters == {t \in Tasks : verdict[t].is = "waiting" /\ verdict[t].target = "semaphore"}
    IN {r \in {[waiter |-> w, acq |-> LeafAcquire(w), n |-> fut[w].n, need |-> acq[LeafAcquire(w)].need,
               barrier |-> b, relation |-> IF b.granted THEN "reservation" ELSE "queue_order"] :
                 w \in waiters, b \in PollingBarriers(v)} :
          r.barrier.granted \/ Before(r.barrier.position, verdict[r.waiter].position)}

----------------------------------------------------------------------------
(* The graph's verified join edges, and the paths that close by waits     *)
(* alone: the only ones the graph marks as cycles.                        *)

JoinEdges(v) ==
    [t \in Tasks |-> LET verdict == AssessWait(v, t)
                     IN IF fut[t].leaf = "join" /\ verdict.is = "waiting"
                        THEN verdict.target ELSE NoOne]

Cycles(v) ==
    LET edges == JoinEdges(v)
        Walks(path) == \A i \in 1..(Len(path) - 1) : edges[path[i]] = path[i + 1]
        sources == {t \in Tasks : edges[t] # NoOne}
    IN {path \in UNION {[1..n -> sources] : n \in 1..Cardinality(sources)} :
          IsInjective(path) /\ Walks(path) /\ edges[path[Len(path)]] = path[1]}

CycleTasks(v) == UNION {Range(path) : path \in Cycles(v)}

----------------------------------------------------------------------------
(* A core of the program is taken, and what its analysis says is kept.    *)
Capture(v) ==
    /\ report = NoReport
    /\ PollingBarriers(v) # {} \/ CycleTasks(v) # {}
    /\ report' = [barriers |-> {[holder |-> b.holder, n |-> b.n] : b \in PollingBarriers(v)},
                  behind |-> {[waiter |-> r.waiter, acq |-> r.acq, n |-> r.n, need |-> r.need,
                               holder |-> r.barrier.holder] :
                                r \in {q \in Behind(v) : q.relation = "queue_order"}},
                  cycle |-> {[task |-> t, n |-> fut[t].n] : t \in CycleTasks(v)}]
    /\ UNCHANGED vars

AssessInit == Init /\ report = NoReport

AssessNext ==
    \/ Next /\ UNCHANGED report
    \/ \E v \in Views : Capture(v)

AssessSpec == AssessInit /\ [][AssessNext]_allvars

----------------------------------------------------------------------------
(* Properties. *)

(* A verdict is true of the program wherever the core was taken: of a wait *)
(* called verified, a poll at that instant would find nothing, and would   *)
(* need no lock to find out; of a resource called ready, the next poll     *)
(* returns, whatever call another thread is in the middle of.              *)
VerdictIsTrue ==
    \A v \in Views, t \in Tasks :
      LET verdict == AssessWait(v, t)
      IN /\ verdict.is = "waiting" => ~Ready(t) /\ ~Blocked(t)
         /\ verdict.is = "ready" => Ready(t)

(* The protocols are not so careful that they decide nothing: of a program *)
(* at rest, seen whole, every suspended task whose chain ends in a         *)
(* reviewed primitive through its own waker is a verified wait.            *)
RestIsDecided ==
    AtRest => \A v \in Views, t \in Tasks :
      /\ SeesAll(v)
      /\ Lifecycle(t) = "idle" /\ fut[t].shape \in {"await", "wrapped"}
      => AssessWait(v, t).is = "waiting"

(* What a futurelock diagnosis says comes true: while the awaited future   *)
(* has not completed and the holder is not aborted, the kept acquire is    *)
(* not polled; and no waiter queued behind it is given a permit before it. *)
FuturelockHolds ==
    report # NoReport =>
      /\ \A b \in report.barriers :
           LET h == b.holder
           IN fut[h].n = b.n /\ fut[h].leaf # "none" /\ ~task[h].cancelled
                => acq[<<h, "held">>].live /\ acq[<<h, "held">>].queued
      /\ \A r \in report.behind :
           LET a == <<r.holder, "held">>
           IN /\ acq[a].live /\ acq[a].need > 0
              /\ acq[r.acq].live /\ fut[r.waiter].n = r.n
              => acq[r.acq].need = r.need

(* A marked cycle is a deadlock: unless one of its tasks is aborted, none  *)
(* of them gets past the await it was seen at.                             *)
CyclesAreStuck ==
    report # NoReport /\ (\A c \in report.cycle : ~task[c.task].cancelled)
      => \A c \in report.cycle : fut[c.task].n = c.n /\ fut[c.task].leaf # "none"

=============================================================================
