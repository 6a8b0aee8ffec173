---------------------------- MODULE AssessProofs ----------------------------
(***************************************************************************)
(* Why the verdicts are true and what they foretell comes true: proofs,    *)
(* for every program of the modelled futures and calls, any number of      *)
(* tasks and threads and every partial view of the core, that a verified   *)
(* wait is one, that a resource called ready is, that what a futurelock    *)
(* diagnosis says of the queue stays so, and that a cycle is a deadlock.   *)
(***************************************************************************)
EXTENDS AssessWait, TokioProofs

CycleTasksOf(cs) == {c.task : c \in cs}

BarrierHolds(b) ==
    /\ b.holder \in Tasks /\ b.n \in Nat /\ b.n <= fut[b.holder].n
    /\ fut[b.holder].n = b.n /\ fut[b.holder].leaf # "none" /\ ~task[b.holder].cancelled
         => /\ fut[b.holder].leaf # "held" /\ fut[b.holder].shape \in {"await", "relayed"}
            /\ acq[<<b.holder, "held">>].live /\ acq[<<b.holder, "held">>].queued

BehindHolds(r) ==
    /\ r.holder \in Tasks /\ fut[r.holder].n > 0
    /\ r.waiter \in Tasks /\ r.n \in Nat \ {0} /\ r.n <= fut[r.waiter].n
    /\ r.acq \in {<<r.waiter, "leaf">>, <<r.waiter, "held">>}
    /\ /\ acq[<<r.holder, "held">>].live /\ acq[<<r.holder, "held">>].need > 0
       /\ acq[r.acq].live /\ fut[r.waiter].n = r.n
       => /\ acq[r.acq].need = r.need
          /\ sem.qclosed \/ Older(sem.queue, <<r.holder, "held">>, r.acq)

CycleHolds(cs) ==
    /\ \A c \in cs : c.task \in Tasks
    /\ (\A c \in cs : ~task[c.task].cancelled) =>
         \A c \in cs : /\ fut[c.task].n = c.n /\ fut[c.task].leaf = "join"
                       /\ fut[c.task].shape \in {"await", "relayed", "wrapped"}
                       /\ fut[c.task].joins \in CycleTasksOf(cs)
                       /\ ~task[c.task].done

ReportHolds ==
    report # NoReport =>
      /\ \A b \in report.barriers : BarrierHolds(b)
      /\ \A r \in report.behind : BehindHolds(r)
      /\ CycleHolds(report.cycle)

(* The inductive invariant: the program's, and what one core of it was     *)
(* said to show.                                                           *)
AssessInv == ProgramInv /\ ReportHolds

----------------------------------------------------------------------------
(* The protocols, one by one. *)

(* A list of checks is decided by one that holds, or by none. *)
LEMMA DecideIs ==
    ASSUME NEW checks, DOMAIN checks \subseteq Nat, NEW otherwise
    PROVE  \/ /\ \A i \in DOMAIN checks : ~checks[i][1]
              /\ Decide(checks, otherwise) = otherwise
           \/ \E i \in DOMAIN checks : checks[i][1] /\ Decide(checks, otherwise) = checks[i][2]
<1> DEFINE hits == {i \in DOMAIN checks : checks[i][1]}
<1>1. CASE hits = {}
  BY <1>1 DEF Decide
<1>2. CASE hits # {}
  <2>1. PICK k \in hits : k = CHOOSE i \in hits : \A j \in hits : i <= j
    BY <1>2, LeastExists
  <2>2. Decide(checks, otherwise) = checks[k][2]
    BY <1>2, <2>1 DEF Decide
  <2> QED BY <2>1, <2>2
<1> QED BY <1>1, <1>2

(* Whatever the parked waker, the wait is verified or the answer unknown. *)
LEMMA VerifyIs ==
    ASSUME NEW t, NEW w, NEW unarmed, NEW wait
    PROVE  \/ VerifyWaker(t, RawWaker(w), unarmed, wait) = wait
           \/ VerifyWaker(t, RawWaker(w), unarmed, wait).is = "unknown"
BY DEF VerifyWaker, RawWaker, Unknown

(* A view that calls the lock quiescent saw no holder. *)
LEMMA LockIsFree ==
    ASSUME NEW v, NEW holder, LockConsistency(v, holder) = "quiescent"
    PROVE  holder = NoOne
BY DEF LockConsistency

(* A verified wait for permits: the list was read whole, nobody holds the  *)
(* lock, nothing is closed, and fewer permits are free than are needed.    *)
LEMMA AcquireVerdict ==
    ASSUME Typed, NEW v, NEW t \in Tasks, NEW a \in Acquires,
           NEW d, d = AssessAcquire(v, t, a)
    PROVE  /\ d.is = "waiting" => /\ ~AcquireReady(a) /\ sem.lock = NoOne
                                  /\ d = Waiting("semaphore", Position(ObserveSemaphoreQueue(v), a))
           /\ d.is = "ready" => AcquireReady(a)
<1> DEFINE queue == ObserveSemaphoreQueue(v)
           wait == IF queue.available > 0 THEN Unknown("conflicting")
                   ELSE Waiting("semaphore", Position(queue, a))
           w == VerifyWaker(t, RawWaker(acq[a].waker), "conflicting", wait)
<1>1. acq[a].need \in Nat /\ sem.avail \in Nat /\ acq[a].queued \in BOOLEAN
      /\ sem.closed \in BOOLEAN /\ sem.qclosed \in BOOLEAN
  BY DEF Typed, AcqTyped, SemTyped, AcqType, SemType
<1>2. /\ queue.read = Readable(v, "sem") /\ queue.available = sem.avail
      /\ queue.closed = (Readable(v, "sem") /\ sem.closed)
      /\ queue.queueClosed = (Readable(v, "sem") /\ sem.qclosed)
      /\ Readable(v, "sem") => queue.consistency = LockConsistency(v, sem.lock)
  BY DEF ObserveSemaphoreQueue
<1> DEFINE c1 == acq[a].need > acq[a].want
           c2 == queue.closed \/ queue.queueClosed
           c3 == acq[a].need = 0
           c4 == ~acq[a].queued
           c5 == ~queue.read
           c6 == ~Established(queue)
           c7 == Listed(queue, a) # 1
           checks == <<<<c1, Unknown("conflicting")>>, <<c2, ResourceReady("semaphore_closed")>>,
                       <<c3, ResourceReady("permits_granted")>>, <<c4, Unknown("conflicting")>>,
                       <<c5, Unknown("unreadable")>>, <<c6, Unknown("unproven")>>,
                       <<c7, Unknown("conflicting")>>>>
<1>3. d = Decide(checks, w)
  BY DEF AssessAcquire
<1>4. /\ c1 \in BOOLEAN /\ c2 \in BOOLEAN /\ c3 \in BOOLEAN /\ c4 \in BOOLEAN
      /\ c5 \in BOOLEAN /\ c6 \in BOOLEAN /\ c7 \in BOOLEAN
  OBVIOUS
<1> HIDE DEF queue, wait, w, c1, c2, c3, c4, c5, c6, c7
<1>5. /\ DOMAIN checks = 1..7 /\ \A i \in 1..7 : checks[i][2].is # "waiting"
      /\ checks[2][1] = c2 /\ checks[3][1] = c3 /\ checks[5][1] = c5 /\ checks[6][1] = c6
      /\ \A i \in 1..7 : checks[i][2].is = "ready" => i \in {2, 3}
  BY DEF Unknown, ResourceReady
<1> HIDE DEF checks
<1>6. \/ (\A i \in 1..7 : ~checks[i][1]) /\ d = w
      \/ \E i \in 1..7 : checks[i][1] /\ d = checks[i][2]
  BY <1>3, <1>5, DecideIs
<1>7. /\ d.is = "waiting" => ~c2 /\ ~c3 /\ ~c5 /\ ~c6 /\ d = w
      /\ d.is = "ready" => c2 \/ c3 \/ d = w
  BY <1>4, <1>5, <1>6
<1>8. w = wait \/ w.is = "unknown"
  BY VerifyIs DEF w
<1>9. d.is = "waiting" => /\ ~(queue.closed \/ queue.queueClosed) /\ acq[a].need # 0 /\ queue.read
                          /\ Established(queue) /\ d = wait
  BY <1>7, <1>8 DEF c2, c3, c5, c6
<1>10. d.is = "ready" => queue.closed \/ queue.queueClosed \/ acq[a].need = 0
  <2>1. w.is # "ready"
    BY <1>8 DEF wait, Unknown, Waiting
  <2> QED BY <1>7, <2>1 DEF c2, c3
<1>11. d.is = "waiting" => d = Waiting("semaphore", Position(queue, a)) /\ sem.avail = 0
  BY <1>1, <1>2, <1>9 DEF wait, Unknown
<1>12. Established(queue) /\ Readable(v, "sem") => sem.lock = NoOne
  BY <1>2, LockIsFree DEF Established
<1> QED BY <1>1, <1>2, <1>9, <1>10, <1>11, <1>12 DEF AcquireReady, queue

(* A verified wait for a notification: the node waits, nothing was said to *)
(* it, no call came since, and nobody holds the list's lock.               *)
LEMMA NotifiedVerdict ==
    ASSUME NEW v, NEW t \in Tasks, NEW d, d = AssessNotified(v, t)
    PROVE  /\ d.is = "waiting" => /\ nod[t].state # "done" /\ nod[t].state # "init"
                                  /\ nod[t].note = "none" /\ nod[t].calls = ntf.calls
                                  /\ ntf.lock = NoOne /\ d.target = "notify"
           /\ d.is = "ready" => nod[t].state = "done" \/ nod[t].note # "none"
<1> DEFINE list == ObserveNotify(v)
           wait == Waiting("notify", Position(list, t))
           w == VerifyWaker(t, RawWaker(nod[t].waker), "conflicting", wait)
<1>1. /\ list.read = Readable(v, "notify") /\ list.calls = ntf.calls
      /\ Readable(v, "notify") => list.consistency = LockConsistency(v, ntf.lock)
  BY DEF ObserveNotify
<1> DEFINE c1 == nod[t].state = "done"
           c2 == nod[t].state = "init"
           c3 == nod[t].note # "none"
           c4 == ~list.read
           c5 == list.state # "waiting"
           c6 == list.calls # nod[t].calls
           c7 == ~Established(list)
           c8 == Listed(list, t) # 1
           checks == <<<<c1, ResourceReady("notified")>>, <<c2, Unknown("conflicting")>>,
                       <<c3, ResourceReady("notified")>>, <<c4, Unknown("unreadable")>>,
                       <<c5, Unknown("conflicting")>>, <<c6, Unknown("conflicting")>>,
                       <<c7, Unknown("unproven")>>, <<c8, Unknown("conflicting")>>>>
<1>2. d = Decide(checks, w)
  BY DEF AssessNotified
<1>3. /\ c1 \in BOOLEAN /\ c2 \in BOOLEAN /\ c3 \in BOOLEAN /\ c4 \in BOOLEAN
      /\ c5 \in BOOLEAN /\ c6 \in BOOLEAN /\ c7 \in BOOLEAN /\ c8 \in BOOLEAN
  OBVIOUS
<1> HIDE DEF list, wait, w, c1, c2, c3, c4, c5, c6, c7, c8
<1>4. /\ DOMAIN checks = 1..8 /\ \A i \in 1..8 : checks[i][2].is # "waiting"
      /\ checks[1][1] = c1 /\ checks[2][1] = c2 /\ checks[3][1] = c3 /\ checks[4][1] = c4
      /\ checks[6][1] = c6 /\ checks[7][1] = c7
      /\ \A i \in 1..8 : checks[i][2].is = "ready" => i \in {1, 3}
  BY DEF Unknown, ResourceReady
<1> HIDE DEF checks
<1>5. \/ (\A i \in 1..8 : ~checks[i][1]) /\ d = w
      \/ \E i \in 1..8 : checks[i][1] /\ d = checks[i][2]
  BY <1>2, <1>4, DecideIs
<1>6. /\ d.is = "waiting" => ~c1 /\ ~c2 /\ ~c3 /\ ~c4 /\ ~c6 /\ ~c7 /\ d = w
      /\ d.is = "ready" => c1 \/ c3 \/ d = w
  BY <1>3, <1>4, <1>5
<1>7. w = wait \/ w.is = "unknown"
  BY VerifyIs DEF w
<1>8. wait.is = "waiting" /\ wait.target = "notify"
  BY DEF wait, Waiting
<1>9. Established(list) /\ Readable(v, "notify") => ntf.lock = NoOne
  BY <1>1, LockIsFree DEF Established
<1> QED BY <1>1, <1>6, <1>7, <1>8, <1>9 DEF c1, c2, c3, c4, c6, c7

(* A verified wait for a task: it has not completed. *)
LEMMA JoinVerdict ==
    ASSUME Typed, NEW v, NEW t \in Tasks, fut[t].joins \in Tasks, NEW d, d = AssessJoin(v, t)
    PROVE  /\ d.is = "waiting" => /\ ~task[fut[t].joins].done
                                  /\ d.target = fut[t].joins /\ d.position = NoOne
           /\ d.is = "ready" => task[fut[t].joins].done
<1> DEFINE u == fut[t].joins
           wait == Waiting(u, NoOne)
           w == VerifyWaker(t, RawWaker(task[u].trailer), "unproven", wait)
           c1 == ~Readable(v, "header")
           c2 == task[u].done
           c3 == ~task[u].jint
           c4 == ~task[u].jwaker
           c5 == ~Readable(v, "trailer")
           checks == <<<<c1, Unknown("unreadable")>>, <<c2, ResourceReady("join_complete")>>,
                       <<c3, Unknown("conflicting")>>, <<c4, Unknown("unproven")>>,
                       <<c5, Unknown("unreadable")>>>>
<1>1. task[u].done \in BOOLEAN
  BY DEF Typed, TaskTyped, TaskType
<1>2. d = Decide(checks, w)
  BY DEF AssessJoin
<1>3. c1 \in BOOLEAN /\ c2 \in BOOLEAN /\ c3 \in BOOLEAN /\ c4 \in BOOLEAN /\ c5 \in BOOLEAN
  BY <1>1
<1> HIDE DEF wait, w, c1, c2, c3, c4, c5
<1>4. /\ DOMAIN checks = 1..5 /\ \A i \in 1..5 : checks[i][2].is # "waiting"
      /\ checks[2][1] = c2
      /\ \A i \in 1..5 : checks[i][2].is = "ready" => i = 2
  BY DEF Unknown, ResourceReady
<1> HIDE DEF checks
<1>5. \/ (\A i \in 1..5 : ~checks[i][1]) /\ d = w
      \/ \E i \in 1..5 : checks[i][1] /\ d = checks[i][2]
  BY <1>2, <1>4, DecideIs
<1>6. (d.is = "waiting" => ~c2 /\ d = w) /\ (d.is = "ready" => c2 \/ d = w)
  BY <1>3, <1>4, <1>5
<1>7. w = wait \/ w.is = "unknown"
  BY VerifyIs DEF w
<1>8. wait.is = "waiting" /\ wait.target = u /\ wait.position = NoOne
  BY DEF wait, Waiting
<1> QED BY <1>6, <1>7, <1>8 DEF c2

(* A verified wait for a oneshot: nothing was sent and nobody closed it. *)
LEMMA OneshotVerdict ==
    ASSUME Typed, NEW t \in Tasks, NEW d, d = AssessOneshot(t)
    PROVE  /\ d.is = "waiting" => ~one.sent /\ ~one.closed /\ d.target = "oneshot"
           /\ d.is = "ready" => one.sent \/ one.closed
<1> DEFINE wait == Waiting("oneshot", NoOne)
           w == VerifyWaker(t, RawWaker(one.waker), "unreadable", wait)
           c1 == one.sent
           c2 == one.closed
           c3 == ~one.rxset
           checks == <<<<c1, ResourceReady("oneshot_complete")>>,
                       <<c2, ResourceReady("oneshot_closed")>>, <<c3, Unknown("conflicting")>>>>
<1>2. d = Decide(checks, w)
  BY DEF AssessOneshot
<1>3. c1 \in BOOLEAN /\ c2 \in BOOLEAN /\ c3 \in BOOLEAN
  BY DEF Typed, OneTyped, OneType
<1> HIDE DEF wait, w, c1, c2, c3
<1>4. /\ DOMAIN checks = 1..3 /\ \A i \in 1..3 : checks[i][2].is # "waiting"
      /\ checks[1][1] = c1 /\ checks[2][1] = c2
      /\ \A i \in 1..3 : checks[i][2].is = "ready" => i \in {1, 2}
  BY DEF Unknown, ResourceReady
<1> HIDE DEF checks
<1>5. \/ (\A i \in 1..3 : ~checks[i][1]) /\ d = w
      \/ \E i \in 1..3 : checks[i][1] /\ d = checks[i][2]
  BY <1>2, <1>4, DecideIs
<1>6. (d.is = "waiting" => ~c1 /\ ~c2 /\ d = w) /\ (d.is = "ready" => c1 \/ c2 \/ d = w)
  BY <1>3, <1>4, <1>5
<1>7. w = wait \/ w.is = "unknown"
  BY VerifyIs DEF w
<1>8. wait.is = "waiting" /\ wait.target = "oneshot"
  BY DEF wait, Waiting
<1> QED BY <1>6, <1>7, <1>8 DEF c1, c2

(* A verified wait for a message: no slot and no marker stands at the read *)
(* index, whether its block is linked or not, and the channel is not       *)
(* drained and closed.                                                     *)
LEMMA RecvVerdict ==
    ASSUME Typed, LinkedFirst, BlockCap \in Nat \ {0}, NoOne \notin Nat,
           NEW v, NEW t \in Tasks, NEW d, d = AssessRecv(v, t)
    PROVE  /\ d.is = "waiting" => /\ chan.index \notin chan.ready
                                  /\ chan.marker # BlockOf(chan.index)
                                  /\ ~(chan.rxClosed /\ chan.avail = prog.cap)
                                  /\ d.target = "channel"
           /\ d.is = "ready" => \/ chan.index \in chan.ready \/ chan.marker = BlockOf(chan.index)
                                \/ chan.rxClosed /\ chan.avail = prog.cap
<1> DEFINE channel == ObserveChannel(v)
           words == channel.words
           wait == IF words.senders = 0 THEN Unknown("conflicting") ELSE Waiting("channel", NoOne)
           w == VerifyWaker(t, channel.waker, "conflicting", wait)
<1>0. /\ channel.words = chan /\ channel.slot = ObserveSlot(v)
      /\ channel.waker = RawWaker(chan.waker)
      /\ channel.read \in BOOLEAN /\ channel.permits \in BOOLEAN /\ channel.rxwaker \in BOOLEAN
  BY DEF ObserveChannel, Readable
<1> DEFINE c1 == ~channel.read
           c2 == words.index > words.tail
           c3 == channel.slot = "value"
           c4 == channel.slot = "closed"
           c5 == channel.slot = "unknown"
           c6 == words.rxClosed /\ ~channel.permits
           c7 == words.rxClosed /\ words.avail = prog.cap
           c8 == ~channel.rxwaker
           c9 == words.wstate # "waiting"
           checks == <<<<c1, Unknown("unreadable")>>, <<c2, Unknown("conflicting")>>,
                       <<c3, ResourceReady("message")>>, <<c4, ResourceReady("channel_closed")>>,
                       <<c5, Unknown("unreadable")>>, <<c6, Unknown("unproven")>>,
                       <<c7, ResourceReady("channel_closed")>>, <<c8, Unknown("unreadable")>>,
                       <<c9, Unknown("unproven")>>>>
<1>2. d = Decide(checks, w)
  BY DEF AssessRecv
<1>3. /\ c1 \in BOOLEAN /\ c2 \in BOOLEAN /\ c3 \in BOOLEAN /\ c4 \in BOOLEAN /\ c5 \in BOOLEAN
      /\ c6 \in BOOLEAN /\ c7 \in BOOLEAN /\ c8 \in BOOLEAN /\ c9 \in BOOLEAN
  OBVIOUS
<1> HIDE DEF channel, wait, w, c1, c2, c3, c4, c5, c6, c7, c8, c9
<1>4. /\ DOMAIN checks = 1..9 /\ \A i \in 1..9 : checks[i][2].is # "waiting"
      /\ checks[3][1] = c3 /\ checks[4][1] = c4 /\ checks[5][1] = c5 /\ checks[7][1] = c7
      /\ \A i \in 1..9 : checks[i][2].is = "ready" => i \in {3, 4, 7}
  BY DEF Unknown, ResourceReady
<1> HIDE DEF checks
<1>5. \/ (\A i \in 1..9 : ~checks[i][1]) /\ d = w
      \/ \E i \in 1..9 : checks[i][1] /\ d = checks[i][2]
  BY <1>2, <1>4, DecideIs
<1>6. /\ d.is = "waiting" => ~c3 /\ ~c4 /\ ~c5 /\ ~c7 /\ d = w
      /\ d.is = "ready" => c3 \/ c4 \/ c7 \/ d = w
  BY <1>3, <1>4, <1>5
<1>7. w = wait \/ w.is = "unknown"
  BY <1>0, VerifyIs DEF w
<1>8. wait.is # "ready" /\ (wait.is = "waiting" => wait.target = "channel")
  BY DEF wait, Waiting, Unknown
<1>9. BlockOf(chan.index) \in Nat /\ chan.blocks \in Nat
  BY DEF Typed, ChanTyped, ChanType, BlockOf
<1>10. /\ channel.slot = "value" => chan.index \in chan.ready
       /\ channel.slot = "closed" => chan.marker = BlockOf(chan.index)
       /\ channel.slot \in {"value", "closed", "unknown", "noblock", "empty"}
       /\ channel.slot = "noblock" => BlockOf(chan.index) > chan.blocks
       /\ channel.slot = "empty" => chan.index \notin chan.ready /\ chan.marker # BlockOf(chan.index)
  BY <1>0, <1>9 DEF ObserveSlot
<1>11. BlockOf(chan.index) > chan.blocks
         => chan.index \notin chan.ready /\ chan.marker # BlockOf(chan.index)
  BY <1>9 DEF LinkedFirst
<1>12. chan.rxClosed \in BOOLEAN
  BY DEF Typed, ChanTyped, ChanType
<1> QED BY <1>0, <1>6, <1>7, <1>8, <1>10, <1>11, <1>12 DEF c3, c4, c5, c7

(* A verdict past the state word and the chain is the protocol's, on an    *)
(* idle task whose chain ends in a reviewed primitive.                     *)
LEMMA VerdictIsProtocol ==
    ASSUME ViewsAssumption, NEW v \in Views, NEW t \in Tasks, NEW d, d = AssessWait(v, t),
           d.is \in {"waiting", "ready"}
    PROVE  /\ ~task[t].done /\ ~task[t].run
           /\ fut[t].shape \notin {"new", "select"}
           /\ fut[t].leaf \in Kinds /\ ClassOf(fut[t].leaf) \in v.reviewed
           /\ d = AssessPrimitive(v, t)
<1> DEFINE w == AssessPrimitive(v, t)
           c1 == t \in v.conflicts
           c2 == ChainEnd(t) = "unresumed"
           c3 == ChainEnd(t) = "unknown_continuation"
           c4 == ~Observed(v, t)
           c5 == ClassOf(fut[t].leaf) \notin v.reviewed
           checks == <<<<c1, Unknown("task_kind")>>, <<c2, [is |-> "unresumed"]>>,
                       <<c3, Unknown("continuation")>>, <<c4, Unknown("unreadable")>>,
                       <<c5, Unknown("unproven")>>>>
<1>1. Lifecycle(t) = "idle" /\ ~task[t].done /\ ~task[t].run
  BY DEF AssessWait, Lifecycle
<1>2. d = Decide(checks, w)
  BY <1>1 DEF AssessWait
<1>3. c1 \in BOOLEAN /\ c2 \in BOOLEAN /\ c3 \in BOOLEAN /\ c4 \in BOOLEAN /\ c5 \in BOOLEAN
  OBVIOUS
<1> HIDE DEF w, c1, c2, c3, c4, c5
<1>4. /\ DOMAIN checks = 1..5 /\ \A i \in 1..5 : checks[i][2].is \notin {"waiting", "ready"}
      /\ checks[2][1] = c2 /\ checks[3][1] = c3 /\ checks[5][1] = c5
  BY DEF Unknown
<1> HIDE DEF checks
<1>5. \/ (\A i \in 1..5 : ~checks[i][1]) /\ d = w
      \/ \E i \in 1..5 : checks[i][1] /\ d = checks[i][2]
  BY <1>2, <1>4, DecideIs
<1>6. ~c2 /\ ~c3 /\ ~c5 /\ d = w
  BY <1>3, <1>4, <1>5
<1>7. fut[t].shape \notin {"new", "select"}
  BY <1>1, <1>6 DEF c2, c3, ChainEnd
<1>8. ClassOf(fut[t].leaf) \in {"acquire", "notified", "join", "oneshot", "recv"}
  BY <1>6, ViewsAssumption DEF c5
<1> QED BY <1>1, <1>6, <1>7, <1>8 DEF c5, w, ClassOf, Kinds

(* What a verdict says of one task, in every state of the invariant. *)
LEMMA VerdictHolds ==
    ASSUME TokioAssumption, ViewsAssumption, Typed, LinkedFirst, Suspended,
           NEW v \in Views, NEW t \in Tasks, NEW d, d = AssessWait(v, t)
    PROVE  /\ d.is = "waiting" => ~Ready(t) /\ ~Blocked(t)
           /\ d.is = "ready" => Ready(t)
<1> SUFFICES ASSUME d.is \in {"waiting", "ready"}
             PROVE  /\ d.is = "waiting" => ~Ready(t) /\ ~Blocked(t)
                    /\ d.is = "ready" => Ready(t)
  OBVIOUS
<1>1. fut[t].leaf \in Kinds /\ d = AssessPrimitive(v, t)
  BY VerdictIsProtocol
<1>2. CASE fut[t].leaf \in {"acquire", "held"}
  <2>1. LeafAcquire(t) \in Acquires
    BY DEF LeafAcquire, Acquires
  <2>2. d = AssessAcquire(v, t, LeafAcquire(t))
    BY <1>1, <1>2 DEF AssessPrimitive
  <2>3. /\ d.is = "waiting" => ~AcquireReady(LeafAcquire(t)) /\ sem.lock = NoOne
        /\ d.is = "ready" => AcquireReady(LeafAcquire(t))
    BY <2>1, <2>2, AcquireVerdict
  <2>4. Ready(t) <=> AcquireReady(LeafAcquire(t))
    BY <1>2 DEF Ready
  <2> QED BY <1>2, <2>3, <2>4 DEF Blocked
<1>3. CASE fut[t].leaf = "notified"
  <2>1. d = AssessNotified(v, t)
    BY <1>1, <1>3 DEF AssessPrimitive
  <2>2. Ready(t) <=> \/ nod[t].state = "done" \/ nod[t].note # "none" \/ nod[t].calls # ntf.calls
                     \/ nod[t].state = "init" /\ ntf.state = "notified"
    BY <1>3 DEF Ready
  <2> QED BY <1>3, <2>1, <2>2, NotifiedVerdict DEF Blocked
<1>4. CASE fut[t].leaf = "join"
  <2>1. d = AssessJoin(v, t)
    BY <1>1, <1>4 DEF AssessPrimitive
  <2>2. Ready(t) <=> task[fut[t].joins].done
    BY <1>4 DEF Ready
  <2>3. fut[t].joins \in Tasks
    BY <1>4 DEF Suspended
  <2> QED BY <1>4, <2>1, <2>2, <2>3, JoinVerdict DEF Blocked
<1>5. CASE fut[t].leaf = "oneshot"
  <2>1. d = AssessOneshot(t)
    BY <1>1, <1>5 DEF AssessPrimitive
  <2>2. Ready(t) <=> one.sent \/ one.closed
    BY <1>5 DEF Ready
  <2> QED BY <1>5, <2>1, <2>2, OneshotVerdict DEF Blocked
<1>6. CASE fut[t].leaf = "recv"
  <2>1. d = AssessRecv(v, t)
    BY <1>1, <1>6 DEF AssessPrimitive
  <2>2. Ready(t) <=> \/ chan.index \in chan.ready \/ chan.marker = BlockOf(chan.index)
                     \/ chan.rxClosed /\ chan.avail = prog.cap
    BY <1>6 DEF Ready
  <2>3. BlockCap \in Nat \ {0} /\ NoOne \notin Nat
    BY TokioAssumption
  <2> QED BY <1>6, <2>1, <2>2, <2>3, RecvVerdict DEF Blocked
<1> QED BY <1>1, <1>2, <1>3, <1>4, <1>5, <1>6 DEF Kinds

----------------------------------------------------------------------------
(* What was said stays so under every step of the program. *)

(* What is said of a held acquire stays true until its task moves. *)
LEMMA BarrierKept ==
    ASSUME Typed, Suspended, FutMoves, TaskMoves, QueueMoves, NEW b, BarrierHolds(b)
    PROVE  BarrierHolds(b)'
<1> DEFINE h == b.holder
           a == <<h, "held">>
<1>0. /\ h \in Tasks /\ a \in Acquires /\ b.n \in Nat /\ b.n <= fut[h].n /\ fut[h].n \in Nat
  BY AcquiresAre DEF BarrierHolds, Typed, FutTyped, FutType
<1>1. b.n <= fut'[h].n
  BY <1>0 DEF FutMoves, Moved
<1> SUFFICES ASSUME fut'[h].n = b.n, fut'[h].leaf # "none", ~task'[h].cancelled
             PROVE  /\ fut'[h].leaf # "held" /\ fut'[h].shape \in {"await", "relayed"}
                    /\ acq'[a].live /\ acq'[a].queued
  BY <1>0, <1>1 DEF BarrierHolds
<1>2. ~task[h].cancelled
  BY <1>0 DEF TaskMoves
<1>3. fut'[h] = fut[h]
  BY <1>0, <1>2 DEF FutMoves, Moved, Suspended
<1>4. /\ fut[h].leaf # "held" /\ fut[h].shape \in {"await", "relayed"}
      /\ acq[a].live /\ acq[a].queued
  BY <1>2, <1>3 DEF BarrierHolds
<1>5. acq'[a].live /\ acq'[a].queued
  <2>1. CASE Still \/ Emptied
    BY <1>0, <1>4, <2>1 DEF Still, Emptied, Alike
  <2>2. CASE Made
    <3>1. PICK u \in Tasks : Others(<<u, "leaf">>)
      BY <2>2 DEF Made
    <3>2. a # <<u, "leaf">>
      OBVIOUS
    <3> QED BY <1>0, <1>4, <3>1, <3>2 DEF Others, Alike
  <2>3. CASE Queued
    BY <1>0, <1>4, <2>3 DEF Queued, Others, Alike
  <2>4. CASE Retired
    <3>1. PICK u \in Tasks, c \in Acquires :
            /\ c \in {<<u, "leaf">>, <<u, "held">>} /\ LetGo(u, c) /\ Others(c)
      BY <2>4, AcquiresAre DEF Retired
    <3>2. a = c => u = h
      BY <3>1
    <3>3. a # c
      BY <1>3, <1>4, <3>1, <3>2 DEF LetGo
    <3> QED BY <1>0, <1>4, <3>1, <3>3 DEF Others, Alike
  <2>5. CASE Granted
    BY <1>0, <1>4, <2>5 DEF Granted, Others, Alike
  <2> QED BY <2>1, <2>2, <2>3, <2>4, <2>5 DEF QueueMoves
<1> QED BY <1>3, <1>4, <1>5

(* What is said of an acquire queued behind a barrier stays true: nothing  *)
(* overtakes in the queue.                                                 *)
LEMMA BehindKept ==
    ASSUME Typed, Suspended, QueuedOnce, ClosedList, FutMoves, QueueMoves, LockMoves,
           \A a \in Acquires : acq'[a].need \in Nat, NEW r, BehindHolds(r)
    PROVE  BehindHolds(r)'
<1> DEFINE h == <<r.holder, "held">>
           w == r.waiter
           a == r.acq
<1>0. /\ r.holder \in Tasks /\ fut[r.holder].n > 0 /\ w \in Tasks /\ r.n \in Nat \ {0}
      /\ r.n <= fut[w].n /\ a \in {<<w, "leaf">>, <<w, "held">>}
      /\ \A t \in Tasks : fut[t].n \in Nat
  BY DEF BehindHolds, Typed, FutTyped, FutType
<1>1. h \in Acquires /\ a \in Acquires
  BY <1>0, AcquiresAre
<1>2. \A t \in Tasks : fut'[t].n = fut[t].n \/ fut'[t].n = fut[t].n + 1
  BY DEF FutMoves, Moved
<1>3. fut'[r.holder].n > 0 /\ r.n <= fut'[w].n
  BY <1>0, <1>2
<1> SUFFICES ASSUME acq'[h].live, acq'[h].need > 0, acq'[a].live, fut'[w].n = r.n
             PROVE  acq'[a].need = r.need /\ (sem'.qclosed \/ Older(sem'.queue, h, a))
  BY <1>0, <1>3 DEF BehindHolds, Older
<1>4. fut[w].n = r.n
  BY <1>0, <1>2
<1>5. /\ acq[h].live /\ acq[h].need > 0 /\ acq[a].live
      => acq[a].need = r.need /\ (sem.qclosed \/ Older(sem.queue, h, a))
  BY <1>4 DEF BehindHolds
<1>6. Older(sem.queue, h, a) => In(sem.queue, h) /\ In(sem.queue, a)
  BY DEF Older, In
<1>7. sem.qclosed => sem'.qclosed
  BY DEF LockMoves
<1>8. sem.queue \in Seq(Acquires) /\ Distinct(sem.queue)
  BY DEF Typed, SemTyped, SemType, QueuedOnce
<1> HIDE DEF h, a
<1>9. CASE Still
  BY <1>1, <1>5, <1>7, <1>9 DEF Still, Alike
<1>10. CASE Made
  <2>1. PICK u \in Tasks : /\ fut'[u].n = fut[u].n + 1 /\ Others(<<u, "leaf">>)
                           /\ sem'.queue = sem.queue
    BY <1>10 DEF Made
  <2>2. u # w
    BY <1>0, <1>4, <2>1
  <2>3. a # <<u, "leaf">> /\ h # <<u, "leaf">>
    BY <1>0, <2>2 DEF a, h
  <2> QED BY <1>1, <1>5, <1>7, <2>1, <2>3 DEF Others, Alike
<1>11. CASE Queued
  <2>1. PICK u \in Tasks, c \in Acquires :
          /\ c \in {<<u, "leaf">>, <<u, "held">>} /\ Others(c) /\ ~(acq[c].live /\ acq[c].queued)
          /\ sem'.queue = Prepend(sem.queue, c) /\ ~sem.qclosed
          /\ fut[u].n = 0 \/ (acq[c].live /\ acq[c].need > 0)
    BY <1>11, AcquiresAre DEF Queued
  <2>2. ~In(sem.queue, c)
    BY <2>1 DEF QueuedOnce
  <2>3. (c = a => u = w) /\ (c = h => u = r.holder)
    BY <1>0, <2>1 DEF a, h
  <2>4. acq[h].live /\ acq[h].need > 0
    BY <1>0, <1>1, <2>1, <2>3 DEF Others, Alike
  <2>5. acq[a].live
    BY <1>0, <1>1, <1>4, <2>1, <2>3 DEF Others, Alike
  <2>6. acq[a].need = r.need /\ Older(sem.queue, h, a)
    BY <1>5, <2>1, <2>4, <2>5
  <2>7. a # c
    BY <1>6, <2>2, <2>6
  <2>8. Older(sem'.queue, h, a)
    BY <1>8, <2>1, <2>2, <2>6, PrependKeeps
  <2> QED BY <1>1, <2>1, <2>6, <2>7, <2>8 DEF Others, Alike
<1>12. CASE Retired
  <2>1. PICK u \in Tasks, c \in Acquires :
          /\ ~acq'[c].live /\ Others(c)
          /\ sem'.queue = RemoveFirst(sem.queue, c) \/ sem'.queue = sem.queue
    BY <1>12, AcquiresAre DEF Retired
  <2>2. c # a /\ c # h
    BY <2>1
  <2>3. acq[a].need = r.need /\ acq'[a].need = acq[a].need
        /\ (sem.qclosed \/ Older(sem.queue, h, a))
    BY <1>1, <1>5, <2>1, <2>2 DEF Others, Alike
  <2>4. Older(sem.queue, h, a) => Older(sem'.queue, h, a)
    BY <1>8, <2>1, <2>2, RemovedIs
  <2> QED BY <1>7, <2>3, <2>4
<1>13. CASE Granted
  <2> DEFINE c == Last(sem.queue)
  <2>1. /\ sem.lock # NoOne /\ op[sem.lock].do = "add" /\ sem.queue # <<>> /\ Others(c)
        /\ acq'[c].live = acq[c].live /\ acq'[c].need <= acq[c].need
        /\ \/ sem'.queue = sem.queue
           \/ sem'.queue = Front(sem.queue) /\ acq'[c].need = 0
    BY <1>13 DEF Granted
  <2>2. ~sem.qclosed
    BY <2>1 DEF ClosedList
  <2>3. c \in Acquires /\ acq[h].need \in Nat /\ acq'[h].need \in Nat
    BY <1>1, <1>8, <2>1, FrontIs DEF Typed, AcqTyped, AcqType
  <2> HIDE DEF c
  <2>4. acq[h].live /\ acq[a].live /\ acq[h].need > 0
    BY <1>1, <2>1, <2>3 DEF Others, Alike
  <2>5. acq[a].need = r.need /\ Older(sem.queue, h, a)
    BY <1>5, <2>2, <2>4
  <2>6. a # c
    BY <1>8, <2>1, <2>5, FrontKeeps DEF c
  <2>7. Older(sem'.queue, h, a)
    <3>1. CASE sem'.queue = sem.queue
      BY <2>5, <3>1
    <3>2. CASE sem'.queue = Front(sem.queue) /\ acq'[c].need = 0
      <4>1. h # c
        BY <3>2
      <4> QED BY <1>8, <2>1, <2>5, <3>2, <4>1, FrontKeeps DEF c
    <3> QED BY <2>1, <3>1, <3>2
  <2> QED BY <1>1, <2>1, <2>5, <2>6, <2>7 DEF Others, Alike
<1>14. CASE Emptied
  BY <1>1, <1>5, <1>14 DEF Emptied, Alike
<1> QED BY <1>9, <1>10, <1>11, <1>12, <1>13, <1>14 DEF QueueMoves

(* A cycle of suspended tasks stays one until a task of it moves. *)
LEMMA CycleKept ==
    ASSUME FutMoves, TaskMoves, NEW cs, CycleHolds(cs)
    PROVE  CycleHolds(cs)'
<1>1. \A c \in cs : c.task \in Tasks
  BY DEF CycleHolds
<1> SUFFICES ASSUME \A c \in cs : ~task'[c.task].cancelled, NEW c \in cs
             PROVE  /\ fut'[c.task].n = c.n /\ fut'[c.task].leaf = "join"
                    /\ fut'[c.task].shape \in {"await", "relayed", "wrapped"}
                    /\ fut'[c.task].joins \in CycleTasksOf(cs)
                    /\ ~task'[c.task].done
  BY <1>1 DEF CycleHolds, CycleTasksOf
<1>2. \A d \in cs : ~task[d.task].cancelled
  BY <1>1 DEF TaskMoves
<1>3. \A d \in cs : /\ fut[d.task].n = d.n /\ fut[d.task].leaf = "join"
                    /\ fut[d.task].shape \in {"await", "relayed", "wrapped"}
                    /\ fut[d.task].joins \in CycleTasksOf(cs)
                    /\ ~task[d.task].done
  BY <1>2 DEF CycleHolds
<1>4. ~task[fut[c.task].joins].done
  BY <1>3 DEF CycleTasksOf
<1>5. fut'[c.task] = fut[c.task]
  <2>1. ~Moved(c.task)
    BY <1>2, <1>3, <1>4 DEF Moved
  <2> QED BY <1>1, <2>1 DEF FutMoves
<1>6. ~task'[c.task].done
  BY <1>1, <1>3 DEF TaskMoves
<1> QED BY <1>3, <1>5, <1>6

(* A step of the program leaves the report it does not touch true. *)
LEMMA ReportKept ==
    ASSUME Typed, Suspended, QueuedOnce, ClosedList, FutMoves, TaskMoves, QueueMoves, LockMoves,
           Typed', report' = report, ReportHolds
    PROVE  ReportHolds'
<1> SUFFICES ASSUME report # NoReport
             PROVE  /\ \A b \in report.barriers : BarrierHolds(b)'
                    /\ \A r \in report.behind : BehindHolds(r)'
                    /\ CycleHolds(report.cycle)'
  BY DEF ReportHolds
<1>1. ASSUME NEW b \in report.barriers
      PROVE  BarrierHolds(b)'
  BY BarrierKept DEF ReportHolds
<1>2. ASSUME NEW r \in report.behind
      PROVE  BehindHolds(r)'
  <2>1. \A a \in Acquires : acq'[a].need \in Nat
    BY DEF Typed, AcqTyped, AcqType
  <2> QED BY <2>1, BehindKept DEF ReportHolds
<1>3. PICK cs : cs = report.cycle
  OBVIOUS
<1>4. CycleHolds(cs)'
  BY <1>3, CycleKept DEF ReportHolds
<1>5. CycleHolds(report.cycle)'
  BY <1>3, <1>4 DEF CycleHolds, CycleTasksOf
<1> QED BY <1>1, <1>2, <1>5

----------------------------------------------------------------------------
(* What one core's analysis says is so when it says it. *)

(* A place in the list read whole is the place in the queue, from its old  *)
(* end.                                                                    *)
LEMMA PositionIs ==
    ASSUME TokioAssumption, Typed, NEW v, NEW a,
           Position(ObserveSemaphoreQueue(v), a) # NoOne
    PROVE  \E i \in 1..Len(sem.queue) :
             /\ sem.queue[Len(sem.queue) - i + 1] = a
             /\ Position(ObserveSemaphoreQueue(v), a) = i - 1
<1> DEFINE obs == ObserveSemaphoreQueue(v)
           q == sem.queue
<1>0. q \in Seq(Acquires) /\ Len(q) \in Nat
  BY DEF Typed, SemTyped, SemType
<1>1. Established(obs) /\ Contains(obs.waiters, a)
  BY DEF Position
<1>2. obs.waiters = Reverse(q)
  <2>1. obs.complete
    BY <1>1 DEF Established
  <2> QED BY <2>1 DEF ObserveSemaphoreQueue, WalkNodes
<1>3. DOMAIN Reverse(q) = 1..Len(q) /\ \A i \in 1..Len(q) : Reverse(q)[i] = q[Len(q) - i + 1]
  BY <1>0 DEF Reverse
<1>4. Len(Reverse(q)) = Len(q)
  BY <1>0 DEF Reverse
<1>5. PICK i \in 1..Len(q) : /\ Reverse(q)[i] = a
                             /\ i = CHOOSE k \in DOMAIN Reverse(q) : Reverse(q)[k] = a
  BY <1>1, <1>2, <1>3, <1>4 DEF Contains
<1>6. Position(obs, a) = i - 1
  BY <1>1, <1>2, <1>5 DEF Position
<1> QED BY <1>3, <1>5, <1>6

(* What an assessment says of a barrier is so in the program as captured. *)
LEMMA BarriersSaid ==
    ASSUME ViewsAssumption, Typed, Suspended, NEW v \in Views, NEW b \in PollingBarriers(v)
    PROVE  /\ b.holder \in Tasks /\ b.n = fut[b.holder].n /\ b.n \in Nat /\ b.n > 0
           /\ fut[b.holder].leaf # "held" /\ fut[b.holder].shape \in {"await", "relayed"}
           /\ acq[<<b.holder, "held">>].live /\ acq[<<b.holder, "held">>].queued
           /\ b.granted = (acq[<<b.holder, "held">>].need = 0)
           /\ b.position = Position(ObserveSemaphoreQueue(v), <<b.holder, "held">>)
<1>1. PICK t \in Tasks :
        /\ IsBarrier(v, t)
        /\ b = [holder |-> t, n |-> fut[t].n, granted |-> acq[<<t, "held">>].need = 0,
                position |-> Position(ObserveSemaphoreQueue(v), <<t, "held">>)]
  BY DEF PollingBarriers
<1>2. fut[t].shape \in {"await", "relayed"}
  <2>1. Lifecycle(t) = "idle" /\ ChainEnd(t) = "primitive"
    BY <1>1 DEF IsBarrier
  <2>2. fut[t].shape \in {"new", "await", "relayed"}
    BY <1>1 DEF IsBarrier, AllExclusive
  <2>3. fut[t].shape # "new"
    BY <2>1 DEF ChainEnd
  <2> QED BY <2>2, <2>3
<1>3. fut[t].leaf # "none"
  <2>1. ClassOf(fut[t].leaf) \in {"acquire", "notified", "join", "oneshot", "recv"}
    BY <1>1 DEF IsBarrier, ViewsAssumption
  <2> QED BY <2>1 DEF ClassOf
<1>4. fut[t].n \in Nat /\ fut[t].n > 0
  BY <1>3 DEF Suspended, Typed, FutTyped, FutType
<1>5. fut[t].leaf # "held" /\ acq[<<t, "held">>].live /\ acq[<<t, "held">>].queued
  BY <1>1 DEF IsBarrier
<1> QED BY <1>1, <1>2, <1>4, <1>5

(* A verified wait with a place in the list is one for permits. *)
LEMMA WaiterSaid ==
    ASSUME TokioAssumption, ViewsAssumption, Typed, LinkedFirst, Suspended,
           NEW v \in Views, NEW w \in Tasks, NEW d, d = AssessWait(v, w),
           d.is = "waiting", d.target = "semaphore", d.position # NoOne
    PROVE  /\ fut[w].n \in Nat \ {0}
           /\ d.position = Position(ObserveSemaphoreQueue(v), LeafAcquire(w))
<1>1. fut[w].leaf \in Kinds /\ d = AssessPrimitive(v, w)
  BY VerdictIsProtocol
<1>2. fut[w].n \in Nat \ {0}
  BY <1>1 DEF Suspended, Typed, FutTyped, FutType, Kinds
<1>3. fut[w].leaf # "notified"
  <2> SUFFICES ASSUME fut[w].leaf = "notified" PROVE FALSE
    OBVIOUS
  <2>1. d = AssessNotified(v, w)
    BY <1>1 DEF AssessPrimitive
  <2> QED BY <2>1, NotifiedVerdict
<1>4. fut[w].leaf # "join"
  <2> SUFFICES ASSUME fut[w].leaf = "join" PROVE FALSE
    OBVIOUS
  <2>1. d = AssessJoin(v, w) /\ fut[w].joins \in Tasks
    BY <1>1 DEF AssessPrimitive, Suspended
  <2> QED BY <2>1, JoinVerdict
<1>5. fut[w].leaf # "oneshot"
  <2> SUFFICES ASSUME fut[w].leaf = "oneshot" PROVE FALSE
    OBVIOUS
  <2>1. d = AssessOneshot(w)
    BY <1>1 DEF AssessPrimitive
  <2> QED BY <2>1, OneshotVerdict
<1>6. fut[w].leaf # "recv"
  <2> SUFFICES ASSUME fut[w].leaf = "recv" PROVE FALSE
    OBVIOUS
  <2>1. d = AssessRecv(v, w) /\ BlockCap \in Nat \ {0} /\ NoOne \notin Nat
    BY <1>1 DEF AssessPrimitive, TokioAssumption
  <2> QED BY <2>1, RecvVerdict
<1>7. d = AssessAcquire(v, w, LeafAcquire(w)) /\ LeafAcquire(w) \in Acquires
  BY <1>1, <1>3, <1>4, <1>5, <1>6, AcquiresAre DEF AssessPrimitive, Kinds
<1>8. d = Waiting("semaphore", Position(ObserveSemaphoreQueue(v), LeafAcquire(w)))
  BY <1>7, AcquireVerdict
<1> QED BY <1>2, <1>8 DEF Waiting

(* What it says of an acquire behind the barrier is so. *)
LEMMA BehindSaid ==
    ASSUME TokioAssumption, ViewsAssumption, Typed, LinkedFirst, Suspended,
           NEW v \in Views, NEW r \in Behind(v), r.relation = "queue_order"
    PROVE  /\ r.barrier.holder \in Tasks /\ fut[r.barrier.holder].n > 0
           /\ r.waiter \in Tasks /\ r.n \in Nat \ {0} /\ r.n = fut[r.waiter].n
           /\ r.acq \in {<<r.waiter, "leaf">>, <<r.waiter, "held">>}
           /\ r.need = acq[r.acq].need
           /\ Older(sem.queue, <<r.barrier.holder, "held">>, r.acq)
<1> DEFINE verdict == [t \in Tasks |-> AssessWait(v, t)]
           waiters == {t \in Tasks : verdict[t].is = "waiting" /\ verdict[t].target = "semaphore"}
<1>1. PICK w \in waiters, b \in PollingBarriers(v) :
        r = [waiter |-> w, acq |-> LeafAcquire(w), n |-> fut[w].n, need |-> acq[LeafAcquire(w)].need,
             barrier |-> b, relation |-> IF b.granted THEN "reservation" ELSE "queue_order"]
  BY DEF Behind
<1>2. r.barrier.granted \/ Before(r.barrier.position, verdict[r.waiter].position)
  BY DEF Behind
<1>3. ~b.granted
  BY <1>1
<1> DEFINE d == AssessWait(v, w)
<1>4. w \in Tasks /\ d.is = "waiting" /\ d.target = "semaphore" /\ Before(b.position, d.position)
  BY <1>1, <1>2, <1>3
<1>5. b.position # NoOne /\ d.position # NoOne /\ b.position < d.position
  BY <1>4 DEF Before
<1> HIDE DEF d
<1>6. /\ fut[w].n \in Nat \ {0}
      /\ d.position = Position(ObserveSemaphoreQueue(v), LeafAcquire(w))
  BY <1>4, <1>5, WaiterSaid DEF d
<1>7. /\ b.holder \in Tasks /\ fut[b.holder].n > 0
      /\ b.position = Position(ObserveSemaphoreQueue(v), <<b.holder, "held">>)
  BY BarriersSaid
<1> DEFINE q == sem.queue
           h == <<b.holder, "held">>
           a == LeafAcquire(w)
<1>8. PICK i \in 1..Len(q) : q[Len(q) - i + 1] = h /\ b.position = i - 1
  BY <1>5, <1>7, PositionIs, SMTT(30)
<1>9. PICK j \in 1..Len(q) : q[Len(q) - j + 1] = a /\ d.position = j - 1
  BY <1>5, <1>6, PositionIs
<1>10. Len(q) \in Nat
  BY DEF Typed, SemTyped, SemType
<1>11. /\ Len(q) - j + 1 \in 1..Len(q) /\ Len(q) - i + 1 \in 1..Len(q)
       /\ Len(q) - j + 1 < Len(q) - i + 1
  BY <1>5, <1>8, <1>9, <1>10
<1>12. Older(q, h, a)
  BY <1>8, <1>9, <1>11 DEF Older
<1>13. LeafAcquire(w) \in {<<w, "leaf">>, <<w, "held">>}
  BY <1>4, AcquiresAre
<1> QED BY <1>1, <1>4, <1>6, <1>7, <1>12, <1>13

(* The tasks it puts on a cycle are on one. *)
LEMMA CycleSaid ==
    ASSUME TokioAssumption, ViewsAssumption, Typed, Suspended, NEW v \in Views
    PROVE  CycleHolds({[task |-> t, n |-> fut[t].n] : t \in CycleTasks(v)})
<1> DEFINE edges == JoinEdges(v)
           sources == {t \in Tasks : edges[t] # NoOne}
           marked == CycleTasks(v)
           cs == {[task |-> t, n |-> fut[t].n] : t \in marked}
<1>1. ASSUME NEW t \in marked
      PROVE  t \in sources /\ edges[t] \in marked
  <2>1. PICK path \in Cycles(v) : t \in Range(path)
    BY DEF CycleTasks
  <2>2. PICK n \in 1..Cardinality(sources) : path \in [1..n -> sources]
    BY DEF Cycles
  <2>3. /\ \A i \in 1..(Len(path) - 1) : edges[path[i]] = path[i + 1]
        /\ edges[path[Len(path)]] = path[1]
    BY DEF Cycles
  <2>4. n \in Nat \ {0}
    BY <2>2
  <2> HIDE DEF edges, sources
  <2>5. path \in Seq(sources)
    BY <2>2, <2>4
  <2>6. Len(path) = n /\ DOMAIN path = 1..n
    BY <2>2, <2>4, <2>5
  <2>7. PICK i \in 1..n : t = path[i]
    BY <2>1, <2>6 DEF Range
  <2>8. t \in sources
    BY <2>2, <2>7
  <2>9. \E j \in 1..n : edges[t] = path[j]
    <3>1. CASE i = n
      BY <2>3, <2>4, <2>6, <2>7, <3>1
    <3>2. CASE i # n
      <4>1. i \in 1..(Len(path) - 1) /\ i + 1 \in 1..n
        BY <2>4, <2>6, <3>2
      <4> QED BY <2>3, <2>7, <4>1
    <3> QED BY <3>1, <3>2
  <2>10. edges[t] \in Range(path)
    BY <2>6, <2>9 DEF Range
  <2> QED BY <2>1, <2>8, <2>10 DEF CycleTasks
<1>2. ASSUME NEW t \in sources
      PROVE  /\ t \in Tasks /\ fut[t].leaf = "join" /\ ~task[t].done
             /\ fut[t].shape \notin {"new", "select"} /\ edges[t] = fut[t].joins
  <2> DEFINE d == AssessWait(v, t)
  <2>1. t \in Tasks /\ fut[t].leaf = "join" /\ d.is = "waiting" /\ edges[t] = d.target
    BY DEF JoinEdges
  <2> HIDE DEF d
  <2>2. ~task[t].done /\ fut[t].shape \notin {"new", "select"} /\ d = AssessPrimitive(v, t)
    BY <2>1, VerdictIsProtocol DEF d
  <2>3. d = AssessJoin(v, t) /\ fut[t].joins \in Tasks
    BY <2>1, <2>2 DEF AssessPrimitive, Suspended
  <2>4. d.target = fut[t].joins
    BY <2>1, <2>3, JoinVerdict
  <2> QED BY <2>1, <2>2, <2>4
<1> HIDE DEF edges, sources, marked
<1>3. ASSUME NEW t \in marked
      PROVE  t \in CycleTasksOf(cs)
  <2> DEFINE c == [task |-> t, n |-> fut[t].n]
  <2>1. c \in cs /\ c.task = t
    OBVIOUS
  <2> HIDE DEF c, cs
  <2> QED BY <2>1 DEF CycleTasksOf
<1>4. ASSUME NEW c \in cs
      PROVE  /\ c.task \in Tasks /\ fut[c.task].n = c.n /\ fut[c.task].leaf = "join"
             /\ ~task[c.task].cancelled => fut[c.task].shape \in {"await", "relayed", "wrapped"}
             /\ fut[c.task].joins \in CycleTasksOf(cs) /\ ~task[c.task].done
  <2>1. PICK t \in marked : c = [task |-> t, n |-> fut[t].n]
    OBVIOUS
  <2>2. /\ t \in Tasks /\ fut[t].leaf = "join" /\ ~task[t].done
        /\ fut[t].shape \notin {"new", "select"} /\ edges[t] = fut[t].joins /\ edges[t] \in marked
    BY <1>1, <1>2
  <2>3. ~task[t].cancelled => fut[t].shape \in {"await", "relayed", "wrapped"}
    BY <2>2 DEF Suspended, Typed, FutTyped, FutType, Shapes
  <2> QED BY <1>3, <2>1, <2>2, <2>3
<1> HIDE DEF cs
<1>5. CycleHolds(cs)
  BY <1>4 DEF CycleHolds
<1> QED BY <1>5 DEF cs, marked

----------------------------------------------------------------------------
(* The invariant, from its parts. *)

(* A step of the program keeps the whole invariant. *)
LEMMA ReportStep ==
    ASSUME TokioAssumption, AssessInv, Next, report' = report
    PROVE  AssessInv'
<1>0. /\ ProgramInv /\ Typed /\ Midway /\ LinkedFirst /\ Suspended /\ DropsLate /\ QueuedOnce
      /\ LeavesLive /\ LeavesAwaited /\ LockHeld /\ ClosedList /\ ReportHolds
  BY DEF AssessInv, ProgramInv
<1>1. ProgramInv' /\ Typed'
  BY <1>0, StepHolds DEF ProgramInv
<1>2. FutMoves /\ TaskMoves
  BY <1>0, StepFutMoves, StepTaskMoves
<1>3. QueueMoves /\ LockMoves
  BY <1>0, TaskStepMoves, ThreadStepMoves DEF Next, Moves
<1>4. ReportHolds'
  BY <1>0, <1>1, <1>2, <1>3, ReportKept
<1> QED BY <1>1, <1>4 DEF AssessInv

(* What is said of the tasks depends on them and the semaphore alone. *)
LEMMA ClaimsSame ==
    ASSUME task' = task, fut' = fut, acq' = acq, sem' = sem
    PROVE  /\ \A b : BarrierHolds(b) => BarrierHolds(b)'
           /\ \A r : BehindHolds(r) => BehindHolds(r)'
           /\ \A cs : CycleHolds(cs) => CycleHolds(cs)'
<1>1. \A b : BarrierHolds(b) => BarrierHolds(b)'
  BY DEF BarrierHolds
<1>2. ASSUME NEW r, BehindHolds(r)
      PROVE  BehindHolds(r)'
  <2>1. Older(sem.queue, <<r.holder, "held">>, r.acq)
          => Older(sem'.queue, <<r.holder, "held">>, r.acq)
    OBVIOUS
  <2>2. Older(sem'.queue, <<r.holder, "held">>, r.acq)
          => Older(sem.queue, <<r.holder, "held">>, r.acq)'
    BY DEF Older
  <2> QED BY <1>2, <2>1, <2>2 DEF BehindHolds
<1>3. \A cs : CycleHolds(cs) => CycleHolds(cs)'
  BY DEF CycleHolds, CycleTasksOf
<1> QED BY <1>1, <1>2, <1>3

(* A fresh report is true. *)
LEMMA CaptureHolds ==
    ASSUME TokioAssumption, ViewsAssumption, AssessInv, NEW v \in Views, Capture(v)
    PROVE  ReportHolds'
<1>0. Typed /\ LinkedFirst /\ Suspended
  BY DEF AssessInv, ProgramInv
<1> DEFINE bs == {[holder |-> b.holder, n |-> b.n] : b \in PollingBarriers(v)}
           rs == {[waiter |-> r.waiter, acq |-> r.acq, n |-> r.n, need |-> r.need,
                   holder |-> r.barrier.holder] :
                    r \in {q \in Behind(v) : q.relation = "queue_order"}}
           cs == {[task |-> t, n |-> fut[t].n] : t \in CycleTasks(v)}
<1>1. report' = [barriers |-> bs, behind |-> rs, cycle |-> cs] /\ UNCHANGED vars
  BY DEF Capture
<1>2. task' = task /\ fut' = fut /\ acq' = acq /\ sem' = sem
  BY <1>1 DEF vars
<1>3. report'.barriers = bs /\ report'.behind = rs /\ report'.cycle = cs
  BY <1>1
<1>4. ASSUME NEW b \in bs
      PROVE  BarrierHolds(b)
  <2>1. PICK p \in PollingBarriers(v) : b = [holder |-> p.holder, n |-> p.n]
    OBVIOUS
  <2> QED BY <1>0, <2>1, BarriersSaid DEF BarrierHolds
<1>5. ASSUME NEW r \in rs
      PROVE  BehindHolds(r)
  <2>1. PICK q \in Behind(v) :
          /\ q.relation = "queue_order"
          /\ r = [waiter |-> q.waiter, acq |-> q.acq, n |-> q.n, need |-> q.need,
                  holder |-> q.barrier.holder]
    OBVIOUS
  <2>2. /\ q.barrier.holder \in Tasks /\ fut[q.barrier.holder].n > 0
        /\ q.waiter \in Tasks /\ q.n \in Nat \ {0} /\ q.n = fut[q.waiter].n
        /\ q.acq \in {<<q.waiter, "leaf">>, <<q.waiter, "held">>}
        /\ q.need = acq[q.acq].need
        /\ Older(sem.queue, <<q.barrier.holder, "held">>, q.acq)
    BY <1>0, <2>1, BehindSaid
  <2> QED BY <2>1, <2>2 DEF BehindHolds
<1>6. CycleHolds(cs)
  BY <1>0, CycleSaid
<1> HIDE DEF bs, rs, cs
<1>7. \A b \in report'.barriers : BarrierHolds(b)'
  BY <1>2, <1>3, <1>4, ClaimsSame
<1>8. \A r \in report'.behind : BehindHolds(r)'
  BY <1>2, <1>3, <1>5, ClaimsSame
<1>9. CycleHolds(report.cycle)'
  BY <1>2, <1>3, <1>6 DEF CycleHolds, CycleTasksOf
<1> QED BY <1>7, <1>8, <1>9 DEF ReportHolds

(* The inductive invariant of the program and of what one core of it was   *)
(* said to show.                                                           *)
THEOREM AssessHolds == AssessSpec => []AssessInv
<1>1. AssessInit => AssessInv
  BY TokioAssumption, InitHolds DEF AssessInit, AssessInv, ReportHolds
<1>2. AssessInv /\ [AssessNext]_allvars => AssessInv'
  <2> SUFFICES ASSUME AssessInv, [AssessNext]_allvars
               PROVE  AssessInv'
    OBVIOUS
  <2>1. CASE Next /\ UNCHANGED report
    BY <2>1, TokioAssumption, ReportStep
  <2>2. ASSUME NEW v \in Views, Capture(v)
        PROVE  AssessInv'
    <3>1. UNCHANGED vars
      BY <2>2 DEF Capture
    <3> QED BY <2>2, <3>1, TokioAssumption, ViewsAssumption, CaptureHolds, SameHolds DEF AssessInv
  <2>3. CASE UNCHANGED allvars
    <3>1. UNCHANGED vars /\ report' = report
      BY <2>3 DEF allvars
    <3>2. task' = task /\ fut' = fut /\ acq' = acq /\ sem' = sem
      BY <3>1 DEF vars
    <3>3. ReportHolds
      BY DEF AssessInv
    <3>4. report # NoReport => /\ \A b \in report'.barriers : BarrierHolds(b)'
                               /\ \A r \in report'.behind : BehindHolds(r)'
      BY <3>1, <3>2, <3>3, ClaimsSame DEF ReportHolds
    <3>5. report # NoReport => CycleHolds(report.cycle)'
      BY <3>1, <3>2, <3>3 DEF ReportHolds, CycleHolds, CycleTasksOf
    <3>6. ReportHolds'
      BY <3>1, <3>4, <3>5 DEF ReportHolds
    <3> QED BY <3>1, <3>6, SameHolds DEF AssessInv
  <2> QED BY <2>1, <2>2, <2>3 DEF AssessNext
<1> QED BY <1>1, <1>2, PTL DEF AssessSpec

(* A wait the protocols call verified is one, and a resource they call     *)
(* ready is: whatever the program, wherever the core was taken and         *)
(* whatever of it can be read (assess_wait and the assess_* protocols).    *)
THEOREM VerdictsAreTrue == AssessSpec => []VerdictIsTrue
<1>1. AssessInv => VerdictIsTrue
  BY TokioAssumption, ViewsAssumption, VerdictHolds DEF AssessInv, ProgramInv, VerdictIsTrue
<1> QED BY <1>1, AssessHolds, PTL

(* What polling_barriers and the queue relations of a futurelock diagnosis *)
(* say of a core stays so as the program goes on: the kept acquire is not  *)
(* polled before what its holder awaits completes, and nobody queued       *)
(* behind it is given a permit before it.                                  *)
THEOREM DiagnosesHold == AssessSpec => []FuturelockHolds
<1>1. AssessInv => FuturelockHolds
  BY DEF AssessInv, ReportHolds, BarrierHolds, BehindHolds, FuturelockHolds
<1> QED BY <1>1, AssessHolds, PTL

(* A cycle of verified join edges is a deadlock: unless one of its tasks   *)
(* is aborted, none of them ever gets past the await it was seen at.       *)
THEOREM CyclesAreDeadlocks == AssessSpec => []CyclesAreStuck
<1>1. AssessInv => CyclesAreStuck
  BY DEF AssessInv, ReportHolds, CycleHolds, CyclesAreStuck
<1> QED BY <1>1, AssessHolds, PTL

=============================================================================
