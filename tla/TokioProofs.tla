----------------------------- MODULE TokioProofs -----------------------------
(***************************************************************************)
(* What holds of the running program, for every program of the modelled    *)
(* futures and calls and any number of tasks and threads: the types, what  *)
(* a coroutine and a thread in the middle of a call keep, and the order of *)
(* the semaphore's queue.  A step is first reduced to what it may do to    *)
(* the coroutines, the acquires, the queue and the lock (the Moves); each  *)
(* part of the invariant is then kept by every such move.                  *)
(***************************************************************************)
EXTENDS Tokio, SequenceTheorems, WellFoundedInduction, TLAPS

Wakers == [task : Tasks, own : BOOLEAN] \cup {NoWaker}
TaskType == [run : BOOLEAN, notif : BOOLEAN, done : BOOLEAN, cancelled : BOOLEAN,
             jwaker : BOOLEAN, jint : BOOLEAN, trailer : Wakers]
FutType == [shape : Shapes \cup {"new", "run", "gone"}, leaf : Kinds \cup {"none"},
            joins : Tasks \cup {NoOne}, n : Nat]
AcqType == [live : BOOLEAN, queued : BOOLEAN, want : Nat, need : Nat, waker : Wakers]
SemType == [avail : Nat, closed : BOOLEAN, qclosed : BOOLEAN, lock : Actors \cup {NoOne},
            queue : Seq(Acquires)]
OneType == [sent : BOOLEAN, closed : BOOLEAN, rxset : BOOLEAN, waker : Wakers]
ChanType == [senders : Nat, tail : Nat, index : Nat, ready : SUBSET Nat, blocks : Nat,
             marker : Nat \cup {NoOne}, rxClosed : BOOLEAN, avail : Nat,
             wstate : {"waiting", "waking"}, waker : Wakers]

ProgTyped == prog \in ProgramType /\ left \subseteq Calls
TaskTyped == task \in [Tasks -> TaskType]
FutTyped == fut \in [Tasks -> FutType]
AcqTyped == acq \in [Acquires -> AcqType] /\ \A a \in Acquires : acq[a].need <= acq[a].want
OwnsTyped == owns \in [Tasks -> Nat]
SemTyped == sem \in SemType
OneTyped == one \in OneType
ChanTyped == chan \in ChanType

(* The types of what the verdicts read and of the words they count in. *)
Typed == /\ ProgTyped /\ TaskTyped /\ FutTyped /\ AcqTyped
         /\ OwnsTyped /\ SemTyped /\ OneTyped /\ ChanTyped

(* What a thread in the middle of a call keeps. *)
Adding(o) == o = [do |-> "add", rem |-> o.rem, wake |-> o.wake] /\ o.rem \in Nat
Dropping(x, o) == /\ o = [do |-> "drop", acq |-> o.acq]
                  /\ x \in Tasks /\ o.acq \in {<<x, "leaf">>, <<x, "held">>}
Notifying(o) == o = [do |-> "waiters", bumped |-> o.bumped, list |-> o.list, wake |-> o.wake]
Sending(o) == o = [do |-> o.do, slot |-> o.slot] /\ o.slot \in Nat \cup {NoOne}

Shaped(x, o) ==
    /\ o.do = "add" => Adding(o)
    /\ o.do = "drop" => Dropping(x, o)
    /\ o.do = "waiters" => Notifying(o)
    /\ o.do \in {"send", "txdrop"} => Sending(o)

Midway ==
    /\ op = [x \in Actors |-> op[x]]
    /\ \A x \in Actors : Shaped(x, op[x])

(* A block is linked before the slots in it are said to be ready or the   *)
(* closing marker is put into it.                                         *)
LinkedFirst ==
    /\ \A i \in chan.ready : BlockOf(i) <= chan.blocks
    /\ chan.marker # NoOne => chan.marker <= chan.blocks

(* Where a coroutine stands says what it awaits. *)
Suspended ==
    \A t \in Tasks :
      /\ fut[t].shape \in {"new", "run"} => fut[t].leaf = "none"
      /\ fut[t].shape = "gone" => fut[t].leaf = "none" \/ task[t].cancelled
      /\ fut[t].leaf # "none" => fut[t].n > 0
      /\ fut[t].leaf = "join" => fut[t].joins \in Tasks

(* A leaf is dropped by a task that no longer awaits it, a kept acquire by *)
(* one that awaits nothing, or something else in a future that polls both; *)
(* either by one that is itself being dropped.                             *)
DropsLate ==
    \A t \in Tasks : op[t].do = "drop" =>
      \/ fut[t].leaf = "none" \/ fut[t].shape = "gone"
      \/ /\ op[t].acq = <<t, "held">> /\ fut[t].leaf # "held"
         /\ fut[t].shape \in {"wrapped", "select"}

(* An acquire stands in the queue once, alive, and knows it. *)
In(q, a) == \E i \in 1..Len(q) : q[i] = a
Distinct(q) == \A i, j \in 1..Len(q) : q[i] = q[j] => i = j
QueuedOnce ==
    /\ Distinct(sem.queue)
    /\ \A a \in Acquires : In(sem.queue, a) => acq[a].live /\ acq[a].queued

(* What is awaited is there, and what stands in the queue as awaited is   *)
(* awaited, or about to be dropped.                                       *)
LeavesLive ==
    \A t \in Tasks :
      fut[t].leaf \in {"acquire", "held"} /\ fut[t].shape # "gone" => acq[LeafAcquire(t)].live
Dropped(t) == op[t].do = "drop" /\ op[t].acq = <<t, "leaf">>
LeavesAwaited ==
    \A t \in Tasks : In(sem.queue, <<t, "leaf">>) => fut[t].leaf = "acquire" \/ Dropped(t)

(* The semaphore's lock is held by a thread that gives permits back or     *)
(* closes; one that closes has said so before it touches the list.         *)
LockHeld ==
    sem.lock # NoOne => /\ op[sem.lock].do \in {"add", "close"}
                        /\ op[sem.lock].do = "close" => sem.closed

(* Once its list is closed, a semaphore assigns permits to nobody: the     *)
(* list is emptied before the lock is let go and is not filled again.      *)
ClosedList ==
    sem.qclosed => /\ sem.closed
                   /\ sem.queue = <<>> \/ (sem.lock # NoOne /\ op[sem.lock].do = "close")

Older(q, a, b) == \E i, j \in 1..Len(q) : i < j /\ q[i] = b /\ q[j] = a

(* The inductive invariant of the program. *)
ProgramInv ==
    Typed /\ Midway /\ LinkedFirst /\ Suspended /\ DropsLate /\ QueuedOnce
    /\ LeavesLive /\ LeavesAwaited /\ LockHeld /\ ClosedList

----------------------------------------------------------------------------
(* What one step may do to a coroutine, and to a task's state word. *)

Moved(u) ==
    \/ /\ fut[u].shape = "new" /\ fut'[u].shape = "run"
       /\ fut'[u].leaf = fut[u].leaf /\ fut'[u].n = fut[u].n /\ fut'[u].joins = fut[u].joins
    \/ /\ fut[u].leaf # "none" /\ fut[u].shape # "gone"
       /\ fut[u].leaf = "join" => task[fut[u].joins].done \/ fut[u].shape = "select"
       /\ fut'[u].shape = "run" /\ fut'[u].leaf = "none" /\ fut'[u].n = fut[u].n
    \/ /\ fut[u].leaf = "none" /\ fut[u].shape = "run" /\ fut'[u].n = fut[u].n + 1
       /\ fut'[u].shape \in Shapes /\ (fut'[u].leaf = "join" => fut'[u].joins \in Tasks)
    \/ /\ (fut[u].leaf = "none" /\ fut[u].shape = "run") \/ task[u].cancelled
       /\ fut[u].shape # "gone" /\ fut'[u].shape = "gone"
       /\ fut'[u].leaf = fut[u].leaf /\ fut'[u].n = fut[u].n /\ fut'[u].joins = fut[u].joins
    \/ /\ fut[u].shape = "gone" /\ fut'[u].shape = "gone"
       /\ fut'[u].leaf = "none" /\ fut'[u].n = fut[u].n

FutMoves == \A u \in Tasks : fut'[u] = fut[u] \/ (op[u] = Idle /\ Moved(u))

TaskMoves ==
    \A u \in Tasks : /\ task[u].cancelled => task'[u].cancelled
                     /\ task'[u].done => task[u].done \/ fut[u].shape = "gone"

(* What one step may do to the acquires and to the semaphore's queue: make *)
(* an acquire, queue one, take one out of service, give permits to the     *)
(* oldest, or take the oldest off a list that is closed.                   *)
Alike(a) == /\ acq'[a].live = acq[a].live /\ acq'[a].queued = acq[a].queued
            /\ acq'[a].need = acq[a].need
Others(a) == \A b \in Acquires : b # a => Alike(b)

(* The acquire is no longer one that t awaits. *)
LetGo(t, a) ==
    \/ fut'[t].leaf = "none" \/ fut'[t].shape = "gone"
    \/ /\ a = <<t, "held">> /\ fut'[t].leaf # "held"
       /\ fut'[t].shape \in {"wrapped", "select"}

Still == sem'.queue = sem.queue /\ \A a \in Acquires : Alike(a)

Made ==
    \E t \in Tasks :
      /\ fut[t].leaf = "none" /\ op[t] = Idle
      /\ fut'[t].leaf = "acquire" /\ fut'[t].n = fut[t].n + 1
      /\ acq'[<<t, "leaf">>].live /\ Others(<<t, "leaf">>) /\ sem'.queue = sem.queue

Prepend(q, a) == <<a>> \o q

Queued ==
    \E t \in Tasks : \E a \in {<<t, "leaf">>, <<t, "held">>} :
      /\ ~(acq[a].live /\ acq[a].queued) /\ acq'[a].live /\ acq'[a].queued /\ Others(a)
      /\ sem'.queue = Prepend(sem.queue, a) /\ ~sem.closed /\ ~sem.qclosed
      /\ a = <<t, "leaf">> => fut'[t].leaf = "acquire"
      /\ fut[t].n = 0 \/ (acq[a].live /\ acq[a].need > 0)

Retired ==
    \E t \in Tasks : \E a \in {<<t, "leaf">>, <<t, "held">>} :
      /\ LetGo(t, a) /\ ~acq'[a].live /\ Others(a)
      /\ \/ sem'.queue = RemoveFirst(sem.queue, a)
         \/ sem'.queue = sem.queue /\ ~acq[a].queued

Granted ==
    LET a == Last(sem.queue)
    IN /\ sem.lock # NoOne /\ op[sem.lock].do = "add" /\ sem.queue # <<>> /\ Others(a)
       /\ acq'[a].live = acq[a].live /\ acq'[a].queued = acq[a].queued
       /\ acq'[a].need <= acq[a].need
       /\ \/ sem'.queue = sem.queue
          \/ sem'.queue = Front(sem.queue) /\ acq'[a].need = 0

Emptied ==
    /\ sem.queue # <<>> /\ sem.qclosed /\ sem'.qclosed
    /\ sem'.queue = Front(sem.queue) /\ \A a \in Acquires : Alike(a)

QueueMoves == Still \/ Made \/ Queued \/ Retired \/ Granted \/ Emptied

(* Who holds the lock, and what the flags say. *)
LockMoves ==
    \/ /\ sem'.lock = sem.lock /\ sem'.closed = sem.closed /\ sem'.qclosed = sem.qclosed
       /\ sem.lock # NoOne => op'[sem.lock].do = op[sem.lock].do
    \/ /\ sem.lock = NoOne /\ sem'.lock # NoOne /\ op'[sem'.lock].do \in {"add", "close"}
       /\ op'[sem'.lock].do = "close" => sem'.closed
       /\ sem.closed => sem'.closed
       /\ sem'.qclosed = sem.qclosed
    \/ /\ sem.lock # NoOne /\ sem'.lock = NoOne /\ sem'.closed = sem.closed
       /\ sem'.qclosed = sem.qclosed /\ sem'.queue = sem.queue
       /\ op[sem.lock].do = "add" \/ sem.queue = <<>>
    \/ /\ sem.lock # NoOne /\ sem'.lock = sem.lock /\ op' = op /\ op[sem.lock].do = "close"
       /\ sem'.closed = sem.closed /\ sem'.queue = sem.queue /\ sem'.qclosed

(* When a drop is begun and when it is over. *)
DropMoves ==
    \A t \in Tasks :
      /\ op'[t].do = "drop" => op'[t] = op[t] \/ LetGo(t, op'[t].acq)
      /\ op[t].do = "drop" =>
           op'[t] = op[t] \/ sem'.queue = RemoveFirst(sem.queue, op[t].acq)

(* Where an acquire goes that is no longer awaited, and that one awaited  *)
(* is there.                                                              *)
LeafMoves ==
    \A t \in Tasks :
      LET a == <<t, "leaf">>
      IN /\ fut[t].leaf = "acquire" /\ fut'[t].leaf # "acquire" =>
              \/ op'[t].do = "drop" /\ op'[t].acq = a
              \/ ~acq[a].live \/ ~acq[a].queued \/ sem'.queue = RemoveFirst(sem.queue, a)
         /\ fut'[t].leaf = "acquire" => fut[t].leaf = "acquire" \/ acq'[a].live
         /\ fut'[t].leaf = "held" => fut[t].leaf = "held" \/ acq'[<<t, "held">>].live

Moves == QueueMoves /\ LockMoves /\ DropMoves /\ LeafMoves

----------------------------------------------------------------------------
(* The operators the model is built from. *)

(* A set of numbers that is not empty has a least one. *)
LEMMA LeastExists ==
    ASSUME NEW S, S \subseteq Nat, S # {}
    PROVE  \E i \in S : \A j \in S : i <= j
<1>1. PICK i \in S : \A j \in S : <<j, i>> \notin OpToRel(<, Nat)
  BY NatLessThanWellFounded, WFMin
<1>2. \A j \in S : ~(j < i)
  BY <1>1 DEF OpToRel
<1> QED BY <1>2

(* The least of a set of numbers is in it and below the others. *)
LEMMA MinIsLeast ==
    ASSUME NEW S, S \subseteq Nat, S # {}
    PROVE  Min(S) \in S /\ \A j \in S : Min(S) <= j
BY LeastExists DEF Min

(* What is left of a list once an element is taken out of it. *)
LEMMA RemoveFirstIs ==
    ASSUME NEW S, NEW q \in Seq(S), NEW e
    PROVE  /\ RemoveFirst(q, e) \in Seq(S)
           /\ \/ /\ \A i \in 1..Len(q) : q[i] # e
                 /\ RemoveFirst(q, e) = q
              \/ \E k \in 1..Len(q) :
                   /\ q[k] = e /\ Len(RemoveFirst(q, e)) = Len(q) - 1
                   /\ \A i \in 1..(Len(q) - 1) :
                        RemoveFirst(q, e)[i] = IF i < k THEN q[i] ELSE q[i + 1]
<1> DEFINE I == {i \in 1..Len(q) : q[i] = e}
           k == Min(I)
<1>1. CASE I = {}
  BY <1>1 DEF RemoveFirst
<1>2. CASE I # {}
  <2>1. k \in 1..Len(q) /\ q[k] = e
    <3> HIDE DEF k, I
    <3>1. I \subseteq Nat
      BY DEF I
    <3>2. Min(I) \in I
      BY <1>2, <3>1, MinIsLeast
    <3> QED BY <3>2 DEF k, I
  <2>2. SelectInSeq(q, LAMBDA v : v = e) = k
    BY <1>2 DEF SelectInSeq
  <2>3. RemoveFirst(q, e) = RemoveAt(q, k)
    BY <1>2, <2>2 DEF RemoveFirst
  <2> HIDE DEF k, I
  <2> DEFINE f == SubSeq(q, 1, k - 1)
             g == SubSeq(q, k + 1, Len(q))
  <2>4. /\ Len(q) \in Nat /\ k - 1 \in Int /\ k + 1 \in Int /\ k \in Int
        /\ \A i \in 1..Len(q) : q[i] \in S
    BY <2>1
  <2>5. f \in Seq(S) /\ Len(f) = k - 1 /\ \A i \in 1..(k - 1) : f[i] = q[i]
    BY <2>1, <2>4
  <2>6. g \in Seq(S) /\ Len(g) = Len(q) - k /\ \A i \in 1..(Len(q) - k) : g[i] = q[i + k]
    BY <2>1, <2>4
  <2>7. RemoveAt(q, k) = f \o g
    BY DEF RemoveAt
  <2> HIDE DEF f, g
  <2>8. /\ f \o g \in Seq(S) /\ Len(f \o g) = Len(f) + Len(g)
        /\ \A i \in 1..(Len(f) + Len(g)) :
             (f \o g)[i] = IF i <= Len(f) THEN f[i] ELSE g[i - Len(f)]
    BY <2>5, <2>6, ConcatProperties
  <2>9. f \o g \in Seq(S) /\ Len(f \o g) = Len(q) - 1
    BY <2>5, <2>6, <2>4, <2>8
  <2>10. \A i \in 1..(Len(q) - 1) : (f \o g)[i] = IF i < k THEN f[i] ELSE g[i - (k - 1)]
    BY <2>5, <2>6, <2>4, <2>8
  <2>11. \A i \in 1..(Len(q) - 1) : (f \o g)[i] = IF i < k THEN q[i] ELSE q[i + 1]
    BY <2>5, <2>6, <2>4, <2>10, SMTT(30)
  <2>12. /\ RemoveAt(q, k) \in Seq(S) /\ Len(RemoveAt(q, k)) = Len(q) - 1
         /\ \A i \in 1..(Len(q) - 1) : RemoveAt(q, k)[i] = IF i < k THEN q[i] ELSE q[i + 1]
    BY <2>7, <2>9, <2>11
  <2> QED BY <2>1, <2>3, <2>12
<1> QED BY <1>1, <1>2

(* A queue without its last entry. *)
LEMMA FrontIs ==
    ASSUME NEW S, NEW q \in Seq(S), q # <<>>
    PROVE  /\ Front(q) \in Seq(S) /\ Len(Front(q)) = Len(q) - 1
           /\ \A i \in 1..(Len(q) - 1) : Front(q)[i] = q[i]
           /\ Len(q) \in Nat \ {0} /\ Last(q) = q[Len(q)] /\ Last(q) \in S
<1>1. Len(q) \in Nat \ {0}
  BY EmptySeq
<1>2. \A i \in 1..Len(q) : q[i] \in S
  BY ElementOfSeq
<1>3. /\ SubSeq(q, 1, Len(q) - 1) \in Seq(S) /\ Len(SubSeq(q, 1, Len(q) - 1)) = Len(q) - 1
      /\ \A i \in 1..(Len(q) - 1) : SubSeq(q, 1, Len(q) - 1)[i] = q[i]
  BY <1>1, <1>2
<1> QED BY <1>1, <1>2, <1>3 DEF Front, Last

(* A queue with a new first entry. *)
LEMMA PrependIs ==
    ASSUME NEW S, NEW q \in Seq(S), NEW e \in S
    PROVE  /\ <<e>> \o q \in Seq(S) /\ Len(<<e>> \o q) = Len(q) + 1
           /\ (<<e>> \o q)[1] = e
           /\ \A i \in 1..Len(q) : (<<e>> \o q)[i + 1] = q[i]
OBVIOUS

----------------------------------------------------------------------------
(* What the steps with many cases do, case by case. *)

(* A task's wakers are wakers. *)
LEMMA WakersAre ==
    ASSUME FutTyped, NEW t \in Tasks
    PROVE  WakerOf(t) \in Wakers /\ [task |-> t, own |-> TRUE] \in Wakers /\ NoWaker \in Wakers
BY DEF WakerOf, Wakers, FutTyped, FutType

(* A task's acquires, and which of them its leaf is. *)
LEMMA AcquiresAre ==
    ASSUME NEW t \in Tasks
    PROVE  /\ <<t, "leaf">> \in Acquires /\ <<t, "held">> \in Acquires
           /\ LeafAcquire(t) \in Acquires /\ LeafAcquire(t) \in {<<t, "leaf">>, <<t, "held">>}
           /\ LeafAcquire(t) = <<t, "held">> <=> fut[t].leaf = "held"
BY DEF LeafAcquire, Acquires

(* What a poll that stays pending does. *)
LEMMA PendingIs ==
    ASSUME FutTyped, NEW t \in Tasks, PollPending(t)
    PROVE  /\ fut[t].leaf # "none" /\ op[t] = Idle
           /\ UNCHANGED <<prog, fut, owns, op, left, defer>>
           /\ \/ /\ fut[t].leaf \in {"acquire", "held"} /\ ~AcquireReady(LeafAcquire(t))
                 /\ ~Blocked(t)
                 /\ Enqueue(LeafAcquire(t), WakerOf(t))
                 /\ task' = Park(t) /\ UNCHANGED <<one, chan>>
              \/ /\ fut[t].leaf = "notified"
                 /\ task' = Park(t) /\ UNCHANGED <<acq, sem, one, chan>>
              \/ /\ fut[t].leaf = "join"
                 /\ task' = [Park(t) EXCEPT ![fut[t].joins].trailer = WakerOf(t),
                                            ![fut[t].joins].jwaker = TRUE]
                 /\ UNCHANGED <<acq, sem, one, chan>>
              \/ /\ fut[t].leaf = "oneshot"
                 /\ one' = [one EXCEPT !.rxset = TRUE, !.waker = WakerOf(t)]
                 /\ task' = Park(t) /\ UNCHANGED <<acq, sem, chan>>
              \/ /\ fut[t].leaf = "recv"
                 /\ task' = [Park(t) EXCEPT ![t].notif = TRUE] \/ task' = Park(t)
                 /\ chan' = chan \/ chan' = [chan EXCEPT !.waker = WakerOf(t)]
                 /\ UNCHANGED <<acq, sem, one>>
<1>1. fut[t].leaf \in Kinds \cup {"none"}
  BY DEF FutTyped, FutType
<1>2. /\ fut[t].leaf # "none" /\ op[t] = Idle /\ ~Ready(t) /\ ~Blocked(t)
      /\ UNCHANGED <<prog, fut, owns, op, left, defer>>
  BY DEF PollPending, Running
<1>3. CASE fut[t].leaf \in {"acquire", "held"}
  <2>1. ~AcquireReady(LeafAcquire(t))
    BY <1>2, <1>3 DEF Ready
  <2>2. /\ Enqueue(LeafAcquire(t), WakerOf(t))
        /\ task' = Park(t) /\ UNCHANGED <<one, chan>>
    BY <1>3 DEF PollPending
  <2> QED BY <1>2, <1>3, <2>1, <2>2
<1>4. CASE fut[t].leaf = "notified"
  <2>1. task' = Park(t) /\ UNCHANGED <<acq, sem, one, chan>>
    BY <1>4 DEF PollPending
  <2> QED BY <1>2, <1>4, <2>1
<1>5. CASE fut[t].leaf = "join"
  <2>1. /\ task' = [Park(t) EXCEPT ![fut[t].joins].trailer = WakerOf(t),
                                   ![fut[t].joins].jwaker = TRUE]
        /\ UNCHANGED <<acq, sem, one, chan>>
    BY <1>5 DEF PollPending, resources
  <2> QED BY <1>2, <1>5, <2>1
<1>6. CASE fut[t].leaf = "oneshot"
  <2>1. /\ one' = [one EXCEPT !.rxset = TRUE, !.waker = WakerOf(t)]
        /\ task' = Park(t) /\ UNCHANGED <<acq, sem, chan>>
    BY <1>6 DEF PollPending
  <2> QED BY <1>2, <1>6, <2>1
<1>7. CASE fut[t].leaf = "recv"
  <2>1. /\ task' = [Park(t) EXCEPT ![t].notif = TRUE] \/ task' = Park(t)
        /\ chan' = chan \/ chan' = [chan EXCEPT !.waker = WakerOf(t)]
        /\ UNCHANGED <<acq, sem, one>>
    BY <1>7 DEF PollPending
  <2> QED BY <1>2, <1>7, <2>1
<1> QED BY <1>1, <1>2, <1>3, <1>4, <1>5, <1>6, <1>7 DEF Kinds

(* What a poll that is ready does. *)
LEMMA ReadyIs ==
    ASSUME FutTyped, NEW t \in Tasks, PollReady(t)
    PROVE  /\ fut[t].leaf # "none" /\ fut[t].shape # "gone" /\ op[t] = Idle
           /\ fut' = [fut EXCEPT ![t] = [@ EXCEPT !.shape = "run", !.leaf = "none", !.joins = NoOne]]
           /\ UNCHANGED <<prog, left, defer>>
           /\ \/ /\ fut[t].leaf \in {"acquire", "held"} /\ AcquireReady(LeafAcquire(t))
                 /\ Take(t, LeafAcquire(t)) /\ UNCHANGED <<task, one, chan>>
              \/ /\ fut[t].leaf = "notified"
                 /\ Unlist(t) /\ UNCHANGED <<task, acq, owns, sem, one, chan>>
              \/ /\ fut[t].leaf = "join" /\ task[fut[t].joins].done
                 /\ task' = [task EXCEPT ![fut[t].joins] = [@ EXCEPT !.jint = FALSE, !.jwaker = FALSE,
                                                                     !.trailer = NoWaker]]
                 /\ UNCHANGED <<acq, owns, sem, one, chan, op>>
              \/ /\ fut[t].leaf = "oneshot"
                 /\ one' = [one EXCEPT !.closed = TRUE]
                 /\ UNCHANGED <<task, acq, owns, sem, chan, op>>
              \/ /\ fut[t].leaf = "recv"
                 /\ chan' = chan \/ chan' = [chan EXCEPT !.index = @ + 1, !.avail = @ + 1]
                 /\ UNCHANGED <<task, acq, owns, sem, one, op>>
<1>1. fut[t].leaf \in Kinds \cup {"none"}
  BY DEF FutTyped, FutType
<1>2. /\ fut[t].leaf # "none" /\ fut[t].shape # "gone" /\ op[t] = Idle /\ Ready(t)
      /\ fut' = [fut EXCEPT ![t] = [@ EXCEPT !.shape = "run", !.leaf = "none", !.joins = NoOne]]
      /\ UNCHANGED <<prog, left, defer>>
  BY DEF PollReady, Running
<1>3. CASE fut[t].leaf \in {"acquire", "held"}
  <2>1. AcquireReady(LeafAcquire(t))
    BY <1>2, <1>3 DEF Ready
  <2>2. Take(t, LeafAcquire(t)) /\ UNCHANGED <<task, one, chan>>
    BY <1>3 DEF PollReady
  <2> QED BY <1>2, <1>3, <2>1, <2>2
<1>4. CASE fut[t].leaf = "notified"
  <2>1. Unlist(t) /\ UNCHANGED <<task, acq, owns, sem, one, chan>>
    BY <1>4 DEF PollReady
  <2> QED BY <1>2, <1>4, <2>1
<1>5. CASE fut[t].leaf = "join"
  <2>1. task[fut[t].joins].done
    BY <1>2, <1>5 DEF Ready
  <2>2. /\ task' = [task EXCEPT ![fut[t].joins] = [@ EXCEPT !.jint = FALSE, !.jwaker = FALSE,
                                                            !.trailer = NoWaker]]
        /\ UNCHANGED <<acq, owns, sem, one, chan, op>>
    BY <1>5 DEF PollReady, resources
  <2> QED BY <1>2, <1>5, <2>1, <2>2
<1>6. CASE fut[t].leaf = "oneshot"
  <2>1. one' = [one EXCEPT !.closed = TRUE] /\ UNCHANGED <<task, acq, owns, sem, chan, op>>
    BY <1>6 DEF PollReady
  <2> QED BY <1>2, <1>6, <2>1
<1>7. CASE fut[t].leaf = "recv"
  <2>1. /\ chan' = chan \/ chan' = [chan EXCEPT !.index = @ + 1, !.avail = @ + 1]
        /\ UNCHANGED <<task, acq, owns, sem, one, op>>
    BY <1>7 DEF PollReady
  <2> QED BY <1>2, <1>7, <2>1
<1> QED BY <1>1, <1>2, <1>3, <1>4, <1>5, <1>6, <1>7 DEF Kinds

(* An acquire, and the semaphore's permits and queue, set to others of     *)
(* their types.                                                            *)
LEMMA AcqUpdate ==
    ASSUME AcqTyped, NEW a, NEW r \in AcqType, r.need <= r.want, acq' = [acq EXCEPT ![a] = r]
    PROVE  AcqTyped'
BY DEF AcqTyped

(* A semaphore given other contents of its types is one. *)
LEMMA SemUpdate ==
    ASSUME SemTyped, NEW n \in Nat, NEW q \in Seq(Acquires), NEW x \in Actors \cup {NoOne},
           sem' = [sem EXCEPT !.avail = n, !.lock = x, !.queue = q]
    PROVE  SemTyped'
<1> DEFINE Q == Seq(Acquires)
           Holders == Actors \cup {NoOne}
<1>1. q \in Q /\ x \in Holders
  OBVIOUS
<1>2. sem \in [avail : Nat, closed : BOOLEAN, qclosed : BOOLEAN, lock : Holders, queue : Q]
  BY DEF SemTyped, SemType
<1> HIDE DEF Q, Holders
<1>3. sem' \in [avail : Nat, closed : BOOLEAN, qclosed : BOOLEAN, lock : Holders, queue : Q]
  BY <1>1, <1>2
<1> QED BY <1>3 DEF SemTyped, SemType, Q, Holders

(* Queueing an acquire keeps the types. *)
LEMMA EnqueueTyped ==
    ASSUME AcqTyped, SemTyped, NEW a \in Acquires, NEW w \in Wakers, ~AcquireReady(a), Enqueue(a, w)
    PROVE  AcqTyped' /\ SemTyped'
<1>1. acq[a].need \in Nat /\ sem.avail \in Nat /\ acq[a].need > sem.avail
  BY DEF AcquireReady, AcqTyped, AcqType, SemTyped, SemType
<1>2. sem.queue \in Seq(Acquires)
  BY DEF SemTyped, SemType
<1>3. AcqTyped'
  <2>1. CASE acq[a].queued
    BY <2>1 DEF Enqueue, AcqTyped, AcqType
  <2>2. CASE ~acq[a].queued
    <3>1. acq' = [acq EXCEPT ![a].queued = TRUE, ![a].waker = w, ![a].need = @ - sem.avail]
      BY <2>2 DEF Enqueue
    <3>2. acq[a].need - sem.avail \in Nat /\ acq[a].need - sem.avail <= acq[a].need
      BY <1>1
    <3>3. acq' \in [Acquires -> AcqType]
      BY <3>1, <3>2, ZenonT(30) DEF AcqTyped, AcqType
    <3>4. \A b \in Acquires : acq'[b].need <= acq'[b].want
      BY <1>1, <3>1, <3>2 DEF AcqTyped, AcqType
    <3> QED BY <3>3, <3>4 DEF AcqTyped
  <2> QED BY <2>1, <2>2
<1>4. <<a>> \o sem.queue \in Seq(Acquires)
  BY <1>2, PrependIs
<1>5. SemTyped'
  <2>1. CASE acq[a].queued
    BY <2>1 DEF Enqueue, SemTyped
  <2>2. CASE ~acq[a].queued
    <3>1. sem' = [sem EXCEPT !.avail = 0, !.queue = <<a>> \o sem.queue]
      BY <2>2 DEF Enqueue
    <3>2. sem.lock \in Actors \cup {NoOne}
      BY DEF SemTyped, SemType
    <3>3. sem' = [sem EXCEPT !.avail = 0, !.lock = sem.lock, !.queue = <<a>> \o sem.queue]
      BY <3>1 DEF SemTyped, SemType
    <3> QED BY <1>4, <3>2, <3>3, SemUpdate
  <2> QED BY <2>1, <2>2
<1> QED BY <1>3, <1>5

(* So does taking what an acquire was given. *)
LEMMA TakeTyped ==
    ASSUME AcqTyped, SemTyped, OwnsTyped, NEW t \in Tasks, NEW a \in Acquires,
           AcquireReady(a), Take(t, a)
    PROVE  AcqTyped' /\ SemTyped' /\ OwnsTyped'
<1>1. CASE sem.closed \/ sem.qclosed
  <2>1. /\ acq' = IF acq[a].queued THEN acq ELSE [acq EXCEPT ![a].live = FALSE]
        /\ UNCHANGED <<owns, sem>>
    BY <1>1 DEF Take
  <2>2. AcqTyped'
    BY <2>1 DEF AcqTyped, AcqType
  <2> QED BY <2>1, <2>2 DEF SemTyped, OwnsTyped
<1>2. CASE ~(sem.closed \/ sem.qclosed)
  <2>1. /\ owns' = [owns EXCEPT ![t] = @ + acq[a].want]
        /\ acq' = [acq EXCEPT ![a].live = FALSE, ![a].queued = FALSE]
        /\ sem' = [sem EXCEPT !.avail = @ - acq[a].need, !.queue = RemoveFirst(@, a)]
    BY <1>2 DEF Take
  <2>2. /\ acq[a].need \in Nat /\ sem.avail \in Nat /\ acq[a].want \in Nat
        /\ acq[a].need <= sem.avail
    BY <1>2 DEF AcquireReady, AcqTyped, AcqType, SemTyped, SemType
  <2>3. AcqTyped'
    BY <2>1 DEF AcqTyped, AcqType
  <2>4. RemoveFirst(sem.queue, a) \in Seq(Acquires)
    BY RemoveFirstIs DEF SemTyped, SemType
  <2>5. SemTyped'
    <3>1. sem.lock \in Actors \cup {NoOne} /\ sem.avail - acq[a].need \in Nat
      BY <2>2 DEF SemTyped, SemType
    <3>2. sem' = [sem EXCEPT !.avail = sem.avail - acq[a].need, !.lock = sem.lock,
                             !.queue = RemoveFirst(sem.queue, a)]
      BY <2>1 DEF SemTyped, SemType
    <3> QED BY <2>4, <3>1, <3>2, SemUpdate
  <2>6. OwnsTyped'
    BY <2>1, <2>2 DEF OwnsTyped
  <2> QED BY <2>3, <2>5, <2>6
<1> QED BY <1>1, <1>2

(* What the drop of a future does. *)
LEMMA DropFutureIs ==
    ASSUME NEW t \in Tasks, DropFuture(t)
    PROVE  /\ op[t] = Idle /\ fut[t].shape = "gone" /\ UNCHANGED <<prog, task, owns, sem, left, defer>>
           /\ \/ /\ \E s \in {"leaf", "held"} :
                      \/ op' = [op EXCEPT ![t] = [do |-> "drop", acq |-> <<t, s>>]] /\ acq' = acq
                      \/ /\ acq' = [acq EXCEPT ![<<t, s>>].live = FALSE] /\ op' = op
                         /\ ~acq[<<t, s>>].queued
                 /\ UNCHANGED <<fut, one, chan>>
              \/ /\ fut' = [fut EXCEPT ![t].leaf = "none"] /\ fut[t].leaf # "acquire"
                 /\ op' = [op EXCEPT ![t] = [do |-> "one", wake |-> <<>>]] \/ Unlist(t)
                 /\ UNCHANGED <<acq, one, chan>>
              \/ /\ fut' = [fut EXCEPT ![t].leaf = "none"] /\ fut[t].leaf # "acquire"
                 /\ one' = [one EXCEPT !.closed = TRUE]
                 /\ UNCHANGED <<acq, chan, op>>
              \/ /\ fut' = [fut EXCEPT ![t].leaf = "none"] /\ fut[t].leaf # "acquire"
                 /\ chan' = [chan EXCEPT !.rxClosed = TRUE]
                 /\ UNCHANGED <<acq, one, op>>
<1>1. op[t] = Idle /\ fut[t].shape = "gone" /\ UNCHANGED <<prog, owns, sem, left, defer>>
  BY DEF DropFuture, Running
<1>2. CASE \E s \in {"leaf", "held"} :
             /\ acq[<<t, s>>].live
             /\ IF acq[<<t, s>>].queued
                THEN op' = [op EXCEPT ![t] = [do |-> "drop", acq |-> <<t, s>>]] /\ UNCHANGED acq
                ELSE acq' = [acq EXCEPT ![<<t, s>>].live = FALSE] /\ UNCHANGED op
             /\ UNCHANGED <<task, fut, ntf, nod, one, chan>>
  BY <1>1, <1>2
<1>3. CASE /\ fut' = [fut EXCEPT ![t].leaf = "none"] /\ fut[t].leaf = "notified"
           /\ IF nod[t].note = "one"
              THEN op' = [op EXCEPT ![t] = [do |-> "one", wake |-> <<>>]]
              ELSE Unlist(t)
           /\ UNCHANGED <<task, acq, one, chan>>
  BY <1>1, <1>3
<1>4. CASE /\ fut[t].leaf = "oneshot" /\ one' = [one EXCEPT !.closed = TRUE]
           /\ fut' = [fut EXCEPT ![t].leaf = "none"]
           /\ UNCHANGED <<task, acq, ntf, nod, chan, op>>
  BY <1>1, <1>4
<1>5. CASE /\ fut[t].leaf = "recv" /\ chan' = [chan EXCEPT !.rxClosed = TRUE]
           /\ fut' = [fut EXCEPT ![t].leaf = "none"]
           /\ UNCHANGED <<task, acq, ntf, nod, one, op>>
  BY <1>1, <1>5
<1> QED BY <1>2, <1>3, <1>4, <1>5 DEF DropFuture

(* What taking the semaphore's lock does. *)
LEMMA SemLockIs ==
    ASSUME NEW x, SemLock(x)
    PROVE  /\ sem.lock = NoOne /\ UNCHANGED <<prog, task, fut, owns, one, chan, left>>
           /\ \/ /\ op[x].do = "add"
                 /\ sem' = [sem EXCEPT !.lock = x] /\ UNCHANGED <<acq, op>>
              \/ /\ op[x].do = "close"
                 /\ sem' = [sem EXCEPT !.lock = x, !.closed = TRUE] /\ UNCHANGED <<acq, op>>
              \/ /\ op[x].do = "drop"
                 /\ sem' = [sem EXCEPT !.lock = x, !.queue = RemoveFirst(@, op[x].acq)]
                 /\ op' = [op EXCEPT ![x] = [do |-> "add",
                                             rem |-> acq[op[x].acq].want - acq[op[x].acq].need,
                                             wake |-> <<>>]]
                 /\ acq' = [acq EXCEPT ![op[x].acq].live = FALSE, ![op[x].acq].queued = FALSE]
<1>1. /\ sem.lock = NoOne /\ UNCHANGED <<prog, task, fut, owns, one, chan, left>>
      /\ op[x].do \in {"add", "drop", "close"}
  BY DEF SemLock
<1>2. CASE op[x].do = "add"
  BY <1>1, <1>2 DEF SemLock
<1>3. CASE op[x].do = "close"
  BY <1>1, <1>3 DEF SemLock
<1>4. CASE op[x].do = "drop"
  BY <1>1, <1>4 DEF SemLock
<1> QED BY <1>1, <1>2, <1>3, <1>4

(* What a release gives the oldest waiter. *)
LEMMA AssignIs ==
    ASSUME NEW x, Assign(x), op[x].rem \in Nat, \A a \in Acquires : acq[a].need \in Nat,
           sem.queue \in Seq(Acquires)
    PROVE  /\ op[x].do = "add" /\ sem.lock = x /\ op[x].rem > 0
           /\ UNCHANGED <<prog, task, fut, owns, one, chan, left>>
           /\ \/ /\ sem.queue = <<>> /\ acq' = acq
                 /\ sem' = [sem EXCEPT !.avail = @ + op[x].rem]
                 /\ op' = [op EXCEPT ![x].rem = 0]
              \/ /\ sem.queue # <<>> /\ op[x].rem < acq[Last(sem.queue)].need /\ sem' = sem
                 /\ acq' = [acq EXCEPT ![Last(sem.queue)].need = @ - op[x].rem]
                 /\ op' = [op EXCEPT ![x].rem = 0]
              \/ /\ sem.queue # <<>> /\ acq[Last(sem.queue)].need <= op[x].rem
                 /\ acq' = [acq EXCEPT ![Last(sem.queue)].need = 0, ![Last(sem.queue)].waker = NoWaker]
                 /\ sem' = [sem EXCEPT !.queue = Front(@)]
                 /\ op' = [op EXCEPT ![x].rem = @ - acq[Last(sem.queue)].need,
                                     ![x].wake = Append(@, acq[Last(sem.queue)].waker)]
<1>1. /\ op[x].do = "add" /\ sem.lock = x /\ op[x].rem > 0
      /\ UNCHANGED <<prog, task, fut, owns, one, chan, left>>
  BY DEF Assign
<1>2. CASE sem.queue = <<>>
  BY <1>1, <1>2 DEF Assign
<1>3. CASE sem.queue # <<>>
  <2> DEFINE a == Last(sem.queue)
             given == IF op[x].rem < acq[a].need THEN op[x].rem ELSE acq[a].need
  <2>1. acq[a].need \in Nat
    BY <1>3, FrontIs
  <2>2. IF given < acq[a].need
        THEN /\ acq' = [acq EXCEPT ![a].need = @ - given]
             /\ op' = [op EXCEPT ![x].rem = 0]
             /\ UNCHANGED sem
        ELSE /\ acq' = [acq EXCEPT ![a].need = 0, ![a].waker = NoWaker]
             /\ sem' = [sem EXCEPT !.queue = Front(@)]
             /\ op' = [op EXCEPT ![x].rem = @ - given, ![x].wake = Append(@, acq[a].waker)]
    BY <1>3 DEF Assign
  <2> HIDE DEF a
  <2>3. CASE op[x].rem < acq[a].need
    <3>1. given = op[x].rem /\ given < acq[a].need
      BY <2>3
    <3> QED BY <1>1, <1>3, <2>2, <2>3, <3>1 DEF a
  <2>4. CASE ~(op[x].rem < acq[a].need)
    <3>1. given = acq[a].need /\ ~(given < acq[a].need) /\ acq[a].need <= op[x].rem
      BY <2>1, <2>4
    <3> QED BY <1>1, <1>3, <2>2, <3>1 DEF a
  <2> QED BY <2>3, <2>4
<1> QED BY <1>2, <1>3

(* What a step of a close does. *)
LEMMA CloseStepIs ==
    ASSUME NEW x, CloseStep(x), sem.qclosed \in BOOLEAN
    PROVE  /\ op[x].do = "close" /\ sem.lock = x
           /\ UNCHANGED <<prog, fut, owns, one, chan, left>>
           /\ \/ /\ ~sem.qclosed
                 /\ sem' = [sem EXCEPT !.qclosed = TRUE] /\ UNCHANGED <<task, acq, op>>
              \/ /\ sem.qclosed /\ sem.queue # <<>>
                 /\ sem' = [sem EXCEPT !.queue = Front(@)]
                 /\ acq' = [acq EXCEPT ![Last(sem.queue)].waker = NoWaker]
                 /\ task' = Woken(TaskOf(acq[Last(sem.queue)].waker)) /\ op' = op
              \/ /\ sem.qclosed /\ sem.queue = <<>>
                 /\ sem' = [sem EXCEPT !.lock = NoOne]
                 /\ op' = [op EXCEPT ![x] = Idle] /\ UNCHANGED <<task, acq>>
<1>1. /\ op[x].do = "close" /\ sem.lock = x
      /\ UNCHANGED <<prog, fut, owns, one, chan, left>>
  BY DEF CloseStep
<1>2. CASE ~sem.qclosed
  BY <1>1, <1>2 DEF CloseStep
<1>3. CASE sem.qclosed /\ sem.queue # <<>>
  BY <1>1, <1>3 DEF CloseStep
<1>4. CASE sem.qclosed /\ sem.queue = <<>>
  BY <1>1, <1>4 DEF CloseStep
<1> QED BY <1>2, <1>3, <1>4

(* A call made is one that keeps what it needs, and nothing is dropped by *)
(* one.                                                                    *)
LEMMA CallIs ==
    ASSUME TokioAssumption, ProgTyped, NEW x \in Actors, NEW c \in left, Call(x, c)
    PROVE  /\ op[x] = Idle /\ left' \subseteq left
           /\ UNCHANGED <<prog, fut, acq, owns, sem, one, chan>>
           /\ \/ /\ op' = op /\ c.task \in Tasks
                 /\ task' = [task EXCEPT ![c.task].cancelled = @ \/ ~task[c.task].done,
                                         ![c.task].notif = @ \/ ~task[c.task].done]
              \/ \E o : /\ task' = task /\ op' = [op EXCEPT ![x] = o]
                        /\ Shaped(x, o) /\ o.do # "drop"
<1>1. /\ op[x] = Idle /\ left' \subseteq left
      /\ UNCHANGED <<prog, fut, acq, owns, sem, one, chan>>
  BY DEF Call, resources
<1>2. c \in Calls
  BY DEF ProgTyped
<1>3. c.do \in {"one", "waiters", "close", "send1", "send", "txdrop", "add", "abort"}
  BY <1>2 DEF Calls
<1>4. CASE c.do = "abort"
  <2>1. c.task \in Tasks
    BY <1>2, <1>4 DEF Calls
  <2> QED BY <1>1, <1>4, <2>1 DEF Call
<1>5. CASE c.do = "add"
  <2> DEFINE o == [do |-> "add", rem |-> c.permits, wake |-> <<>>]
  <2>1. c.permits \in Nat
    BY <1>2, <1>5 DEF Calls
  <2>2. Shaped(x, o) /\ o.do # "drop"
    BY <2>1 DEF Shaped, Adding
  <2>3. op' = [op EXCEPT ![x] = o] /\ task' = task
    BY <1>5 DEF Call
  <2> QED BY <1>1, <2>2, <2>3
<1>6. CASE c.do = "one"
  <2> DEFINE o == [do |-> "one", wake |-> <<>>]
  <2>2. Shaped(x, o) /\ o.do # "drop"
    BY DEF Shaped
  <2>3. op' = [op EXCEPT ![x] = o] /\ task' = task
    BY <1>6 DEF Call
  <2> QED BY <1>1, <2>2, <2>3
<1>7. CASE c.do = "waiters"
  <2> DEFINE o == [do |-> "waiters", bumped |-> FALSE, list |-> <<>>, wake |-> <<>>]
  <2>2. Shaped(x, o) /\ o.do # "drop"
    BY DEF Shaped, Notifying
  <2>3. op' = [op EXCEPT ![x] = o] /\ task' = task
    BY <1>7 DEF Call
  <2> QED BY <1>1, <2>2, <2>3
<1>8. CASE c.do \in {"send", "txdrop"}
  <2> DEFINE o == [do |-> c.do, slot |-> NoOne]
  <2>2. Shaped(x, o) /\ o.do # "drop"
    BY <1>8 DEF Shaped, Sending
  <2>3. op' = [op EXCEPT ![x] = o] /\ task' = task
    BY <1>8 DEF Call
  <2> QED BY <1>1, <2>2, <2>3
<1>9. CASE c.do \in {"close", "send1"}
  <2> DEFINE o == [do |-> c.do]
  <2>2. Shaped(x, o) /\ o.do # "drop"
    BY <1>9 DEF Shaped
  <2>3. op' = [op EXCEPT ![x] = o] /\ task' = task
    BY <1>9 DEF Call
  <2> QED BY <1>1, <2>2, <2>3
<1> QED BY <1>3, <1>4, <1>5, <1>6, <1>7, <1>8, <1>9

----------------------------------------------------------------------------
(* Every step keeps the types. *)

(* A task's step keeps the types. *)
LEMMA TaskStepTyped ==
    ASSUME TokioAssumption, Typed, Midway, NEW t \in Tasks, TaskStep(t)
    PROVE  Typed'
<1>1. CASE Start(t)
  <2>1. UNCHANGED <<prog, left, acq, owns, sem, one, chan>>
    BY <1>1 DEF Start, resources
  <2>2. TaskTyped'
    BY <1>1 DEF Typed, TaskTyped, Start, TaskType
  <2>3. FutTyped'
    BY <1>1 DEF Typed, FutTyped, Start, FutType
  <2> QED BY <2>1, <2>2, <2>3 DEF Typed, ProgTyped, AcqTyped, OwnsTyped, SemTyped, OneTyped,
             ChanTyped
<1>2. CASE PollPending(t)
  <2>1. UNCHANGED <<prog, left, fut, owns>>
    BY <1>2, PendingIs DEF Typed
  <2>2. TaskTyped'
    <3>1. WakerOf(t) \in Wakers
      BY WakersAre DEF Typed
    <3>2. \/ task' = Park(t) \/ task' = [Park(t) EXCEPT ![t].notif = TRUE]
          \/ task' = [Park(t) EXCEPT ![fut[t].joins].trailer = WakerOf(t), ![fut[t].joins].jwaker = TRUE]
      BY <1>2, PendingIs DEF Typed
    <3>3. task \in [Tasks -> TaskType] /\ Park(t) \in [Tasks -> TaskType]
      BY DEF Typed, TaskTyped, TaskType, Park
    <3>5. CASE task' = Park(t)
      BY <3>1, <3>3, <3>5 DEF TaskTyped, TaskType
    <3>6. CASE task' = [Park(t) EXCEPT ![t].notif = TRUE]
      BY <3>1, <3>3, <3>6 DEF TaskTyped, TaskType
    <3>7. CASE task' = [Park(t) EXCEPT ![fut[t].joins].trailer = WakerOf(t), ![fut[t].joins].jwaker = TRUE]
      BY <3>1, <3>3, <3>7, ZenonT(30) DEF TaskTyped, TaskType
    <3> QED BY <3>2, <3>5, <3>6, <3>7
  <2>3. AcqTyped'
    <3>1. LeafAcquire(t) \in Acquires /\ WakerOf(t) \in Wakers
      BY AcquiresAre, WakersAre DEF Typed
    <3>2. acq' = acq \/ (~AcquireReady(LeafAcquire(t)) /\ Enqueue(LeafAcquire(t), WakerOf(t)))
      BY <1>2, PendingIs DEF Typed
    <3> QED BY <3>1, <3>2, EnqueueTyped DEF Typed, AcqTyped
  <2>4. SemTyped'
    <3>1. LeafAcquire(t) \in Acquires /\ WakerOf(t) \in Wakers
      BY AcquiresAre, WakersAre DEF Typed
    <3>2. sem' = sem \/ (~AcquireReady(LeafAcquire(t)) /\ Enqueue(LeafAcquire(t), WakerOf(t)))
      BY <1>2, PendingIs DEF Typed
    <3> QED BY <3>1, <3>2, EnqueueTyped DEF Typed, SemTyped
  <2>5. OneTyped'
    <3>1. WakerOf(t) \in Wakers
      BY WakersAre DEF Typed
    <3>2. one' = one \/ one' = [one EXCEPT !.rxset = TRUE, !.waker = WakerOf(t)]
      BY <1>2, PendingIs DEF Typed
    <3> QED BY <3>1, <3>2 DEF Typed, OneTyped, OneType
  <2>6. ChanTyped'
    <3>1. WakerOf(t) \in Wakers
      BY WakersAre DEF Typed
    <3>2. chan' = chan \/ chan' = [chan EXCEPT !.waker = WakerOf(t)]
      BY <1>2, PendingIs DEF Typed
    <3> QED BY <3>1, <3>2 DEF Typed, ChanTyped, ChanType
  <2> QED BY <2>1, <2>2, <2>3, <2>4, <2>5, <2>6 DEF Typed, ProgTyped, FutTyped, OwnsTyped
<1>3. CASE PollStarved(t)
  <2>1. UNCHANGED <<prog, left, fut, acq, owns, sem, one, chan>>
    BY <1>3 DEF PollStarved, resources
  <2>2. TaskTyped'
    BY <1>3 DEF Typed, TaskTyped, PollStarved, TaskType, Park
  <2> QED BY <2>1, <2>2 DEF Typed, ProgTyped, FutTyped, AcqTyped, OwnsTyped, SemTyped, OneTyped,
             ChanTyped
<1>4. CASE WakeDeferred(t)
  <2>1. UNCHANGED <<prog, left, fut, acq, owns, sem, one, chan>>
    BY <1>4 DEF WakeDeferred, resources
  <2>2. TaskTyped'
    BY <1>4, ZenonT(30) DEF Typed, TaskTyped, WakeDeferred, TaskType, Woken
  <2> QED BY <2>1, <2>2 DEF Typed, ProgTyped, FutTyped, AcqTyped, OwnsTyped, SemTyped, OneTyped,
             ChanTyped
<1>5. CASE PollReady(t)
  <2>1. UNCHANGED <<prog, left>>
    BY <1>5, ReadyIs DEF Typed
  <2>2. TaskTyped'
    <3> DEFINE u == fut[t].joins
               r == [task[u] EXCEPT !.jint = FALSE, !.jwaker = FALSE, !.trailer = NoWaker]
    <3>1. NoWaker \in Wakers /\ task \in [Tasks -> TaskType]
      BY DEF Wakers, Typed, TaskTyped
    <3>2. task' = task \/ task' = [task EXCEPT ![u] = r]
      BY <1>5, ReadyIs DEF Typed
    <3>3. u \in Tasks => r \in TaskType
      BY <3>1, ZenonT(30) DEF TaskType
    <3> HIDE DEF r, u
    <3> QED BY <3>1, <3>2, <3>3 DEF TaskTyped
  <2>3. FutTyped'
    BY <1>5 DEF Typed, FutTyped, PollReady, FutType
  <2>4. AcqTyped'
    <3>1. LeafAcquire(t) \in Acquires
      BY AcquiresAre
    <3>2. acq' = acq \/ (AcquireReady(LeafAcquire(t)) /\ Take(t, LeafAcquire(t)))
      BY <1>5, ReadyIs DEF Typed
    <3> QED BY <3>1, <3>2, TakeTyped DEF Typed, AcqTyped
  <2>5. SemTyped'
    <3>1. LeafAcquire(t) \in Acquires
      BY AcquiresAre
    <3>2. sem' = sem \/ (AcquireReady(LeafAcquire(t)) /\ Take(t, LeafAcquire(t)))
      BY <1>5, ReadyIs DEF Typed
    <3> QED BY <3>1, <3>2, TakeTyped DEF Typed, SemTyped
  <2>6. OwnsTyped'
    <3>1. LeafAcquire(t) \in Acquires
      BY AcquiresAre
    <3>2. owns' = owns \/ (AcquireReady(LeafAcquire(t)) /\ Take(t, LeafAcquire(t)))
      BY <1>5, ReadyIs DEF Typed
    <3> QED BY <3>1, <3>2, TakeTyped DEF Typed, OwnsTyped
  <2>7. OneTyped'
    <3>1. one' = one \/ one' = [one EXCEPT !.closed = TRUE]
      BY <1>5, ReadyIs DEF Typed
    <3> QED BY <3>1 DEF Typed, OneTyped, OneType
  <2>8. ChanTyped'
    <3>1. chan' = chan \/ chan' = [chan EXCEPT !.index = @ + 1, !.avail = @ + 1]
      BY <1>5, ReadyIs DEF Typed
    <3>5. CASE chan' = chan
      BY <3>5 DEF Typed, ChanTyped, ChanType
    <3>6. CASE chan' = [chan EXCEPT !.index = @ + 1, !.avail = @ + 1]
      <4> DEFINE i == chan.index + 1
                 m == chan.avail + 1
      <4>1. i \in Nat /\ m \in Nat
        BY DEF Typed, ChanTyped, ChanType
      <4>2. chan' = [chan EXCEPT !.index = i, !.avail = m]
        BY <3>6
      <4> HIDE DEF i, m
      <4> QED BY <4>1, <4>2 DEF Typed, ChanTyped, ChanType
    <3> QED BY <3>1, <3>5, <3>6
  <2> QED BY <2>1, <2>2, <2>3, <2>4, <2>5, <2>6, <2>7, <2>8 DEF Typed, ProgTyped
<1>6. CASE PollBeside(t)
  <2>1. UNCHANGED <<prog, left, task, one, chan>>
    BY <1>6 DEF PollBeside, resources
  <2>2. FutTyped'
    <3>1. \/ fut' = fut
          \/ fut' = [fut EXCEPT ![t] = [@ EXCEPT !.shape = "run", !.leaf = "none", !.joins = NoOne]]
      BY <1>6 DEF PollBeside
    <3>5. CASE fut' = fut
      BY <3>5 DEF Typed, FutTyped, FutType
    <3>6. CASE fut' = [fut EXCEPT ![t] = [@ EXCEPT !.shape = "run", !.leaf = "none", !.joins = NoOne]]
      BY <3>6 DEF Typed, FutTyped, FutType
    <3> QED BY <3>1, <3>5, <3>6
  <2>3. AcqTyped'
    <3>1. AcquireReady(<<t, "held">>) /\ Take(t, <<t, "held">>)
      BY <1>6 DEF PollBeside
    <3> QED BY <3>1, AcquiresAre, TakeTyped DEF Typed
  <2>4. SemTyped'
    <3>1. AcquireReady(<<t, "held">>) /\ Take(t, <<t, "held">>)
      BY <1>6 DEF PollBeside
    <3> QED BY <3>1, AcquiresAre, TakeTyped DEF Typed
  <2>5. OwnsTyped'
    <3>1. AcquireReady(<<t, "held">>) /\ Take(t, <<t, "held">>)
      BY <1>6 DEF PollBeside
    <3> QED BY <3>1, AcquiresAre, TakeTyped DEF Typed
  <2> QED BY <2>1, <2>2, <2>3, <2>4, <2>5 DEF Typed, ProgTyped, TaskTyped, OneTyped, ChanTyped
<1>7. CASE Hold(t)
  <2>1. UNCHANGED <<prog, left, task, fut, owns, one, chan>>
    BY <1>7 DEF Hold, resources
  <2>2. AcqTyped'
    <3> DEFINE need == prog.want[t] - sem.avail
               r == [live |-> TRUE, queued |-> TRUE, want |-> prog.want[t],
                     need |-> need, waker |-> [task |-> t, own |-> TRUE]]
    <3>1. acq' = [acq EXCEPT ![<<t, "held">>] = r]
      BY <1>7 DEF Hold
    <3>2. prog.want[t] \in Nat /\ sem.avail \in Nat /\ sem.avail < prog.want[t]
      BY <1>7 DEF Hold, Typed, ProgTyped, ProgramType, SemTyped, SemType
    <3>3. need \in Nat /\ need <= prog.want[t]
      BY <3>2
    <3> HIDE DEF need
    <3>4. r \in AcqType /\ r.need <= r.want
      BY <3>2, <3>3, WakersAre DEF Typed, AcqType
    <3> HIDE DEF r
    <3> QED BY <3>1, <3>4, AcqUpdate DEF Typed
  <2>3. SemTyped'
    <3>1. sem' = [sem EXCEPT !.avail = 0, !.queue = <<<<t, "held">>>> \o @]
      BY <1>7 DEF Hold
    <3>2. sem.lock \in Actors \cup {NoOne} /\ sem.avail \in Nat /\ sem.queue \in Seq(Acquires)
      BY DEF Typed, SemTyped, SemType
    <3>3. <<<<t, "held">>>> \o sem.queue \in Seq(Acquires)
      BY <3>2, AcquiresAre, PrependIs
    <3>4. sem' = [sem EXCEPT !.avail = 0, !.lock = sem.lock, !.queue = <<<<t, "held">>>> \o sem.queue]
      BY <3>1 DEF Typed, SemTyped, SemType
    <3> QED BY <3>2, <3>3, <3>4, SemUpdate DEF Typed
  <2> QED BY <2>1, <2>2, <2>3 DEF Typed, ProgTyped, TaskTyped, FutTyped, OwnsTyped, OneTyped,
             ChanTyped
<1>8. CASE CloseRx(t)
  <2>1. UNCHANGED <<prog, left, task, fut, acq, owns, sem, one>>
    BY <1>8 DEF CloseRx, resources
  <2>2. ChanTyped'
    BY <1>8 DEF Typed, ChanTyped, CloseRx, ChanType
  <2> QED BY <2>1, <2>2 DEF Typed, ProgTyped, TaskTyped, FutTyped, AcqTyped, OwnsTyped,
             SemTyped, OneTyped
<1>9. CASE Release(t)
  <2>1. UNCHANGED <<prog, left, task, fut, acq, sem, one, chan>>
    BY <1>9 DEF Release, resources
  <2>2. OwnsTyped'
    BY <1>9 DEF Typed, OwnsTyped, Release
  <2> QED BY <2>1, <2>2 DEF Typed, ProgTyped, TaskTyped, FutTyped, AcqTyped, SemTyped, OneTyped,
             ChanTyped
<1>10. CASE Finish(t)
  <2>1. UNCHANGED <<prog, left, task, acq, owns, sem, one, chan>>
    BY <1>10 DEF Finish, resources
  <2>2. FutTyped'
    BY <1>10 DEF Typed, FutTyped, Finish, FutType
  <2> QED BY <2>1, <2>2 DEF Typed, ProgTyped, TaskTyped, AcqTyped, OwnsTyped, SemTyped,
             OneTyped, ChanTyped
<1>11. CASE DropFuture(t)
  <2>1. UNCHANGED <<prog, left, task, owns, sem>>
    BY <1>11, DropFutureIs
  <2>2. FutTyped'
    <3>1. fut' = fut \/ fut' = [fut EXCEPT ![t].leaf = "none"]
      BY <1>11, DropFutureIs
    <3>2. CASE fut' = fut
      BY <3>2 DEF Typed, FutTyped
    <3>3. CASE fut' = [fut EXCEPT ![t].leaf = "none"]
      BY <3>3 DEF Typed, FutTyped, FutType
    <3> QED BY <3>1, <3>2, <3>3
  <2>3. AcqTyped'
    <3>1. acq' = acq \/ \E s \in {"leaf", "held"} : acq' = [acq EXCEPT ![<<t, s>>].live = FALSE]
      BY <1>11, DropFutureIs
    <3>5. CASE acq' = acq
      BY <3>5 DEF Typed, AcqTyped, AcqType
    <3>6. CASE \E s \in {"leaf", "held"} : acq' = [acq EXCEPT ![<<t, s>>].live = FALSE]
      <4>1. PICK s \in {"leaf", "held"} : acq' = [acq EXCEPT ![<<t, s>>].live = FALSE]
        BY <3>6
      <4> QED BY <4>1 DEF Typed, AcqTyped, AcqType
    <3> QED BY <3>1, <3>5, <3>6
  <2>4. OneTyped'
    BY <1>11, DropFutureIs DEF Typed, OneTyped, OneType
  <2>5. ChanTyped'
    BY <1>11, DropFutureIs, ZenonT(30) DEF Typed, ChanTyped, ChanType
  <2> QED BY <2>1, <2>2, <2>3, <2>4, <2>5 DEF Typed, ProgTyped, TaskTyped, OwnsTyped, SemTyped
<1>12. CASE Complete(t)
  <2>1. UNCHANGED <<prog, left, acq, owns, sem, one, chan>>
    BY <1>12 DEF Complete, resources
  <2>2. TaskTyped'
    <3>1. NoWaker \in Wakers
      BY DEF Wakers
    <3> DEFINE ended == [task[t] EXCEPT !.run = FALSE, !.notif = FALSE, !.done = TRUE]
               freed(u) == [task[u] EXCEPT !.jint = FALSE, !.jwaker = FALSE, !.trailer = NoWaker]
    <3>2. ended \in TaskType /\ \A u \in Tasks : freed(u) \in TaskType /\ task[u] \in TaskType
      BY <3>1 DEF Typed, TaskTyped, TaskType
    <3>3. task' = [u \in Tasks |-> IF u = t THEN ended ELSE IF prog.joiner[u] = t THEN freed(u)
                                   ELSE task[u]]
      BY <1>12 DEF Complete
    <3> HIDE DEF ended, freed
    <3> QED BY <3>2, <3>3 DEF TaskTyped
  <2>3. FutTyped'
    BY <1>12, ZenonT(30) DEF Typed, FutTyped, Complete, FutType
  <2> QED BY <2>1, <2>2, <2>3 DEF Typed, ProgTyped, AcqTyped, OwnsTyped, SemTyped, OneTyped,
             ChanTyped
<1>13. ASSUME NEW kind \in prog.awaits[t], NEW shape \in prog.shapes[t], Await(t, kind, shape)
      PROVE  Typed'
  <2>1. UNCHANGED <<prog, left, task, owns, sem, one, chan>>
    BY <1>13 DEF Await, resources
  <2>2. FutTyped'
    BY <1>13 DEF Typed, FutTyped, Await, FutType, ProgTyped, ProgramType, Kinds, Shapes
  <2>3. AcqTyped'
    <3> DEFINE r == [live |-> TRUE, queued |-> FALSE, want |-> prog.want[t], need |-> prog.want[t],
                     waker |-> NoWaker]
    <3>1. acq' = acq \/ acq' = [acq EXCEPT ![<<t, "leaf">>] = r]
      BY <1>13 DEF Await
    <3>2. prog.want[t] \in Nat /\ NoWaker \in Wakers
      BY DEF Typed, ProgTyped, ProgramType, Wakers
    <3>3. r \in AcqType /\ r.need <= r.want
      BY <3>2 DEF AcqType
    <3> HIDE DEF r
    <3> QED BY <3>1, <3>3, AcqUpdate DEF Typed, AcqTyped
  <2> QED BY <2>1, <2>2, <2>3 DEF Typed, ProgTyped, TaskTyped, OwnsTyped, SemTyped, OneTyped,
             ChanTyped
<1> QED BY <1>1, <1>2, <1>3, <1>4, <1>5, <1>6, <1>7, <1>8, <1>9, <1>10, <1>11, <1>12, <1>13
           DEF TaskStep

(* A step of an operation under way keeps them. *)
LEMMA ThreadStepTyped ==
    ASSUME TokioAssumption, Typed, Midway, NEW x \in Actors, ThreadStep(x)
    PROVE  Typed'
<1>1. CASE SemLock(x)
  <2>1. UNCHANGED <<prog, left, task, fut, owns, one, chan>>
    BY <1>1, SemLockIs
  <2>2. AcqTyped'
    <3>1. \/ acq' = acq
          \/ acq' = [acq EXCEPT ![op[x].acq].live = FALSE, ![op[x].acq].queued = FALSE]
      BY <1>1, SemLockIs
    <3>5. CASE acq' = acq
      BY <3>5 DEF Typed, AcqTyped, AcqType
    <3>6. CASE acq' = [acq EXCEPT ![op[x].acq].live = FALSE, ![op[x].acq].queued = FALSE]
      BY <3>6, ZenonT(30) DEF Typed, AcqTyped, AcqType
    <3> QED BY <3>1, <3>5, <3>6
  <2>3. SemTyped'
    <3>1. sem.lock \in Actors \cup {NoOne} /\ sem.avail \in Nat /\ sem.queue \in Seq(Acquires)
      BY DEF Typed, SemTyped, SemType
    <3>2. RemoveFirst(sem.queue, op[x].acq) \in Seq(Acquires)
      BY <3>1, RemoveFirstIs
    <3>3. CASE sem' = [sem EXCEPT !.lock = x]
      BY <3>3 DEF Typed, SemTyped, SemType
    <3>4. CASE sem' = [sem EXCEPT !.lock = x, !.closed = TRUE]
      BY <3>4 DEF Typed, SemTyped, SemType
    <3>5. CASE sem' = [sem EXCEPT !.lock = x, !.queue = RemoveFirst(@, op[x].acq)]
      <4>1. sem' = [sem EXCEPT !.avail = sem.avail, !.lock = x,
                               !.queue = RemoveFirst(sem.queue, op[x].acq)]
        BY <3>5 DEF Typed, SemTyped, SemType
      <4> QED BY <3>1, <3>2, <4>1, SemUpdate DEF Typed
    <3> QED BY <1>1, <3>3, <3>4, <3>5, SemLockIs
  <2> QED BY <2>1, <2>2, <2>3 DEF Typed, ProgTyped, TaskTyped, FutTyped, OwnsTyped, OneTyped,
             ChanTyped
<1>2. CASE Assign(x)
  <2>0. op[x].rem \in Nat
    BY <1>2 DEF Assign, Midway, Shaped, Adding
  <2>1. UNCHANGED <<prog, left, task, fut, owns, one, chan>>
    BY <1>2 DEF Assign, resources
  <2>2. AcqTyped'
    <3>1. sem.queue \in Seq(Acquires) /\ \A a \in Acquires : acq[a].need \in Nat
      BY DEF Typed, AcqTyped, AcqType, SemTyped, SemType
    <3>2. \/ acq' = acq
          \/ /\ sem.queue # <<>> /\ op[x].rem < acq[Last(sem.queue)].need
             /\ acq' = [acq EXCEPT ![Last(sem.queue)].need = @ - op[x].rem]
          \/ acq' = [acq EXCEPT ![Last(sem.queue)].need = 0, ![Last(sem.queue)].waker = NoWaker]
      BY <1>2, <2>0, <3>1, AssignIs
    <3>3. CASE /\ sem.queue # <<>> /\ op[x].rem < acq[Last(sem.queue)].need
               /\ acq' = [acq EXCEPT ![Last(sem.queue)].need = @ - op[x].rem]
      <4> DEFINE a == Last(sem.queue)
                 m == acq[a].need - op[x].rem
      <4>1. a \in Acquires
        BY <3>1, <3>3, FrontIs
      <4>2. acq' = [acq EXCEPT ![a].need = m]
        BY <3>3
      <4>3. m \in Nat /\ m <= acq[a].need
        BY <2>0, <3>1, <3>3, <4>1
      <4> HIDE DEF m, a
      <4>4. acq' \in [Acquires -> AcqType]
        BY <4>1, <4>2, <4>3 DEF Typed, AcqTyped, AcqType
      <4>5. \A b \in Acquires : acq'[b].need <= acq'[b].want
        BY <4>1, <4>2, <4>3 DEF Typed, AcqTyped, AcqType
      <4> QED BY <4>4, <4>5 DEF AcqTyped
    <3>4. CASE acq' = [acq EXCEPT ![Last(sem.queue)].need = 0, ![Last(sem.queue)].waker = NoWaker]
      <4>1. NoWaker \in Wakers
        BY DEF Wakers
      <4>2. acq' \in [Acquires -> AcqType]
        BY <3>4, <4>1 DEF Typed, AcqTyped, AcqType
      <4>3. \A b \in Acquires : acq'[b].need <= acq'[b].want
        BY <3>4 DEF Typed, AcqTyped, AcqType
      <4> QED BY <4>2, <4>3 DEF AcqTyped
    <3> QED BY <3>2, <3>3, <3>4 DEF Typed, AcqTyped
  <2>3. SemTyped'
    <3>1. /\ sem.lock \in Actors \cup {NoOne} /\ sem.avail \in Nat /\ sem.queue \in Seq(Acquires)
          /\ \A a \in Acquires : acq[a].need \in Nat
      BY DEF Typed, AcqTyped, AcqType, SemTyped, SemType
    <3>2. \/ sem' = sem \/ sem' = [sem EXCEPT !.avail = @ + op[x].rem]
          \/ sem.queue # <<>> /\ sem' = [sem EXCEPT !.queue = Front(@)]
      BY <1>2, <2>0, <3>1, AssignIs
    <3>3. CASE sem' = [sem EXCEPT !.avail = @ + op[x].rem]
      BY <2>0, <3>1, <3>3 DEF Typed, SemTyped, SemType
    <3>4. CASE sem.queue # <<>> /\ sem' = [sem EXCEPT !.queue = Front(@)]
      <4>1. sem' = [sem EXCEPT !.avail = sem.avail, !.lock = sem.lock, !.queue = Front(sem.queue)]
        BY <3>4 DEF Typed, SemTyped, SemType
      <4>2. Front(sem.queue) \in Seq(Acquires)
        BY <3>1, <3>4, FrontIs
      <4> QED BY <3>1, <4>1, <4>2, SemUpdate DEF Typed
    <3> QED BY <3>2, <3>3, <3>4 DEF Typed, SemTyped
  <2> QED BY <2>1, <2>2, <2>3 DEF Typed, ProgTyped, TaskTyped, FutTyped, OwnsTyped, OneTyped,
             ChanTyped
<1>3. CASE AddUnlock(x)
  <2>1. UNCHANGED <<prog, left, task, fut, acq, owns, one, chan>>
    BY <1>3 DEF AddUnlock, resources
  <2>2. SemTyped'
    BY <1>3 DEF Typed, SemTyped, AddUnlock, SemType
  <2> QED BY <2>1, <2>2 DEF Typed, ProgTyped, TaskTyped, FutTyped, AcqTyped, OwnsTyped,
             OneTyped, ChanTyped
<1>4. CASE CloseStep(x)
  <2>1. UNCHANGED <<prog, left, fut, owns, one, chan>>
    BY <1>4, CloseStepIs DEF Typed, SemTyped, SemType
  <2>2. TaskTyped'
    <3>1. task' = task \/ \E ts : task' = Woken(ts)
      BY <1>4, CloseStepIs DEF Typed, SemTyped, SemType
    <3>5. CASE task' = task
      BY <3>5 DEF Typed, TaskTyped, TaskType, Woken
    <3>6. CASE \E ts : task' = Woken(ts)
      <4>1. PICK ts : task' = Woken(ts)
        BY <3>6
      <4> QED BY <4>1 DEF Typed, TaskTyped, TaskType, Woken
    <3> QED BY <3>1, <3>5, <3>6
  <2>3. AcqTyped'
    <3>1. acq' = acq \/ acq' = [acq EXCEPT ![Last(sem.queue)].waker = NoWaker]
      BY <1>4, CloseStepIs DEF Typed, SemTyped, SemType
    <3>2. NoWaker \in Wakers
      BY DEF Wakers
    <3> QED BY <3>1, <3>2 DEF Typed, AcqTyped, AcqType
  <2>4. SemTyped'
    <3>1. sem.lock \in Actors \cup {NoOne} /\ sem.avail \in Nat /\ sem.queue \in Seq(Acquires)
      BY DEF Typed, SemTyped, SemType
    <3>2. \/ sem' = [sem EXCEPT !.qclosed = TRUE] \/ sem' = [sem EXCEPT !.lock = NoOne]
          \/ sem.queue # <<>> /\ sem' = [sem EXCEPT !.queue = Front(@)]
      BY <1>4, CloseStepIs DEF Typed, SemTyped, SemType
    <3>3. CASE sem' = [sem EXCEPT !.qclosed = TRUE] \/ sem' = [sem EXCEPT !.lock = NoOne]
      BY <3>3 DEF Typed, SemTyped, SemType
    <3>4. CASE sem.queue # <<>> /\ sem' = [sem EXCEPT !.queue = Front(@)]
      <4>1. sem' = [sem EXCEPT !.avail = sem.avail, !.lock = sem.lock, !.queue = Front(sem.queue)]
        BY <3>4 DEF Typed, SemTyped, SemType
      <4>2. Front(sem.queue) \in Seq(Acquires)
        BY <3>1, <3>4, FrontIs
      <4> QED BY <3>1, <4>1, <4>2, SemUpdate DEF Typed
    <3> QED BY <3>2, <3>3, <3>4
  <2> QED BY <2>1, <2>2, <2>3, <2>4 DEF Typed, ProgTyped, FutTyped, OwnsTyped, OneTyped, ChanTyped
<1>5. CASE Wake(x)
  <2>1. UNCHANGED <<prog, left, fut, acq, owns, sem, one, chan>>
    BY <1>5 DEF Wake, resources
  <2>2. TaskTyped'
    BY <1>5, ZenonT(30) DEF Typed, TaskTyped, Wake, TaskType, Woken
  <2> QED BY <2>1, <2>2 DEF Typed, ProgTyped, FutTyped, AcqTyped, OwnsTyped, SemTyped, OneTyped,
             ChanTyped
<1>6. CASE NotifyStore(x)
  <2>1. UNCHANGED <<prog, left, task, fut, acq, owns, sem, one, chan>>
    BY <1>6 DEF NotifyStore, resources
  <2> QED BY <2>1 DEF Typed, ProgTyped, TaskTyped, FutTyped, AcqTyped, OwnsTyped, SemTyped,
             OneTyped, ChanTyped
<1>7. CASE NotifyLock(x)
  <2>1. UNCHANGED <<prog, left, task, fut, acq, owns, sem, one, chan>>
    BY <1>7 DEF NotifyLock, resources
  <2> QED BY <2>1 DEF Typed, ProgTyped, TaskTyped, FutTyped, AcqTyped, OwnsTyped, SemTyped,
             OneTyped, ChanTyped
<1>8. CASE NotifyOne(x)
  <2>1. UNCHANGED <<prog, left, task, fut, acq, owns, sem, one, chan>>
    BY <1>8 DEF NotifyOne, resources
  <2> QED BY <2>1 DEF Typed, ProgTyped, TaskTyped, FutTyped, AcqTyped, OwnsTyped, SemTyped,
             OneTyped, ChanTyped
<1>9. CASE NotifyBump(x)
  <2>1. UNCHANGED <<prog, left, task, fut, acq, owns, sem, one, chan>>
    BY <1>9 DEF NotifyBump, resources
  <2> QED BY <2>1 DEF Typed, ProgTyped, TaskTyped, FutTyped, AcqTyped, OwnsTyped, SemTyped,
             OneTyped, ChanTyped
<1>10. CASE NotifyPop(x)
  <2>1. UNCHANGED <<prog, left, task, fut, acq, owns, sem, one, chan>>
    BY <1>10 DEF NotifyPop, resources
  <2> QED BY <2>1 DEF Typed, ProgTyped, TaskTyped, FutTyped, AcqTyped, OwnsTyped, SemTyped,
             OneTyped, ChanTyped
<1>11. CASE NotifyUnlock(x)
  <2>1. UNCHANGED <<prog, left, task, fut, acq, owns, sem, one, chan>>
    BY <1>11 DEF NotifyUnlock, resources
  <2> QED BY <2>1 DEF Typed, ProgTyped, TaskTyped, FutTyped, AcqTyped, OwnsTyped, SemTyped,
             OneTyped, ChanTyped
<1>12. CASE NotifyWakeBatch(x)
  <2>1. UNCHANGED <<prog, left, fut, acq, owns, sem, one, chan>>
    BY <1>12 DEF NotifyWakeBatch, resources
  <2>2. TaskTyped'
    BY <1>12, ZenonT(30) DEF Typed, TaskTyped, NotifyWakeBatch, TaskType, Woken
  <2> QED BY <2>1, <2>2 DEF Typed, ProgTyped, FutTyped, AcqTyped, OwnsTyped, SemTyped, OneTyped,
             ChanTyped
<1>13. CASE OneshotSend(x)
  <2>1. UNCHANGED <<prog, left, task, fut, acq, owns, sem, chan>>
    BY <1>13 DEF OneshotSend, resources
  <2>2. OneTyped'
    BY <1>13 DEF Typed, OneTyped, OneshotSend, OneType
  <2> QED BY <2>1, <2>2 DEF Typed, ProgTyped, TaskTyped, FutTyped, AcqTyped, OwnsTyped,
             SemTyped, ChanTyped
<1>14. CASE ChanClaim(x)
  <2>1. UNCHANGED <<prog, left, task, fut, acq, owns, sem, one>>
    BY <1>14 DEF ChanClaim, resources
  <2>2. ChanTyped'
    <3>1. \/ chan' = chan
          \/ chan.avail > 0 /\ chan' = [chan EXCEPT !.avail = @ - 1, !.tail = @ + 1]
          \/ chan.senders > 0 /\ chan' = [chan EXCEPT !.senders = @ - 1]
          \/ chan' = [chan EXCEPT !.tail = @ + 1]
      BY <1>14 DEF ChanClaim
    <3>5. CASE chan' = chan
      BY <3>5 DEF Typed, ChanTyped, ChanType
    <3>6. CASE chan.avail > 0 /\ chan' = [chan EXCEPT !.avail = @ - 1, !.tail = @ + 1]
      <4> DEFINE i == chan.tail + 1
                 m == chan.avail - 1
      <4>1. i \in Nat /\ m \in Nat
        BY <3>6 DEF Typed, ChanTyped, ChanType
      <4>2. chan' = [chan EXCEPT !.avail = m, !.tail = i]
        BY <3>6
      <4> HIDE DEF i, m
      <4> QED BY <4>1, <4>2 DEF Typed, ChanTyped, ChanType
    <3>7. CASE chan.senders > 0 /\ chan' = [chan EXCEPT !.senders = @ - 1]
      BY <3>7 DEF Typed, ChanTyped, ChanType
    <3>8. CASE chan' = [chan EXCEPT !.tail = @ + 1]
      BY <3>8 DEF Typed, ChanTyped, ChanType
    <3> QED BY <3>1, <3>5, <3>6, <3>7, <3>8
  <2> QED BY <2>1, <2>2 DEF Typed, ProgTyped, TaskTyped, FutTyped, AcqTyped, OwnsTyped,
             SemTyped, OneTyped
<1>15. CASE ChanPublish(x)
  <2>1. UNCHANGED <<prog, left, task, fut, acq, owns, sem, one>>
    BY <1>15 DEF ChanPublish, resources
  <2>2. ChanTyped'
    <3> DEFINE block == BlockOf(op[x].slot)
               top == IF chan.blocks < block THEN block ELSE chan.blocks
    <3>1. op[x].slot \in Nat
      BY <1>15 DEF ChanPublish, Midway, Shaped, Sending
    <3>2. block \in Nat /\ top \in Nat
      BY <3>1, TokioAssumption DEF BlockOf, Typed, ChanTyped, ChanType
    <3>3. \/ chan' = [[chan EXCEPT !.blocks = top] EXCEPT !.ready = @ \cup {op[x].slot}]
          \/ chan' = [[chan EXCEPT !.blocks = top] EXCEPT !.marker = block]
      BY <1>15 DEF ChanPublish
    <3> HIDE DEF block, top
    <3>4. [chan EXCEPT !.blocks = top] \in ChanType
      BY <3>2 DEF Typed, ChanTyped, ChanType
    <3>5. CASE chan' = [[chan EXCEPT !.blocks = top] EXCEPT !.ready = @ \cup {op[x].slot}]
      BY <3>1, <3>2, <3>4, <3>5 DEF ChanTyped, ChanType
    <3>6. CASE chan' = [[chan EXCEPT !.blocks = top] EXCEPT !.marker = block]
      BY <3>1, <3>2, <3>4, <3>6 DEF ChanTyped, ChanType
    <3> QED BY <3>3, <3>5, <3>6
  <2> QED BY <2>1, <2>2 DEF Typed, ProgTyped, TaskTyped, FutTyped, AcqTyped, OwnsTyped,
             SemTyped, OneTyped
<1>16. CASE ChanMarkWaking(x)
  <2>1. UNCHANGED <<prog, left, task, fut, acq, owns, sem, one>>
    BY <1>16 DEF ChanMarkWaking, resources
  <2>2. ChanTyped'
    BY <1>16 DEF Typed, ChanTyped, ChanMarkWaking, ChanType
  <2> QED BY <2>1, <2>2 DEF Typed, ProgTyped, TaskTyped, FutTyped, AcqTyped, OwnsTyped,
             SemTyped, OneTyped
<1>17. CASE ChanTakeWaker(x)
  <2>1. UNCHANGED <<prog, left, task, fut, acq, owns, sem, one>>
    BY <1>17 DEF ChanTakeWaker, resources
  <2>2. ChanTyped'
    BY <1>17 DEF Typed, ChanTyped, ChanTakeWaker, ChanType, Wakers
  <2> QED BY <2>1, <2>2 DEF Typed, ProgTyped, TaskTyped, FutTyped, AcqTyped, OwnsTyped,
             SemTyped, OneTyped
<1>18. ASSUME NEW c \in left, Call(x, c)
      PROVE  Typed'
  <2>1. UNCHANGED <<prog, fut, acq, owns, sem, one, chan>>
    BY <1>18, CallIs DEF Typed
  <2>2. TaskTyped'
    <3>1. \/ task' = task
          \/ task' = [task EXCEPT ![c.task].cancelled = @ \/ ~task[c.task].done,
                                   ![c.task].notif = @ \/ ~task[c.task].done]
      BY <1>18, CallIs DEF Typed
    <3> QED BY <3>1 DEF Typed, TaskTyped, TaskType
  <2>3. ProgTyped'
    BY <1>18, <2>1, CallIs DEF Typed, ProgTyped
  <2> QED BY <2>1, <2>2, <2>3 DEF Typed, FutTyped, AcqTyped, OwnsTyped, SemTyped, OneTyped,
             ChanTyped
<1> QED BY <1>1, <1>2, <1>3, <1>4, <1>5, <1>6, <1>7, <1>8, <1>9, <1>10, <1>11, <1>12, <1>13,
           <1>14, <1>15, <1>16, <1>17, <1>18 DEF ThreadStep

----------------------------------------------------------------------------
(* Every step leaves each thread with what its call needs. *)

(* The operations under way are of the shapes listed. *)
LEMMA ShapedAre ==
    ASSUME NEW x
    PROVE  /\ Shaped(x, Idle) /\ \A ws : Shaped(x, Waking(ws))
           /\ Shaped(x, [do |-> "one", wake |-> <<>>])
           /\ Shaped(x, [do |-> "wakerx"]) /\ Shaped(x, [do |-> "takerx"])
           /\ x \in Tasks => /\ Shaped(x, [do |-> "drop", acq |-> <<x, "leaf">>])
                             /\ Shaped(x, [do |-> "drop", acq |-> <<x, "held">>])
           /\ \A n \in Nat : \A ws : Shaped(x, [do |-> "add", rem |-> n, wake |-> ws])
           /\ \A b, l, ws : Shaped(x, [do |-> "waiters", bumped |-> b, list |-> l, wake |-> ws])
<1>1. Shaped(x, Idle)
  BY DEF Shaped, Idle
<1>2. \A ws : Shaped(x, Waking(ws))
  BY <1>1 DEF Shaped, Waking
<1>3. Shaped(x, [do |-> "one", wake |-> <<>>])
  BY DEF Shaped
<1>4. Shaped(x, [do |-> "wakerx"]) /\ Shaped(x, [do |-> "takerx"])
  BY DEF Shaped
<1>5. x \in Tasks => /\ Shaped(x, [do |-> "drop", acq |-> <<x, "leaf">>])
                     /\ Shaped(x, [do |-> "drop", acq |-> <<x, "held">>])
  BY DEF Shaped, Dropping
<1>6. \A n \in Nat : \A ws : Shaped(x, [do |-> "add", rem |-> n, wake |-> ws])
  BY DEF Shaped, Adding
<1>7. \A b, l, ws : Shaped(x, [do |-> "waiters", bumped |-> b, list |-> l, wake |-> ws])
  BY DEF Shaped, Notifying
<1> QED BY <1>1, <1>2, <1>3, <1>4, <1>5, <1>6, <1>7

(* An actor may be midway through any of those. *)
LEMMA MidwayUpdate ==
    ASSUME Midway, NEW x \in Actors, NEW o, op' = [op EXCEPT ![x] = o], Shaped(x, o)
    PROVE  Midway'
<1>1. op' = [y \in Actors |-> op'[y]] /\ \A y \in Actors : op'[y] = IF y = x THEN o ELSE op[y]
  BY DEF Midway
<1>2. \A y \in Actors : Shaped(y, op'[y])
  BY <1>1 DEF Midway
<1> QED BY <1>1, <1>2 DEF Midway, Shaped, Adding, Dropping, Notifying, Sending

(* A step that leaves the operations alone. *)
LEMMA MidwaySame ==
    ASSUME Midway, op' = op
    PROVE  Midway'
BY DEF Midway, Shaped, Adding, Dropping, Notifying, Sending

(* Taking a node off a list in motion changes no call but its list. *)
LEMMA UnlistIs ==
    ASSUME Midway, NEW t, Unlist(t)
    PROVE  Midway' /\ \A x \in Actors : op'[x].do = op[x].do /\ (op[x].do # "waiters" => op'[x] = op[x])
<1>1. op' = [y \in Actors |-> op'[y]]
  BY DEF Unlist
<1>2. ASSUME NEW x \in Actors
      PROVE  /\ op'[x].do = op[x].do /\ (op[x].do # "waiters" => op'[x] = op[x])
             /\ Shaped(x, op'[x])
  <2>1. CASE op'[x] = op[x]
    BY <2>1 DEF Midway
  <2>2. CASE op[x].do = "waiters" /\ op'[x] = [op[x] EXCEPT !.list = RemoveFirst(@, t)]
    <3> DEFINE rest == RemoveFirst(op[x].list, t)
    <3>1. op[x] = [do |-> "waiters", bumped |-> op[x].bumped, list |-> op[x].list,
                   wake |-> op[x].wake]
      BY <2>2 DEF Midway, Shaped, Notifying
    <3>2. op'[x] = [op[x] EXCEPT !.list = rest]
      BY <2>2
    <3> HIDE DEF rest
    <3>3. op'[x] = [do |-> "waiters", bumped |-> op[x].bumped, list |-> rest,
                    wake |-> op[x].wake]
      BY <3>1, <3>2
    <3>4. op'[x].do = "waiters"
      BY <3>3
    <3>5. Shaped(x, op'[x])
      BY <3>3, ShapedAre
    <3> QED BY <2>2, <3>4, <3>5
  <2> QED BY <2>1, <2>2 DEF Unlist
<1> QED BY <1>1, <1>2 DEF Midway, Shaped, Adding, Dropping, Notifying, Sending

(* Taking what an acquire was given leaves a drop of it at most. *)
LEMMA TakeMidway ==
    ASSUME Midway, NEW t \in Tasks, NEW a \in {<<t, "leaf">>, <<t, "held">>}, Take(t, a)
    PROVE  Midway'
<1>1. op' = op \/ op' = [op EXCEPT ![t] = [do |-> "drop", acq |-> a]]
  BY DEF Take
<1>2. t \in Actors /\ Shaped(t, [do |-> "drop", acq |-> a])
  BY ShapedAre DEF Actors
<1> QED BY <1>1, <1>2, MidwaySame, MidwayUpdate

(* A task's step leaves every actor midway through one of them. *)
LEMMA TaskStepMidway ==
    ASSUME Typed, Midway, NEW t \in Tasks, TaskStep(t)
    PROVE  Midway'
<1>0. t \in Actors
  BY DEF Actors
<1>1. CASE \/ Start(t) \/ PollPending(t) \/ PollStarved(t) \/ WakeDeferred(t)
           \/ Hold(t) \/ CloseRx(t) \/ Finish(t)
           \/ \E kind \in prog.awaits[t], shape \in prog.shapes[t] : Await(t, kind, shape)
  <2>1. op' = op
    BY <1>1 DEF Start, PollPending, PollStarved, WakeDeferred, Hold, CloseRx, Finish, Await
  <2> QED BY <2>1, MidwaySame
<1>2. CASE PollReady(t)
  <2>1. op' = op \/ Unlist(t) \/ Take(t, LeafAcquire(t))
    BY <1>2, ReadyIs DEF Typed
  <2> QED BY <2>1, AcquiresAre, MidwaySame, UnlistIs, TakeMidway
<1>3. CASE PollBeside(t)
  <2>1. Take(t, <<t, "held">>)
    BY <1>3 DEF PollBeside
  <2> QED BY <2>1, TakeMidway
<1>4. CASE Release(t)
  <2>1. op' = [op EXCEPT ![t] = [do |-> "add", rem |-> owns[t], wake |-> <<>>]] /\ owns[t] \in Nat
    BY <1>4 DEF Release, Typed, OwnsTyped
  <2> QED BY <1>0, <2>1, ShapedAre, MidwayUpdate
<1>5. CASE DropFuture(t)
  <2>1. \/ op' = op \/ Unlist(t)
        \/ op' = [op EXCEPT ![t] = [do |-> "drop", acq |-> <<t, "leaf">>]]
        \/ op' = [op EXCEPT ![t] = [do |-> "drop", acq |-> <<t, "held">>]]
        \/ op' = [op EXCEPT ![t] = [do |-> "one", wake |-> <<>>]]
    BY <1>5, DropFutureIs
  <2> QED BY <1>0, <2>1, ShapedAre, MidwaySame, UnlistIs, MidwayUpdate
<1>6. CASE Complete(t)
  <2>1. op' = op \/ op' = [op EXCEPT ![t] = Waking(<<task[t].trailer>>)]
    BY <1>6 DEF Complete
  <2> QED BY <1>0, <2>1, ShapedAre, MidwaySame, MidwayUpdate
<1> QED BY <1>1, <1>2, <1>3, <1>4, <1>5, <1>6 DEF TaskStep

(* A thread that gives permits back goes on doing so. *)
LEMMA AddsOn ==
    ASSUME Typed, Midway, NEW x \in Actors, Assign(x)
    PROVE  \E m \in Nat : \E ws : op' = [op EXCEPT ![x] = [do |-> "add", rem |-> m, wake |-> ws]]
<1>0. op[x] = [do |-> "add", rem |-> op[x].rem, wake |-> op[x].wake] /\ op[x].rem \in Nat
  BY DEF Assign, Midway, Shaped, Adding
<1>1. sem.queue \in Seq(Acquires) /\ \A a \in Acquires : acq[a].need \in Nat
  BY DEF Typed, AcqTyped, AcqType, SemTyped, SemType
<1> DEFINE a == Last(sem.queue)
<1>2. CASE op' = [op EXCEPT ![x].rem = 0]
  <2>1. op' = [op EXCEPT ![x] = [op[x] EXCEPT !.rem = 0]]
    BY <1>2
  <2>2. [op[x] EXCEPT !.rem = 0] = [do |-> "add", rem |-> 0, wake |-> op[x].wake]
    BY <1>0
  <2> QED BY <2>1, <2>2
<1>3. CASE /\ sem.queue # <<>> /\ acq[a].need <= op[x].rem
           /\ op' = [op EXCEPT ![x].rem = @ - acq[a].need, ![x].wake = Append(@, acq[a].waker)]
  <2> DEFINE m == op[x].rem - acq[a].need
             ws == Append(op[x].wake, acq[a].waker)
  <2>1. m \in Nat
    BY <1>0, <1>1, <1>3, FrontIs
  <2>2. op' = [op EXCEPT ![x].rem = m, ![x].wake = ws]
    BY <1>3
  <2> HIDE DEF m, ws
  <2>3. op' = [op EXCEPT ![x] = [op[x] EXCEPT !.rem = m, !.wake = ws]]
    BY <2>2 DEF Midway
  <2>4. [op[x] EXCEPT !.rem = m, !.wake = ws] = [do |-> "add", rem |-> m, wake |-> ws]
    <3> DEFINE r == [op[x] EXCEPT !.rem = m]
    <3>1. r = [do |-> "add", rem |-> m, wake |-> op[x].wake]
      BY <1>0
    <3>2. [op[x] EXCEPT !.rem = m, !.wake = ws] = [r EXCEPT !.wake = ws]
      OBVIOUS
    <3> HIDE DEF r
    <3>3. [r EXCEPT !.wake = ws] = [do |-> "add", rem |-> m, wake |-> ws]
      BY <3>1
    <3> QED BY <3>2, <3>3
  <2> QED BY <2>1, <2>3, <2>4
<1> QED BY <1>0, <1>1, <1>2, <1>3, AssignIs

(* What a call may become that is neither a drop nor about one. *)
Plain(x, o) == Shaped(x, o) /\ o.do # "drop"
Becomes(x) == op' = op \/ \E o : op' = [op EXCEPT ![x] = o] /\ Plain(x, o)

(* The operations that hold no lock. *)
LEMMA PlainAre ==
    ASSUME NEW x
    PROVE  /\ Plain(x, Idle) /\ \A ws : Plain(x, Waking(ws))
           /\ Plain(x, [do |-> "wakerx"]) /\ Plain(x, [do |-> "takerx"])
           /\ \A b, l, ws : Plain(x, [do |-> "waiters", bumped |-> b, list |-> l, wake |-> ws])
<1>1. Plain(x, Idle) /\ \A ws : Plain(x, Waking(ws))
  BY ShapedAre DEF Plain, Idle, Waking
<1> QED BY <1>1, ShapedAre DEF Plain

(* An actor that turns to one of those. *)
LEMMA BecomesOne ==
    ASSUME NEW x, NEW o, op' = [op EXCEPT ![x] = o], Plain(x, o)
    PROVE  Becomes(x)
BY DEF Becomes

(* What the calls do that are not about the semaphore. *)
LEMMA ElsewhereIs ==
    ASSUME Typed, Midway, NEW x \in Actors,
           \/ Wake(x) \/ NotifyStore(x) \/ NotifyLock(x) \/ NotifyOne(x) \/ NotifyBump(x)
           \/ NotifyPop(x) \/ NotifyUnlock(x) \/ NotifyWakeBatch(x) \/ OneshotSend(x)
           \/ ChanClaim(x) \/ ChanPublish(x) \/ ChanMarkWaking(x) \/ ChanTakeWaker(x)
    PROVE  op[x].do \notin {"add", "close", "drop"} /\ Becomes(x)
<1>0. op[x].do \notin {"add", "close", "drop"}
  BY DEF Wake, NotifyStore, NotifyLock, NotifyOne, NotifyBump, NotifyPop, NotifyUnlock,
         NotifyWakeBatch, OneshotSend, ChanClaim, ChanPublish, ChanMarkWaking, ChanTakeWaker
<1> SUFFICES Becomes(x)
  BY <1>0
<1>1. CASE Wake(x) \/ NotifyOne(x) \/ OneshotSend(x) \/ ChanTakeWaker(x)
  <2>1. \E ws : op' = [op EXCEPT ![x] = Waking(ws)]
    BY <1>1 DEF Wake, NotifyOne, OneshotSend, ChanTakeWaker
  <2> QED BY <2>1, PlainAre, BecomesOne
<1>2. CASE NotifyStore(x)
  <2>1. op' = [op EXCEPT ![x] = Idle]
    BY <1>2 DEF NotifyStore
  <2> QED BY <2>1, PlainAre, BecomesOne
<1>3. CASE NotifyLock(x)
  <2>1. op' = op
    BY <1>3 DEF NotifyLock
  <2> QED BY <2>1 DEF Becomes
<1>4. CASE NotifyBump(x)
  <2>0. op[x] = [do |-> "waiters", bumped |-> op[x].bumped, list |-> op[x].list,
                 wake |-> op[x].wake]
    BY <1>4 DEF NotifyBump, Midway, Shaped, Notifying
  <2>1. CASE op' = [op EXCEPT ![x] = Idle]
    BY <2>1, PlainAre, BecomesOne
  <2>2. CASE op' = [op EXCEPT ![x].bumped = TRUE, ![x].list = ntf.list]
    <3> DEFINE yes == TRUE
    <3> HIDE DEF yes
    <3>1. op' = [op EXCEPT ![x] = [op[x] EXCEPT !.bumped = yes, !.list = ntf.list]]
      BY <2>2 DEF Midway, yes
    <3>2. [op[x] EXCEPT !.bumped = yes, !.list = ntf.list]
            = [do |-> "waiters", bumped |-> yes, list |-> ntf.list, wake |-> op[x].wake]
      <4> DEFINE r == [op[x] EXCEPT !.bumped = yes]
      <4>1. r = [do |-> "waiters", bumped |-> yes, list |-> op[x].list, wake |-> op[x].wake]
        BY <2>0
      <4>2. [op[x] EXCEPT !.bumped = yes, !.list = ntf.list] = [r EXCEPT !.list = ntf.list]
        OBVIOUS
      <4> HIDE DEF r
      <4>3. [r EXCEPT !.list = ntf.list]
              = [do |-> "waiters", bumped |-> yes, list |-> ntf.list, wake |-> op[x].wake]
        BY <4>1
      <4> QED BY <4>2, <4>3
    <3> QED BY <3>1, <3>2, PlainAre, BecomesOne
  <2> QED BY <1>4, <2>1, <2>2 DEF NotifyBump
<1>5. CASE NotifyPop(x)
  <2> DEFINE rest == Front(op[x].list)
             ws == Append(op[x].wake, nod[Last(op[x].list)].waker)
  <2>0. op[x] = [do |-> "waiters", bumped |-> op[x].bumped, list |-> op[x].list,
                 wake |-> op[x].wake]
    BY <1>5 DEF NotifyPop, Midway, Shaped, Notifying
  <2>1. op' = [op EXCEPT ![x].list = rest, ![x].wake = ws]
    BY <1>5 DEF NotifyPop
  <2> HIDE DEF rest, ws
  <2>2. op' = [op EXCEPT ![x] = [op[x] EXCEPT !.list = rest, !.wake = ws]]
    BY <2>1 DEF Midway
  <2>3. [op[x] EXCEPT !.list = rest, !.wake = ws]
          = [do |-> "waiters", bumped |-> op[x].bumped, list |-> rest, wake |-> ws]
    <3> DEFINE r == [op[x] EXCEPT !.list = rest]
    <3>1. r = [do |-> "waiters", bumped |-> op[x].bumped, list |-> rest, wake |-> op[x].wake]
      BY <2>0
    <3>2. [op[x] EXCEPT !.list = rest, !.wake = ws] = [r EXCEPT !.wake = ws]
      OBVIOUS
    <3> HIDE DEF r
    <3>3. [r EXCEPT !.wake = ws]
            = [do |-> "waiters", bumped |-> op[x].bumped, list |-> rest, wake |-> ws]
      BY <3>1
    <3> QED BY <3>2, <3>3
  <2> QED BY <2>2, <2>3, PlainAre, BecomesOne
<1>6. CASE NotifyUnlock(x)
  <2>1. op' = op \/ op' = [op EXCEPT ![x] = Waking(op[x].wake)]
    BY <1>6 DEF NotifyUnlock
  <2> QED BY <2>1, PlainAre, BecomesOne DEF Becomes
<1>7. CASE NotifyWakeBatch(x)
  <2> DEFINE ws == Tail(op[x].wake)
  <2>0. op[x] = [do |-> "waiters", bumped |-> op[x].bumped, list |-> op[x].list,
                 wake |-> op[x].wake]
    BY <1>7 DEF NotifyWakeBatch, Midway, Shaped, Notifying
  <2>1. op' = [op EXCEPT ![x].wake = ws]
    BY <1>7 DEF NotifyWakeBatch
  <2> HIDE DEF ws
  <2>2. op' = [op EXCEPT ![x] = [op[x] EXCEPT !.wake = ws]]
    BY <2>1
  <2>3. [op[x] EXCEPT !.wake = ws]
          = [do |-> "waiters", bumped |-> op[x].bumped, list |-> op[x].list, wake |-> ws]
    BY <2>0
  <2> QED BY <2>2, <2>3, PlainAre, BecomesOne
<1>8. CASE ChanClaim(x)
  <2>0. /\ op[x] = [do |-> op[x].do, slot |-> op[x].slot] /\ op[x].do \in {"send", "txdrop"}
        /\ chan.tail \in Nat
    BY <1>8 DEF ChanClaim, Midway, Shaped, Sending, Typed, ChanTyped, ChanType
  <2>1. op' = op \/ op' = [op EXCEPT ![x] = Idle] \/ op' = [op EXCEPT ![x].slot = chan.tail]
    BY <1>8 DEF ChanClaim
  <2>2. CASE op' = [op EXCEPT ![x].slot = chan.tail]
    <3> DEFINE o == [do |-> op[x].do, slot |-> chan.tail]
    <3>3. op' = [op EXCEPT ![x] = [op[x] EXCEPT !.slot = chan.tail]]
      BY <2>2
    <3>4. [op[x] EXCEPT !.slot = chan.tail] = o
      BY <2>0
    <3>1. op' = [op EXCEPT ![x] = o]
      BY <3>3, <3>4
    <3>2. Plain(x, o)
      BY <2>0 DEF Plain, Shaped, Sending
    <3> QED BY <3>1, <3>2, BecomesOne
  <2> QED BY <2>1, <2>2, PlainAre, BecomesOne DEF Becomes
<1>9. CASE ChanPublish(x)
  <2>1. op' = [op EXCEPT ![x] = [do |-> "wakerx"]]
    BY <1>9 DEF ChanPublish
  <2> QED BY <2>1, PlainAre, BecomesOne
<1>10. CASE ChanMarkWaking(x)
  <2>1. op' = [op EXCEPT ![x] = Idle] \/ op' = [op EXCEPT ![x] = [do |-> "takerx"]]
    BY <1>10 DEF ChanMarkWaking
  <2> QED BY <2>1, PlainAre, BecomesOne
<1> QED BY <1>1, <1>2, <1>3, <1>4, <1>5, <1>6, <1>7, <1>8, <1>9, <1>10

(* A step of an operation under way does too. *)
LEMMA ThreadStepMidway ==
    ASSUME TokioAssumption, Typed, Midway, NEW x \in Actors, ThreadStep(x)
    PROVE  Midway'
<1>1. CASE SemLock(x)
  <2>1. CASE op' = op
    BY <2>1, MidwaySame
  <2>2. CASE op[x].do = "drop"
    <3> DEFINE a == op[x].acq
               rem == acq[a].want - acq[a].need
    <3>1. a \in Acquires
      BY <2>2, AcquiresAre DEF Midway, Shaped, Dropping
    <3>2. op' = [op EXCEPT ![x] = [do |-> "add", rem |-> rem, wake |-> <<>>]]
      BY <1>1, <2>2, SemLockIs
    <3>3. rem \in Nat
      BY <3>1 DEF Typed, AcqTyped, AcqType
    <3> QED BY <3>2, <3>3, ShapedAre, MidwayUpdate
  <2> QED BY <1>1, <2>1, <2>2, SemLockIs
<1>2. CASE Assign(x)
  BY <1>2, AddsOn, ShapedAre, MidwayUpdate
<1>3. CASE AddUnlock(x)
  <2>1. \E ws : op' = [op EXCEPT ![x] = Waking(ws)]
    BY <1>3 DEF AddUnlock
  <2> QED BY <2>1, ShapedAre, MidwayUpdate
<1>4. CASE CloseStep(x)
  <2>1. op' = op \/ op' = [op EXCEPT ![x] = Idle]
    BY <1>4, CloseStepIs DEF Typed, SemTyped, SemType
  <2> QED BY <2>1, ShapedAre, MidwaySame, MidwayUpdate
<1>5. CASE \/ Wake(x) \/ NotifyStore(x) \/ NotifyLock(x) \/ NotifyOne(x) \/ NotifyBump(x)
           \/ NotifyPop(x) \/ NotifyUnlock(x) \/ NotifyWakeBatch(x) \/ OneshotSend(x)
           \/ ChanClaim(x) \/ ChanPublish(x) \/ ChanMarkWaking(x) \/ ChanTakeWaker(x)
  BY <1>5, ElsewhereIs, MidwaySame, MidwayUpdate DEF Becomes, Plain
<1>6. ASSUME NEW c \in left, Call(x, c)
      PROVE  Midway'
  <2>1. op' = op \/ \E o : op' = [op EXCEPT ![x] = o] /\ Shaped(x, o)
    BY <1>6, CallIs DEF Typed
  <2> QED BY <2>1, MidwaySame, MidwayUpdate
<1> QED BY <1>1, <1>2, <1>3, <1>4, <1>5, <1>6 DEF ThreadStep

----------------------------------------------------------------------------
(* What a step does to the coroutines and the state words. *)

(* No future moves. *)
LEMMA FutSame ==
    ASSUME fut' = fut
    PROVE  FutMoves
BY DEF FutMoves

(* One future moves, with its task at rest. *)
LEMMA FutOne ==
    ASSUME FutTyped, NEW t \in Tasks, NEW r, fut' = [fut EXCEPT ![t] = r], op[t] = Idle,
           fut'[t] = r => Moved(t)
    PROVE  FutMoves
BY DEF FutMoves, FutTyped

(* What any step does to the futures. *)
LEMMA StepFutMoves ==
    ASSUME TokioAssumption, Typed, Next
    PROVE  FutMoves
<1>1. ASSUME NEW x \in Actors, ThreadStep(x)
      PROVE  FutMoves
  <2>1. fut' = fut
    BY <1>1 DEF ThreadStep, SemLock, Assign, AddUnlock, CloseStep, Wake, NotifyStore, NotifyLock,
                NotifyOne, NotifyBump, NotifyPop, NotifyUnlock, NotifyWakeBatch, OneshotSend,
                ChanClaim, ChanPublish, ChanMarkWaking, ChanTakeWaker, Call
  <2> QED BY <2>1, FutSame
<1>2. ASSUME NEW t \in Tasks, TaskStep(t)
      PROVE  FutMoves
  <2>0. FutTyped /\ fut[t] \in FutType
    BY DEF Typed, FutTyped
  <2>1. CASE \/ PollPending(t) \/ PollStarved(t) \/ WakeDeferred(t) \/ Hold(t) \/ CloseRx(t)
             \/ Release(t)
    <3>1. fut' = fut
      BY <2>1 DEF PollPending, PollStarved, WakeDeferred, Hold, CloseRx, Release
    <3> QED BY <3>1, FutSame
  <2>2. CASE Start(t)
    <3>1. CASE fut[t].shape = "new" /\ ~task[t].cancelled
      <4> DEFINE r == [fut[t] EXCEPT !.shape = "run"]
      <4>1. fut' = [fut EXCEPT ![t] = r] /\ op[t] = Idle
        BY <2>2, <3>1 DEF Start
      <4>2. fut'[t] = r => Moved(t)
        BY <2>0, <3>1 DEF Moved, FutType
      <4> HIDE DEF r
      <4> QED BY <2>0, <4>1, <4>2, FutOne
    <3>2. CASE ~(fut[t].shape = "new" /\ ~task[t].cancelled)
      <4>1. fut' = fut
        BY <2>2, <3>2 DEF Start
      <4> QED BY <4>1, FutSame
    <3> QED BY <3>1, <3>2
  <2>3. CASE PollReady(t)
    <3> DEFINE r == [fut[t] EXCEPT !.shape = "run", !.leaf = "none", !.joins = NoOne]
    <3>1. /\ fut' = [fut EXCEPT ![t] = r] /\ op[t] = Idle
          /\ fut[t].leaf # "none" /\ fut[t].shape # "gone"
      BY <2>0, <2>3, ReadyIs
    <3>2. fut[t].leaf = "join" => task[fut[t].joins].done
      BY <2>0, <2>3, ReadyIs
    <3>3. r.shape = "run" /\ r.leaf = "none" /\ r.n = fut[t].n
      BY <2>0 DEF FutType
    <3> HIDE DEF r
    <3>4. fut'[t] = r => Moved(t)
      BY <3>1, <3>2, <3>3 DEF Moved
    <3> QED BY <2>0, <3>1, <3>4, FutOne
  <2>4. CASE PollBeside(t)
    <3>1. CASE fut[t].shape = "select" /\ fut[t].leaf = "join"
      <4> DEFINE r == [fut[t] EXCEPT !.shape = "run", !.leaf = "none", !.joins = NoOne]
      <4>1. fut' = [fut EXCEPT ![t] = r] /\ op[t] = Idle
        BY <2>4, <3>1 DEF PollBeside, Running
      <4>2. r.shape = "run" /\ r.leaf = "none" /\ r.n = fut[t].n
        BY <2>0 DEF FutType
      <4> HIDE DEF r
      <4>3. fut'[t] = r => Moved(t)
        BY <3>1, <4>2 DEF Moved
      <4> QED BY <2>0, <4>1, <4>3, FutOne
    <3>2. CASE ~(fut[t].shape = "select" /\ fut[t].leaf = "join")
      <4>1. fut' = fut
        BY <2>4, <3>2 DEF PollBeside
      <4> QED BY <4>1, FutSame
    <3> QED BY <3>1, <3>2
  <2>5. CASE Finish(t)
    <3> DEFINE r == [fut[t] EXCEPT !.shape = "gone"]
    <3>1. /\ fut' = [fut EXCEPT ![t] = r] /\ op[t] = Idle /\ fut[t].shape # "gone"
          /\ (fut[t].leaf = "none" /\ fut[t].shape = "run") \/ task[t].cancelled
      BY <2>5 DEF Finish, Running
    <3>2. fut'[t] = r => Moved(t)
      BY <2>0, <3>1 DEF Moved, FutType
    <3> HIDE DEF r
    <3> QED BY <2>0, <3>1, <3>2, FutOne
  <2>6. CASE DropFuture(t) \/ Complete(t)
    <3> DEFINE r == [fut[t] EXCEPT !.leaf = "none"]
    <3>1. fut[t].shape = "gone" /\ op[t] = Idle
      BY <2>6, DropFutureIs DEF Complete, Running
    <3>2. fut' = fut \/ fut' = [fut EXCEPT ![t] = r]
      BY <2>6, DropFutureIs DEF Complete
    <3>3. fut'[t] = r => Moved(t)
      BY <2>0, <3>1 DEF Moved, FutType
    <3> HIDE DEF r
    <3> QED BY <2>0, <3>1, <3>2, <3>3, FutSame, FutOne
  <2>7. ASSUME NEW kind \in prog.awaits[t], NEW shape \in prog.shapes[t], Await(t, kind, shape)
        PROVE  FutMoves
    <3>1. PICK u \in Tasks \cup {NoOne} :
            /\ kind = "join" => u \in Tasks
            /\ fut' = [fut EXCEPT ![t] = [shape |-> shape, leaf |-> kind, joins |-> u, n |-> @.n + 1]]
      BY <2>7 DEF Await
    <3> DEFINE r == [shape |-> shape, leaf |-> kind, joins |-> u, n |-> fut[t].n + 1]
    <3>2. fut' = [fut EXCEPT ![t] = r] /\ op[t] = Idle
      BY <2>7, <3>1 DEF Await, Running
    <3>3. fut[t].leaf = "none" /\ fut[t].shape = "run" /\ shape \in Shapes
      BY <2>7 DEF Await, Typed, ProgTyped, ProgramType
    <3>4. fut'[t] = r => Moved(t)
      BY <3>1, <3>3 DEF Moved
    <3> HIDE DEF r
    <3> QED BY <2>0, <3>2, <3>4, FutOne
  <2> QED BY <1>2, <2>1, <2>2, <2>3, <2>4, <2>5, <2>6, <2>7 DEF TaskStep
<1> QED BY <1>1, <1>2 DEF Next

(* No task moves. *)
LEMMA TaskSame ==
    ASSUME task' = task
    PROVE  TaskMoves
BY DEF TaskMoves

(* Tasks are woken. *)
LEMMA WokenMoves ==
    ASSUME TaskTyped, NEW ts, task' = Woken(ts)
    PROVE  TaskMoves
BY DEF TaskMoves, Woken, TaskTyped, TaskType

(* What any step does to the tasks. *)
LEMMA StepTaskMoves ==
    ASSUME TokioAssumption, Typed, Next
    PROVE  TaskMoves
<1>0. task \in [Tasks -> TaskType]
  BY DEF Typed, TaskTyped
<1>1. ASSUME NEW x \in Actors, ThreadStep(x)
      PROVE  TaskMoves
  <2>1. CASE \/ SemLock(x) \/ Assign(x) \/ AddUnlock(x) \/ NotifyStore(x) \/ NotifyLock(x)
             \/ NotifyOne(x) \/ NotifyBump(x) \/ NotifyPop(x) \/ NotifyUnlock(x) \/ OneshotSend(x)
             \/ ChanClaim(x) \/ ChanPublish(x) \/ ChanMarkWaking(x) \/ ChanTakeWaker(x)
    <3>1. task' = task
      BY <2>1 DEF SemLock, Assign, AddUnlock, NotifyStore, NotifyLock, NotifyOne, NotifyBump,
                  NotifyPop, NotifyUnlock, OneshotSend, ChanClaim, ChanPublish, ChanMarkWaking,
                  ChanTakeWaker
    <3> QED BY <3>1, TaskSame
  <2>2. CASE CloseStep(x)
    <3>1. task' = task \/ \E ts : task' = Woken(ts)
      BY <2>2, CloseStepIs DEF Typed, SemTyped, SemType
    <3> QED BY <3>1, TaskSame, WokenMoves DEF Typed
  <2>3. CASE Wake(x) \/ NotifyWakeBatch(x)
    <3>1. \E ts : task' = Woken(ts)
      BY <2>3 DEF Wake, NotifyWakeBatch
    <3> QED BY <3>1, WokenMoves DEF Typed
  <2>4. ASSUME NEW c \in left, Call(x, c)
        PROVE  TaskMoves
    <3>1. \/ task' = task
          \/ task' = [task EXCEPT ![c.task].cancelled = @ \/ ~task[c.task].done,
                                  ![c.task].notif = @ \/ ~task[c.task].done]
      BY <2>4, CallIs DEF Typed
    <3>2. CASE task' = [task EXCEPT ![c.task].cancelled = @ \/ ~task[c.task].done,
                                    ![c.task].notif = @ \/ ~task[c.task].done]
      BY <1>0, <3>2 DEF TaskMoves, TaskType
    <3> QED BY <3>1, <3>2, TaskSame
  <2> QED BY <1>1, <2>1, <2>2, <2>3, <2>4 DEF ThreadStep
<1>2. ASSUME NEW t \in Tasks, TaskStep(t)
      PROVE  TaskMoves
  <2>1. CASE \/ PollBeside(t) \/ Hold(t) \/ CloseRx(t) \/ Release(t) \/ Finish(t) \/ DropFuture(t)
             \/ \E kind \in prog.awaits[t], shape \in prog.shapes[t] : Await(t, kind, shape)
    <3>1. task' = task
      BY <2>1, DropFutureIs DEF PollBeside, Hold, CloseRx, Release, Finish, Await
    <3> QED BY <3>1, TaskSame
  <2>2. CASE Start(t)
    BY <1>0, <2>2 DEF Start, TaskMoves, TaskType
  <2>3. CASE PollPending(t)
    <3>1. \/ task' = Park(t) \/ task' = [Park(t) EXCEPT ![t].notif = TRUE]
          \/ task' = [Park(t) EXCEPT ![fut[t].joins].trailer = WakerOf(t),
                                     ![fut[t].joins].jwaker = TRUE]
      BY <2>3, PendingIs DEF Typed
    <3>2. CASE task' = Park(t)
      BY <1>0, <3>2 DEF Park, TaskMoves, TaskType
    <3>3. CASE task' = [Park(t) EXCEPT ![t].notif = TRUE]
      BY <1>0, <3>3 DEF Park, TaskMoves, TaskType
    <3>4. CASE task' = [Park(t) EXCEPT ![fut[t].joins].trailer = WakerOf(t),
                                       ![fut[t].joins].jwaker = TRUE]
      BY <1>0, <3>4 DEF Park, TaskMoves, TaskType
    <3> QED BY <3>1, <3>2, <3>3, <3>4
  <2>4. CASE PollStarved(t)
    BY <1>0, <2>4 DEF PollStarved, Park, TaskMoves, TaskType
  <2>5. CASE WakeDeferred(t)
    BY <2>5, WokenMoves DEF WakeDeferred, Typed
  <2>6. CASE PollReady(t)
    <3> DEFINE u == fut[t].joins
               r == [task[u] EXCEPT !.jint = FALSE, !.jwaker = FALSE, !.trailer = NoWaker]
    <3>1. task' = task \/ task' = [task EXCEPT ![u] = r]
      BY <2>6, ReadyIs DEF Typed
    <3>2. u \in Tasks => r.cancelled = task[u].cancelled /\ r.done = task[u].done
      BY <1>0 DEF TaskType
    <3> HIDE DEF r, u
    <3> QED BY <1>0, <3>1, <3>2, TaskSame DEF TaskMoves
  <2>7. CASE Complete(t)
    <3> DEFINE ended == [task[t] EXCEPT !.run = FALSE, !.notif = FALSE, !.done = TRUE]
               freed(u) == [task[u] EXCEPT !.jint = FALSE, !.jwaker = FALSE, !.trailer = NoWaker]
    <3>1. /\ fut[t].shape = "gone"
          /\ task' = [u \in Tasks |-> IF u = t THEN ended ELSE IF prog.joiner[u] = t THEN freed(u)
                                      ELSE task[u]]
      BY <2>7 DEF Complete
    <3>2. /\ ended.cancelled = task[t].cancelled
          /\ \A u \in Tasks : freed(u).cancelled = task[u].cancelled /\ freed(u).done = task[u].done
      BY <1>0 DEF TaskType
    <3> HIDE DEF ended, freed
    <3> QED BY <3>1, <3>2 DEF TaskMoves
  <2> QED BY <1>2, <2>1, <2>2, <2>3, <2>4, <2>5, <2>6, <2>7 DEF TaskStep
<1> QED BY <1>1, <1>2 DEF Next

----------------------------------------------------------------------------
(* What a step does to the acquires, the queue and the lock. *)

(* The queue stays as it is. *)
LEMMA StillIs ==
    ASSUME acq' = acq, sem'.queue = sem.queue
    PROVE  QueueMoves
BY DEF QueueMoves, Still, Alike

(* No leaf changes. *)
LEMMA LeafSame ==
    ASSUME fut' = fut
    PROVE  LeafMoves
BY DEF LeafMoves

(* One leaf is let go that is not of an acquire of its own. *)
LEMMA LeafOne ==
    ASSUME FutTyped, NEW t \in Tasks, NEW r, fut' = [fut EXCEPT ![t] = r],
           r.leaf = fut[t].leaf \/ (r.leaf = "none" /\ fut[t].leaf # "acquire")
    PROVE  LeafMoves
<1>1. \A u \in Tasks : fut'[u] = IF u = t THEN r ELSE fut[u]
  BY DEF FutTyped
<1> QED BY <1>1 DEF LeafMoves

(* A step that leaves the semaphore alone, its lock's holder at its call   *)
(* and every drop where it is.                                             *)
LEMMA OpSame ==
    ASSUME op' = op
    PROVE  DropMoves /\ (sem.lock # NoOne => op'[sem.lock].do = op[sem.lock].do)
BY DEF DropMoves

(* An actor that holds no lock turns to something else. *)
LEMMA OpOne ==
    ASSUME Midway, SemTyped, LockHeld, NEW x \in Actors, NEW o, op' = [op EXCEPT ![x] = o],
           op[x].do \notin {"add", "close", "drop"}, o.do # "drop"
    PROVE  DropMoves /\ (sem.lock # NoOne => op'[sem.lock].do = op[sem.lock].do)
<1>1. \A y \in Actors : op'[y] = IF y = x THEN o ELSE op[y]
  BY DEF Midway
<1>2. sem.lock # NoOne => sem.lock \in Actors /\ sem.lock # x
  BY DEF LockHeld, SemTyped, SemType
<1>3. \A t \in Tasks : t \in Actors
  BY DEF Actors
<1> QED BY <1>1, <1>2, <1>3 DEF DropMoves

(* A task lets go of an acquire that is not queued, or goes to unlist it. *)
LEMMA OpUnlisted ==
    ASSUME Midway, SemTyped, NEW t, Unlist(t)
    PROVE  DropMoves /\ (sem.lock # NoOne => op'[sem.lock].do = op[sem.lock].do)
<1>1. \A y \in Actors : op'[y].do = op[y].do /\ (op[y].do # "waiters" => op'[y] = op[y])
  BY UnlistIs
<1>2. sem.lock # NoOne => sem.lock \in Actors
  BY DEF SemTyped, SemType
<1>3. \A u \in Tasks : u \in Actors
  BY DEF Actors
<1> QED BY <1>1, <1>2, <1>3 DEF DropMoves

(* The semaphore's lock stays where it is. *)
LEMMA LockSame ==
    ASSUME sem' = sem, sem.lock # NoOne => op'[sem.lock].do = op[sem.lock].do
    PROVE  LockMoves
BY DEF LockMoves

(* A wake is no drop. *)
LEMMA WakingIs == \A ws : Waking(ws).do # "drop"
BY DEF Waking, Idle

(* Steps that reach neither the acquires nor the semaphore. *)
LEMMA FarMoves ==
    ASSUME acq' = acq, sem' = sem, LeafMoves, DropMoves,
           sem.lock # NoOne => op'[sem.lock].do = op[sem.lock].do
    PROVE  Moves
BY StillIs, LockSame DEF Moves

(* What taking does to the queue, the lock and the drops. *)
LEMMA TakeMoves ==
    ASSUME Typed, Midway, LockHeld, NEW t \in Tasks, op[t] = Idle,
           NEW a \in {<<t, "leaf">>, <<t, "held">>}, LetGo(t, a), Take(t, a)
    PROVE  /\ QueueMoves /\ LockMoves /\ DropMoves
           /\ \/ op'[t].do = "drop" /\ op'[t].acq = a
              \/ ~acq[a].queued \/ sem'.queue = RemoveFirst(sem.queue, a)
<1>0. /\ a \in Acquires /\ t \in Actors
      /\ acq \in [Acquires -> AcqType] /\ sem \in SemType
  BY AcquiresAre DEF Typed, AcqTyped, SemTyped, Actors
<1>1. CASE (sem.closed \/ sem.qclosed) /\ acq[a].queued
  <2> DEFINE o == [do |-> "drop", acq |-> a]
  <2>1. op' = [op EXCEPT ![t] = o] /\ acq' = acq /\ sem' = sem
    BY <1>1 DEF Take
  <2>2. \A y \in Actors : op'[y] = IF y = t THEN o ELSE op[y]
    BY <2>1 DEF Midway
  <2>3. o.do = "drop" /\ o.acq = a /\ op[t].do = "idle"
    BY DEF Idle
  <2>4. sem.lock # NoOne => sem.lock \in Actors /\ sem.lock # t
    BY <1>0, <2>3 DEF LockHeld, SemType
  <2> HIDE DEF o
  <2>5. DropMoves
    BY <2>2, <2>3 DEF DropMoves, Actors
  <2> QED BY <1>0, <2>1, <2>2, <2>3, <2>4, <2>5, StillIs, LockSame
<1>2. CASE (sem.closed \/ sem.qclosed) /\ ~acq[a].queued
  <2>1. op' = op /\ acq' = [acq EXCEPT ![a].live = FALSE] /\ sem' = sem
    BY <1>2 DEF Take
  <2>2. ~acq'[a].live /\ Others(a)
    BY <1>0, <2>1 DEF Others, Alike, AcqType
  <2>3. QueueMoves
    BY <1>2, <2>1, <2>2 DEF QueueMoves, Retired
  <2> QED BY <1>2, <2>1, <2>3, OpSame, LockSame
<1>3. CASE ~(sem.closed \/ sem.qclosed)
  <2>1. /\ op' = op /\ acq' = [acq EXCEPT ![a].live = FALSE, ![a].queued = FALSE]
        /\ sem' = [sem EXCEPT !.avail = @ - acq[a].need, !.queue = RemoveFirst(@, a)]
    BY <1>3 DEF Take
  <2>2. ~acq'[a].live /\ Others(a)
    BY <1>0, <2>1 DEF Others, Alike, AcqType
  <2>3. /\ sem'.queue = RemoveFirst(sem.queue, a) /\ sem'.lock = sem.lock
        /\ sem'.closed = sem.closed /\ sem'.qclosed = sem.qclosed
    BY <1>0, <2>1 DEF SemType
  <2>4. QueueMoves
    BY <2>2, <2>3 DEF QueueMoves, Retired
  <2>5. LockMoves
    BY <2>1, <2>3 DEF LockMoves
  <2> QED BY <2>1, <2>3, <2>4, <2>5, OpSame
<1> QED BY <1>1, <1>2, <1>3

(* What a task's step does to all of them. *)
LEMMA TaskStepMoves ==
    ASSUME TokioAssumption, Typed, Midway, LockHeld, Suspended, LeavesLive, ClosedList,
           NEW t \in Tasks, TaskStep(t)
    PROVE  Moves
<1>0. /\ t \in Actors /\ FutTyped /\ SemTyped /\ fut[t] \in FutType
      /\ acq \in [Acquires -> AcqType] /\ sem \in SemType
      /\ <<t, "leaf">> \in Acquires /\ <<t, "held">> \in Acquires
  BY AcquiresAre DEF Actors, Typed, FutTyped, AcqTyped, SemTyped
<1>1. CASE Start(t) \/ PollStarved(t) \/ WakeDeferred(t) \/ CloseRx(t) \/ Finish(t)
  <2>1. acq' = acq /\ sem' = sem /\ op' = op
    BY <1>1 DEF Start, PollStarved, WakeDeferred, CloseRx, Finish, resources
  <2>2. \/ fut' = fut
        \/ fut' = [fut EXCEPT ![t].shape = "run"] \/ fut' = [fut EXCEPT ![t].shape = "gone"]
    BY <1>1 DEF Start, PollStarved, WakeDeferred, CloseRx, Finish
  <2>3. ASSUME NEW s, fut' = [fut EXCEPT ![t].shape = s]
        PROVE  LeafMoves
    <3> DEFINE r == [fut[t] EXCEPT !.shape = s]
    <3>1. fut' = [fut EXCEPT ![t] = r] /\ r.leaf = fut[t].leaf
      BY <1>0, <2>3 DEF FutType
    <3> HIDE DEF r
    <3> QED BY <1>0, <3>1, LeafOne
  <2> QED BY <2>1, <2>2, <2>3, LeafSame, OpSame, FarMoves
<1>2. CASE PollPending(t)
  <2>1. fut' = fut /\ op' = op
    BY <1>0, <1>2, PendingIs
  <2>2. CASE acq' = acq /\ sem' = sem
    BY <2>1, <2>2, LeafSame, OpSame, FarMoves
  <2>3. CASE /\ fut[t].leaf \in {"acquire", "held"} /\ ~AcquireReady(LeafAcquire(t))
             /\ Enqueue(LeafAcquire(t), WakerOf(t))
    <3> DEFINE a == LeafAcquire(t)
               w == WakerOf(t)
    <3>1. a \in Acquires /\ a \in {<<t, "leaf">>, <<t, "held">>}
      BY AcquiresAre
    <3>2. acq[a].live
      BY <1>2, <2>3 DEF LeavesLive, PollPending
    <3>3. a = <<t, "leaf">> => fut[t].leaf = "acquire"
      BY <2>3 DEF LeafAcquire
    <3>4. acq[a].need > 0 /\ ~sem.closed /\ ~sem.qclosed
      BY <1>0, <2>3, <3>1 DEF AcquireReady, AcqType, SemType
    <3> HIDE DEF a, w
    <3>5. CASE acq[a].queued
      <4>1. acq' = [acq EXCEPT ![a].waker = w] /\ sem' = sem
        BY <2>3, <3>5 DEF Enqueue, a, w
      <4>2. \A b \in Acquires : Alike(b)
        BY <1>0, <4>1 DEF Alike, AcqType
      <4> QED BY <2>1, <4>1, <4>2, LeafSame, OpSame, LockSame DEF Moves, QueueMoves, Still
    <3>6. CASE ~acq[a].queued
      <4>1. /\ acq' = [acq EXCEPT ![a].queued = TRUE, ![a].waker = w, ![a].need = @ - sem.avail]
            /\ sem' = [sem EXCEPT !.avail = 0, !.queue = <<a>> \o @]
        BY <2>3, <3>6 DEF Enqueue, a, w
      <4>2. acq'[a].live /\ acq'[a].queued /\ Others(a)
        BY <1>0, <3>1, <3>2, <4>1 DEF Others, Alike, AcqType
      <4>3. /\ sem'.queue = <<a>> \o sem.queue /\ sem'.lock = sem.lock
            /\ sem'.closed = sem.closed /\ sem'.qclosed = sem.qclosed
        BY <1>0, <4>1 DEF SemType
      <4>4. Queued
        BY <2>1, <3>1, <3>2, <3>3, <3>4, <3>6, <4>2, <4>3 DEF Queued, Prepend
      <4>5. LockMoves
        BY <2>1, <4>3 DEF LockMoves
      <4> QED BY <2>1, <4>4, <4>5, LeafSame, OpSame DEF Moves, QueueMoves
    <3> QED BY <3>5, <3>6
  <2> QED BY <1>0, <1>2, <2>2, <2>3, PendingIs
<1>3. CASE PollReady(t)
  <2> DEFINE r == [fut[t] EXCEPT !.shape = "run", !.leaf = "none", !.joins = NoOne]
  <2>1. fut' = [fut EXCEPT ![t] = r] /\ op[t] = Idle
    BY <1>0, <1>3, ReadyIs
  <2>2. r.leaf = "none"
    BY <1>0 DEF FutType
  <2> HIDE DEF r
  <2>3. \A u \in Tasks : fut'[u] = IF u = t THEN r ELSE fut[u]
    BY <1>0, <2>1 DEF FutTyped
  <2>4. CASE fut[t].leaf \in {"acquire", "held"} /\ Take(t, LeafAcquire(t))
    <3> DEFINE a == LeafAcquire(t)
    <3>1. a \in {<<t, "leaf">>, <<t, "held">>} /\ LetGo(t, a)
      BY <2>2, <2>3, AcquiresAre DEF LetGo
    <3>2. fut[t].leaf = "acquire" => a = <<t, "leaf">>
      BY DEF LeafAcquire
    <3>3. /\ QueueMoves /\ LockMoves /\ DropMoves
          /\ \/ op'[t].do = "drop" /\ op'[t].acq = a
             \/ ~acq[a].queued \/ sem'.queue = RemoveFirst(sem.queue, a)
      BY <2>1, <2>4, <3>1, TakeMoves
    <3>4. LeafMoves
      BY <2>2, <2>3, <3>2, <3>3 DEF LeafMoves
    <3> QED BY <3>3, <3>4 DEF Moves
  <2>5. CASE fut[t].leaf # "acquire" /\ acq' = acq /\ sem' = sem /\ (op' = op \/ Unlist(t))
    <3>1. LeafMoves
      BY <1>0, <2>1, <2>2, <2>5, LeafOne
    <3> QED BY <1>0, <2>5, <3>1, OpSame, OpUnlisted, FarMoves
  <2> QED BY <1>0, <1>3, <2>4, <2>5, ReadyIs
<1>4. CASE PollBeside(t)
  <2> DEFINE r == [fut[t] EXCEPT !.shape = "run", !.leaf = "none", !.joins = NoOne]
             a == <<t, "held">>
  <2>1. /\ op[t] = Idle /\ fut[t].shape \in {"wrapped", "select"}
        /\ fut[t].leaf \notin {"none", "held"} /\ Take(t, a)
    BY <1>4 DEF PollBeside, Running
  <2>2. r.leaf = "none"
    BY <1>0 DEF FutType
  <2>3. fut' = fut \/ (fut[t].leaf = "join" /\ fut' = [fut EXCEPT ![t] = r])
    BY <1>4 DEF PollBeside
  <2> HIDE DEF r
  <2>4. LeafMoves
    BY <1>0, <2>2, <2>3, LeafSame, LeafOne
  <2>5. LetGo(t, a)
    BY <1>0, <2>1, <2>2, <2>3 DEF LetGo, FutTyped
  <2> QED BY <2>1, <2>4, <2>5, TakeMoves DEF Moves
<1>5. CASE Hold(t)
  <2> DEFINE a == <<t, "held">>
             r == [live |-> TRUE, queued |-> TRUE, want |-> prog.want[t],
                   need |-> prog.want[t] - sem.avail, waker |-> [task |-> t, own |-> TRUE]]
  <2>1. /\ acq' = [acq EXCEPT ![a] = r] /\ sem' = [sem EXCEPT !.avail = 0, !.queue = <<a>> \o @]
        /\ fut' = fut /\ op' = op /\ fut[t].n = 0 /\ ~acq[a].live /\ ~sem.closed
    BY <1>5 DEF Hold
  <2>2. r.live /\ r.queued
    OBVIOUS
  <2> HIDE DEF r
  <2>3. acq'[a].live /\ acq'[a].queued /\ Others(a)
    BY <1>0, <2>1, <2>2 DEF Others, Alike
  <2>4. /\ sem'.queue = <<a>> \o sem.queue /\ sem'.lock = sem.lock
        /\ sem'.closed = sem.closed /\ sem'.qclosed = sem.qclosed
    BY <1>0, <2>1 DEF SemType
  <2>5. ~sem.qclosed
    BY <2>1 DEF ClosedList
  <2>6. Queued
    <3>1. a # <<t, "leaf">>
      OBVIOUS
    <3> QED BY <2>1, <2>3, <2>4, <2>5, <3>1 DEF Queued, Prepend
  <2>7. LockMoves
    BY <2>1, <2>4 DEF LockMoves
  <2> QED BY <2>1, <2>6, <2>7, LeafSame, OpSame DEF Moves, QueueMoves
<1>6. CASE Release(t)
  <2> DEFINE o == [do |-> "add", rem |-> owns[t], wake |-> <<>>]
  <2>1. acq' = acq /\ sem' = sem /\ fut' = fut /\ op' = [op EXCEPT ![t] = o] /\ op[t].do = "idle"
    BY <1>6 DEF Release, Running, resources, Idle
  <2>2. o.do = "add"
    OBVIOUS
  <2> HIDE DEF o
  <2> QED BY <1>0, <2>1, <2>2, LeafSame, OpOne, FarMoves
<1>7. CASE DropFuture(t)
  <2>0. op[t] = Idle /\ op[t].do = "idle" /\ fut[t].shape = "gone" /\ sem' = sem
    <3>1. op[t] = Idle /\ fut[t].shape = "gone" /\ sem' = sem
      BY <1>7, DropFutureIs
    <3> QED BY <3>1 DEF Idle
  <2>1. ASSUME NEW s \in {"leaf", "held"}, fut' = fut, acq' = acq,
               op' = [op EXCEPT ![t] = [do |-> "drop", acq |-> <<t, s>>]]
        PROVE  Moves
    <3> DEFINE o == [do |-> "drop", acq |-> <<t, s>>]
    <3>1. \A y \in Actors : op'[y] = IF y = t THEN o ELSE op[y]
      BY <2>1 DEF Midway
    <3>2. sem.lock # NoOne => sem.lock \in Actors /\ sem.lock # t
      BY <1>0, <2>0 DEF LockHeld, SemType
    <3>3. \A a : LetGo(t, a)
      BY <2>0, <2>1 DEF LetGo
    <3> HIDE DEF o
    <3>4. DropMoves
      BY <2>0, <3>1, <3>3 DEF DropMoves, Actors
    <3> QED BY <2>0, <2>1, <3>1, <3>2, <3>4, LeafSame, FarMoves
  <2>2. ASSUME NEW s \in {"leaf", "held"}, fut' = fut, op' = op, ~acq[<<t, s>>].queued,
               acq' = [acq EXCEPT ![<<t, s>>].live = FALSE]
        PROVE  Moves
    <3> DEFINE a == <<t, s>>
    <3>1. a \in Acquires /\ a \in {<<t, "leaf">>, <<t, "held">>}
      BY <1>0
    <3> HIDE DEF a
    <3>2. ~acq'[a].live /\ Others(a)
      BY <1>0, <2>2, <3>1 DEF Others, Alike, AcqType, a
    <3>3. LetGo(t, a)
      BY <2>0, <2>2 DEF LetGo
    <3>4. Retired
      BY <2>0, <2>2, <3>1, <3>2, <3>3 DEF Retired, a
    <3> QED BY <2>0, <2>2, <3>4, LeafSame, OpSame, LockSame DEF Moves, QueueMoves
  <2>3. ASSUME acq' = acq, fut' = [fut EXCEPT ![t].leaf = "none"], fut[t].leaf # "acquire",
               op' = op \/ op' = [op EXCEPT ![t] = [do |-> "one", wake |-> <<>>]] \/ Unlist(t)
        PROVE  Moves
    <3> DEFINE r == [fut[t] EXCEPT !.leaf = "none"]
               o == [do |-> "one", wake |-> <<>>]
    <3>1. fut' = [fut EXCEPT ![t] = r] /\ r.leaf = "none" /\ o.do = "one"
      BY <1>0, <2>3 DEF FutType
    <3>2. op' = op \/ op' = [op EXCEPT ![t] = o] \/ Unlist(t)
      BY <2>3
    <3> HIDE DEF r, o
    <3>3. LeafMoves
      BY <1>0, <2>3, <3>1, LeafOne
    <3>4. DropMoves /\ (sem.lock # NoOne => op'[sem.lock].do = op[sem.lock].do)
      BY <1>0, <2>0, <3>1, <3>2, OpSame, OpOne, OpUnlisted
    <3> QED BY <2>0, <2>3, <3>3, <3>4, FarMoves
  <2> QED BY <1>7, <2>1, <2>2, <2>3, DropFutureIs
<1>8. CASE Complete(t)
  <2> DEFINE r == [fut[t] EXCEPT !.leaf = "none"]
  <2>1. /\ acq' = acq /\ sem' = sem /\ fut' = [fut EXCEPT ![t] = r]
        /\ op[t].do = "idle" /\ ~acq[<<t, "leaf">>].live
    <3>1. /\ acq' = acq /\ sem' = sem /\ fut' = [fut EXCEPT ![t] = r] /\ op[t] = Idle
          /\ \A s \in {"leaf", "held"} : ~acq[<<t, s>>].live
      BY <1>8 DEF Complete, Running, resources
    <3>2. "leaf" \in {"leaf", "held"}
      OBVIOUS
    <3>3. ~acq[<<t, "leaf">>].live
      BY <3>1, <3>2
    <3> QED BY <3>1, <3>3 DEF Idle
  <2>2. op' = op \/ op' = [op EXCEPT ![t] = Waking(<<task[t].trailer>>)]
    BY <1>8 DEF Complete
  <2>3. r.leaf = "none"
    BY <1>0 DEF FutType
  <2> HIDE DEF r
  <2>4. \A u \in Tasks : fut'[u] = IF u = t THEN r ELSE fut[u]
    BY <1>0, <2>1 DEF FutTyped
  <2>5. LeafMoves
    BY <2>1, <2>3, <2>4 DEF LeafMoves
  <2>6. DropMoves /\ (sem.lock # NoOne => op'[sem.lock].do = op[sem.lock].do)
    BY <1>0, <2>1, <2>2, OpSame, OpOne, WakingIs
  <2> QED BY <2>1, <2>5, <2>6, FarMoves
<1>9. ASSUME NEW kind \in prog.awaits[t], NEW shape \in prog.shapes[t], Await(t, kind, shape)
      PROVE  Moves
  <2> DEFINE a == <<t, "leaf">>
             new == [live |-> TRUE, queued |-> FALSE, want |-> prog.want[t],
                     need |-> prog.want[t], waker |-> NoWaker]
  <2>1. /\ fut[t].leaf = "none" /\ op[t] = Idle /\ sem' = sem /\ op' = op
        /\ kind = "held" => acq[<<t, "held">>].live
    BY <1>9 DEF Await, Running
  <2>2. PICK u : fut' = [fut EXCEPT ![t] = [shape |-> shape, leaf |-> kind, joins |-> u,
                                            n |-> @.n + 1]]
    BY <1>9 DEF Await
  <2>3. fut'[t].leaf = kind /\ fut'[t].n = fut[t].n + 1 /\ \A w \in Tasks : w # t => fut'[w] = fut[w]
    BY <1>0, <2>2 DEF FutTyped
  <2>4. acq' = IF kind = "acquire" THEN [acq EXCEPT ![a] = new] ELSE acq
    BY <1>9 DEF Await
  <2>5. new.live
    OBVIOUS
  <2> HIDE DEF new
  <2>6. (kind = "acquire" => acq'[a].live) /\ Others(a)
    BY <1>0, <2>4, <2>5 DEF Others, Alike
  <2>7. kind = "held" => acq'[<<t, "held">>].live
    BY <2>1, <2>4
  <2>8. LeafMoves
    BY <2>1, <2>3, <2>6, <2>7 DEF LeafMoves
  <2>9. QueueMoves
    <3>1. CASE kind = "acquire"
      BY <2>1, <2>3, <2>6, <3>1 DEF QueueMoves, Made
    <3>2. CASE kind # "acquire"
      BY <2>1, <2>4, <3>2, StillIs
    <3> QED BY <3>1, <3>2
  <2> QED BY <2>1, <2>8, <2>9, OpSame, LockSame DEF Moves
<1> QED BY <1>1, <1>2, <1>3, <1>4, <1>5, <1>6, <1>7, <1>8, <1>9 DEF TaskStep

(* What a step of an operation under way does to them. *)
LEMMA ThreadStepMoves ==
    ASSUME TokioAssumption, Typed, Midway, LockHeld, DropsLate, NEW x \in Actors, ThreadStep(x)
    PROVE  Moves
<1>0. /\ FutTyped /\ SemTyped /\ sem \in SemType /\ acq \in [Acquires -> AcqType]
      /\ sem.queue \in Seq(Acquires) /\ x # NoOne
  BY DEF Typed, AcqTyped, SemTyped, SemType, TokioAssumption, Actors
<1>1. fut' = fut
  BY DEF ThreadStep, SemLock, Assign, AddUnlock, CloseStep, Wake, NotifyStore, NotifyLock,
         NotifyOne, NotifyBump, NotifyPop, NotifyUnlock, NotifyWakeBatch, OneshotSend,
         ChanClaim, ChanPublish, ChanMarkWaking, ChanTakeWaker, Call
<1>2. LeafMoves
  BY <1>1, LeafSame
<1>3. CASE SemLock(x)
  <2>1. CASE op[x].do = "add" /\ sem' = [sem EXCEPT !.lock = x] /\ UNCHANGED <<acq, op>>
    <3>1. /\ sem'.lock = x /\ sem'.queue = sem.queue /\ sem'.closed = sem.closed
          /\ sem'.qclosed = sem.qclosed
      BY <1>0, <2>1 DEF SemType
    <3>2. sem.lock = NoOne
      BY <1>3, SemLockIs
    <3>3. LockMoves
      BY <1>0, <2>1, <3>1, <3>2 DEF LockMoves
    <3> QED BY <1>2, <2>1, <3>1, <3>3, StillIs, OpSame DEF Moves
  <2>2. CASE /\ op[x].do = "close" /\ sem' = [sem EXCEPT !.lock = x, !.closed = TRUE]
             /\ UNCHANGED <<acq, op>>
    <3>1. /\ sem'.lock = x /\ sem'.queue = sem.queue /\ sem'.closed
          /\ sem'.qclosed = sem.qclosed
      BY <1>0, <2>2 DEF SemType
    <3>2. sem.lock = NoOne
      BY <1>3, SemLockIs
    <3>3. LockMoves
      BY <1>0, <2>2, <3>1, <3>2 DEF LockMoves
    <3> QED BY <1>2, <2>2, <3>1, <3>3, StillIs, OpSame DEF Moves
  <2>3. CASE /\ op[x].do = "drop"
             /\ sem' = [sem EXCEPT !.lock = x, !.queue = RemoveFirst(@, op[x].acq)]
             /\ op' = [op EXCEPT ![x] = [do |-> "add",
                                         rem |-> acq[op[x].acq].want - acq[op[x].acq].need,
                                         wake |-> <<>>]]
             /\ acq' = [acq EXCEPT ![op[x].acq].live = FALSE, ![op[x].acq].queued = FALSE]
    <3> DEFINE a == op[x].acq
               o == [do |-> "add", rem |-> acq[a].want - acq[a].need, wake |-> <<>>]
    <3>1. x \in Tasks /\ a \in {<<x, "leaf">>, <<x, "held">>} /\ a \in Acquires
      BY <2>3, AcquiresAre DEF Midway, Shaped, Dropping
    <3>2. /\ sem'.lock = x /\ sem'.queue = RemoveFirst(sem.queue, a) /\ sem'.closed = sem.closed
          /\ sem'.qclosed = sem.qclosed
      BY <1>0, <2>3 DEF SemType
    <3>3. sem.lock = NoOne
      BY <1>3, SemLockIs
    <3>4. o.do = "add" /\ op' = [op EXCEPT ![x] = o]
      BY <2>3
    <3>5. acq' = [acq EXCEPT ![a].live = FALSE, ![a].queued = FALSE]
      BY <2>3
    <3>6. LetGo(x, a)
      BY <1>1, <2>3, <3>1 DEF DropsLate, LetGo
    <3> HIDE DEF o
    <3>7. \A y \in Actors : op'[y] = IF y = x THEN o ELSE op[y]
      BY <3>4 DEF Midway
    <3>8. DropMoves
      BY <3>2, <3>4, <3>7 DEF DropMoves, Actors
    <3> HIDE DEF a
    <3>9. ~acq'[a].live /\ Others(a)
      BY <1>0, <3>1, <3>5 DEF Others, Alike, AcqType
    <3>10. LockMoves
      BY <1>0, <3>2, <3>3, <3>4, <3>7 DEF LockMoves
    <3>11. Retired
      BY <3>1, <3>2, <3>6, <3>9 DEF Retired
    <3> QED BY <1>2, <3>8, <3>10, <3>11 DEF Moves, QueueMoves
  <2> QED BY <1>3, <2>1, <2>2, <2>3, SemLockIs
<1>4. CASE Assign(x)
  <2> DEFINE a == Last(sem.queue)
  <2>0. op[x] = [do |-> "add", rem |-> op[x].rem, wake |-> op[x].wake] /\ op[x].rem \in Nat
    BY <1>4 DEF Assign, Midway, Shaped, Adding
  <2>1. op[x].do = "add" /\ sem.lock = x /\ op[x].rem > 0
    BY <1>4 DEF Assign
  <2>2. \A b \in Acquires : acq[b].need \in Nat
    BY <1>0 DEF AcqType
  <2>3. \E m, ws : op' = [op EXCEPT ![x] = [do |-> "add", rem |-> m, wake |-> ws]]
    BY <1>4, AddsOn
  <2>4. /\ \A y \in Actors : y # x => op'[y] = op[y]
        /\ op'[x].do = "add"
    BY <2>3 DEF Midway
  <2>5. DropMoves
    BY <2>1, <2>4 DEF DropMoves, Actors
  <2>6. CASE sem.queue = <<>> /\ acq' = acq /\ sem' = [sem EXCEPT !.avail = @ + op[x].rem]
    <3>1. /\ sem'.lock = sem.lock /\ sem'.queue = sem.queue /\ sem'.closed = sem.closed
          /\ sem'.qclosed = sem.qclosed
      BY <1>0, <2>6 DEF SemType
    <3>2. LockMoves
      BY <2>1, <2>4, <3>1 DEF LockMoves
    <3> QED BY <1>2, <2>5, <2>6, <3>1, <3>2, StillIs DEF Moves
  <2>7. CASE /\ sem.queue # <<>> /\ op[x].rem < acq[a].need /\ sem' = sem
             /\ acq' = [acq EXCEPT ![a].need = @ - op[x].rem]
    <3>1. a \in Acquires
      BY <1>0, <2>7, FrontIs
    <3>2. acq[a].need \in Nat
      BY <2>2, <3>1
    <3> HIDE DEF a
    <3>3. /\ Others(a) /\ acq'[a].live = acq[a].live /\ acq'[a].queued = acq[a].queued
          /\ acq'[a].need = acq[a].need - op[x].rem
      BY <1>0, <2>7, <3>1 DEF Others, Alike, AcqType
    <3>4. acq'[a].need <= acq[a].need
      BY <2>0, <3>2, <3>3
    <3>5. Granted
      BY <1>0, <2>1, <2>7, <3>3, <3>4 DEF Granted, a
    <3> QED BY <1>2, <2>1, <2>4, <2>5, <2>7, <3>5, LockSame DEF Moves, QueueMoves
  <2>8. CASE /\ sem.queue # <<>>
             /\ acq' = [acq EXCEPT ![a].need = 0, ![a].waker = NoWaker]
             /\ sem' = [sem EXCEPT !.queue = Front(@)]
    <3>1. a \in Acquires
      BY <1>0, <2>8, FrontIs
    <3>2. acq[a].need \in Nat
      BY <2>2, <3>1
    <3>3. /\ sem'.lock = sem.lock /\ sem'.queue = Front(sem.queue) /\ sem'.closed = sem.closed
          /\ sem'.qclosed = sem.qclosed
      BY <1>0, <2>8 DEF SemType
    <3> HIDE DEF a
    <3>4. /\ Others(a) /\ acq'[a].live = acq[a].live /\ acq'[a].queued = acq[a].queued
          /\ acq'[a].need = 0
      BY <1>0, <2>8, <3>1 DEF Others, Alike, AcqType
    <3>5. acq'[a].need <= acq[a].need
      BY <3>2, <3>4
    <3>6. Granted
      BY <1>0, <2>1, <2>8, <3>3, <3>4, <3>5 DEF Granted, a
    <3>7. LockMoves
      BY <2>1, <2>4, <3>3 DEF LockMoves
    <3> QED BY <1>2, <2>5, <3>6, <3>7 DEF Moves, QueueMoves
  <2> QED BY <1>0, <1>4, <2>0, <2>2, <2>6, <2>7, <2>8, AssignIs
<1>5. CASE AddUnlock(x)
  <2>1. /\ op[x].do = "add" /\ sem.lock = x /\ acq' = acq
        /\ sem' = [sem EXCEPT !.lock = NoOne] /\ op' = [op EXCEPT ![x] = Waking(op[x].wake)]
    BY <1>5 DEF AddUnlock
  <2>2. /\ sem'.lock = NoOne /\ sem'.queue = sem.queue /\ sem'.closed = sem.closed
        /\ sem'.qclosed = sem.qclosed
    BY <1>0, <2>1 DEF SemType
  <2>3. \A y \in Actors : op'[y] = IF y = x THEN Waking(op[x].wake) ELSE op[y]
    BY <2>1 DEF Midway
  <2>4. DropMoves
    BY <2>1, <2>3, WakingIs DEF DropMoves, Actors
  <2>5. LockMoves
    BY <1>0, <2>1, <2>2 DEF LockMoves
  <2> QED BY <1>2, <2>1, <2>2, <2>4, <2>5, StillIs DEF Moves
<1>6. CASE CloseStep(x)
  <2>1. op[x].do = "close" /\ sem.lock = x
    BY <1>6 DEF CloseStep
  <2>2. CASE sem' = [sem EXCEPT !.qclosed = TRUE] /\ UNCHANGED <<acq, op>>
    <3>1. /\ sem'.lock = sem.lock /\ sem'.queue = sem.queue /\ sem'.closed = sem.closed
          /\ sem'.qclosed
      BY <1>0, <2>2 DEF SemType
    <3>2. LockMoves
      BY <1>0, <2>1, <2>2, <3>1 DEF LockMoves
    <3> QED BY <1>2, <2>2, <3>1, <3>2, StillIs, OpSame DEF Moves
  <2>3. CASE /\ sem.qclosed /\ sem.queue # <<>> /\ sem' = [sem EXCEPT !.queue = Front(@)]
             /\ acq' = [acq EXCEPT ![Last(sem.queue)].waker = NoWaker] /\ op' = op
    <3>1. /\ sem'.lock = sem.lock /\ sem'.queue = Front(sem.queue) /\ sem'.closed = sem.closed
          /\ sem'.qclosed = sem.qclosed
      BY <1>0, <2>3 DEF SemType
    <3>2. \A b \in Acquires : Alike(b)
      BY <1>0, <2>3 DEF Alike, AcqType
    <3>3. Emptied
      BY <2>3, <3>1, <3>2 DEF Emptied
    <3>4. LockMoves
      BY <2>3, <3>1 DEF LockMoves
    <3> QED BY <1>2, <2>3, <3>3, <3>4, OpSame DEF Moves, QueueMoves
  <2>4. CASE /\ sem.queue = <<>> /\ sem' = [sem EXCEPT !.lock = NoOne] /\ acq' = acq
             /\ op' = [op EXCEPT ![x] = Idle]
    <3>1. /\ sem'.lock = NoOne /\ sem'.queue = sem.queue /\ sem'.closed = sem.closed
          /\ sem'.qclosed = sem.qclosed
      BY <1>0, <2>4 DEF SemType
    <3>2. \A y \in Actors : op'[y] = IF y = x THEN Idle ELSE op[y]
      BY <2>4 DEF Midway
    <3>3. DropMoves
      BY <2>1, <3>2 DEF DropMoves, Actors, Idle
    <3>4. LockMoves
      BY <1>0, <2>1, <2>4, <3>1 DEF LockMoves
    <3> QED BY <1>2, <2>4, <3>1, <3>3, <3>4, StillIs DEF Moves
  <2> QED BY <1>0, <1>6, <2>2, <2>3, <2>4, CloseStepIs DEF SemType
<1>7. CASE \/ Wake(x) \/ NotifyStore(x) \/ NotifyLock(x) \/ NotifyOne(x) \/ NotifyBump(x)
           \/ NotifyPop(x) \/ NotifyUnlock(x) \/ NotifyWakeBatch(x) \/ OneshotSend(x)
           \/ ChanClaim(x) \/ ChanPublish(x) \/ ChanMarkWaking(x) \/ ChanTakeWaker(x)
  <2>1. acq' = acq /\ sem' = sem
    BY <1>7 DEF Wake, NotifyStore, NotifyLock, NotifyOne, NotifyBump, NotifyPop, NotifyUnlock,
                NotifyWakeBatch, OneshotSend, ChanClaim, ChanPublish, ChanMarkWaking,
                ChanTakeWaker, resources
  <2>2. op' = op \/ \E o : /\ op' = [op EXCEPT ![x] = o] /\ o.do # "drop"
                           /\ op[x].do \notin {"add", "close", "drop"}
    BY <1>7, ElsewhereIs DEF Becomes, Plain
  <2> QED BY <1>0, <1>2, <2>1, <2>2, OpSame, OpOne, FarMoves
<1>8. ASSUME NEW c \in left, Call(x, c)
      PROVE  Moves
  <2>1. acq' = acq /\ sem' = sem /\ op[x] = Idle
    BY <1>8, CallIs DEF Typed
  <2>2. op' = op \/ \E o : op' = [op EXCEPT ![x] = o] /\ o.do # "drop"
    BY <1>8, CallIs DEF Typed
  <2>3. op[x].do = "idle"
    BY <2>1 DEF Idle
  <2> QED BY <1>0, <1>2, <2>1, <2>2, <2>3, OpSame, OpOne, FarMoves
<1> QED BY <1>3, <1>4, <1>5, <1>6, <1>7, <1>8 DEF ThreadStep

----------------------------------------------------------------------------
(* What becomes of the order of the queue. *)

(* A queue with an entry taken out keeps the order of the rest. *)
LEMMA RemovedIs ==
    ASSUME NEW S, NEW q \in Seq(S), Distinct(q), NEW a, NEW r, r = RemoveFirst(q, a)
    PROVE  /\ Distinct(r) /\ ~In(r, a) /\ \A b : In(r, b) => In(q, b)
           /\ \A b, c : b # a /\ c # a /\ Older(q, b, c) => Older(r, b, c)
           /\ q = <<>> => r = <<>>
<1>0. Len(q) \in Nat /\ (q = <<>> => Len(q) = 0) /\ r \in Seq(S)
  BY RemoveFirstIs, EmptySeq
<1>1. CASE (\A i \in 1..Len(q) : q[i] # a) /\ r = q
  BY <1>1 DEF In
<1>2. CASE \E k \in 1..Len(q) :
             /\ q[k] = a /\ Len(r) = Len(q) - 1
             /\ \A i \in 1..(Len(q) - 1) : r[i] = IF i < k THEN q[i] ELSE q[i + 1]
  <2>1. PICK k \in 1..Len(q) :
             /\ q[k] = a /\ Len(r) = Len(q) - 1
             /\ \A i \in 1..(Len(q) - 1) : r[i] = IF i < k THEN q[i] ELSE q[i + 1]
    BY <1>2
  <2> DEFINE At(i) == IF i < k THEN i ELSE i + 1
  <2>2. \A i \in 1..Len(r) : At(i) \in 1..Len(q) /\ At(i) # k /\ r[i] = q[At(i)]
    BY <1>0, <2>1
  <2>3. \A i, j \in 1..Len(r) : At(i) = At(j) => i = j
    BY <1>0, <2>1
  <2>4. \A i \in 1..Len(q) : i # k => \E j \in 1..Len(r) : At(j) = i
    <3> SUFFICES ASSUME NEW i \in 1..Len(q), i # k
                 PROVE  \E j \in 1..Len(r) : At(j) = i
      OBVIOUS
    <3>1. CASE i < k
      <4>1. i \in 1..Len(r) /\ At(i) = i
        BY <1>0, <2>1, <3>1
      <4> QED BY <4>1
    <3>2. CASE i > k
      <4>1. i - 1 \in 1..Len(r) /\ At(i - 1) = i
        BY <1>0, <2>1, <3>2
      <4> QED BY <4>1
    <3> QED BY <1>0, <3>1, <3>2
  <2>5. \A i, j \in 1..Len(r) : At(i) < At(j) => i < j
    BY <1>0, <2>1
  <2> HIDE DEF At
  <2>6. Distinct(r) /\ ~In(r, a) /\ \A b : In(r, b) => In(q, b)
    BY <2>1, <2>2, <2>3 DEF Distinct, In
  <2>7. ASSUME NEW b, NEW c, b # a, c # a, Older(q, b, c)
        PROVE  Older(r, b, c)
    <3>1. PICK i, j \in 1..Len(q) : i < j /\ q[i] = c /\ q[j] = b
      BY <2>7 DEF Older
    <3>2. i # k /\ j # k
      BY <2>1, <2>7, <3>1
    <3>3. PICK m \in 1..Len(r) : At(m) = i
      BY <2>4, <3>2
    <3>4. PICK n \in 1..Len(r) : At(n) = j
      BY <2>4, <3>2
    <3>5. m < n /\ r[m] = c /\ r[n] = b
      BY <2>2, <2>5, <3>1, <3>3, <3>4
    <3> QED BY <3>5 DEF Older
  <2>8. q # <<>>
    BY <1>0, <2>1
  <2> QED BY <2>6, <2>7, <2>8
<1> QED BY <1>1, <1>2, RemoveFirstIs

(* So does one that gives its oldest away. *)
LEMMA FrontKeeps ==
    ASSUME NEW S, NEW q \in Seq(S), q # <<>>, Distinct(q), NEW r, r = Front(q)
    PROVE  /\ Distinct(r) /\ \A b : In(r, b) => In(q, b)
           /\ In(q, Last(q)) /\ \A b, c : Older(q, b, c) => c # Last(q)
           /\ \A b, c : b # Last(q) /\ Older(q, b, c) => Older(r, b, c)
<1>1. /\ Len(q) \in Nat \ {0} /\ Len(r) = Len(q) - 1 /\ Last(q) = q[Len(q)]
      /\ \A i \in 1..(Len(q) - 1) : r[i] = q[i]
  BY FrontIs
<1>2. Distinct(r) /\ \A b : In(r, b) => In(q, b)
  BY <1>1 DEF Distinct, In
<1>3. Len(q) \in 1..Len(q)
  BY <1>1
<1>4. ASSUME NEW b, NEW c, Older(q, b, c)
      PROVE  c # Last(q) /\ (b # Last(q) => Older(r, b, c))
  <2>1. PICK i, j \in 1..Len(q) : i < j /\ q[i] = c /\ q[j] = b
    BY <1>4 DEF Older
  <2>2. c # Last(q)
    BY <1>1, <1>3, <2>1 DEF Distinct
  <2>3. b # Last(q) => i \in 1..Len(r) /\ j \in 1..Len(r) /\ r[i] = c /\ r[j] = b
    BY <1>1, <2>1
  <2> QED BY <2>1, <2>2, <2>3 DEF Older
<1> QED BY <1>1, <1>2, <1>3, <1>4 DEF In

(* And one that takes a new entry at its young end. *)
LEMMA PrependKeeps ==
    ASSUME NEW S, NEW q \in Seq(S), NEW a \in S, ~In(q, a), Distinct(q), NEW r, r = Prepend(q, a)
    PROVE  /\ Distinct(r) /\ \A b : In(r, b) => In(q, b) \/ b = a
           /\ \A b, c : Older(q, b, c) => Older(r, b, c)
<1>1. /\ Len(q) \in Nat /\ Len(r) = Len(q) + 1 /\ r[1] = a
      /\ \A i \in 1..Len(q) : r[i + 1] = q[i]
  BY PrependIs DEF Prepend
<1>2. \A i \in 1..Len(r) : i = 1 \/ (i - 1 \in 1..Len(q) /\ r[i] = q[i - 1])
  <2> SUFFICES ASSUME NEW i \in 1..Len(r), i # 1
               PROVE  i - 1 \in 1..Len(q) /\ r[i] = q[i - 1]
    OBVIOUS
  <2>1. i - 1 \in 1..Len(q) /\ (i - 1) + 1 = i
    BY <1>1
  <2> QED BY <1>1, <2>1
<1>3. Distinct(r)
  <2> SUFFICES ASSUME NEW i \in 1..Len(r), NEW j \in 1..Len(r), r[i] = r[j]
               PROVE  i = j
    BY DEF Distinct
  <2>1. CASE i = 1 /\ j = 1
    BY <2>1
  <2>2. CASE i = 1 /\ j # 1
    BY <1>1, <1>2, <2>2 DEF In
  <2>3. CASE i # 1 /\ j = 1
    BY <1>1, <1>2, <2>3 DEF In
  <2>4. CASE i # 1 /\ j # 1
    <3>1. i - 1 = j - 1
      BY <1>2, <2>4 DEF Distinct
    <3> QED BY <1>1, <3>1
  <2> QED BY <2>1, <2>2, <2>3, <2>4
<1>4. \A b : In(r, b) => In(q, b) \/ b = a
  BY <1>1, <1>2 DEF In
<1>5. ASSUME NEW b, NEW c, Older(q, b, c)
      PROVE  Older(r, b, c)
  <2>1. PICK i, j \in 1..Len(q) : i < j /\ q[i] = c /\ q[j] = b
    BY <1>5 DEF Older
  <2>2. i + 1 \in 1..Len(r) /\ j + 1 \in 1..Len(r) /\ i + 1 < j + 1
    BY <1>1, <2>1
  <2>3. r[i + 1] = c /\ r[j + 1] = b
    BY <1>1, <2>1
  <2> QED BY <2>2, <2>3 DEF Older
<1> QED BY <1>3, <1>4, <1>5

----------------------------------------------------------------------------
(* Every step keeps the invariant, part by part. *)

(* A suspended future stays awaited as it was. *)
LEMMA SuspendedKept ==
    ASSUME TokioAssumption, Typed, Suspended, FutMoves, TaskMoves, FutTyped'
    PROVE  Suspended'
<1> SUFFICES ASSUME NEW t \in Tasks
             PROVE  /\ fut'[t].shape \in {"new", "run"} => fut'[t].leaf = "none"
                    /\ fut'[t].shape = "gone" => fut'[t].leaf = "none" \/ task'[t].cancelled
                    /\ fut'[t].leaf # "none" => fut'[t].n > 0
                    /\ fut'[t].leaf = "join" => fut'[t].joins \in Tasks
  BY DEF Suspended
<1>1. fut[t].n \in Nat
  BY DEF Typed, FutTyped, FutType
<1>2. /\ fut[t].shape \in {"new", "run"} => fut[t].leaf = "none"
      /\ fut[t].shape = "gone" => fut[t].leaf = "none" \/ task[t].cancelled
      /\ fut[t].leaf # "none" => fut[t].n > 0
      /\ fut[t].leaf = "join" => fut[t].joins \in Tasks
  BY DEF Suspended
<1>3. task[t].cancelled => task'[t].cancelled
  BY DEF TaskMoves
<1>4. CASE fut'[t] = fut[t]
  BY <1>2, <1>3, <1>4
<1>5. CASE Moved(t)
  BY <1>1, <1>2, <1>3, <1>5 DEF Moved, Shapes
<1> QED BY <1>4, <1>5 DEF FutMoves

(* An acquire is unlisted only once its future has let it go. *)
LEMMA DropsLateKept ==
    ASSUME Midway, DropsLate, FutMoves, DropMoves
    PROVE  DropsLate'
<1> SUFFICES ASSUME NEW t \in Tasks, op'[t].do = "drop"
             PROVE  LetGo(t, op'[t].acq)
  BY DEF DropsLate, LetGo
<1>1. CASE op'[t] = op[t]
  <2>1. fut'[t] = fut[t]
    BY <1>1 DEF FutMoves, Idle
  <2> QED BY <1>1, <2>1 DEF DropsLate, LetGo
<1> QED BY <1>1 DEF DropMoves

(* The lock is with an operation that uses it. *)
LEMMA LockHeldKept ==
    ASSUME LockHeld, LockMoves
    PROVE  LockHeld'
BY DEF LockHeld, LockMoves

(* No acquire is queued twice. *)
LEMMA QueuedOnceKept ==
    ASSUME Typed, QueuedOnce, LeavesAwaited, QueueMoves
    PROVE  QueuedOnce'
<1>0. sem.queue \in Seq(Acquires)
  BY DEF Typed, SemTyped, SemType
<1>1. /\ Distinct(sem.queue)
      /\ \A a \in Acquires : In(sem.queue, a) => acq[a].live /\ acq[a].queued
  BY DEF QueuedOnce
<1> SUFFICES /\ Distinct(sem'.queue)
             /\ \A a \in Acquires : In(sem'.queue, a) => acq'[a].live /\ acq'[a].queued
  BY DEF QueuedOnce, Distinct, In
<1>2. CASE Still
  BY <1>1, <1>2 DEF Still, Alike
<1>3. CASE Made
  <2>1. PICK t \in Tasks : /\ fut[t].leaf = "none" /\ op[t] = Idle /\ Others(<<t, "leaf">>)
                           /\ sem'.queue = sem.queue
    BY <1>3 DEF Made
  <2>2. ~In(sem.queue, <<t, "leaf">>)
    BY <2>1 DEF LeavesAwaited, Dropped, Idle
  <2> QED BY <1>1, <2>1, <2>2 DEF Others, Alike
<1>4. CASE Queued
  <2>1. PICK t \in Tasks, a \in Acquires :
          /\ a \in {<<t, "leaf">>, <<t, "held">>}
          /\ ~(acq[a].live /\ acq[a].queued) /\ acq'[a].live /\ acq'[a].queued /\ Others(a)
          /\ sem'.queue = Prepend(sem.queue, a)
    BY <1>4, AcquiresAre DEF Queued
  <2>2. a \in Acquires
    BY <2>1
  <2>3. ~In(sem.queue, a)
    BY <1>1, <2>1, <2>2
  <2>4. Distinct(sem'.queue) /\ \A b : In(sem'.queue, b) => In(sem.queue, b) \/ b = a
    BY <1>0, <1>1, <2>1, <2>2, <2>3, PrependKeeps
  <2> QED BY <1>1, <2>1, <2>4 DEF Others, Alike
<1>5. CASE Retired
  <2>1. PICK t \in Tasks, a \in Acquires :
          /\ a \in {<<t, "leaf">>, <<t, "held">>}
          /\ ~acq'[a].live /\ Others(a)
          /\ \/ sem'.queue = RemoveFirst(sem.queue, a)
             \/ sem'.queue = sem.queue /\ ~acq[a].queued
    BY <1>5, AcquiresAre DEF Retired
  <2>2. a \in Acquires
    BY <2>1
  <2>3. Distinct(sem'.queue) /\ ~In(sem'.queue, a) /\ \A b : In(sem'.queue, b) => In(sem.queue, b)
    <3>1. CASE sem'.queue = RemoveFirst(sem.queue, a)
      BY <1>0, <1>1, <3>1, RemovedIs
    <3>2. CASE sem'.queue = sem.queue /\ ~acq[a].queued
      BY <1>1, <2>2, <3>2
    <3> QED BY <2>1, <3>1, <3>2
  <2> QED BY <1>1, <2>1, <2>3 DEF Others, Alike
<1>6. CASE Granted
  <2> DEFINE a == Last(sem.queue)
  <2>1. /\ sem.queue # <<>> /\ Others(a)
        /\ acq'[a].live = acq[a].live /\ acq'[a].queued = acq[a].queued
        /\ sem'.queue = sem.queue \/ sem'.queue = Front(sem.queue)
    BY <1>6 DEF Granted
  <2>2. Distinct(sem'.queue) /\ \A b : In(sem'.queue, b) => In(sem.queue, b)
    BY <1>0, <1>1, <2>1, FrontKeeps
  <2>3. \A b \in Acquires : acq'[b].live = acq[b].live /\ acq'[b].queued = acq[b].queued
    BY <2>1 DEF Others, Alike
  <2> QED BY <1>1, <2>2, <2>3
<1>7. CASE Emptied
  <2>1. /\ sem.queue # <<>> /\ sem'.queue = Front(sem.queue)
        /\ \A a \in Acquires : acq'[a].live = acq[a].live /\ acq'[a].queued = acq[a].queued
    BY <1>7 DEF Emptied, Alike
  <2>2. Distinct(sem'.queue) /\ \A b : In(sem'.queue, b) => In(sem.queue, b)
    BY <1>0, <1>1, <2>1, FrontKeeps
  <2> QED BY <1>1, <2>1, <2>2
<1> QED BY <1>2, <1>3, <1>4, <1>5, <1>6, <1>7 DEF QueueMoves

(* The acquire of a leaf is alive. *)
LEMMA LeavesLiveKept ==
    ASSUME TokioAssumption, Typed, Suspended, LeavesLive, FutMoves, QueueMoves, LeafMoves
    PROVE  LeavesLive'
<1> SUFFICES ASSUME NEW t \in Tasks, fut'[t].shape # "gone"
             PROVE  /\ fut'[t].leaf = "acquire" => acq'[<<t, "leaf">>].live
                    /\ fut'[t].leaf = "held" => acq'[<<t, "held">>].live
  BY DEF LeavesLive, LeafAcquire
<1>0. <<t, "leaf">> \in Acquires /\ <<t, "held">> \in Acquires
  BY AcquiresAre
<1>1. ASSUME NEW k \in {"leaf", "held"}, fut'[t].leaf = IF k = "leaf" THEN "acquire" ELSE "held"
      PROVE  acq'[<<t, k>>].live
  <2> DEFINE a == <<t, k>>
  <2>1. CASE fut[t].leaf # fut'[t].leaf
    BY <1>1, <2>1 DEF LeafMoves
  <2>2. CASE fut[t].leaf = fut'[t].leaf
    <3>1. fut[t].shape # "gone"
      BY <2>2, <1>1 DEF FutMoves, Moved
    <3>2. acq[a].live /\ a \in Acquires
      BY <1>0, <1>1, <2>2, <3>1 DEF LeavesLive, LeafAcquire
    <3>3. CASE Retired
      <4>1. PICK u \in Tasks, b \in Acquires :
            /\ b \in {<<u, "leaf">>, <<u, "held">>}
            /\ LetGo(u, b) /\ Others(b)
        BY <3>3, AcquiresAre DEF Retired
      <4>2. a # b
        <5> SUFFICES ASSUME a = b
                     PROVE  FALSE
          OBVIOUS
        <5>1. u = t /\ (b = <<t, "held">> => k = "held")
          BY <4>1
        <5> QED BY <1>1, <4>1, <5>1 DEF LetGo
      <4> QED BY <3>2, <4>1, <4>2 DEF Others, Alike
    <3>4. CASE Still \/ Emptied
      BY <3>2, <3>4 DEF Still, Emptied, Alike
    <3>5. CASE Made
      BY <3>2, <3>5 DEF Made, Others, Alike
    <3>6. CASE Queued
      BY <3>2, <3>6 DEF Queued, Others, Alike
    <3>7. CASE Granted
      BY <3>2, <3>7 DEF Granted, Others, Alike
    <3> QED BY <3>3, <3>4, <3>5, <3>6, <3>7 DEF QueueMoves
  <2> QED BY <2>1, <2>2
<1> QED BY <1>1

(* A queued acquire is awaited, held or on its way out. *)
LEMMA LeavesAwaitedKept ==
    ASSUME TokioAssumption, Typed, Suspended, QueuedOnce, LeavesAwaited, FutMoves, QueueMoves,
           DropMoves, LeafMoves
    PROVE  LeavesAwaited'
<1>0. sem.queue \in Seq(Acquires) /\ Distinct(sem.queue)
  BY DEF Typed, SemTyped, SemType, QueuedOnce
<1> SUFFICES ASSUME NEW t \in Tasks, In(sem'.queue, <<t, "leaf">>)
             PROVE  \/ fut'[t].leaf = "acquire"
                    \/ op'[t].do = "drop" /\ op'[t].acq = <<t, "leaf">>
  BY DEF LeavesAwaited, In, Dropped
<1> DEFINE a == <<t, "leaf">>
<1>1. a \in Acquires
  BY AcquiresAre
<1>2. In(sem.queue, a) \/ fut'[t].leaf = "acquire"
  <2>1. CASE Still \/ Made
    BY <2>1 DEF Still, Made
  <2>2. CASE Queued
    <3>1. PICK u \in Tasks, b \in Acquires :
            /\ b \in {<<u, "leaf">>, <<u, "held">>}
            /\ ~(acq[b].live /\ acq[b].queued) /\ sem'.queue = Prepend(sem.queue, b)
            /\ b = <<u, "leaf">> => fut'[u].leaf = "acquire"
      BY <2>2, AcquiresAre DEF Queued
    <3>2. b \in Acquires /\ ~In(sem.queue, b)
      BY <3>1, AcquiresAre DEF QueuedOnce
    <3>3. In(sem.queue, a) \/ a = b
      BY <1>0, <3>1, <3>2, PrependKeeps
    <3>4. a = b => u = t /\ b = <<u, "leaf">>
      BY <3>1
    <3> QED BY <3>1, <3>3, <3>4
  <2>3. CASE Retired
    BY <1>0, <2>3, RemovedIs DEF Retired
  <2>4. CASE Granted \/ Emptied
    BY <1>0, <2>4, FrontKeeps DEF Granted, Emptied
  <2> QED BY <2>1, <2>2, <2>3, <2>4 DEF QueueMoves
<1>3. sem'.queue # RemoveFirst(sem.queue, a)
  BY <1>0, RemovedIs
<1>4. CASE In(sem.queue, a) /\ fut[t].leaf = "acquire"
  BY <1>1, <1>3, <1>4 DEF LeafMoves, QueuedOnce
<1>5. CASE In(sem.queue, a) /\ Dropped(t)
  BY <1>3, <1>5 DEF DropMoves, Dropped
<1> QED BY <1>2, <1>4, <1>5 DEF LeavesAwaited

(* The list of a closed semaphore is only emptied. *)
LEMMA ClosedListKept ==
    ASSUME Typed, QueuedOnce, LockHeld, ClosedList, QueueMoves, LockMoves
    PROVE  ClosedList'
<1>0. sem.queue \in Seq(Acquires) /\ Distinct(sem.queue)
  BY DEF Typed, SemTyped, SemType, QueuedOnce
<1>1. sem.qclosed /\ sem.queue = <<>> => sem'.queue = <<>>
  <2> SUFFICES ASSUME sem.qclosed, sem.queue = <<>>
               PROVE  sem'.queue = <<>>
    OBVIOUS
  <2>1. CASE Still \/ Made
    BY <2>1 DEF Still, Made
  <2>2. CASE Retired
    BY <1>0, <2>2, RemovedIs DEF Retired
  <2> QED BY <2>1, <2>2 DEF QueueMoves, Queued, Granted, Emptied
<1>2. CASE /\ sem'.lock = sem.lock /\ sem'.closed = sem.closed /\ sem'.qclosed = sem.qclosed
           /\ sem.lock # NoOne => op'[sem.lock].do = op[sem.lock].do
  BY <1>1, <1>2 DEF ClosedList
<1>3. CASE /\ sem.lock = NoOne /\ (sem.closed => sem'.closed)
           /\ sem'.qclosed = sem.qclosed
  BY <1>1, <1>3 DEF ClosedList
<1>4. CASE /\ sem.lock # NoOne /\ sem'.closed = sem.closed
           /\ sem'.qclosed = sem.qclosed /\ sem'.queue = sem.queue
           /\ op[sem.lock].do = "add" \/ sem.queue = <<>>
  BY <1>4 DEF ClosedList
<1>5. CASE /\ sem.lock # NoOne /\ sem'.lock = sem.lock /\ op' = op /\ op[sem.lock].do = "close"
           /\ sem'.closed = sem.closed
  BY <1>5 DEF ClosedList, LockHeld
<1> QED BY <1>2, <1>3, <1>4, <1>5 DEF LockMoves

(* An acquire is counted as queued only once it is linked. *)
LEMMA LinkedFirstKept ==
    ASSUME TokioAssumption, Typed, Midway, LinkedFirst, Next
    PROVE  LinkedFirst'
<1>0. chan \in ChanType /\ BlockCap \in Nat \ {0} /\ NoOne \notin Nat
  BY DEF Typed, ChanTyped, TokioAssumption
<1>1. CASE chan'.ready = chan.ready /\ chan'.blocks = chan.blocks /\ chan'.marker = chan.marker
  BY <1>1 DEF LinkedFirst, BlockOf
<1>2. ASSUME NEW x \in Actors, ChanPublish(x)
      PROVE  LinkedFirst'
  <2> DEFINE s == op[x].slot
             block == BlockOf(s)
             top == IF chan.blocks < block THEN block ELSE chan.blocks
  <2>1. s \in Nat
    BY <1>2 DEF ChanPublish, Midway, Shaped, Sending
  <2>2. \A i \in Nat : BlockOf(i) \in Nat
    BY <1>0 DEF BlockOf
  <2>3. /\ chan.blocks \in Nat /\ chan.ready \subseteq Nat /\ chan.marker \in Nat \cup {NoOne}
    BY <1>0 DEF ChanType
  <2>4. \/ chan' = [chan EXCEPT !.blocks = top, !.ready = @ \cup {s}]
        \/ chan' = [chan EXCEPT !.blocks = top, !.marker = block]
    <3>1. [chan EXCEPT !.blocks = IF @ < block THEN block ELSE @] = [chan EXCEPT !.blocks = top]
      OBVIOUS
    <3> QED BY <1>2, <3>1 DEF ChanPublish
  <2> HIDE DEF s
  <2>5. top \in Nat /\ chan.blocks <= top /\ block <= top
    BY <2>1, <2>2, <2>3
  <2> HIDE DEF top, block
  <2>6. CASE chan' = [chan EXCEPT !.blocks = top, !.ready = @ \cup {s}]
    <3>1. chan'.ready = chan.ready \cup {s} /\ chan'.blocks = top /\ chan'.marker = chan.marker
      BY <1>0, <2>6 DEF ChanType
    <3>2. \A i \in chan.ready : BlockOf(i) <= top
      BY <2>2, <2>3, <2>5 DEF LinkedFirst
    <3>3. chan.marker # NoOne => chan.marker <= top
      BY <2>3, <2>5 DEF LinkedFirst
    <3>4. \A i \in chan'.ready : BlockOf(i) <= chan'.blocks
      BY <2>5, <3>1, <3>2 DEF block
    <3> QED BY <3>1, <3>3, <3>4 DEF LinkedFirst, BlockOf
  <2>7. CASE chan' = [chan EXCEPT !.blocks = top, !.marker = block]
    <3>1. chan'.ready = chan.ready /\ chan'.blocks = top /\ chan'.marker = block
      BY <1>0, <2>7 DEF ChanType
    <3>2. \A i \in chan.ready : BlockOf(i) <= top
      BY <2>2, <2>3, <2>5 DEF LinkedFirst
    <3> QED BY <2>5, <3>1, <3>2 DEF LinkedFirst, BlockOf
  <2> QED BY <2>4, <2>6, <2>7
<1>3. ASSUME NEW x \in Actors, ThreadStep(x), ~ChanPublish(x)
      PROVE  LinkedFirst'
  <2>1. CASE ChanClaim(x)
    BY <1>0, <1>1, <2>1 DEF ChanClaim, ChanType
  <2>2. CASE ChanMarkWaking(x)
    BY <1>0, <1>1, <2>2 DEF ChanMarkWaking, ChanType
  <2>3. CASE ChanTakeWaker(x)
    BY <1>0, <1>1, <2>3 DEF ChanTakeWaker, ChanType
  <2>4. CASE ~(ChanClaim(x) \/ ChanMarkWaking(x) \/ ChanTakeWaker(x))
    <3>1. chan' = chan
      BY <1>3, <2>4 DEF ThreadStep, SemLock, Assign, AddUnlock, CloseStep, Wake, NotifyStore,
             NotifyLock, NotifyOne, NotifyBump, NotifyPop, NotifyUnlock, NotifyWakeBatch,
             OneshotSend, Call, resources
    <3> QED BY <1>1, <3>1
  <2> QED BY <2>1, <2>2, <2>3, <2>4
<1>4. ASSUME NEW t \in Tasks, TaskStep(t)
      PROVE  LinkedFirst'
  <2>0. FutTyped
    BY DEF Typed
  <2>1. \/ chan' = chan
        \/ chan' = [chan EXCEPT !.rxClosed = TRUE] \/ chan' = [chan EXCEPT !.waker = WakerOf(t)]
        \/ chan' = [chan EXCEPT !.index = @ + 1, !.avail = @ + 1]
    <3>1. CASE PollPending(t)
      BY <2>0, <3>1, PendingIs
    <3>2. CASE PollReady(t)
      BY <2>0, <3>2, ReadyIs
    <3>3. CASE DropFuture(t)
      BY <3>3, DropFutureIs
    <3>4. CASE ~(PollPending(t) \/ PollReady(t) \/ DropFuture(t))
      BY <1>4, <3>4 DEF TaskStep, Start, PollStarved, WakeDeferred, PollBeside, Hold, CloseRx,
             Release, Finish, Complete, Await, resources
    <3> QED BY <3>1, <3>2, <3>3, <3>4
  <2>2. chan'.ready = chan.ready /\ chan'.blocks = chan.blocks /\ chan'.marker = chan.marker
    BY <1>0, <2>1 DEF ChanType
  <2> QED BY <1>1, <2>2
<1> QED BY <1>2, <1>3, <1>4 DEF Next
----------------------------------------------------------------------------
(* The invariant, from its parts. *)

(* The invariant holds at first. *)
LEMMA InitHolds ==
    ASSUME TokioAssumption, Init
    PROVE  ProgramInv
<1>0. Init /\ prog \in ProgramType
  BY DEF Init, TokioAssumption
<1>1. ProgTyped
  BY <1>0 DEF ProgTyped, Init, ProgramType
<1>2. TaskTyped
  BY <1>0 DEF TaskTyped, TaskType, Wakers, Init
<1>3. FutTyped
  BY <1>0 DEF FutTyped, FutType, Init
<1>4. AcqTyped
  BY <1>0 DEF AcqTyped, AcqType, Wakers, Init
<1>5. OwnsTyped
  BY <1>0 DEF OwnsTyped, Init
<1>6. SemTyped
  BY <1>0 DEF SemTyped, SemType, Init, ProgramType
<1>7. OneTyped
  BY <1>0 DEF OneTyped, OneType, Wakers, Init
<1>8. ChanTyped
  BY <1>0 DEF ChanTyped, ChanType, Wakers, Init, ProgramType
<1>9. Midway
  BY <1>0, ShapedAre DEF Midway, Init
<1>10. LinkedFirst
  BY <1>0 DEF LinkedFirst, Init
<1>11. Suspended /\ DropsLate /\ LeavesLive
  BY <1>0 DEF Suspended, DropsLate, LeavesLive, Init, Idle, Actors
<1>12. QueuedOnce /\ LeavesAwaited /\ LockHeld /\ ClosedList
  <2>1. sem.queue = <<>> /\ sem.lock = NoOne /\ sem.qclosed = FALSE
    BY <1>0 DEF Init
  <2>2. Distinct(sem.queue) /\ \A a : ~In(sem.queue, a)
    BY <2>1 DEF Distinct, In
  <2> QED BY <2>1, <2>2 DEF QueuedOnce, LeavesAwaited, LockHeld, ClosedList
<1> QED BY <1>1, <1>2, <1>3, <1>4, <1>5, <1>6, <1>7, <1>8, <1>9, <1>10, <1>11, <1>12
        DEF ProgramInv, Typed

(* And every step keeps it. *)
LEMMA StepHolds ==
    ASSUME TokioAssumption, ProgramInv, Next
    PROVE  ProgramInv'
<1>0. /\ Typed /\ Midway /\ LinkedFirst /\ Suspended /\ DropsLate /\ QueuedOnce
      /\ LeavesLive /\ LeavesAwaited /\ LockHeld /\ ClosedList
  BY DEF ProgramInv
<1>1. Typed' /\ Midway'
  BY <1>0, TaskStepTyped, ThreadStepTyped, TaskStepMidway, ThreadStepMidway DEF Next
<1>2. FutMoves /\ TaskMoves
  BY <1>0, StepFutMoves, StepTaskMoves
<1>3. Moves
  BY <1>0, TaskStepMoves, ThreadStepMoves DEF Next
<1>4. QueueMoves /\ LockMoves /\ DropMoves /\ LeafMoves
  BY <1>3 DEF Moves
<1>5. LinkedFirst' /\ Suspended' /\ DropsLate' /\ LockHeld'
  BY <1>0, <1>1, <1>2, <1>4, LinkedFirstKept, SuspendedKept, DropsLateKept, LockHeldKept DEF Typed
<1>6. QueuedOnce' /\ LeavesLive' /\ LeavesAwaited' /\ ClosedList'
  BY <1>0, <1>2, <1>4, QueuedOnceKept, LeavesLiveKept, LeavesAwaitedKept, ClosedListKept
<1> QED BY <1>1, <1>5, <1>6 DEF ProgramInv

(* A step of something else. *)
LEMMA SameHolds ==
    ASSUME ProgramInv, UNCHANGED vars
    PROVE  ProgramInv'
<1>0. /\ prog' = prog /\ task' = task /\ fut' = fut /\ acq' = acq /\ owns' = owns /\ sem' = sem
      /\ one' = one /\ chan' = chan /\ op' = op /\ left' = left
  BY DEF vars
<1>1. Typed'
  BY <1>0 DEF ProgramInv, Typed, ProgTyped, TaskTyped, FutTyped, AcqTyped, OwnsTyped, SemTyped,
              OneTyped, ChanTyped
<1>2. Midway'
  BY <1>0, MidwaySame DEF ProgramInv
<1>3. LinkedFirst' /\ Suspended' /\ DropsLate'
  BY <1>0 DEF ProgramInv, LinkedFirst, BlockOf, Suspended, DropsLate
<1>4. QueuedOnce' /\ LeavesAwaited' /\ LockHeld' /\ ClosedList'
  BY <1>0 DEF ProgramInv, QueuedOnce, Distinct, In, LeavesAwaited, Dropped, LockHeld, ClosedList
<1>5. LeavesLive'
  BY <1>0 DEF ProgramInv, LeavesLive, LeafAcquire
<1> QED BY <1>1, <1>2, <1>3, <1>4, <1>5 DEF ProgramInv

(* The types, what a thread in the middle of a call and a suspended        *)
(* coroutine keep, and the semaphore's queue, whatever the program does.   *)
THEOREM ProgramHolds == Spec => []ProgramInv
<1>1. Init => ProgramInv
  BY TokioAssumption, InitHolds
<1>2. ProgramInv /\ [Next]_vars => ProgramInv'
  BY TokioAssumption, StepHolds, SameHolds
<1> QED BY <1>1, <1>2, PTL DEF Spec

=============================================================================
