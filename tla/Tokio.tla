------------------------------- MODULE Tokio -------------------------------
(***************************************************************************)
(* The program under the debugger, as far as its waits go: tasks, the      *)
(* futures they are suspended on, and tokio's batch semaphore, Notify,     *)
(* JoinHandle, oneshot and bounded mpsc channel.  None of it is code of    *)
(* this repository; it is modelled from what the debugger's protocols read *)
(* (assess.rs, bundle.rs) and the behaviour they rely on.                  *)
(*                                                                         *)
(* A poll of a task is one step, since a future is only interpreted while  *)
(* its task is idle.  What other threads do to the resources is one step   *)
(* per store a core can be taken between: locks are taken and given back,  *)
(* permits are handed out waiter by waiter, and wakers are taken from      *)
(* their slots before they are woken.                                      *)
(***************************************************************************)
EXTENDS Naturals, Sequences, FiniteSets, SequencesExt

CONSTANTS
    Tasks,      \* the tasks of the runtime
    Outsiders,  \* threads that use the same resources from outside
    NoWaker,    \* an empty waker slot
    NoOne,      \* a lock nobody holds, a handle nobody owns, a slot not claimed
    Programs,   \* what the program may do, one of these
    Batch,      \* wakers a notify_waiters call collects before it lets go
    BlockCap    \* slots in a block of the channel's list

Kinds == {"acquire", "held", "notified", "join", "oneshot", "recv"}
Shapes == {"await", "relayed", "wrapped", "select"}

(* The calls outside threads make, and what a program is made of. *)
Calls == [by : Outsiders, do : {"one", "waiters", "close", "send1", "send", "txdrop"}]
         \cup [by : Outsiders, do : {"add"}, permits : Nat]
         \cup [by : Outsiders, do : {"abort"}, task : Tasks]

ProgramType ==
    [joiner : [Tasks -> Tasks \cup {NoOne}], awaits : [Tasks -> SUBSET Kinds],
     shapes : [Tasks -> SUBSET Shapes], want : [Tasks -> Nat], holds : [Tasks -> BOOLEAN],
     budget : [Tasks -> Nat], permits : Nat, cap : Nat, senders : Nat, calls : SUBSET Calls,
     starves : BOOLEAN, closesRx : BOOLEAN]

ASSUME TokioAssumption ==
    /\ Programs \subseteq ProgramType
    /\ NoOne \notin Tasks \cup Outsiders /\ NoOne \notin Nat
    /\ Tasks \cap Outsiders = {}
    /\ Batch \in Nat \ {0} /\ BlockCap \in Nat \ {0}

VARIABLES
    prog,   \* the program: who joins whom, which futures and calls it makes
    task,   \* state word and trailer of each task
    fut,    \* where each task's coroutine stands
    acq,    \* the Acquire futures: the awaited one and one kept in a local
    owns,   \* permits each task holds outright
    sem,    \* the semaphore
    ntf,    \* the Notify
    nod,    \* the Notified future of each task and its node
    one,    \* the oneshot
    chan,   \* the channel
    op,     \* the call each thread is in the middle of
    left,   \* calls the outside threads have yet to make
    defer   \* tasks with a deferred wake (their budget ran out)

vars == <<prog, task, fut, acq, owns, sem, ntf, nod, one, chan, op, left, defer>>
resources == <<sem, ntf, nod, one, chan>>

Actors == Tasks \cup Outsiders
Acquires == Tasks \X {"leaf", "held"}
Idle == [do |-> "idle"]

(* A task's own waker, or one a relaying future made that wakes the task. *)
WakerOf(t) == [task |-> t, own |-> fut[t].shape # "relayed"]

(* What is left of a call once its wakers are taken: to wake them. *)
Waking(ws) == IF ws = <<>> THEN Idle ELSE [do |-> "wake", wake |-> ws]

Woken(ts) ==
    [t \in Tasks |-> IF t \in ts /\ ~task[t].done
                     THEN [task[t] EXCEPT !.notif = TRUE] ELSE task[t]]

TaskOf(w) == IF w = NoWaker THEN {} ELSE {w.task}

LeafAcquire(t) == <<t, IF fut[t].leaf = "held" THEN "held" ELSE "leaf">>

Init ==
    /\ prog \in Programs
    /\ task = [t \in Tasks |-> [run |-> FALSE, notif |-> prog.awaits[t] # {},
                                done |-> prog.awaits[t] = {}, cancelled |-> FALSE, jwaker |-> FALSE,
                                jint |-> prog.joiner[t] # NoOne, trailer |-> NoWaker]]
    /\ fut = [t \in Tasks |-> [shape |-> "new", leaf |-> "none", joins |-> NoOne, n |-> 0]]
    /\ acq = [a \in Acquires |-> [live |-> FALSE, queued |-> FALSE, want |-> 0,
                                  need |-> 0, waker |-> NoWaker]]
    /\ owns = [t \in Tasks |-> 0]
    /\ sem = [avail |-> prog.permits, closed |-> FALSE, qclosed |-> FALSE,
              lock |-> NoOne, queue |-> <<>>]
    /\ ntf = [state |-> "empty", calls |-> 0, lock |-> NoOne, list |-> <<>>]
    /\ nod = [t \in Tasks |-> [state |-> "init", calls |-> 0, note |-> "none", waker |-> NoWaker]]
    /\ one = [sent |-> FALSE, closed |-> FALSE, rxset |-> FALSE, waker |-> NoWaker]
    /\ chan = [senders |-> prog.senders, tail |-> 0, index |-> 0, ready |-> {}, blocks |-> 0,
               marker |-> NoOne, rxClosed |-> FALSE, avail |-> prog.cap, wstate |-> "waiting",
               waker |-> NoWaker]
    /\ op = [x \in Actors |-> Idle]
    /\ left = prog.calls
    /\ defer = {}

----------------------------------------------------------------------------
(* What a poll of the awaited future finds. *)

BlockOf(i) == i \div BlockCap

AcquireReady(a) == sem.closed \/ sem.qclosed \/ acq[a].need <= sem.avail

Ready(t) ==
    CASE fut[t].leaf \in {"acquire", "held"} -> AcquireReady(LeafAcquire(t))
      [] fut[t].leaf = "notified" ->
           \/ nod[t].state = "done" \/ nod[t].note # "none" \/ nod[t].calls # ntf.calls
           \/ nod[t].state = "init" /\ ntf.state = "notified"
      [] fut[t].leaf = "join" -> task[fut[t].joins].done
      [] fut[t].leaf = "oneshot" -> one.sent \/ one.closed
      [] fut[t].leaf = "recv" ->
           \/ chan.index \in chan.ready \/ chan.marker = BlockOf(chan.index)
           \/ chan.rxClosed /\ chan.avail = prog.cap
      [] OTHER -> FALSE

(* Whether the poll has to wait for somebody else's lock to find out. *)
Blocked(t) ==
    \/ /\ fut[t].leaf \in {"acquire", "held"}
       /\ ~sem.closed /\ sem.lock # NoOne
       /\ acq[LeafAcquire(t)].queued \/ ~Ready(t)
    \/ /\ fut[t].leaf = "notified" /\ ntf.lock # NoOne
       /\ nod[t].note = "none" /\ nod[t].state # "done"
       /\ ~(nod[t].state = "init" /\ ntf.state = "notified")

----------------------------------------------------------------------------
(* Tasks. *)

Running(t) == task[t].run /\ op[t] = Idle

Start(t) ==
    /\ task[t].notif /\ ~task[t].done
    /\ \A u \in Tasks : ~task[u].run /\ op[u] = Idle
    /\ task' = [task EXCEPT ![t].run = TRUE, ![t].notif = FALSE]
    /\ fut' = IF fut[t].shape = "new" /\ ~task[t].cancelled
              THEN [fut EXCEPT ![t].shape = "run"] ELSE fut
    /\ UNCHANGED <<prog, acq, owns, resources, op, left, defer>>

(* The coroutine reaches its next await: the future is made, not polled.  *)
Await(t, kind, shape) ==
    /\ Running(t) /\ fut[t].leaf = "none" /\ fut[t].shape = "run"
    /\ kind \in prog.awaits[t] /\ shape \in prog.shapes[t] /\ fut[t].n < prog.budget[t]
    /\ kind = "held" => acq[<<t, "held">>].live
    /\ kind = "oneshot" => ~one.rxset /\ ~one.closed
    /\ \E u \in Tasks \cup {NoOne} :
         /\ IF kind = "join" THEN u \in Tasks /\ prog.joiner[u] = t /\ task[u].jint ELSE u = NoOne
         /\ fut' = [fut EXCEPT ![t] = [shape |-> shape, leaf |-> kind, joins |-> u, n |-> @.n + 1]]
    /\ acq' = IF kind = "acquire"
              THEN [acq EXCEPT ![<<t, "leaf">>] = [live |-> TRUE, queued |-> FALSE,
                      want |-> prog.want[t], need |-> prog.want[t], waker |-> NoWaker]]
              ELSE acq
    /\ nod' = IF kind = "notified"
              THEN [nod EXCEPT ![t] = [state |-> "init", calls |-> ntf.calls,
                                       note |-> "none", waker |-> NoWaker]]
              ELSE nod
    /\ UNCHANGED <<prog, task, owns, sem, ntf, one, chan, op, left, defer>>

(* A poll that finds the resource short registers the task and parks it. *)
Enqueue(a, w) ==
    IF acq[a].queued
    THEN /\ acq' = [acq EXCEPT ![a].waker = w]
         /\ UNCHANGED sem
    ELSE /\ acq' = [acq EXCEPT ![a].queued = TRUE, ![a].waker = w, ![a].need = @ - sem.avail]
         /\ sem' = [sem EXCEPT !.avail = 0, !.queue = <<a>> \o @]

Enlist(t) ==
    IF nod[t].state = "waiting"
    THEN /\ nod' = [nod EXCEPT ![t].waker = WakerOf(t)]
         /\ UNCHANGED ntf
    ELSE /\ nod' = [nod EXCEPT ![t].state = "waiting", ![t].waker = WakerOf(t)]
         /\ ntf' = [ntf EXCEPT !.state = "waiting", !.list = <<t>> \o @]

Park(t) == [task EXCEPT ![t].run = FALSE]

PollPending(t) ==
    /\ Running(t) /\ fut[t].leaf # "none" /\ fut[t].shape # "gone"
    /\ ~Ready(t) /\ ~Blocked(t)
    /\ fut[t].shape \in {"wrapped", "select"} /\ acq[<<t, "held">>].live
          => ~AcquireReady(<<t, "held">>)
    /\ CASE fut[t].leaf \in {"acquire", "held"} ->
              /\ Enqueue(LeafAcquire(t), WakerOf(t))
              /\ task' = Park(t)
              /\ UNCHANGED <<ntf, nod, one, chan>>
         [] fut[t].leaf = "notified" ->
              /\ Enlist(t)
              /\ task' = Park(t)
              /\ UNCHANGED <<acq, sem, one, chan>>
         [] fut[t].leaf = "join" ->
              /\ task' = [Park(t) EXCEPT ![fut[t].joins].trailer = WakerOf(t),
                                         ![fut[t].joins].jwaker = TRUE]
              /\ UNCHANGED <<acq, resources>>
         [] fut[t].leaf = "oneshot" ->
              /\ one' = [one EXCEPT !.rxset = TRUE, !.waker = WakerOf(t)]
              /\ task' = Park(t)
              /\ UNCHANGED <<acq, sem, ntf, nod, chan>>
         [] fut[t].leaf = "recv" ->
              /\ IF chan.wstate = "waking"
                 THEN task' = [Park(t) EXCEPT ![t].notif = TRUE] /\ UNCHANGED chan
                 ELSE task' = Park(t) /\ chan' = [chan EXCEPT !.waker = WakerOf(t)]
              /\ UNCHANGED <<acq, sem, ntf, nod, one>>
    /\ UNCHANGED <<prog, fut, owns, op, left, defer>>

(* The task's budget is spent: the poll parks without reaching the        *)
(* resource, and the runtime wakes the task again later.                  *)
PollStarved(t) ==
    /\ Running(t) /\ fut[t].leaf \in {"acquire", "join", "oneshot", "recv"}
    /\ fut[t].shape # "gone" /\ prog.starves
    /\ task' = Park(t)
    /\ defer' = defer \cup {t}
    /\ UNCHANGED <<prog, fut, acq, owns, resources, op, left>>

WakeDeferred(t) ==
    /\ t \in defer
    /\ task' = Woken({t})
    /\ defer' = defer \ {t}
    /\ UNCHANGED <<prog, fut, acq, owns, resources, op, left>>

(* The Acquire is ready: its permits are the task's, or the semaphore is  *)
(* closed and dropping the future gives back what it was assigned.        *)
Take(t, a) ==
    IF sem.closed \/ sem.qclosed
    THEN /\ op' = IF acq[a].queued THEN [op EXCEPT ![t] = [do |-> "drop", acq |-> a]] ELSE op
         /\ acq' = IF acq[a].queued THEN acq ELSE [acq EXCEPT ![a].live = FALSE]
         /\ UNCHANGED <<owns, sem>>
    ELSE /\ owns' = [owns EXCEPT ![t] = @ + acq[a].want]
         /\ acq' = [acq EXCEPT ![a].live = FALSE, ![a].queued = FALSE]
         /\ sem' = [sem EXCEPT !.avail = @ - acq[a].need, !.queue = RemoveFirst(@, a)]
         /\ UNCHANGED op

(* A Notified told only by the count takes itself off the list in motion. *)
Unlist(t) ==
    op' = [x \in Actors |-> IF op[x].do = "waiters" /\ nod[t].note = "none"
                            THEN [op[x] EXCEPT !.list = RemoveFirst(@, t)]
                            ELSE op[x]]

PollReady(t) ==
    /\ Running(t) /\ fut[t].leaf # "none" /\ fut[t].shape # "gone"
    /\ Ready(t) /\ ~Blocked(t)
    /\ fut' = [fut EXCEPT ![t] = [@ EXCEPT !.shape = "run", !.leaf = "none", !.joins = NoOne]]
    /\ CASE fut[t].leaf \in {"acquire", "held"} ->
              /\ Take(t, LeafAcquire(t))
              /\ UNCHANGED <<task, ntf, nod, one, chan>>
         [] fut[t].leaf = "notified" ->
              /\ nod' = [nod EXCEPT ![t].state = "done", ![t].waker = NoWaker]
              /\ ntf' = IF nod[t].state = "init" /\ ntf.state = "notified"
                        THEN [ntf EXCEPT !.state = "empty"] ELSE ntf
              /\ Unlist(t)
              /\ UNCHANGED <<task, acq, owns, sem, one, chan>>
         [] fut[t].leaf = "join" ->
              /\ task' = [task EXCEPT ![fut[t].joins] = [@ EXCEPT !.jint = FALSE, !.jwaker = FALSE,
                                                                  !.trailer = NoWaker]]
              /\ UNCHANGED <<acq, owns, resources, op>>
         [] fut[t].leaf = "oneshot" ->
              /\ one' = [one EXCEPT !.closed = TRUE]
              /\ UNCHANGED <<task, acq, owns, sem, ntf, nod, chan, op>>
         [] fut[t].leaf = "recv" ->
              /\ chan' = IF chan.index \in chan.ready
                         THEN [chan EXCEPT !.index = @ + 1, !.avail = @ + 1] ELSE chan
              /\ UNCHANGED <<task, acq, owns, sem, ntf, nod, one, op>>
    /\ UNCHANGED <<prog, left, defer>>

(* A future that polls more than it forwards to polls the kept acquire    *)
(* too.  A wrapper then goes on; a select over a handle it borrowed ends, *)
(* and the handle stays registered.                                       *)
PollBeside(t) ==
    /\ Running(t) /\ fut[t].shape \in {"wrapped", "select"} /\ acq[<<t, "held">>].live
    /\ fut[t].leaf \notin {"none", "held"} /\ ~Ready(t)
    /\ AcquireReady(<<t, "held">>) /\ sem.lock = NoOne
    /\ Take(t, <<t, "held">>)
    /\ fut' = IF fut[t].shape = "select" /\ fut[t].leaf = "join"
              THEN [fut EXCEPT ![t] = [@ EXCEPT !.shape = "run", !.leaf = "none", !.joins = NoOne]]
              ELSE fut
    /\ UNCHANGED <<prog, task, ntf, nod, one, chan, left, defer>>

(* A select polls an acquire once, takes another branch, and the acquire  *)
(* stays behind in a local.                                               *)
Hold(t) ==
    /\ Running(t) /\ fut[t].leaf = "none" /\ fut[t].shape = "run" /\ fut[t].n = 0
    /\ prog.holds[t] /\ ~acq[<<t, "held">>].live /\ sem.lock = NoOne
    /\ ~sem.closed /\ sem.avail < prog.want[t]
    /\ acq' = [acq EXCEPT ![<<t, "held">>] =
                 [live |-> TRUE, queued |-> TRUE, want |-> prog.want[t],
                  need |-> prog.want[t] - sem.avail, waker |-> [task |-> t, own |-> TRUE]]]
    /\ sem' = [sem EXCEPT !.avail = 0, !.queue = <<<<t, "held">>>> \o @]
    /\ UNCHANGED <<prog, task, fut, owns, ntf, nod, one, chan, op, left, defer>>

CloseRx(t) ==
    /\ Running(t) /\ fut[t].leaf = "none" /\ fut[t].shape = "run"
    /\ "recv" \in prog.awaits[t] /\ prog.closesRx /\ ~chan.rxClosed
    /\ chan' = [chan EXCEPT !.rxClosed = TRUE]
    /\ UNCHANGED <<prog, task, fut, acq, owns, sem, ntf, nod, one, op, left, defer>>

Release(t) ==
    /\ Running(t) /\ fut[t].leaf = "none" /\ owns[t] > 0
    /\ op' = [op EXCEPT ![t] = [do |-> "add", rem |-> owns[t], wake |-> <<>>]]
    /\ owns' = [owns EXCEPT ![t] = 0]
    /\ UNCHANGED <<prog, task, fut, acq, resources, left, defer>>

(* The coroutine returns, or an aborted task's future is dropped: what it *)
(* holds goes first, one thing after another.                             *)
Finish(t) ==
    /\ Running(t) /\ fut[t].shape # "gone"
    /\ \/ fut[t].leaf = "none" /\ fut[t].shape = "run"
       \/ task[t].cancelled
    /\ fut' = [fut EXCEPT ![t].shape = "gone"]
    /\ UNCHANGED <<prog, task, acq, owns, resources, op, left, defer>>

DropFuture(t) ==
    /\ Running(t) /\ fut[t].shape = "gone"
    /\ \/ \E s \in {"leaf", "held"} :
            /\ acq[<<t, s>>].live
            /\ IF acq[<<t, s>>].queued
               THEN op' = [op EXCEPT ![t] = [do |-> "drop", acq |-> <<t, s>>]] /\ UNCHANGED acq
               ELSE acq' = [acq EXCEPT ![<<t, s>>].live = FALSE] /\ UNCHANGED op
            /\ UNCHANGED <<task, fut, ntf, nod, one, chan>>
       \/ /\ fut[t].leaf = "notified" /\ ntf.lock = NoOne
          /\ nod' = [nod EXCEPT ![t].state = "done", ![t].waker = NoWaker]
          /\ LET rest == RemoveFirst(ntf.list, t)
             IN ntf' = [ntf EXCEPT !.list = rest,
                                   !.state = IF rest = <<>> /\ @ = "waiting" THEN "empty" ELSE @]
          /\ IF nod[t].note = "one"
             THEN op' = [op EXCEPT ![t] = [do |-> "one", wake |-> <<>>]]
             ELSE Unlist(t)
          /\ fut' = [fut EXCEPT ![t].leaf = "none"]
          /\ UNCHANGED <<task, acq, one, chan>>
       \/ /\ fut[t].leaf = "oneshot"
          /\ one' = [one EXCEPT !.closed = TRUE]
          /\ fut' = [fut EXCEPT ![t].leaf = "none"]
          /\ UNCHANGED <<task, acq, ntf, nod, chan, op>>
       \/ /\ fut[t].leaf = "recv"
          /\ chan' = [chan EXCEPT !.rxClosed = TRUE]
          /\ fut' = [fut EXCEPT ![t].leaf = "none"]
          /\ UNCHANGED <<task, acq, ntf, nod, one, op>>
    /\ UNCHANGED <<prog, owns, sem, left, defer>>

(* Nothing left to drop but handles: the handles go, the state word says  *)
(* complete, and the joiner's waker is read for waking.                   *)
Complete(t) ==
    /\ Running(t) /\ fut[t].shape = "gone" /\ owns[t] = 0
    /\ \A s \in {"leaf", "held"} : ~acq[<<t, s>>].live
    /\ fut[t].leaf \notin {"notified", "oneshot", "recv"}
    /\ task' = [u \in Tasks |->
                  IF u = t THEN [task[t] EXCEPT !.run = FALSE, !.notif = FALSE, !.done = TRUE]
                  ELSE IF prog.joiner[u] = t
                  THEN [task[u] EXCEPT !.jint = FALSE, !.jwaker = FALSE, !.trailer = NoWaker]
                  ELSE task[u]]
    /\ op' = IF task[t].jint /\ task[t].jwaker
             THEN [op EXCEPT ![t] = Waking(<<task[t].trailer>>)] ELSE op
    /\ fut' = [fut EXCEPT ![t].leaf = "none"]
    /\ UNCHANGED <<prog, acq, owns, resources, left, defer>>

----------------------------------------------------------------------------
(* Semaphore::add_permits, Drop for Acquire and Semaphore::close.         *)

SemLock(x) ==
    /\ op[x].do \in {"add", "drop", "close"} /\ sem.lock = NoOne
    /\ CASE op[x].do = "add" -> UNCHANGED <<acq, op>> /\ sem' = [sem EXCEPT !.lock = x]
         [] op[x].do = "close" ->
              /\ sem' = [sem EXCEPT !.lock = x, !.closed = TRUE]
              /\ UNCHANGED <<acq, op>>
         [] op[x].do = "drop" ->
              LET a == op[x].acq
              IN /\ sem' = [sem EXCEPT !.lock = x, !.queue = RemoveFirst(@, a)]
                 /\ op' = [op EXCEPT ![x] = [do |-> "add", rem |-> acq[a].want - acq[a].need,
                                             wake |-> <<>>]]
                 /\ acq' = [acq EXCEPT ![a].live = FALSE, ![a].queued = FALSE]
    /\ UNCHANGED <<prog, task, fut, owns, ntf, nod, one, chan, left, defer>>

(* The oldest waiter takes what it still needs; given all of it, it       *)
(* leaves the queue and its waker is kept for later.                      *)
Assign(x) ==
    /\ op[x].do = "add" /\ sem.lock = x /\ op[x].rem > 0
    /\ IF sem.queue = <<>>
       THEN /\ sem' = [sem EXCEPT !.avail = @ + op[x].rem]
            /\ op' = [op EXCEPT ![x].rem = 0]
            /\ UNCHANGED acq
       ELSE LET a == Last(sem.queue)
                given == IF op[x].rem < acq[a].need THEN op[x].rem ELSE acq[a].need
            IN IF given < acq[a].need
               THEN /\ acq' = [acq EXCEPT ![a].need = @ - given]
                    /\ op' = [op EXCEPT ![x].rem = 0]
                    /\ UNCHANGED sem
               ELSE /\ acq' = [acq EXCEPT ![a].need = 0, ![a].waker = NoWaker]
                    /\ sem' = [sem EXCEPT !.queue = Front(@)]
                    /\ op' = [op EXCEPT ![x].rem = @ - given, ![x].wake = Append(@, acq[a].waker)]
    /\ UNCHANGED <<prog, task, fut, owns, ntf, nod, one, chan, left, defer>>

AddUnlock(x) ==
    /\ op[x].do = "add" /\ sem.lock = x /\ op[x].rem = 0
    /\ sem' = [sem EXCEPT !.lock = NoOne]
    /\ op' = [op EXCEPT ![x] = Waking(op[x].wake)]
    /\ UNCHANGED <<prog, task, fut, acq, owns, ntf, nod, one, chan, left, defer>>

(* The list's own flag, then every waiter woken under the lock. *)
CloseStep(x) ==
    /\ op[x].do = "close" /\ sem.lock = x
    /\ CASE ~sem.qclosed -> sem' = [sem EXCEPT !.qclosed = TRUE] /\ UNCHANGED <<task, acq, op>>
         [] sem.qclosed /\ sem.queue # <<>> ->
              LET a == Last(sem.queue)
              IN /\ sem' = [sem EXCEPT !.queue = Front(@)]
                 /\ acq' = [acq EXCEPT ![a].waker = NoWaker]
                 /\ task' = Woken(TaskOf(acq[a].waker))
                 /\ UNCHANGED op
         [] sem.qclosed /\ sem.queue = <<>> ->
              /\ sem' = [sem EXCEPT !.lock = NoOne]
              /\ op' = [op EXCEPT ![x] = Idle]
              /\ UNCHANGED <<task, acq>>
    /\ UNCHANGED <<prog, fut, owns, ntf, nod, one, chan, left, defer>>

(* Wakers already taken from their slots are woken one by one. *)
Wake(x) ==
    /\ op[x].do = "wake"
    /\ task' = Woken(TaskOf(Head(op[x].wake)))
    /\ op' = [op EXCEPT ![x] = Waking(Tail(op[x].wake))]
    /\ UNCHANGED <<prog, fut, acq, owns, resources, left, defer>>

----------------------------------------------------------------------------
(* Notify::notify_one and Notify::notify_waiters.                         *)

(* With nobody waiting the permit is stored without the lock. *)
NotifyStore(x) ==
    /\ op[x].do = "one" /\ ntf.lock # x /\ ntf.state # "waiting"
    /\ ntf' = [ntf EXCEPT !.state = "notified"]
    /\ op' = [op EXCEPT ![x] = Idle]
    /\ UNCHANGED <<prog, task, fut, acq, owns, sem, nod, one, chan, left, defer>>

NotifyLock(x) ==
    /\ \/ op[x].do = "one" /\ ntf.state = "waiting"
       \/ op[x].do = "waiters" /\ op[x].wake = <<>>
    /\ ntf.lock = NoOne
    /\ ntf' = [ntf EXCEPT !.lock = x]
    /\ UNCHANGED <<prog, task, fut, acq, owns, sem, nod, one, chan, op, left, defer>>

NotifyOne(x) ==
    /\ op[x].do = "one" /\ ntf.lock = x
    /\ LET t == Last(ntf.list)
       IN /\ ntf' = [ntf EXCEPT !.list = Front(@), !.lock = NoOne,
                                !.state = IF Len(ntf.list) = 1 THEN "empty" ELSE @]
          /\ nod' = [nod EXCEPT ![t].note = "one", ![t].waker = NoWaker]
          /\ op' = [op EXCEPT ![x] = Waking(<<nod[t].waker>>)]
    /\ UNCHANGED <<prog, task, fut, acq, owns, sem, one, chan, left, defer>>

(* The count goes up and the list becomes the caller's, to be notified in *)
(* batches between which the lock is let go.                              *)
NotifyBump(x) ==
    /\ op[x].do = "waiters" /\ ntf.lock = x /\ ~op[x].bumped
    /\ IF ntf.state # "waiting"
       THEN /\ ntf' = [ntf EXCEPT !.calls = @ + 1, !.lock = NoOne]
            /\ op' = [op EXCEPT ![x] = Idle]
       ELSE /\ ntf' = [ntf EXCEPT !.calls = @ + 1, !.state = "empty", !.list = <<>>]
            /\ op' = [op EXCEPT ![x].bumped = TRUE, ![x].list = ntf.list]
    /\ UNCHANGED <<prog, task, fut, acq, owns, sem, nod, one, chan, left, defer>>

NotifyPop(x) ==
    /\ op[x].do = "waiters" /\ ntf.lock = x /\ op[x].bumped
    /\ op[x].list # <<>> /\ Len(op[x].wake) < Batch
    /\ LET t == Last(op[x].list)
       IN /\ nod' = [nod EXCEPT ![t].note = "all", ![t].waker = NoWaker]
          /\ op' = [op EXCEPT ![x].list = Front(@), ![x].wake = Append(@, nod[t].waker)]
    /\ UNCHANGED <<prog, task, fut, acq, owns, sem, ntf, one, chan, left, defer>>

NotifyUnlock(x) ==
    /\ op[x].do = "waiters" /\ ntf.lock = x /\ op[x].bumped
    /\ op[x].list = <<>> \/ Len(op[x].wake) = Batch
    /\ ntf' = [ntf EXCEPT !.lock = NoOne]
    /\ op' = IF op[x].list = <<>>
             THEN [op EXCEPT ![x] = Waking(op[x].wake)] ELSE op
    /\ UNCHANGED <<prog, task, fut, acq, owns, sem, nod, one, chan, left, defer>>

NotifyWakeBatch(x) ==
    /\ op[x].do = "waiters" /\ ntf.lock # x /\ op[x].wake # <<>>
    /\ task' = Woken(TaskOf(Head(op[x].wake)))
    /\ op' = [op EXCEPT ![x].wake = Tail(@)]
    /\ UNCHANGED <<prog, fut, acq, owns, resources, left, defer>>

----------------------------------------------------------------------------
(* oneshot::Sender::send, mpsc::Sender::send and the drop of the last     *)
(* sender.                                                                *)

OneshotSend(x) ==
    /\ op[x].do = "send1"
    /\ one' = [one EXCEPT !.sent = TRUE]
    /\ op' = [op EXCEPT ![x] = Waking(IF one.rxset THEN <<one.waker>> ELSE <<>>)]
    /\ UNCHANGED <<prog, task, fut, acq, owns, sem, ntf, nod, chan, left, defer>>

(* The slot is claimed, then its block linked and its ready bit set.      *)
ChanClaim(x) ==
    /\ op[x].do \in {"send", "txdrop"} /\ op[x].slot = NoOne
    /\ IF op[x].do = "send"
       THEN /\ IF chan.avail > 0 /\ ~chan.rxClosed
               THEN /\ chan' = [chan EXCEPT !.avail = @ - 1, !.tail = @ + 1]
                    /\ op' = [op EXCEPT ![x].slot = chan.tail]
               ELSE op' = [op EXCEPT ![x] = Idle] /\ UNCHANGED chan
       ELSE IF chan.senders > 0
       THEN /\ chan' = [chan EXCEPT !.senders = @ - 1]
            /\ op' = IF chan.senders = 1 THEN op ELSE [op EXCEPT ![x] = Idle]
       ELSE /\ chan' = [chan EXCEPT !.tail = @ + 1]
            /\ op' = [op EXCEPT ![x].slot = chan.tail]
    /\ UNCHANGED <<prog, task, fut, acq, owns, sem, ntf, nod, one, left, defer>>

ChanPublish(x) ==
    /\ op[x].do \in {"send", "txdrop"} /\ op[x].slot # NoOne
    /\ LET block == BlockOf(op[x].slot)
           linked == [chan EXCEPT !.blocks = IF @ < block THEN block ELSE @]
       IN chan' = IF op[x].do = "send" THEN [linked EXCEPT !.ready = @ \cup {op[x].slot}]
                                       ELSE [linked EXCEPT !.marker = block]
    /\ op' = [op EXCEPT ![x] = [do |-> "wakerx"]]
    /\ UNCHANGED <<prog, task, fut, acq, owns, sem, ntf, nod, one, left, defer>>

(* AtomicWaker::take_waker: the cell is marked, emptied, and at rest.     *)
ChanMarkWaking(x) ==
    /\ op[x].do = "wakerx"
    /\ IF chan.wstate = "waking"
       THEN op' = [op EXCEPT ![x] = Idle] /\ UNCHANGED chan
       ELSE /\ chan' = [chan EXCEPT !.wstate = "waking"]
            /\ op' = [op EXCEPT ![x] = [do |-> "takerx"]]
    /\ UNCHANGED <<prog, task, fut, acq, owns, sem, ntf, nod, one, left, defer>>

ChanTakeWaker(x) ==
    /\ op[x].do = "takerx"
    /\ chan' = [chan EXCEPT !.wstate = "waiting", !.waker = NoWaker]
    /\ op' = [op EXCEPT ![x] = Waking(IF chan.waker = NoWaker THEN <<>> ELSE <<chan.waker>>)]
    /\ UNCHANGED <<prog, task, fut, acq, owns, sem, ntf, nod, one, left, defer>>

----------------------------------------------------------------------------
(* An outside thread makes one of the calls the program has left.         *)
Call(x, c) ==
    /\ x = c.by /\ op[x] = Idle /\ c \in left
    /\ left' = left \ {c}
    /\ CASE c.do = "abort" ->
              /\ task' = [task EXCEPT ![c.task].cancelled = @ \/ ~task[c.task].done,
                                      ![c.task].notif = @ \/ ~task[c.task].done]
              /\ UNCHANGED op
         [] c.do = "add" -> op' = [op EXCEPT ![x] = [do |-> "add", rem |-> c.permits, wake |-> <<>>]]
                            /\ UNCHANGED task
         [] c.do = "one" -> op' = [op EXCEPT ![x] = [do |-> "one", wake |-> <<>>]]
                            /\ UNCHANGED task
         [] c.do = "waiters" -> op' = [op EXCEPT ![x] = [do |-> "waiters", bumped |-> FALSE,
                                                         list |-> <<>>, wake |-> <<>>]]
                                /\ UNCHANGED task
         [] c.do \in {"send", "txdrop"} ->
              /\ chan.senders > Cardinality({y \in Outsiders : op[y].do \in {"send", "txdrop"}})
              /\ op' = [op EXCEPT ![x] = [do |-> c.do, slot |-> NoOne]]
              /\ UNCHANGED task
         [] c.do \in {"close", "send1"} -> op' = [op EXCEPT ![x] = [do |-> c.do]] /\ UNCHANGED task
    /\ UNCHANGED <<prog, fut, acq, owns, resources, defer>>

TaskStep(t) ==
    \/ Start(t) \/ PollPending(t) \/ PollStarved(t) \/ WakeDeferred(t) \/ PollReady(t)
    \/ PollBeside(t) \/ Hold(t) \/ CloseRx(t) \/ Release(t) \/ Finish(t) \/ DropFuture(t)
    \/ Complete(t)
    \/ \E kind \in prog.awaits[t], shape \in prog.shapes[t] : Await(t, kind, shape)

ThreadStep(x) ==
    \/ SemLock(x) \/ Assign(x) \/ AddUnlock(x) \/ CloseStep(x) \/ Wake(x)
    \/ NotifyStore(x) \/ NotifyLock(x) \/ NotifyOne(x) \/ NotifyBump(x) \/ NotifyPop(x)
    \/ NotifyUnlock(x) \/ NotifyWakeBatch(x)
    \/ OneshotSend(x) \/ ChanClaim(x) \/ ChanPublish(x) \/ ChanMarkWaking(x) \/ ChanTakeWaker(x)
    \/ \E c \in left : Call(x, c)

Next == (\E t \in Tasks : TaskStep(t)) \/ (\E x \in Actors : ThreadStep(x))

(* Nobody is in the middle of anything and no wake is on its way. *)
AtRest ==
    /\ \A x \in Actors : op[x] = Idle
    /\ \A t \in Tasks : ~task[t].run /\ (task[t].notif => task[t].done)
    /\ defer = {}

Spec == Init /\ [][Next]_vars

=============================================================================
