-------------------------- MODULE MCSessionCursor --------------------------
(***************************************************************************)
(* A small target for the cursor: an idle task with an id, a running task *)
(* with one, a completed task with none; a future held as another's first *)
(* member, so both print one address; a set's child; two threads.         *)
(***************************************************************************)
EXTENDS SessionCursor, TLC

CONSTANTS t1, t2, t3, outer, inner, child, l1, l2

MCTasks == {t1, t2, t3}
MCFinds == {outer, inner, child}
MCAddrs == 1 .. 12

(* Headers at 1, 5 and 9; t1's allocation is 1..4, t2's 5..8. *)
MCHeader == (t1 :> 1) @@ (t2 :> 5) @@ (t3 :> 9)
MCTaskAt == [a \in MCAddrs |-> CASE a \in 1 .. 4 -> t1 [] a \in 5 .. 8 -> t2
                                 [] a = 9 -> t3 [] OTHER -> None]
MCTaskChain == (t1 :> <<2, 3>>) @@ (t2 :> <<6>>) @@ (t3 :> <<>>)
MCClaims == [t \in MCTasks |-> [a \in MCAddrs |->
               CASE t = t1 /\ a = 2 -> 1 [] t = t1 /\ a \in {3, 4} -> 2
                 [] t = t2 /\ a >= 6 /\ a <= 8 -> 1 [] OTHER -> 0]]

(* Both held futures start at 7, inside t2; the child's node is 11. *)
MCFindAddr == (outer :> 7) @@ (inner :> 7) @@ (child :> 11)
MCFindOwner == (outer :> t2) @@ (inner :> t2) @@ (child :> t1)
MCFindChain == (outer :> <<7, 8>>) @@ (inner :> <<7>>) @@ (child :> <<12, 10>>)
MCFutureAt == [a \in MCAddrs |-> CASE a \in {7, 8} -> inner
                                   [] a = 11 -> child [] OTHER -> None]
MCStackPointer == (l1 :> 10) @@ (l2 :> 12)
MCPolling == (t1 :> None) @@ (t2 :> l1) @@ (t3 :> None)

With(op, arg, then) == [op |-> op, by |-> None, arg |-> arg, then |-> then]
Plain(op, arg) == With(op, arg, None)
Scoped(by, arg, then) == [With("scoped", arg, then) EXCEPT !.by = by]

Whatis == Plain("whatis", Last)
BareFuture == Plain("future", None)
Up == Plain("up", None)

(* Lines that move the cursor for good, and lines that only borrow it. *)
MovingLines ==
    { <<Plain("task", t1)>>, <<Plain("task", 2)>>, <<Plain("task", 9)>>,
      <<Plain("task", t3)>>, <<Plain("future", 7)>>, <<Plain("future", 11)>>,
      <<Plain("thread", l2)>>, <<Plain("thread", 9)>>, <<Plain("task", Last)>>,
      <<With("frame", 1, Whatis)>>, <<Plain("frame", None)>>,
      <<With("up", None, Plain("history", None))>>, <<Plain("down", None)>>,
      <<Up, Up, Whatis>> }

BorrowingLines ==
    { <<Scoped("task", t1, With("up", None, Whatis))>>,
      <<Scoped("future", 7, BareFuture), Plain("whatis", None)>>,
      <<Scoped("task", 12, Whatis)>>,
      <<Scoped("task", t2, With("tasks", None, With("up", None, Whatis)))>>,
      <<With("futures", None, BareFuture), Plain("task", None)>>,
      <<With("threads", None, Plain("task", t1)), Plain("thread", None)>>,
      <<With("tasks", None, With("futures", None, With("frame", 1, Whatis)))>>,
      <<With("futures", None, Plain("quit", None)), Whatis>>,
      <<Scoped("task", t1, With("frame", 1, Plain("quit", None))), Up>>,
      <<Plain("history", None)>> }

MCLines == MovingLines \cup BorrowingLines

(* Lines for an answer whose reader leaves, and a loop that carries       *)
(* "history".                                                             *)
HistoryLine == <<With("tasks", None, Plain("history", None))>>

FailingLines ==
    { <<Plain("task", t1)>>, <<Plain("future", 7)>>, <<Plain("thread", l2)>>,
      <<Scoped("task", t1, With("frame", 1, Plain("quit", None))), Up>>,
      <<With("futures", None, With("up", None, BareFuture))>>,
      <<With("tasks", None, With("threads", None, Plain("task", t2)))>>,
      HistoryLine }

AllLines == MCLines \cup FailingLines

=============================================================================
