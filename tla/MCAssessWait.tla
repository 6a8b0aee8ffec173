---------------------------- MODULE MCAssessWait ----------------------------
(***************************************************************************)
(* Six small programs, each seen whole  and in the ways a core or a tokio  *)
(* info falls short: a lock no rule decodes, lists longer than the visit   *)
(* limit, memory the core lacks, a primitive without a reviewed protocol,  *)
(* a task in conflict about its kind.                                      *)
(***************************************************************************)
EXTENDS AssessWait, TLC

CONSTANTS t1, t2, t3, o1, o2

MCTasks == {t1, t2, t3}
MCOutsiders == {o1, o2}

Each(a, b, c) == (t1 :> a) @@ (t2 :> b) @@ (t3 :> c)

Quiet ==
    [joiner |-> Each(NoOne, NoOne, NoOne), awaits |-> Each({}, {}, {}),
     shapes |-> Each({"await"}, {"await"}, {"await"}), want |-> Each(1, 1, 1),
     holds |-> Each(FALSE, FALSE, FALSE), budget |-> Each(1, 1, 1), permits |-> 0,
     cap |-> 2, senders |-> 0, calls |-> {}, starves |-> FALSE, closesRx |-> FALSE]

Do(x, what) == [by |-> x, do |-> what]
Add(x, n) == [by |-> x, do |-> "add", permits |-> n]
Abort(x, t) == [by |-> x, do |-> "abort", task |-> t]

(* Three acquires on one semaphore, one for two permits, one relayed. *)
Semaphore ==
    [Quiet EXCEPT !.awaits = Each({"acquire"}, {"acquire"}, {"acquire"}),
                  !.shapes = Each({"await"}, {"await", "relayed"}, {"await"}),
                  !.want = Each(2, 1, 1),
                  !.calls = {Add(o1, 1), Add(o2, 2), Do(o1, "close")}]

(* notify_one against notify_waiters, with an abort. *)
Notify ==
    [Quiet EXCEPT !.awaits = Each({"notified"}, {"notified"}, {"notified"}),
                  !.budget = Each(2, 1, 1),
                  !.calls = {Do(o1, "one"), Do(o2, "waiters"), Abort(o1, t3)}]

(* t1 keeps an acquire and awaits a notification or t2, which may be       *)
(* behind it; a wrapper would poll both.                                   *)
Futurelock ==
    [Quiet EXCEPT !.awaits = Each({"notified", "join", "held"}, {"acquire"}, {"acquire"}),
                  !.shapes = Each({"await", "wrapped"}, {"await"}, {"await"}),
                  !.joiner = Each(NoOne, t1, NoOne), !.holds = Each(TRUE, FALSE, FALSE),
                  !.want = Each(2, 1, 1), !.budget = Each(2, 1, 1),
                  !.calls = {Add(o1, 2), Do(o2, "one")}]

(* t1 and t2 join each other; t1 may select over its handle and the        *)
(* acquire it kept.                                                        *)
Joins ==
    [Quiet EXCEPT !.awaits = Each({"join"}, {"join"}, {"acquire"}),
                  !.shapes = Each({"await", "select"}, {"await"}, {"await"}),
                  !.joiner = Each(t2, t1, NoOne), !.holds = Each(TRUE, FALSE, FALSE),
                  !.starves = TRUE, !.budget = Each(2, 1, 1),
                  !.calls = {Do(o1, "close"), Abort(o2, t2)}]

(* A bounded channel with two senders, closed by the last of them or by    *)
(* the receiver.                                                           *)
Channel ==
    [Quiet EXCEPT !.awaits = Each({"recv"}, {}, {}), !.budget = Each(3, 0, 0),
                  !.senders = 2, !.starves = TRUE, !.closesRx = TRUE,
                  !.calls = {Do(o1, "send"), Do(o2, "send"), Do(o1, "txdrop"),
                             Do(o2, "txdrop"), Abort(o1, t1)}]

(* A oneshot or an acquire, starved of its first polls, sent, closed or    *)
(* aborted.                                                                *)
Oneshot ==
    [Quiet EXCEPT !.awaits = Each({"oneshot", "acquire"}, {}, {}), !.starves = TRUE,
                  !.calls = {Do(o1, "send1"), Do(o1, "close"), Abort(o2, t1)}]

MCPrograms == {Semaphore, Notify, Futurelock, Joins, Channel, Oneshot}

Whole == [missing |-> {}, lockRule |-> TRUE, maxChildren |-> 6, conflicts |-> {},
          reviewed |-> {"acquire", "notified", "join", "oneshot", "recv"}]

MCViews == {Whole,
            [Whole EXCEPT !.lockRule = FALSE],
            [Whole EXCEPT !.maxChildren = 1],
            [Whole EXCEPT !.missing = {"sem", "notify", "trailer", "block", "oneshot"}],
            [Whole EXCEPT !.reviewed = {"acquire", "notified", "oneshot", "recv"},
                          !.conflicts = {t3}, !.missing = {"permits", "rxwaker"}]}

=============================================================================
