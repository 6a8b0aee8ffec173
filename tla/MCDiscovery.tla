---------------------------- MODULE MCDiscovery ----------------------------
(***************************************************************************)
(* Targets a healthy tokio process can leave behind: one runtime a thread *)
(* is inside (r1), one that is idle or that "--runtime" excludes (r2), a  *)
(* local set, and three tasks, the first always in the root's list.  A    *)
(* listed task carries its list's id and its cell names the list's owner; *)
(* only blocking cells are queued in a pool.                              *)
(***************************************************************************)
EXTENDS Discovery, TLC

CONSTANTS r1, r2, h1, h2, l1, t1, t2, t3, i1, i2, i3

MCTasks == {t1, t2, t3}
MCRuntimes == {r1, r2}
MCHandles == {h1, h2}
MCHandleOf == [r \in MCRuntimes |-> IF r = r1 THEN h1 ELSE h2]
MCLocalSets == {l1}
MCIds == {i1, i2, i3}
MCOwners == MCRuntimes \cup MCLocalSets

OwnedId(o) == CASE o = r1 -> i1 [] o = r2 -> i2 [] o = l1 -> i3

(* Where a task lives: in its owner's list, bound to an owner that no     *)
(* longer links it, in a pool's queue, a blocking cell out of every       *)
(* queue, or a cell the tokio info does not describe.                     *)
Place == ({"listed"} \X MCOwners) \cup ({"unlisted"} \X {r2, l1})
           \cup ({"pooled"} \X {r1, r2})
           \cup {<<"stray", r1>>, <<"unclassified", r1>>}

(* The tasks of S in address order. *)
Chain(S) == SelectSeq(<<t1, t2, t3>>, LAMBDA t : t \in S)

ListOf(place, o) == Chain({t \in MCTasks : place[t] = <<"listed", o>>})

PoolOf(place, o) == Chain({t \in MCTasks : place[t] = <<"pooled", o>>})

NextIn(place, t) ==
    LET s == Chain({u \in MCTasks : place[u] = place[t]})
        i == CHOOSE i \in DOMAIN s : s[i] = t
    IN IF place[t][1] = "listed" /\ i < Len(s) THEN s[i + 1] ELSE Null

OwnerAt(h) == CASE h = h1 -> r1 [] h = h2 -> r2 [] h = l1 -> l1

Healthy(place, refs, waker, quirk, excluded, tls) ==
    [shards    |-> [h \in {h1, h2, l1} |->
                      LET s == ListOf(place, OwnerAt(h))
                      IN IF s = <<>> THEN <<Null>> ELSE <<Null, Head(s)>>],
     next      |-> [t \in MCTasks |-> NextIn(place, t)],
     listId    |-> [h \in {h1, h2, l1} |-> OwnedId(OwnerAt(h))],
     ownerId   |-> [t \in MCTasks |-> IF place[t][1] \in {"listed", "unlisted"}
                                      THEN OwnedId(place[t][2]) ELSE NoId],
     cell      |-> [t \in MCTasks |->
                      CASE place[t][1] \in {"listed", "unlisted"} -> place[t][2]
                        [] place[t][1] = "unclassified" -> Unclassified
                        [] OTHER -> Blocking],
     decodable |-> quirk.decodable,
     complete  |-> quirk.complete,
     refs      |-> refs,
     timers    |-> [h \in {h1, h2} |-> IF h = h1 THEN waker ELSE <<>>],
     io        |-> [h \in {h1, h2} |-> IF h = h2 THEN waker ELSE <<>>],
     pool      |-> [h \in {h1, h2} |-> PoolOf(place, OwnerAt(h))],
     runtimes  |-> <<r1>>,
     excluded  |-> excluded,
     tls       |-> tls,
     limit     |-> quirk.limit]

Quirks == {[decodable |-> MCTasks, complete |-> {t2}, limit |-> 99],
           [decodable |-> MCTasks \ {t3}, complete |-> {}, limit |-> 99],
           [decodable |-> MCTasks, complete |-> {t3}, limit |-> 5]}

(* What the selection leaves out, and what the thread-local probe reads. *)
Sessions == {<<{}, <<>>>>, <<{h2}, <<>>>>, <<{h2}, <<l1, l1>>>>}

HealthyWorlds ==
    {Healthy((t1 :> <<"listed", r1>>) @@ (t2 :> p2) @@ (t3 :> p3),
             (t1 :> f1) @@ (t2 :> f[1]) @@ (t3 :> f[2]), w, q, x[1], x[2]) :
       p2 \in Place, p3 \in Place,
       f1 \in {<<>>, <<t2>>, <<t3, t2>>},
       f \in {<<<<>>, <<>>>>, <<<<t3>>, <<t2, t1>>>>},
       w \in {<<>>, <<t3>>}, q \in Quirks, x \in Sessions}

=============================================================================
