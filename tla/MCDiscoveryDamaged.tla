------------------------- MODULE MCDiscoveryDamaged -------------------------
(***************************************************************************)
(* Targets whose memory lies: lists that loop, join, leave the mapped     *)
(* memory or stop reading; two lists with one id, or none; cells, headers *)
(* and pool entries that name different owners; and a runtime (r2, r2b)   *)
(* recorded under both flavors.  The discipline of the sweep must hold    *)
(* whatever the target says.                                              *)
(***************************************************************************)
EXTENDS Discovery, TLC

CONSTANTS r1, r2, r2b, h1, h2, l1, t1, t2, t3, i1, i2

MCTasks == {t1, t2, t3}
MCRuntimes == {r1, r2, r2b}
MCHandles == {h1, h2}
MCHandleOf == [r \in MCRuntimes |-> IF r = r1 THEN h1 ELSE h2]
MCLocalSets == {l1}
MCIds == {i1, i2}

Base ==
    [shards    |-> (h1 :> <<t1>>) @@ (h2 :> <<t3>>) @@ (l1 :> <<>>),
     next      |-> [t \in MCTasks |-> Null],
     listId    |-> (h1 :> i1) @@ (h2 :> i2) @@ (l1 :> i2),
     ownerId   |-> (t1 :> i1) @@ (t2 :> i2) @@ (t3 :> i2),
     cell      |-> (t1 :> r1) @@ (t2 :> l1) @@ (t3 :> r2),
     decodable |-> MCTasks,
     complete  |-> {t2},
     refs      |-> (t1 :> <<t2>>) @@ (t2 :> <<t3>>) @@ (t3 :> <<t1>>),
     timers    |-> (h1 :> <<>>) @@ (h2 :> <<t2>>),
     io        |-> (h1 :> <<>>) @@ (h2 :> <<>>),
     pool      |-> (h1 :> <<>>) @@ (h2 :> <<>>),
     runtimes  |-> <<r1>>,
     excluded  |-> {},
     tls       |-> <<>>,
     limit     |-> 99]

(* Lists that loop, join, run wild or break. *)
TangledWorlds ==
    {[Base EXCEPT !.shards = (h1 :> s1) @@ (h2 :> <<t3>>) @@ (l1 :> sl),
                  !.next = (t1 :> n1) @@ (t2 :> n2) @@ (t3 :> n3),
                  !.tls = <<l1>>] :
       s1 \in {<<t1>>, <<t1, t2>>, <<Wild, t1>>, <<t1, Null, t1>>},
       sl \in {<<>>, <<t3>>, <<t2, t3>>},
       n1 \in {t2, Null}, n2 \in {t1, t3, Wild, Broken, Null},
       n3 \in {Null, t2, Broken}}

(* Evidence that contradicts itself. *)
ContradictoryWorlds ==
    {[Base EXCEPT !.shards[l1] = sl,
                  !.next[t1] = to[1],
                  !.listId = (h1 :> i1) @@ (h2 :> id[1]) @@ (l1 :> i2),
                  !.ownerId = (t1 :> i1) @@ (t2 :> o2) @@ (t3 :> id[2]),
                  !.cell = (t1 :> r1) @@ (t2 :> c2) @@ (t3 :> c3),
                  !.refs[t1] = to[2],
                  !.pool[h1] = p,
                  !.excluded = x,
                  !.tls = IF sl = <<>> THEN <<>> ELSE <<l1>>] :
       sl \in {<<>>, <<t3>>},
       to \in {<<Null, <<t3>>>>, <<Null, <<t2, t3>>>>, <<t2, <<t3>>>>},
       id \in {<<i1, i1>>, <<i2, i2>>, <<NoId, i2>>, <<i2, i1>>},
       o2 \in {i1, i2, NoId}, c2 \in {r2, r2b, l1, Blocking},
       c3 \in {r2, Unclassified}, p \in {<<>>, <<t2>>, <<t3, t3>>},
       x \in {{}, {h2}}}

(* A task linked in r1's list whose header and cell say the local set's. *)
MislinkedWorlds == {[Base EXCEPT !.next[t1] = t2, !.complete = {}]}

(* A task its cell gives to the excluded r2, found queued in r1's pool. *)
DoublyOwnedWorlds ==
    {[Base EXCEPT !.excluded = {h2}, !.refs[t1] = <<t3>>, !.pool[h1] = <<t3>>]}

DamagedWorlds == TangledWorlds \cup ContradictoryWorlds
=============================================================================
