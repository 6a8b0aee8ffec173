------------------------------ MODULE MCCensus ------------------------------
(***************************************************************************)
(* Small targets for the census, as families in which the words a damaged  *)
(* or unlucky target bends take every value: the links of set nodes, the   *)
(* links and counts of join sets, which future awaits, holds or points at  *)
(* which, and the containers and running tasks between them.               *)
(***************************************************************************)
EXTENDS Census, TLC

MCValues == {"r", "q", "f", "g", "h", "s", "t", "j", "a", "m", "b"}

MCKind == [v \in MCValues |->
            CASE v \in {"s", "t"} -> "Set"
              [] v = "j" -> "JoinSet"
              [] v = "a" -> "Adapter"
              [] v = "m" -> "Fanout"
              [] v = "b" -> "Table"
              [] OTHER -> "Future"]

(* A value by name has an address of its own, off the nodes'. *)
MCAddr == [v \in MCValues |->
            CASE v = "r" -> 101 [] v = "f" -> 102 [] v = "g" -> 103
              [] v = "h" -> 104 [] v = "s" -> 105 [] v = "t" -> 106
              [] v = "q" -> 100 [] v = "j" -> 107 [] v = "a" -> 108 [] v = "m" -> 109
              [] OTHER -> 110]

Task(root, running) == [root |-> root, running |-> running]

Quiet ==
    [tasks |-> <<Task({"r"}, FALSE)>>, access |-> {},
     next |-> [v \in MCValues |-> {}], extent |-> [v \in MCValues |-> 0],
     holds |-> [v \in MCValues |-> <<>>],
     withheld |-> [v \in MCValues |-> 0], items |-> [v \in {"b"} |-> 0],
     buffer |-> [v \in {"m", "b"} |-> 120], heads |-> [v \in {"s", "t", "j"} |-> <<0>>],
     length |-> [v \in {"j"} |-> 0], nodes |-> [a \in {} |-> 0],
     freed |-> {}, live |-> {}]

Holding(w, pairs) == [w EXCEPT !.holds = pairs @@ @]

Node(size, next, slot) == [size |-> size, next |-> next, slot |-> slot]

(* Two sets, the second beside the first or in a child of it, over two nodes
   and a third address that misreads the end of one as another node. *)
Lists ==
    {[Holding(Quiet, holds) EXCEPT
        !.heads = "s" :> <<s>> @@ "t" :> <<t>> @@ @,
        !.nodes = 10 :> Node(4, n10, <<"f">>) @@ 14 :> Node(4, n14, slot)
                    @@ 12 :> Node(1, n12, <<"h">>),
        !.freed = heap.freed, !.live = heap.live]
      : holds \in {"r" :> <<"s", "t">>, "r" :> <<"s">> @@ "f" :> <<"t">> @@ "g" :> <<"q">>},
        s \in {10, 14}, t \in {0, 10, 12, 14},
        n10 \in {0, 12, 14, 99}, n14 \in {0, 10, 12}, n12 \in {0, 10, 14},
        slot \in {<<"g">>, <<>>, Broken},
        heap \in {[freed |-> {}, live |-> {}], [freed |-> {14}, live |-> {}],
                 [freed |-> {}, live |-> {[lo |-> 10, hi |-> 13]}]}}

(* The two lists of a join set, over three entries. *)
Joins ==
    {[Holding(Quiet, "r" :> <<"j", "s">>) EXCEPT
        !.heads = "j" :> <<notified, idle>> @@ @,
        !.length = "j" :> length,
        !.nodes = 20 :> Node(2, n20, <<"q">>) @@ 22 :> Node(2, n22, <<"q">>)
                    @@ 24 :> Node(2, 0, slot)]
      : notified \in {0, 20}, idle \in {0, 20, 22, 24}, length \in 0 .. 3,
        n20 \in {0, 22, 24}, n22 \in {0, 20, 24, 99}, slot \in {<<"q">>, Broken}}

(* Futures held by value by a frame or by one another, which await or point
   at one another in every way from two tasks, some of them adapters that
   hold nothing, one perhaps freed or in a block too small for it. *)
InOrder(first, parent, p) ==
    SelectSeq(IF first THEN <<"f", "g", "h">> ELSE <<"h", "g", "f">>,
              LAMBDA v : parent[v] = p)

Graphs ==
    {[Quiet EXCEPT
        !.tasks = <<Task({"r"}, FALSE), Task({"q"}, FALSE)>>,
        !.holds = "r" :> InOrder(first, parent, "r") @@ "f" :> InOrder(first, parent, "f")
                    @@ "g" :> InOrder(first, parent, "g") @@ @,
        !.access = {v \in access : \A x \in DOMAIN parent : parent[x] # v},
        !.next = "r" :> nr @@ "f" :> nf @@ "g" :> ng @@ "h" :> nh @@ "q" :> nq @@ @,
        !.extent = [v \in MCValues |-> 2],
        !.freed = heap.freed, !.live = heap.live]
      : parent \in {"f" :> "r" @@ "g" :> g @@ "h" :> h : g \in {"r", "f"}, h \in {"r", "g"}},
        first \in BOOLEAN, access \in {{}, {"f"}, {"f", "g"}},
        nr \in {{}, {"f"}, {"g"}, {"h"}}, nf \in {{}, {"g"}, {"h"}},
        ng \in {{}, {"f"}, {"h"}}, nh \in {{}, {"f"}}, nq \in {{}, {"f"}, {"g"}},
        heap \in {[freed |-> {}, live |-> {}], [freed |-> {103}, live |-> {}],
                  [freed |-> {104}, live |-> {}],
                  [freed |-> {}, live |-> {[lo |-> 103, hi |-> 104]}]}}

(* An adapter, a fan-out container and a table between a frame and a future,
   in any order and cyclic, behind a parked task and a running one. *)
Containers ==
    {[Holding(Quiet, "r" :> <<"a", "m", "s">> @@ "m" :> m @@ "b" :> b) EXCEPT
        !.tasks = tasks,
        !.next = "a" :> a @@ "r" :> r @@ @,
        !.items = "b" :> items,
        !.buffer = "m" :> buffer @@ @,
        !.heads = "s" :> <<10>> @@ @,
        !.nodes = 10 :> Node(4, 0, <<"h">>),
        !.withheld = "h" :> withheld @@ @,
        !.freed = freed]
      : tasks \in {<<Task({"r"}, FALSE)>>, <<Task({"r"}, TRUE), Task({"g"}, FALSE)>>,
                   <<Task({}, FALSE), Task({"m"}, FALSE), Task({"r"}, FALSE)>>},
        m \in {<<>>, <<"b", "f">>, <<"a", "f", "g">>}, b \in {<<"m">>, <<"a", "g">>, <<"s">>},
        a \in {{}, {"f"}, {"r"}}, r \in {{}, {"m"}, {"f"}}, items \in {0, 1, 2},
        buffer \in {0, 120}, withheld \in {0, 1}, freed \in {{}, {102}, {120}}}

BentWorlds == {Lists, Joins, Graphs, Containers}

(* Two sets whose nodes are misread inside one another: a node of eight, and
   two within it that do not touch. *)
NestedWorlds ==
    {{[Holding(Quiet, "r" :> <<"s", "t">>) EXCEPT
        !.heads = "s" :> <<10>> @@ "t" :> <<12>> @@ @,
        !.nodes = 10 :> Node(8, 0, <<"f">>) @@ 12 :> Node(2, 15, <<"g">>)
                    @@ 15 :> Node(2, 0, <<>>)]}}
=============================================================================
