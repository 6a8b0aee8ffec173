---------------------------- MODULE CensusProofs ----------------------------
(***************************************************************************)
(* Why the census can be believed on a damaged target: proofs, for every   *)
(* target of any size, however its links, awaits and counts are bent, and  *)
(* for every bound, that no row is listed twice or out of freed memory,    *)
(* that damage to a list is named, that a find names its holder, and that  *)
(* every step makes headway.                                               *)
(***************************************************************************)
EXTENDS Census, SequenceTheorems, FiniteSetTheorems, WellFoundedInduction, TLAPS

-----------------------------------------------------------------------------
(* Iteration: the walks are functions of the number of steps taken.        *)

(* A non-empty set of naturals has a least element. *)
LEMMA SomeLeast ==
    ASSUME NEW S, S \subseteq Nat, S # {}
    PROVE  \E i \in S : \A j \in S : i <= j
<1>1. PICK i \in S : \A j \in S : <<j, i>> \notin OpToRel(<, Nat)
  BY NatLessThanWellFounded, WFMin
<1>2. \A j \in S : ~ (j < i)
  BY <1>1 DEF OpToRel
<1> QED BY <1>2

(* The elements of a sequence are of its type. *)
LEMMA Elements ==
    ASSUME NEW S, NEW q \in Seq(S)
    PROVE  /\ Len(q) \in Nat /\ DOMAIN q = 1 .. Len(q)
           /\ \A i \in 1 .. Len(q) : q[i] \in S
OBVIOUS

(* What holds at the start and is kept by every step holds throughout. *)
LEMMA Throughout ==
    ASSUME NEW T, NEW first \in Nat, NEW last \in Nat, NEW f, f[first] \in T,
           \A n \in (first + 1) .. last : f[n - 1] \in T => f[n] \in T
    PROVE  \A n \in first .. last : f[n] \in T
<1> DEFINE C == {n \in first .. last : f[n] \notin T}
<1> SUFFICES ASSUME C # {}
             PROVE  FALSE
  OBVIOUS
<1>0. C \subseteq Nat
  OBVIOUS
<1>1. PICK k \in C : \A j \in C : k <= j
  <2> HIDE DEF C
  <2> QED BY <1>0, SomeLeast
<1>2. k # first
  BY <1>1
<1>3. k - 1 \in first .. last /\ k - 1 \notin C /\ k \in (first + 1) .. last
  BY <1>1, <1>2
<1> QED BY <1>1, <1>3

(* A step as a table over T, and what taking it from first to last gives. *)
StepTable(st, T) == st \in [Nat \X T -> T]

IsIteration(f, T, base, st, first, last) ==
    /\ f \in [first .. last -> T] /\ f[first] = base
    /\ \A n \in (first + 1) .. last : f[n] = st[<<n, f[n - 1]>>]

(* A step that is a table over T can be taken as often as one likes. *)
LEMMA Iterates ==
    ASSUME NEW T, NEW base \in T, NEW first \in Nat, NEW last \in Nat, first <= last,
           NEW st, StepTable(st, T)
    PROVE  \E f : IsIteration(f, T, base, st, first, last)
<1> USE DEF StepTable, IsIteration
<1> DEFINE Is(f, k) == IsIteration(f, T, base, st, first, k)
           C == {k \in first .. last : ~ \E f : Is(f, k)}
<1>1. C = {}
  <2> SUFFICES ASSUME C # {}
               PROVE  FALSE
    OBVIOUS
  <2>0. C \subseteq Nat
    OBVIOUS
  <2>1. PICK k \in C : \A j \in C : k <= j
    <3> HIDE DEF C
    <3> QED BY <2>0, SomeLeast
  <2>2. k # first
    <3> DEFINE f == [n \in first .. first |-> base]
    <3>1. Is(f, first)
      OBVIOUS
    <3> QED BY <2>1, <3>1
  <2>3. k - 1 \in first .. last /\ k - 1 \notin C
    <3>1. k \in first .. last
      BY <2>1
    <3>2. k - 1 \in first .. last
      BY <2>2, <3>1
    <3>3. k - 1 \notin C
      <4> HIDE DEF C
      <4> QED BY <2>1, <3>1
    <3> QED BY <3>2, <3>3
  <2>4. PICK f : Is(f, k - 1)
    BY <2>3
  <2> DEFINE g == [n \in first .. k |-> IF n = k THEN st[<<k, f[k - 1]>>] ELSE f[n]]
  <2>5. g \in [first .. k -> T]
    <3>1. f[k - 1] \in T /\ \A n \in first .. k : n # k => f[n] \in T
      BY <2>1, <2>3, <2>4
    <3>2. st[<<k, f[k - 1]>>] \in T
      BY <2>1, <3>1
    <3> QED BY <3>1, <3>2
  <2>6. g[first] = base
    BY <2>1, <2>2, <2>4
  <2>7. ASSUME NEW n \in (first + 1) .. k
        PROVE  g[n] = st[<<n, g[n - 1]>>]
    <3>1. n - 1 \in first .. k /\ n - 1 # k /\ g[n - 1] = f[n - 1]
      BY <2>1
    <3>2. CASE n = k
      BY <2>1, <3>1, <3>2
    <3>3. CASE n # k
      <4>1. n \in (first + 1) .. (k - 1) /\ g[n] = f[n]
        BY <2>1, <3>3
      <4>2. f[n] = st[<<n, f[n - 1]>>]
        BY <2>4, <4>1
      <4> QED BY <3>1, <4>1, <4>2
    <3> QED BY <3>2, <3>3
  <2>8. Is(g, k)
    BY <2>5, <2>6, <2>7
  <2> QED BY <2>1, <2>8
<1>2. PICK f : Is(f, last)
  BY <1>1
<1> QED BY <1>2

(* The sequences laid end to end are of what they are of. *)
LEMMA Flattened ==
    ASSUME NEW S, NEW seqs \in Seq(Seq(S))
    PROVE  FlattenSeq(seqs) \in Seq(S)
<1>1. CASE Len(seqs) = 0
  BY <1>1 DEF FlattenSeq
<1>2. CASE Len(seqs) # 0
  <2> DEFINE T == Seq(S)
             flatten == CHOOSE f : f = [i \in 1 .. Len(seqs) |->
                           IF i = 1 THEN seqs[i] ELSE f[i - 1] \o seqs[i]]
  <2>1. PICK N \in Nat \ {0} : N = Len(seqs)
    BY <1>2
  <2>2. \A i \in 1 .. N : seqs[i] \in T
    BY <2>1
  <2> DEFINE Out(n, q) == IF n \in 1 .. N THEN q \o seqs[n] ELSE q
             st == [p \in Nat \X T |-> Out(p[1], p[2])]
  <2>3. \A n \in Nat, q \in T : Out(n, q) \in T
    BY <2>2, ConcatProperties
  <2> HIDE DEF T
  <2>4. st \in [Nat \X T -> T] /\ \A n \in Nat, q \in T : st[<<n, q>>] = Out(n, q)
    <3> HIDE DEF Out
    <3> QED BY <2>3
  <2>5. PICK f \in [1 .. N -> T] :
           /\ f[1] = seqs[1]
           /\ \A n \in (1 + 1) .. N : f[n] = st[<<n, f[n - 1]>>]
    <3>1. seqs[1] \in T /\ 1 \in Nat /\ N \in Nat /\ 1 <= N
      BY <2>2
    <3>2. StepTable(st, T)
      BY <2>4 DEF StepTable
    <3> HIDE DEF st, Out, flatten
    <3>3. \E f : IsIteration(f, T, seqs[1], st, 1, N)
      BY <3>1, <3>2, Iterates
    <3> QED BY <3>3 DEF IsIteration
  <2>6. ASSUME NEW n \in 1 .. N, n # 1
        PROVE  f[n] = f[n - 1] \o seqs[n]
    <3>1. n \in Nat /\ n \in (1 + 1) .. N /\ f[n - 1] \in T
      BY <2>6
    <3>2. f[n] = st[<<n, f[n - 1]>>] /\ st[<<n, f[n - 1]>>] = Out(n, f[n - 1])
      <4> HIDE DEF st, Out
      <4> QED BY <2>4, <2>5, <3>1
    <3> QED BY <3>2
  <2>7. f = [i \in 1 .. Len(seqs) |-> IF i = 1 THEN seqs[i] ELSE f[i - 1] \o seqs[i]]
    <3>1. \A i \in 1 .. N : f[i] = IF i = 1 THEN seqs[i] ELSE f[i - 1] \o seqs[i]
      BY <2>5, <2>6
    <3>2. f = [i \in 1 .. N |-> f[i]]
      OBVIOUS
    <3> QED BY <2>1, <3>1, <3>2
  <2>8. flatten = [i \in 1 .. N |-> IF i = 1 THEN seqs[i] ELSE flatten[i - 1] \o seqs[i]]
    BY <2>1, <2>7
  <2> HIDE DEF flatten
  <2>9. ASSUME NEW n \in (1 + 1) .. N, flatten[n - 1] \in T
        PROVE  flatten[n] \in T
    <3>1. n \in 1 .. N /\ n # 1
      OBVIOUS
    <3>2. flatten[n] = flatten[n - 1] \o seqs[n]
      BY <2>8, <3>1
    <3> QED BY <2>2, <2>9, <3>1, <3>2, ConcatProperties DEF T
  <2>10. flatten[1] \in T
    BY <2>2, <2>8
  <2>11. \A n \in 1 .. N : flatten[n] \in T
    BY <2>9, <2>10, Throughout
  <2>12. FlattenSeq(seqs) = flatten[Len(seqs)]
    BY <1>2 DEF FlattenSeq, flatten
  <2> QED BY <2>1, <2>11, <2>12 DEF T
<1> QED BY <1>1, <1>2

-----------------------------------------------------------------------------
(* What the operators of the walk return, on any target.                   *)

Ends == {"open", "leaf", "refused", "depth", "cycle"}

ChainRecord == [frames : Seq(Values), end : Ends]

Chains == {c \in ChainRecord : Len(c.frames) > 0}

(* The address of a node a walk may list. *)
Listable(a) ==
    a \in DOMAIN world.nodes /\ a \in Nat /\ ~ TakenBack(a) /\ world.nodes[a].slot # Broken

WalkRecord == [nodes : Seq(Nat), cur : Nat, stop : SUBSET Nat]

Walks == {w \in WalkRecord :
            /\ \A c \in DOMAIN w.nodes : Listable(w.nodes[c])
            /\ \A c, d \in DOMAIN w.nodes : w.nodes[c] = w.nodes[d] => c = d}

(* A chain with a field replaced. *)
LEMMA ChainEdits ==
    ASSUME NEW c \in [frames : Seq(Values), end : Ends], NEW e \in Ends,
           NEW fs \in Seq(Values)
    PROVE  /\ [c EXCEPT !.end = e] \in ChainRecord
           /\ [c EXCEPT !.end = e].frames = c.frames
           /\ [c EXCEPT !.frames = fs] \in ChainRecord
           /\ [c EXCEPT !.frames = fs].frames = fs
BY DEF ChainRecord

(* A step along a chain gives a chain. *)
LEMMA AwaitType ==
    ASSUME Target(world), NEW chain \in Chains
    PROVE  Await(chain) \in Chains
<1> DEFINE ahead == world.next[Last(chain.frames)]
<1>1. /\ chain \in [frames : Seq(Values), end : Ends]
      /\ chain.frames \in Seq(Values) /\ Len(chain.frames) > 0
  BY DEF Chains, ChainRecord
<1>2. Last(chain.frames) \in Values
  BY <1>1 DEF Last
<1>3. ahead \in SUBSET Values
  BY <1>2 DEF Target
<1>4. ASSUME NEW e \in Ends
      PROVE  [chain EXCEPT !.end = e] \in Chains
  BY <1>1, <1>4, ChainEdits, Zenon DEF Chains
<1>5. ASSUME ahead # {}
      PROVE  [chain EXCEPT !.frames = Append(@, CHOOSE v \in ahead : TRUE)] \in Chains
  <2>1. PICK v \in Values : v = CHOOSE x \in ahead : TRUE
    BY <1>3, <1>5
  <2>2. PICK fs \in Seq(Values) : fs = Append(chain.frames, v) /\ Len(fs) > 0
    <3>1. PICK q \in Seq(Values) : q = chain.frames
      BY <1>1
    <3>2. Append(q, v) \in Seq(Values) /\ Len(Append(q, v)) = Len(q) + 1 /\ Len(q) \in Nat
      BY AppendProperties
    <3>3. Len(Append(q, v)) > 0
      BY <3>2
    <3> QED BY <3>1, <3>2, <3>3
  <2>3. [chain EXCEPT !.frames = fs] \in Chains
    BY <1>1, <2>2, ChainEdits, Zenon DEF Chains
  <2> HIDE DEF ahead
  <2> QED BY <2>1, <2>2, <2>3
<1>6. /\ [chain EXCEPT !.end = "leaf"] \in Chains
      /\ [chain EXCEPT !.end = "refused"] \in Chains
      /\ [chain EXCEPT !.end = "depth"] \in Chains
      /\ [chain EXCEPT !.end = "cycle"] \in Chains
  <2>1. "leaf" \in Ends /\ "refused" \in Ends /\ "depth" \in Ends /\ "cycle" \in Ends
    BY DEF Ends
  <2> QED BY <1>4, <2>1, Zenon
<1> QED
  BY <1>5, <1>6, Zenon DEF Await

(* The chain from a value is one: it starts there, or at least somewhere. *)
LEMMA ChainType ==
    ASSUME Target(world), NEW root \in Values
    PROVE  InspectFuture(root) \in Chains
<1> DEFINE N == MAX_AWAIT_DEPTH
           base == [frames |-> <<root>>, end |-> "open"]
           st == [p \in Nat \X Chains |-> Await(p[2])]
           after == CHOOSE f : f = [n \in 0 .. N |-> IF n = 0 THEN base ELSE Await(f[n - 1])]
<1>1. N \in Nat /\ 0 \in Nat /\ 0 <= N
  BY BoundsAssumption
<1>2. base \in Chains
  <2>1. <<root>> \in Seq(Values) /\ Len(<<root>>) = 1
    OBVIOUS
  <2>2. base \in [frames : Seq(Values), end : Ends] /\ base.frames = <<root>>
    BY <2>1 DEF Ends
  <2> HIDE DEF base
  <2> QED BY <2>1, <2>2 DEF Chains, ChainRecord
<1>3. \A n \in Nat, c \in Chains : st[<<n, c>>] = Await(c) /\ Await(c) \in Chains
  BY AwaitType
<1>4. StepTable(st, Chains)
  BY AwaitType DEF StepTable
<1> HIDE DEF N, base, st
<1>5. PICK f : IsIteration(f, Chains, base, st, 0, N)
  BY <1>1, <1>2, <1>4, Iterates
<1>6. /\ f \in [0 .. N -> Chains] /\ f[0] = base
      /\ \A n \in (0 + 1) .. N : f[n] = st[<<n, f[n - 1]>>]
  BY <1>5 DEF IsIteration
<1>7. ASSUME NEW n \in 0 .. N
      PROVE  f[n] = IF n = 0 THEN base ELSE Await(f[n - 1])
  <2>1. CASE n # 0
    <3>1. n \in (0 + 1) .. N /\ n - 1 \in 0 .. N /\ n \in Nat
      BY <1>1, <2>1
    <3> QED BY <1>3, <1>6, <2>1, <3>1
  <2> QED BY <1>6, <2>1
<1>8. f = [n \in 0 .. N |-> IF n = 0 THEN base ELSE Await(f[n - 1])]
  <2>1. f = [n \in 0 .. N |-> f[n]]
    BY <1>6
  <2> QED BY <1>7, <2>1
<1>9. after = [n \in 0 .. N |-> IF n = 0 THEN base ELSE Await(after[n - 1])]
  BY <1>8
<1>10. InspectFuture(root) = after[N]
  BY DEF InspectFuture, N, base
<1> HIDE DEF after
<1>11. ASSUME NEW n \in (0 + 1) .. N, after[n - 1] \in Chains
       PROVE  after[n] \in Chains
  <2>1. n \in 0 .. N /\ n # 0
    BY <1>1
  <2> QED BY <1>9, <1>11, <2>1, AwaitType
<1>12. after[0] \in Chains
  BY <1>1, <1>2, <1>9
<1>13. \A n \in 0 .. N : after[n] \in Chains
  BY <1>1, <1>11, <1>12, Throughout
<1> QED BY <1>1, <1>10, <1>13

(* The identity of a chain is one of its frames. *)
LEMMA IdentityType ==
    ASSUME NEW chain \in Chains
    PROVE  Identity(chain) \in Values
<1> DEFINE plain == {i \in DOMAIN chain.frames : chain.frames[i] \notin world.access}
           i == IF plain = {} THEN 1 ELSE Min(plain)
<1>1. chain.frames \in Seq(Values) /\ Len(chain.frames) > 0
  BY DEF Chains, ChainRecord
<1>2. plain \subseteq Nat /\ plain \subseteq DOMAIN chain.frames
  BY <1>1
<1>3. i \in DOMAIN chain.frames
  <2>1. CASE plain # {}
    <3>1. \E x \in plain : \A y \in plain : x <= y
      <4> HIDE DEF plain
      <4> QED BY <1>2, <2>1, SomeLeast
    <3>2. Min(plain) \in plain
      <4> HIDE DEF plain
      <4> QED BY <3>1 DEF Min
    <3> HIDE DEF plain
    <3> QED BY <1>2, <2>1, <3>2
  <2> QED BY <1>1, <2>1
<1>4. Identity(chain) = chain.frames[i]
  BY DEF Identity
<1> HIDE DEF i
<1> QED BY <1>1, <1>3, <1>4

(* A walk with a field replaced. *)
LEMMA WalkEdits ==
    ASSUME NEW w \in [nodes : Seq(Nat), cur : Nat, stop : SUBSET Nat],
           NEW q \in Seq(Nat), NEW a \in Nat, NEW s \in SUBSET Nat
    PROVE  /\ [w EXCEPT !.stop = s] \in WalkRecord /\ [w EXCEPT !.stop = s].nodes = w.nodes
           /\ [w EXCEPT !.cur = a] \in WalkRecord /\ [w EXCEPT !.cur = a].nodes = w.nodes
           /\ [w EXCEPT !.nodes = q, !.cur = a] \in WalkRecord
           /\ [w EXCEPT !.nodes = q, !.cur = a].nodes = q
BY DEF WalkRecord

(* What NodeWalk::admit lets through is mapped, the program's own, and not
   listed yet; what it stops with is addresses. *)
LEMMA Admitted ==
    ASSUME NEW walk, NEW a \in Nat
    PROVE  /\ Admit(walk, a) \in SUBSET Nat
           /\ Admit(walk, a) = {} =>
                a \in DOMAIN world.nodes /\ ~ TakenBack(a) /\ a \notin ToSet(walk.nodes)
BY DEF Admit, Refused

(* A step of a walk gives a walk. *)
LEMMA VisitType ==
    ASSUME Target(world), NEW walk \in Walks
    PROVE  Visit(walk) \in Walks
<1>1. /\ walk \in [nodes : Seq(Nat), cur : Nat, stop : SUBSET Nat]
      /\ walk.nodes \in Seq(Nat) /\ walk.cur \in Nat
      /\ \A c \in DOMAIN walk.nodes : Listable(walk.nodes[c])
      /\ \A c, d \in DOMAIN walk.nodes : walk.nodes[c] = walk.nodes[d] => c = d
  BY DEF Walks, WalkRecord
<1>2. ASSUME NEW s \in SUBSET Nat
      PROVE  [walk EXCEPT !.stop = s] \in Walks
  <2>1. [walk EXCEPT !.stop = s] \in WalkRecord /\ [walk EXCEPT !.stop = s].nodes = walk.nodes
    BY <1>1, <1>2, WalkEdits, Zenon
  <2> QED BY <1>1, <2>1, Zenon DEF Walks
<1>3. ASSUME Admit(walk, walk.cur) = {}, world.nodes[walk.cur].slot # Broken
      PROVE  [walk EXCEPT !.nodes = Append(@, walk.cur),
                          !.cur = world.nodes[walk.cur].next] \in Walks
  <2>1. /\ walk.cur \in DOMAIN world.nodes /\ ~ TakenBack(walk.cur)
        /\ walk.cur \notin ToSet(walk.nodes)
    BY <1>1, <1>3, Admitted
  <2>2. Listable(walk.cur)
    BY <1>1, <1>3, <2>1 DEF Listable
  <2>3. PICK a \in Nat : a = world.nodes[walk.cur].next
    BY <2>1 DEF Target
  <2>4. PICK old \in Seq(Nat) :
           /\ old = walk.nodes
           /\ \A c \in DOMAIN old : Listable(old[c])
           /\ \A c, d \in DOMAIN old : old[c] = old[d] => c = d
    BY <1>1
  <2>5. PICK cur \in Nat : cur = walk.cur
    BY <1>1
  <2>6. PICK q \in Seq(Nat) : q = Append(old, cur)
    BY AppendProperties
  <2>7. /\ Len(old) \in Nat /\ DOMAIN old = 1 .. Len(old) /\ DOMAIN q = 1 .. (Len(old) + 1)
        /\ \A c \in 1 .. Len(old) : q[c] = old[c]
        /\ q[Len(old) + 1] = cur
    BY <2>6, AppendProperties
  <2>8. \A c \in DOMAIN q : Listable(q[c])
    <3> TAKE c \in DOMAIN q
    <3>1. CASE c = Len(old) + 1
      BY <2>2, <2>5, <2>7, <3>1
    <3>2. CASE c # Len(old) + 1
      <4>1. c \in DOMAIN old /\ q[c] = old[c]
        BY <2>7, <3>2
      <4> QED BY <2>4, <4>1
    <3> QED BY <3>1, <3>2
  <2>9. \A c \in DOMAIN old : old[c] # cur
    BY <2>1, <2>4, <2>5 DEF ToSet
  <2>10. \A c, d \in DOMAIN q : q[c] = q[d] => c = d
    <3> TAKE c, d \in DOMAIN q
    <3>1. CASE c \in DOMAIN old /\ d \in DOMAIN old
      BY <2>4, <2>7, <3>1
    <3>2. CASE c \notin DOMAIN old \/ d \notin DOMAIN old
      BY <2>7, <2>9, <3>2
    <3> QED BY <3>1, <3>2
  <2>11. PICK w : w = [walk EXCEPT !.nodes = q, !.cur = a]
    OBVIOUS
  <2>12. w \in WalkRecord /\ w.nodes = q
    BY <1>1, <2>11, WalkEdits, Zenon
  <2>13. w \in Walks
    BY <2>8, <2>10, <2>12, Zenon DEF Walks
  <2> QED BY <2>3, <2>4, <2>5, <2>6, <2>11, <2>13, Zenon
<1>4. Admit(walk, walk.cur) \in SUBSET Nat /\ {walk.cur} \in SUBSET Nat
  BY <1>1, Admitted
<1>5. /\ [walk EXCEPT !.stop = Admit(walk, walk.cur)] \in Walks
      /\ [walk EXCEPT !.stop = {walk.cur}] \in Walks
  BY <1>2, <1>4, Zenon
<1> QED BY <1>3, <1>5, Zenon DEF Visit

(* The walk of one list, taken up where another left off, is a walk. *)
LEMMA WalkNodesType ==
    ASSUME Target(world), NEW start \in Walks, NEW head \in Nat
    PROVE  WalkNodes(start, head) \in Walks
<1> DEFINE N == MAX_CHILDREN + 1
           base == [start EXCEPT !.cur = head]
           st == [p \in Nat \X Walks |-> Visit(p[2])]
           after == CHOOSE f : f = [n \in 0 .. N |-> IF n = 0 THEN base ELSE Visit(f[n - 1])]
<1>1. N \in Nat /\ 0 \in Nat /\ 0 <= N
  BY BoundsAssumption
<1>2. base \in Walks
  <2>1. /\ start \in [nodes : Seq(Nat), cur : Nat, stop : SUBSET Nat]
        /\ \A c \in DOMAIN start.nodes : Listable(start.nodes[c])
        /\ \A c, d \in DOMAIN start.nodes : start.nodes[c] = start.nodes[d] => c = d
    BY DEF Walks, WalkRecord
  <2>2. base \in WalkRecord /\ base.nodes = start.nodes
    BY <2>1, WalkEdits, Zenon
  <2> HIDE DEF base
  <2> QED BY <2>1, <2>2, Zenon DEF Walks
<1>3. \A n \in Nat, c \in Walks : st[<<n, c>>] = Visit(c) /\ Visit(c) \in Walks
  BY VisitType
<1>4. StepTable(st, Walks)
  BY VisitType DEF StepTable
<1> HIDE DEF N, base, st
<1>5. PICK f : IsIteration(f, Walks, base, st, 0, N)
  BY <1>1, <1>2, <1>4, Iterates
<1>6. /\ f \in [0 .. N -> Walks] /\ f[0] = base
      /\ \A n \in (0 + 1) .. N : f[n] = st[<<n, f[n - 1]>>]
  BY <1>5 DEF IsIteration
<1>7. ASSUME NEW n \in 0 .. N
      PROVE  f[n] = IF n = 0 THEN base ELSE Visit(f[n - 1])
  <2>1. CASE n # 0
    <3>1. n \in (0 + 1) .. N /\ n - 1 \in 0 .. N /\ n \in Nat
      BY <1>1, <2>1
    <3> QED BY <1>3, <1>6, <2>1, <3>1
  <2> QED BY <1>6, <2>1
<1>8. f = [n \in 0 .. N |-> IF n = 0 THEN base ELSE Visit(f[n - 1])]
  <2>1. f = [n \in 0 .. N |-> f[n]]
    BY <1>6
  <2> QED BY <1>7, <2>1
<1>9. after = [n \in 0 .. N |-> IF n = 0 THEN base ELSE Visit(after[n - 1])]
  BY <1>8
<1>10. WalkNodes(start, head) = after[N]
  BY DEF WalkNodes, N, base
<1> HIDE DEF after
<1>11. ASSUME NEW n \in (0 + 1) .. N, after[n - 1] \in Walks
       PROVE  after[n] \in Walks
  <2>1. n \in 0 .. N /\ n # 0
    BY <1>1
  <2> QED BY <1>9, <1>11, <2>1, VisitType
<1>12. after[0] \in Walks
  BY <1>1, <1>2, <1>9
<1>13. \A n \in 0 .. N : after[n] \in Walks
  BY <1>1, <1>11, <1>12, Throughout
<1> QED BY <1>1, <1>10, <1>13

(* So is the walk of a join set's lists, one after the other. *)
LEMMA WalkListsType ==
    ASSUME Target(world), NEW heads \in Seq(Nat)
    PROVE  WalkLists(heads) \in Walks
<1> DEFINE N == Len(heads)
           Resume(w, head) == IF w.stop = {} THEN WalkNodes(w, head) ELSE w
           Out(n, w) == IF n \in 1 .. N THEN Resume(w, heads[n]) ELSE w
           st == [p \in Nat \X Walks |-> Out(p[1], p[2])]
           after == CHOOSE f : f = [n \in 0 .. N |->
                       IF n = 0 THEN NewWalk ELSE Resume(f[n - 1], heads[n])]
<1>1. N \in Nat /\ 0 \in Nat /\ 0 <= N /\ \A n \in 1 .. N : heads[n] \in Nat
  OBVIOUS
<1>2. NewWalk \in Walks
  <2>1. NewWalk \in WalkRecord /\ NewWalk.nodes = <<>>
    BY DEF NewWalk, WalkRecord
  <2> QED BY <2>1 DEF Walks
<1>3. \A w \in Walks, head \in Nat : Resume(w, head) \in Walks
  BY WalkNodesType
<1>4. WalkLists(heads) = after[N]
  BY DEF WalkLists
<1> HIDE DEF N, Resume
<1>5. \A n \in Nat, w \in Walks : Out(n, w) \in Walks
  BY <1>1, <1>3
<1>6. \A n \in Nat, w \in Walks : st[<<n, w>>] = Out(n, w)
  OBVIOUS
<1>7. StepTable(st, Walks)
  <2> HIDE DEF Out
  <2> QED BY <1>5 DEF StepTable
<1> HIDE DEF st
<1>8. PICK f : IsIteration(f, Walks, NewWalk, st, 0, N)
  BY <1>1, <1>2, <1>7, Iterates
<1>9. /\ f \in [0 .. N -> Walks] /\ f[0] = NewWalk
      /\ \A n \in (0 + 1) .. N : f[n] = st[<<n, f[n - 1]>>]
  BY <1>8 DEF IsIteration
<1>10. ASSUME NEW n \in 0 .. N
       PROVE  f[n] = IF n = 0 THEN NewWalk ELSE Resume(f[n - 1], heads[n])
  <2>1. CASE n # 0
    <3>1. n \in (0 + 1) .. N /\ n \in 1 .. N /\ n - 1 \in 0 .. N /\ n \in Nat
      BY <1>1, <2>1
    <3>2. f[n] = Out(n, f[n - 1])
      <4> HIDE DEF Out
      <4> QED BY <1>6, <1>9, <3>1
    <3> QED BY <2>1, <3>1, <3>2
  <2> QED BY <1>9, <2>1
<1>11. f = [n \in 0 .. N |-> IF n = 0 THEN NewWalk ELSE Resume(f[n - 1], heads[n])]
  <2>1. f = [n \in 0 .. N |-> f[n]]
    BY <1>9
  <2> QED BY <1>10, <2>1
<1>12. after = [n \in 0 .. N |-> IF n = 0 THEN NewWalk ELSE Resume(after[n - 1], heads[n])]
  BY <1>11
<1> HIDE DEF after
<1>13. ASSUME NEW n \in (0 + 1) .. N, after[n - 1] \in Walks
       PROVE  after[n] \in Walks
  <2>1. n \in 0 .. N /\ n # 0 /\ heads[n] \in Nat
    BY <1>1
  <2> QED BY <1>3, <1>12, <1>13, <2>1
<1>14. after[0] \in Walks
  BY <1>1, <1>2, <1>12
<1>15. \A n \in 0 .. N : after[n] \in Walks
  BY <1>1, <1>13, <1>14, Throughout
<1> QED BY <1>1, <1>4, <1>15

Scopes == {"All", "Sets"}

Items == [value : Values, owner : Nat, via : Seq(Nat), nesting : Nat,
          onChain : SUBSET Values]

(* The values a chain's frames offer, and the finds that name them. *)
FoundIn(frames, scope) ==
    {v \in Values : \E k \in DOMAIN frames : v \in ToSet(Offers(frames[k], scope))}

FindsOf(via, frames, scope) == {x \in Items : x.via = via /\ x.value \in FoundIn(frames, scope)}

(* What a frame offers is values. *)
LEMMA OffersType ==
    ASSUME Target(world), NEW frame \in Values, NEW scope \in Scopes
    PROVE  Offers(frame, scope) \in Seq(Values)
<1> DEFINE hs == world.holds[frame]
           parts == [i \in DOMAIN hs |-> IF scope = "All" \/ Kind[hs[i]] = "Set"
                                         THEN <<hs[i]>> ELSE <<>>]
<1>1. hs \in Seq(Values)
  BY DEF Target
<1>2. parts \in Seq(Seq(Values))
  <2>1. PICK q \in Seq(Values) : q = hs
    BY <1>1
  <2>2. \A i \in DOMAIN q : q[i] \in Values
    OBVIOUS
  <2> DEFINE Part(v) == IF scope = "All" \/ Kind[v] = "Set" THEN <<v>> ELSE <<>>
             S == Seq(Values)
  <2>3. \A i \in DOMAIN q : Part(q[i]) \in S
    BY <2>2
  <2>4. [i \in DOMAIN q |-> Part(q[i])] \in Seq(S)
    <3> HIDE DEF Part, S
    <3> QED BY <2>3
  <2> HIDE DEF hs
  <2> QED BY <2>1, <2>4
<1>3. FlattenSeq(parts) \in Seq(Values)
  <2> HIDE DEF parts
  <2> QED BY <1>2, Flattened
<1>4. Offers(frame, scope) = IF Kind[frame] = "Fanout"
                             THEN IF scope = "Sets" THEN <<>> ELSE <<frame>>
                             ELSE FlattenSeq(parts)
  BY DEF Offers
<1> HIDE DEF parts
<1> QED BY <1>3, <1>4

(* What a scan of a chain queues is the finds of its frames, under the
   holder it was given. *)
LEMMA ScanType ==
    ASSUME Target(world), NEW owner \in Nat, NEW via \in Seq(Nat), NEW chain \in Chains,
           NEW nesting \in Nat, NEW scope \in Scopes
    PROVE  ScanFrames(owner, via, chain, nesting, scope) \in Seq(FindsOf(via, chain.frames, scope))
<1> DEFINE parts == [i \in DOMAIN chain.frames |-> Offers(chain.frames[i], scope)]
           finds == FlattenSeq(parts)
           F == FoundIn(chain.frames, scope)
<1>1. chain.frames \in Seq(Values)
  BY DEF Chains, ChainRecord
<1>2. ASSUME NEW k \in DOMAIN chain.frames
      PROVE  Offers(chain.frames[k], scope) \in Seq(F)
  <2>1. chain.frames[k] \in Values
    BY <1>1
  <2>2. PICK q \in Seq(Values) : q = Offers(chain.frames[k], scope)
    BY <2>1, OffersType
  <2>3. \A i \in DOMAIN q : q[i] \in Values /\ q[i] \in ToSet(q)
    BY DEF ToSet
  <2>4. \A i \in DOMAIN q : q[i] \in F
    BY <1>2, <2>2, <2>3 DEF FoundIn
  <2> HIDE DEF F
  <2>5. q \in Seq(F)
    BY <2>4
  <2> QED BY <2>2, <2>5
<1>3. parts \in Seq(Seq(F))
  <2> HIDE DEF F
  <2>1. PICK q \in Seq(Values) : q = chain.frames
    BY <1>1
  <2>2. [i \in DOMAIN q |-> Offers(q[i], scope)] \in Seq(Seq(F))
    BY <1>2, <2>1
  <2> QED BY <2>1, <2>2
<1>4. finds \in Seq(F)
  <2> HIDE DEF F, parts
  <2> QED BY <1>3, Flattened
<1>5. \A v \in F : v \in Values
  BY DEF FoundIn
<1>6. ToSet(chain.frames) \in SUBSET Values
  BY <1>1 DEF ToSet
<1>7. ASSUME NEW v \in F
      PROVE  Item(v, owner, via, nesting, ToSet(chain.frames)) \in FindsOf(via, chain.frames, scope)
  <2>1. PICK on \in SUBSET Values : on = ToSet(chain.frames)
    BY <1>6
  <2> HIDE DEF F
  <2>2. v \in Values
    BY <1>5
  <2>3. PICK x : x = Item(v, owner, via, nesting, on)
    OBVIOUS
  <2>4. x \in Items /\ x.via = via /\ x.value = v
    BY <2>2, <2>3 DEF Item, Items
  <2> QED BY <2>1, <2>3, <2>4 DEF FindsOf, F
<1>8. ScanFrames(owner, via, chain, nesting, scope)
        = [i \in DOMAIN finds |-> Item(finds[i], owner, via, nesting, ToSet(chain.frames))]
  BY DEF ScanFrames
<1> HIDE DEF finds, F
<1>9. PICK q \in Seq(F) : q = finds
  BY <1>4
<1>10. \A i \in DOMAIN q : q[i] \in F
  OBVIOUS
<1>11. [i \in DOMAIN q |-> Item(q[i], owner, via, nesting, ToSet(chain.frames))]
          \in Seq(FindsOf(via, chain.frames, scope))
  BY <1>7, <1>10
<1> QED BY <1>8, <1>9, <1>11

-----------------------------------------------------------------------------
(* The state, and what each step may do to it.                             *)

Children == [node : Nat, root : SUBSET Values]

HeldRows == [owner : Nat, via : Seq(Nat), slot : Values, future : Values,
             frames : Seq(Values)]
SetRows == [owner : Nat, via : Seq(Nat), value : Values, children : Seq(Children)]
JoinRows == [owner : Nat, via : Seq(Nat), value : Values, length : Nat,
             children : Seq(Nat)]

Typed ==
    /\ Target(world)
    /\ task \in Nat
    /\ work \in Seq(Items)
    /\ visited \subseteq Values
    /\ held \in Seq(HeldRows)
    /\ sets \in Seq(SetRows)
    /\ joinSets \in Seq(JoinRows)
    /\ phase \in {"scan", "done"}
    /\ phase = "done" => work = <<>>

(* The find taken off the work, and the value it is of. *)
Taken ==
    /\ work # <<>> /\ phase = "scan"
    /\ Fresh(Head(work)) /\ Head(work) \in Items /\ Tail(work) \in Seq(Items)

TakenValue == Head(work).value

(* The finds of a set's children: each names the child whose chain holds it. *)
ChildFinds(walk, s) ==
    {x \in Items : \E c \in DOMAIN walk.nodes :
        /\ world.nodes[walk.nodes[c]].slot # <<>>
        /\ x.via = <<s, c>>
        /\ x.value \in FoundIn(InspectFuture(world.nodes[walk.nodes[c]].slot[1]).frames, "All")}

SetMove(walk, row, new) ==
    /\ Taken
    /\ walk \in Walks
    /\ row \in SetRows /\ row.value = TakenValue /\ row.via = Head(work).via
    /\ DOMAIN row.children = DOMAIN walk.nodes
    /\ \A c \in DOMAIN walk.nodes : row.children[c].node = walk.nodes[c]
    /\ sets' = Append(sets, row)
    /\ spans' = spans \cup
         {[lo |-> walk.nodes[c], hi |-> walk.nodes[c] + world.nodes[walk.nodes[c]].size,
           set |-> Len(sets) + 1, child |-> c] : c \in DOMAIN walk.nodes}
    /\ errors \subseteq errors'
    /\ new \in Seq(ChildFinds(walk, Len(sets) + 1)) /\ work' = new \o Tail(work)
    /\ visited' = visited \cup {TakenValue}
    /\ UNCHANGED <<world, task, held, joinSets, phase>>

JoinMove(walk, row) ==
    /\ Taken
    /\ walk \in Walks
    /\ row \in JoinRows /\ row.value = TakenValue /\ row.via = Head(work).via
    /\ row.children = walk.nodes
    /\ joinSets' = Append(joinSets, row)
    /\ errors \subseteq errors'
    /\ \/ Len(row.children) = row.length
       \/ \E error \in errors' : Addr[row.value] \in error
    /\ work' = Tail(work)
    /\ visited' = visited \cup {TakenValue}
    /\ UNCHANGED <<world, task, held, sets, spans, phase>>

(* A container or an adapter looked through, or a future passed over. *)
ThroughMove(new) ==
    /\ Taken
    /\ new \in Seq({x \in Items : x.via = Head(work).via /\ x.value \in Opened({TakenValue})})
    /\ work' = new \o Tail(work)
    /\ errors \subseteq errors'
    /\ visited' = visited \cup {TakenValue}
    /\ UNCHANGED <<world, task, held, sets, joinSets, spans, phase>>

FutureMove(row, new) ==
    /\ Taken
    /\ row \in HeldRows /\ row.slot = TakenValue /\ row.via = Head(work).via
    /\ row.future \notin visited /\ ~ TakenBack(Addr[row.future])
    /\ held' = Append(held, row)
    /\ new \in Seq(FindsOf(<<Len(held) + 1>>, row.frames, "All")) /\ work' = new \o Tail(work)
    /\ visited' = visited \cup {TakenValue, row.future}
    /\ UNCHANGED <<world, task, sets, joinSets, spans, errors, phase>>

ScanMove ==
    /\ phase = "scan" /\ work = <<>>
    /\ work' \in Seq({x \in Items : x.via = <<>>})
    /\ task' = task + 1
    /\ UNCHANGED <<world, visited, held, sets, joinSets, spans, errors, phase>>

DropMove ==
    /\ work # <<>> /\ work \in Seq(Items) /\ work' = Tail(work)
    /\ UNCHANGED <<world, task, visited, held, sets, joinSets, spans, errors, phase>>

FinishMove ==
    /\ phase = "scan" /\ work = <<>> /\ phase' = "done"
    /\ errors' = errors \cup Overlaps
    /\ UNCHANGED <<world, task, work, visited, held, sets, joinSets, spans>>

(* A find taken off the work is a find. *)
LEMMA TakenFacts ==
    ASSUME Typed, work # <<>>
    PROVE  /\ phase = "scan" /\ Head(work) \in Items /\ Tail(work) \in Seq(Items)
           /\ TakenValue \in Values /\ Head(work).owner \in Nat
           /\ Head(work).via \in Seq(Nat) /\ Head(work).nesting \in Nat
<1>1. phase = "scan"
  BY DEF Typed
<1>2. work \in Seq(Items)
  BY DEF Typed
<1>3. Head(work) \in Items /\ Tail(work) \in Seq(Items)
  BY <1>2, HeadTailProperties
<1>4. PICK item \in Items : item = Head(work)
  BY <1>3
<1>5. item.value \in Values /\ item.owner \in Nat /\ item.via \in Seq(Nat) /\ item.nesting \in Nat
  BY DEF Items
<1> QED BY <1>1, <1>3, <1>4, <1>5 DEF TakenValue

(* A node the target maps holds values, if it decodes. *)
LEMMA SlotFacts ==
    ASSUME Target(world), NEW a \in DOMAIN world.nodes, world.nodes[a].slot # Broken,
           world.nodes[a].slot # <<>>
    PROVE  world.nodes[a].slot[1] \in Values
<1>1. PICK q \in Seq(Values) : q = world.nodes[a].slot
  BY DEF Target
<1>2. q[1] \in Values
  BY <1>1
<1> QED BY <1>1, <1>2

(* A child of a set is a row's child. *)
LEMMA ChildType ==
    ASSUME Target(world), NEW a, Listable(a)
    PROVE  Child(a) \in Children /\ Child(a).node = a
<1>1. a \in DOMAIN world.nodes /\ a \in Nat /\ world.nodes[a].slot # Broken
  BY DEF Listable
<1> DEFINE root == IF world.nodes[a].slot = <<>> THEN {}
                   ELSE {Identity(InspectFuture(world.nodes[a].slot[1]))}
<1>2. root \in SUBSET Values
  <2>1. CASE world.nodes[a].slot # <<>>
    <3>1. world.nodes[a].slot[1] \in Values
      BY <1>1, <2>1, SlotFacts
    <3>2. Identity(InspectFuture(world.nodes[a].slot[1])) \in Values
      BY <3>1, ChainType, IdentityType
    <3> QED BY <2>1, <3>2
  <2> QED BY <2>1
<1>3. Child(a) = [node |-> a, root |-> root]
  BY DEF Child
<1> HIDE DEF root
<1> QED BY <1>1, <1>2, <1>3 DEF Children

(* What RecordSet does. *)
LEMMA SetStep ==
    ASSUME Typed, RecordSet
    PROVE  \E walk, row, new : SetMove(walk, row, new)
<1> DEFINE item == Head(work)
           v == item.value
           walk == WalkNodes(NewWalk, world.heads[v][1])
           slot(c) == world.nodes[walk.nodes[c]].slot
           resident == {c \in DOMAIN walk.nodes : slot(c) # <<>>}
           scanned == IF item.nesting < MAX_NESTING THEN resident ELSE {}
           chain(c) == InspectFuture(slot(c)[1])
           kids == [c \in DOMAIN walk.nodes |-> Child(walk.nodes[c])]
           row == [owner |-> item.owner, via |-> item.via, value |-> v, children |-> kids]
           Part(c) == IF c \in scanned
                      THEN ScanFrames(item.owner, <<SetIndex, c>>, chain(c),
                                      item.nesting + 1, "All")
                      ELSE <<>>
           parts == [c \in DOMAIN walk.nodes |-> Part(c)]
           new == FlattenSeq(parts)
           F == ChildFinds(walk, Len(sets) + 1)
<1>1. /\ work # <<>> /\ Fresh(item) /\ Kind[v] = "Set"
      /\ sets' = Append(sets, row)
      /\ spans' = spans \cup
           {[lo |-> walk.nodes[c], hi |-> walk.nodes[c] + world.nodes[walk.nodes[c]].size,
             set |-> Len(sets) + 1, child |-> c] : c \in DOMAIN walk.nodes}
      /\ errors \subseteq errors'
      /\ work' = new \o Tail(work)
      /\ visited' = visited \cup {v}
      /\ UNCHANGED <<world, task, held, joinSets, phase>>
  BY DEF RecordSet, Recording, SetIndex
<1>2. /\ phase = "scan" /\ item \in Items /\ Tail(work) \in Seq(Items)
      /\ v \in Values /\ item.owner \in Nat /\ item.via \in Seq(Nat) /\ item.nesting \in Nat
  BY <1>1, TakenFacts DEF TakenValue
<1>3. Target(world) /\ sets \in Seq(SetRows)
  BY DEF Typed
<1>4. walk \in Walks
  <2>1. world.heads[v] \in Seq(Nat) \ {<<>>}
    BY <1>1, <1>2, <1>3 DEF Target
  <2>2. PICK q \in Seq(Nat) \ {<<>>} : q = world.heads[v]
    BY <2>1
  <2>3. q[1] \in Nat
    OBVIOUS
  <2>4. NewWalk \in Walks
    <3>1. NewWalk \in WalkRecord /\ NewWalk.nodes = <<>>
      BY DEF NewWalk, WalkRecord
    <3> QED BY <3>1 DEF Walks
  <2> QED BY <1>3, <2>2, <2>3, <2>4, WalkNodesType
<1> HIDE DEF walk
<1>5. walk.nodes \in Seq(Nat) /\ \A c \in DOMAIN walk.nodes : Listable(walk.nodes[c])
  BY <1>4 DEF Walks, WalkRecord
<1>6. kids \in Seq(Children) /\ DOMAIN kids = DOMAIN walk.nodes
      /\ \A c \in DOMAIN walk.nodes : kids[c].node = walk.nodes[c]
  <2>1. \A c \in DOMAIN walk.nodes :
           Child(walk.nodes[c]) \in Children /\ Child(walk.nodes[c]).node = walk.nodes[c]
    BY <1>3, <1>5, ChildType
  <2>2. PICK q \in Seq(Nat) : q = walk.nodes
    BY <1>5
  <2>3. [c \in DOMAIN q |-> Child(q[c])] \in Seq(Children)
    BY <2>1, <2>2
  <2> QED BY <2>1, <2>2, <2>3
<1> HIDE DEF kids
<1>7. PICK r : r = row
  OBVIOUS
<1>8. /\ r \in SetRows /\ r.value = v /\ r.via = item.via
      /\ r.children = kids
  BY <1>2, <1>6, <1>7 DEF SetRows
<1>9. ASSUME NEW c \in DOMAIN walk.nodes
      PROVE  Part(c) \in Seq(F)
  <2>1. CASE c \notin scanned
    <3> HIDE DEF scanned, F
    <3> QED BY <2>1
  <2>2. CASE c \in scanned
    <3>1. slot(c) # <<>> /\ walk.nodes[c] \in DOMAIN world.nodes /\ slot(c) # Broken
      BY <1>5, <2>2 DEF Listable
    <3>2. slot(c)[1] \in Values
      BY <1>3, <3>1, SlotFacts
    <3>3. PICK ch \in Chains : ch = chain(c)
      BY <1>3, <3>2, ChainType
    <3>4. PICK via \in Seq(Nat) : via = <<Len(sets) + 1, c>>
      <4>1. \A a, b \in Nat : <<a, b>> \in Seq(Nat)
        OBVIOUS
      <4>2. Len(sets) + 1 \in Nat
        BY <1>3
      <4>3. c \in Nat
        BY <1>5
      <4> QED BY <4>1, <4>2, <4>3
    <3>5. item.nesting + 1 \in Nat /\ "All" \in Scopes
      BY <1>2 DEF Scopes
    <3>6. ScanFrames(item.owner, via, ch, item.nesting + 1, "All")
             \in Seq(FindsOf(via, ch.frames, "All"))
      <4> HIDE DEF item
      <4> QED BY <1>2, <1>3, <3>5, ScanType
    <3>7. FindsOf(via, ch.frames, "All") \subseteq F
      BY <1>9, <3>1, <3>3, <3>4 DEF FindsOf, ChildFinds
    <3>8. Part(c) = ScanFrames(item.owner, via, ch, item.nesting + 1, "All")
      BY <2>2, <3>3, <3>4 DEF SetIndex
    <3> HIDE DEF F, Part
    <3>9. PICK q \in Seq(FindsOf(via, ch.frames, "All")) : q = Part(c)
      BY <3>6, <3>8
    <3>10. \A i \in DOMAIN q : q[i] \in F
      BY <3>7
    <3>11. q \in Seq(F)
      BY <3>10
    <3> QED BY <3>9, <3>11
  <2> QED BY <2>1, <2>2
<1>10. new \in Seq(F)
  <2>1. PICK q \in Seq(Nat) : q = walk.nodes
    BY <1>5
  <2>2. [c \in DOMAIN q |-> Part(c)] \in Seq(Seq(F))
    <3> HIDE DEF Part, F
    <3> QED BY <1>9, <2>1
  <2>3. parts \in Seq(Seq(F))
    BY <2>1, <2>2
  <2> HIDE DEF parts, F
  <2> QED BY <2>3, Flattened
<1>11. DOMAIN r.children = DOMAIN walk.nodes
       /\ \A c \in DOMAIN walk.nodes : r.children[c].node = walk.nodes[c]
  BY <1>6, <1>8
<1> HIDE DEF new, row
<1>12. SetMove(walk, r, new)
  BY <1>1, <1>2, <1>4, <1>7, <1>8, <1>10, <1>11 DEF SetMove, Taken, TakenValue
<1> QED BY <1>12

(* What RecordJoinSet does. *)
LEMMA JoinStep ==
    ASSUME Typed, RecordJoinSet
    PROVE  \E walk, row : JoinMove(walk, row)
<1> DEFINE item == Head(work)
           v == item.value
           walk == WalkLists(world.heads[v])
           row == [owner |-> item.owner, via |-> item.via, value |-> v,
                   length |-> world.length[v], children |-> walk.nodes]
<1>1. /\ work # <<>> /\ Fresh(item) /\ Kind[v] = "JoinSet"
      /\ joinSets' = Append(joinSets, row)
      /\ errors' = errors \cup (IF Miscounted(walk, v)
                                THEN {walk.stop \cup {Addr[v]}} ELSE {})
      /\ work' = Tail(work)
      /\ visited' = visited \cup {v}
      /\ UNCHANGED <<world, task, held, sets, spans, phase>>
  BY DEF RecordJoinSet, Recording
<1>2. /\ phase = "scan" /\ item \in Items /\ Tail(work) \in Seq(Items)
      /\ v \in Values /\ item.owner \in Nat /\ item.via \in Seq(Nat) /\ item.nesting \in Nat
  BY <1>1, TakenFacts DEF TakenValue
<1>3. Target(world)
  BY DEF Typed
<1>4. world.heads[v] \in Seq(Nat) /\ world.length[v] \in Nat
  BY <1>1, <1>2, <1>3 DEF Target
<1>5. walk \in Walks
  BY <1>3, <1>4, WalkListsType
<1> HIDE DEF walk
<1>6. walk.nodes \in Seq(Nat)
  BY <1>5 DEF Walks, WalkRecord
<1>7. PICK r : r = row
  OBVIOUS
<1>8. r \in JoinRows /\ r.value = v /\ r.via = item.via /\ r.children = walk.nodes
      /\ r.length = world.length[v]
  BY <1>2, <1>4, <1>6, <1>7 DEF JoinRows
<1> HIDE DEF row
<1>9. \/ Len(r.children) = r.length
      \/ \E error \in errors' : Addr[r.value] \in error
  BY <1>1, <1>8 DEF Miscounted
<1>10. errors \subseteq errors'
  BY <1>1
<1>11. JoinMove(walk, r)
  BY <1>1, <1>2, <1>5, <1>7, <1>8, <1>9, <1>10 DEF JoinMove, Taken, TakenValue
<1> QED BY <1>11

(* A find moved on to another value keeps its holder. *)
LEMMA ItemEdit ==
    ASSUME NEW item \in [value : Values, owner : Nat, via : Seq(Nat), nesting : Nat,
                         onChain : SUBSET Values], NEW v \in Values
    PROVE  /\ [item EXCEPT !.value = v] \in Items
           /\ [item EXCEPT !.value = v].via = item.via
           /\ [item EXCEPT !.value = v].value = v
BY DEF Items

(* The finds of what the taken value opens on, under its own holder. *)
ThroughFinds == {x \in Items : x.via = Head(work).via /\ x.value \in Opened({TakenValue})}

(* What RecordContainer does. *)
LEMMA ContainerStep ==
    ASSUME Typed, RecordContainer
    PROVE  \E new : ThroughMove(new)
<1> DEFINE item == Head(work)
           v == item.value
           finds == Entries(v)
           new == [i \in DOMAIN finds |-> [item EXCEPT !.value = finds[i]]]
<1>1. /\ work # <<>> /\ Fresh(item) /\ Kind[v] \in {"Fanout", "Table"}
      /\ work' = new \o Tail(work)
      /\ errors \subseteq errors'
      /\ visited' = visited \cup {v}
      /\ UNCHANGED <<world, task, held, sets, joinSets, spans, phase>>
  BY DEF RecordContainer, Recording
<1>2. /\ phase = "scan" /\ item \in Items /\ Tail(work) \in Seq(Items) /\ v \in Values
  BY <1>1, TakenFacts DEF TakenValue
<1>3. Target(world)
  BY DEF Typed
<1>4. finds \in Seq(ToSet(world.holds[v]))
  <2>1. PICK q \in Seq(Values) : q = world.holds[v]
    BY <1>2, <1>3 DEF Target
  <2>2. PICK S : S = ToSet(q)
    OBVIOUS
  <2>3. \A i \in DOMAIN q : q[i] \in S
    BY <2>2 DEF ToSet
  <2>4. q \in Seq(S)
    BY <2>3
  <2> HIDE DEF v
  <2>5. PICK cs \in Seq(S) : cs = Contents(v)
    <3>1. Contents(v) = <<>> \/ Contents(v) = q
      BY <2>1, Zenon DEF Contents
    <3>2. <<>> \in Seq(S)
      OBVIOUS
    <3> QED BY <2>4, <3>1, <3>2
  <2>6. PICK m \in Nat : m = Min({Len(cs), MAX_CHILDREN}) /\ m <= Len(cs)
    <3>1. PICK p \in Nat : p = MAX_CHILDREN
      BY BoundsAssumption
    <3>2. PICK l \in Nat : l = Len(cs)
      OBVIOUS
    <3>3. Min({l, p}) \in {l, p} /\ \A y \in {l, p} : Min({l, p}) <= y
      <4>1. \E x \in {l, p} : \A y \in {l, p} : x <= y
        OBVIOUS
      <4> QED BY <4>1 DEF Min
    <3> QED BY <3>1, <3>2, <3>3
  <2>7. SubSeq(cs, 1, m) \in Seq(S)
    <3>1. \A i \in 1 .. m : cs[i] \in S
      BY <2>6
    <3>2. SubSeq(cs, 1, m) = [i \in 1 .. m |-> cs[i]]
      BY <2>6
    <3> QED BY <3>1, <3>2
  <2>8. finds = <<>> \/ finds = SubSeq(cs, 1, m)
    BY <2>5, <2>6, Zenon DEF Entries
  <2>9. <<>> \in Seq(S)
    OBVIOUS
  <2> HIDE DEF finds
  <2> QED BY <2>1, <2>2, <2>7, <2>8, <2>9
<1>5. ToSet(world.holds[v]) \subseteq Values /\ ToSet(world.holds[v]) \subseteq Opened({v})
  <2>1. PICK q \in Seq(Values) : q = world.holds[v]
    BY <1>2, <1>3 DEF Target
  <2>2. ToSet(q) \subseteq Values
    BY DEF ToSet
  <2> HIDE DEF v
  <2>3. ToSet(world.holds[v]) \subseteq Opened({v})
    BY <1>1 DEF Opened
  <2> QED BY <2>1, <2>2, <2>3
<1> HIDE DEF finds
<1>6. PICK q \in Seq(ToSet(world.holds[v])) : q = finds
  BY <1>4
<1>7. \A i \in DOMAIN q : q[i] \in ToSet(world.holds[v])
  OBVIOUS
<1>8. ASSUME NEW i \in DOMAIN q
      PROVE  [item EXCEPT !.value = q[i]] \in ThroughFinds
  <2>1. PICK it \in [value : Values, owner : Nat, via : Seq(Nat), nesting : Nat,
                     onChain : SUBSET Values] : it = item
    BY <1>2 DEF Items
  <2>2. PICK x \in Values : x = q[i] /\ x \in Opened({v})
    BY <1>5, <1>7
  <2>3. PICK y : y = [it EXCEPT !.value = x]
    OBVIOUS
  <2>4. y \in Items /\ y.via = it.via /\ y.value = x
    BY <2>3, ItemEdit, Zenon
  <2>5. y \in ThroughFinds
    BY <2>1, <2>2, <2>4 DEF ThroughFinds, TakenValue
  <2> QED BY <2>1, <2>2, <2>3, <2>5, Zenon
<1>9. [i \in DOMAIN q |-> [item EXCEPT !.value = q[i]]] \in Seq(ThroughFinds)
  <2> DEFINE On(i) == [item EXCEPT !.value = q[i]]
  <2>1. \A i \in DOMAIN q : On(i) \in ThroughFinds
    BY <1>8
  <2> HIDE DEF On
  <2>2. [i \in DOMAIN q |-> On(i)] \in Seq(ThroughFinds)
    BY <2>1
  <2> QED BY <2>2 DEF On
<1>10. new \in Seq(ThroughFinds)
  BY <1>6, <1>9, Zenon
<1> HIDE DEF new
<1>11. ThroughMove(new)
  BY <1>1, <1>2, <1>10 DEF ThroughMove, ThroughFinds, Taken, TakenValue
<1> QED BY <1>11

(* What RecordAdapter does. *)
LEMMA AdapterStep ==
    ASSUME Typed, RecordAdapter
    PROVE  \E new : ThroughMove(new)
<1> DEFINE item == Head(work)
           v == item.value
           referent == world.next[v]
           stale == RouteRefused(referent)
           one == [item EXCEPT !.value = CHOOSE x \in referent : TRUE]
           found == [i \in 1 .. Cardinality(referent) |-> one]
           new == IF stale THEN <<>> ELSE found
<1>1. /\ work # <<>> /\ Fresh(item) /\ Kind[v] = "Adapter"
      /\ work' = new \o Tail(work)
      /\ visited' = visited \cup {v}
      /\ UNCHANGED <<world, task, held, sets, joinSets, spans, errors, phase>>
  BY DEF RecordAdapter, Recording
<1>2. /\ phase = "scan" /\ item \in Items /\ Tail(work) \in Seq(Items) /\ v \in Values
  BY <1>1, TakenFacts DEF TakenValue
<1>3. Target(world)
  BY DEF Typed
<1>4. referent \subseteq Values
  BY <1>2, <1>3 DEF Target
<1>5. Cardinality(referent) \in Nat /\ (referent = {} => Cardinality(referent) = 0)
  BY <1>4, TargetsAssumption, FS_Subset, FS_CardinalityType, FS_EmptySet
<1>6. referent \subseteq Opened({v})
  <2> HIDE DEF v
  <2> QED BY <1>1 DEF Opened
<1> HIDE DEF referent
<1>7. ASSUME referent # {}
      PROVE  one \in ThroughFinds
  <2>1. PICK it \in [value : Values, owner : Nat, via : Seq(Nat), nesting : Nat,
                     onChain : SUBSET Values] : it = item
    BY <1>2 DEF Items
  <2>2. PICK x \in Values : x = (CHOOSE y \in referent : TRUE) /\ x \in Opened({v})
    BY <1>4, <1>6, <1>7
  <2>3. PICK y : y = [it EXCEPT !.value = x]
    OBVIOUS
  <2>4. y \in Items /\ y.via = it.via /\ y.value = x
    BY <2>3, ItemEdit, Zenon
  <2>5. y \in ThroughFinds
    BY <2>1, <2>2, <2>4 DEF ThroughFinds, TakenValue
  <2> QED BY <2>1, <2>2, <2>3, <2>5, Zenon
<1> HIDE DEF one
<1>8. found \in Seq(ThroughFinds)
  <2>1. PICK n \in Nat : n = Cardinality(referent)
    BY <1>5
  <2>2. CASE referent = {}
    BY <1>5, <2>2
  <2>3. CASE referent # {}
    BY <1>7, <2>1, <2>3
  <2> QED BY <2>2, <2>3
<1>9. new \in Seq(ThroughFinds)
  <2>1. <<>> \in Seq(ThroughFinds)
    OBVIOUS
  <2> HIDE DEF found, stale
  <2> QED BY <1>8, <2>1
<1> HIDE DEF new
<1>10. ThroughMove(new)
  BY <1>1, <1>2, <1>9 DEF ThroughMove, ThroughFinds, Taken, TakenValue
<1> QED BY <1>10

(* What PassFuture does. *)
LEMMA PassStep ==
    ASSUME Typed, PassFuture
    PROVE  \E new : ThroughMove(new)
<1>1. /\ work # <<>> /\ Fresh(Head(work))
      /\ work' = Tail(work)
      /\ visited' = visited \cup {Head(work).value}
      /\ UNCHANGED <<world, task, held, sets, joinSets, spans, errors, phase>>
  BY DEF PassFuture, Recording
<1>2. phase = "scan" /\ Head(work) \in Items /\ Tail(work) \in Seq(Items)
  BY <1>1, TakenFacts
<1>3. <<>> \o Tail(work) = Tail(work) /\ <<>> \in Seq(ThroughFinds)
  BY <1>2
<1>4. ThroughMove(<<>>)
  BY <1>1, <1>2, <1>3 DEF ThroughMove, ThroughFinds, Taken, TakenValue
<1> QED BY <1>4

(* What RecordFuture does. *)
LEMMA FutureStep ==
    ASSUME Typed, RecordFuture
    PROVE  \E row, new : FutureMove(row, new)
<1> DEFINE item == Head(work)
           chain == InspectFuture(item.value)
           index == Len(held) + 1
           row == [owner |-> item.owner, via |-> item.via, slot |-> item.value,
                   future |-> Identity(chain), frames |-> chain.frames]
           scan == ScanFrames(item.owner, <<index>>, chain, item.nesting + 1, "All")
           new == IF item.nesting < MAX_NESTING THEN scan ELSE <<>>
<1>1. /\ work # <<>> /\ Fresh(item)
      /\ ~ StaleSlot(item) /\ ~ Alias(item)
      /\ held' = Append(held, row)
      /\ visited' = visited \cup {item.value, Identity(chain)}
      /\ work' = IF item.nesting < MAX_NESTING THEN scan \o Tail(work) ELSE Tail(work)
      /\ UNCHANGED <<world, task, sets, joinSets, spans, errors, phase>>
  BY DEF RecordFuture, Recording
<1>2. /\ phase = "scan" /\ item \in Items /\ Tail(work) \in Seq(Items)
      /\ item.value \in Values /\ item.owner \in Nat /\ item.via \in Seq(Nat)
      /\ item.nesting \in Nat
  BY <1>1, TakenFacts DEF TakenValue
<1>3. Target(world) /\ held \in Seq(HeldRows)
  BY DEF Typed
<1>4. chain \in Chains
  BY <1>2, <1>3, ChainType
<1>5. /\ ~ TakenBack(Addr[Identity(chain)])
      /\ Identity(chain) \notin visited
  BY <1>1 DEF StaleSlot, Alias, Fresh
<1> HIDE DEF chain
<1>6. Identity(chain) \in Values /\ chain.frames \in Seq(Values)
  BY <1>4, IdentityType DEF Chains, ChainRecord
<1>7. PICK r : r = row
  OBVIOUS
<1>8. /\ r \in HeldRows /\ r.slot = item.value /\ r.via = item.via
      /\ r.future = Identity(chain) /\ r.frames = chain.frames
  BY <1>2, <1>6, <1>7 DEF HeldRows
<1> HIDE DEF row
<1>9. new \in Seq(FindsOf(<<index>>, r.frames, "All")) /\ work' = new \o Tail(work)
  <2>1. CASE item.nesting < MAX_NESTING
    <3>1. PICK via \in Seq(Nat) : via = <<index>>
      <4>1. \A a \in Nat : <<a>> \in Seq(Nat)
        OBVIOUS
      <4>2. index \in Nat
        BY <1>3, Elements
      <4> QED BY <4>1, <4>2
    <3>2. item.nesting + 1 \in Nat /\ "All" \in Scopes
      BY <1>2 DEF Scopes
    <3>3. scan \in Seq(FindsOf(via, chain.frames, "All"))
      <4> HIDE DEF item, index
      <4> QED BY <1>2, <1>3, <1>4, <3>1, <3>2, ScanType
    <3> HIDE DEF scan
    <3> QED BY <1>1, <1>8, <2>1, <3>1, <3>3
  <2>2. CASE ~ (item.nesting < MAX_NESTING)
    <3>1. <<>> \o Tail(work) = Tail(work)
      BY <1>2
    <3>2. \A S : <<>> \in Seq(S)
      OBVIOUS
    <3> HIDE DEF scan
    <3> QED BY <1>1, <2>2, <3>1, <3>2
  <2> QED BY <2>1, <2>2
<1> HIDE DEF new
<1>10. FutureMove(r, new)
  BY <1>1, <1>2, <1>5, <1>7, <1>8, <1>9 DEF FutureMove, Taken, TakenValue
<1> QED BY <1>10

(* What ScanTask does. *)
LEMMA ScanStep ==
    ASSUME Typed, ScanTask
    PROVE  ScanMove
<1> DEFINE t == world.tasks[task + 1]
           root == CHOOSE v \in t.root : TRUE
           chain == InspectFuture(root)
           scope == IF t.running THEN "Sets" ELSE "All"
           F == {x \in Items : x.via = <<>>}
<1>1. /\ phase = "scan" /\ work = <<>> /\ task < Len(world.tasks) /\ task' = task + 1
      /\ IF t.root = {} THEN work' = work
         ELSE work' = ScanFrames(task + 1, <<>>, chain, 0, scope)
      /\ UNCHANGED <<world, visited, held, sets, joinSets, spans, errors, phase>>
  BY DEF ScanTask
<1>2. Target(world) /\ task \in Nat
  BY DEF Typed
<1>3. work' \in Seq(F)
  <2>1. CASE t.root = {}
    <3> HIDE DEF F
    <3> QED BY <1>1, <2>1
  <2>2. CASE t.root # {}
    <3>1. world.tasks \in Seq([root : SUBSET Values, running : BOOLEAN])
      BY <1>2 DEF Target
    <3>2. PICK r \in [root : SUBSET Values, running : BOOLEAN] : r = t
      <4>1. task + 1 \in 1 .. Len(world.tasks)
        BY <1>1, <1>2, <3>1, Elements
      <4> QED BY <3>1, <4>1, Elements
    <3>3. root \in Values
      BY <2>2, <3>2
    <3>4. PICK ch \in Chains : ch = chain
      BY <1>2, <3>3, ChainType
    <3>5. PICK sc \in Scopes : sc = scope
      BY DEF Scopes
    <3>6. task + 1 \in Nat /\ <<>> \in Seq(Nat) /\ 0 \in Nat
      BY <1>2
    <3>7. ScanFrames(task + 1, <<>>, ch, 0, sc) \in Seq(FindsOf(<<>>, ch.frames, sc))
      BY <1>2, <3>6, ScanType
    <3>8. FindsOf(<<>>, ch.frames, sc) \subseteq F
      BY DEF FindsOf
    <3> HIDE DEF F
    <3>9. PICK q \in Seq(FindsOf(<<>>, ch.frames, sc)) : q = work'
      BY <1>1, <2>2, <3>4, <3>5, <3>7
    <3>10. \A i \in DOMAIN q : q[i] \in F
      BY <3>8
    <3>11. q \in Seq(F)
      BY <3>10
    <3> QED BY <3>9, <3>11
  <2> QED BY <2>1, <2>2
<1> QED BY <1>1, <1>3 DEF ScanMove

(* Every step is one of the moves. *)
LEMMA StepIsMove ==
    ASSUME Typed, [Next]_vars
    PROVE  \/ ScanMove \/ DropMove \/ FinishMove
           \/ \E walk, row, new : SetMove(walk, row, new)
           \/ \E walk, row : JoinMove(walk, row)
           \/ \E new : ThroughMove(new)
           \/ \E row, new : FutureMove(row, new)
           \/ UNCHANGED vars
<1>1. CASE ScanTask
  BY <1>1, ScanStep
<1>2. CASE Drop
  BY <1>2 DEF Drop, DropMove, Typed
<1>3. CASE RecordSet
  BY <1>3, SetStep
<1>4. CASE RecordJoinSet
  BY <1>4, JoinStep
<1>5. CASE RecordContainer
  BY <1>5, ContainerStep
<1>6. CASE RecordAdapter
  BY <1>6, AdapterStep
<1>7. CASE PassFuture
  BY <1>7, PassStep
<1>8. CASE RecordFuture
  BY <1>8, FutureStep
<1>9. CASE Finish
  BY <1>9 DEF Finish, FinishMove
<1>10. CASE Done \/ UNCHANGED vars
  BY <1>10 DEF Done
<1> QED
  BY <1>1, <1>2, <1>3, <1>4, <1>5, <1>6, <1>7, <1>8, <1>9, <1>10 DEF Next

-----------------------------------------------------------------------------
(* Types.                                                                  *)

(* A sequence with an element more. *)
LEMMA Longer ==
    ASSUME NEW S, NEW q \in Seq(S), NEW x \in S
    PROVE  /\ Append(q, x) \in Seq(S) /\ Len(q) \in Nat
           /\ DOMAIN q = 1 .. Len(q) /\ DOMAIN Append(q, x) = 1 .. (Len(q) + 1)
           /\ \A i \in 1 .. Len(q) : Append(q, x)[i] = q[i]
           /\ Append(q, x)[Len(q) + 1] = x
BY AppendProperties

(* New finds before old ones are finds. *)
LEMMA WorkGrows ==
    ASSUME NEW A, NEW S, A \subseteq S, NEW new \in Seq(A), NEW rest \in Seq(S)
    PROVE  new \o rest \in Seq(S)
<1>1. \A i \in DOMAIN new : new[i] \in S
  OBVIOUS
<1>2. new \in Seq(S)
  BY <1>1
<1> QED BY <1>2, ConcatProperties

(* The types hold at first. *)
LEMMA TypedInit ==
    ASSUME Init
    PROVE  Typed
<1>1. Target(world)
  BY TargetsAssumption DEF Init
<1> QED BY <1>1 DEF Init, Typed

(* And every step keeps them. *)
LEMMA TypedStep ==
    ASSUME Typed, [Next]_vars
    PROVE  Typed'
<1>1. /\ Target(world) /\ task \in Nat /\ work \in Seq(Items) /\ visited \subseteq Values
      /\ held \in Seq(HeldRows) /\ sets \in Seq(SetRows) /\ joinSets \in Seq(JoinRows)
      /\ phase \in {"scan", "done"} /\ (phase = "done" => work = <<>>)
  BY DEF Typed
<1>2. CASE ScanMove
  <2>1. {x \in Items : x.via = <<>>} \subseteq Items
    OBVIOUS
  <2>2. PICK q \in Seq({x \in Items : x.via = <<>>}) : q = work'
    BY <1>2 DEF ScanMove
  <2>3. \A i \in DOMAIN q : q[i] \in Items
    BY <2>1
  <2>4. work' \in Seq(Items)
    BY <2>2, <2>3
  <2>5. task' \in Nat
    BY <1>1, <1>2 DEF ScanMove
  <2> QED BY <1>1, <1>2, <2>4, <2>5 DEF ScanMove, Typed, Target
<1>3. CASE DropMove
  <2>1. work' \in Seq(Items) /\ work # <<>>
    BY <1>3, HeadTailProperties DEF DropMove
  <2> QED BY <1>1, <1>3, <2>1 DEF DropMove, Typed, Target
<1>4. CASE FinishMove
  BY <1>1, <1>4 DEF FinishMove, Typed, Target
<1>5. CASE \E walk, row, new : SetMove(walk, row, new)
  <2>1. PICK walk, row, new : SetMove(walk, row, new)
    BY <1>5
  <2>2. sets' \in Seq(SetRows)
    <3>1. row \in SetRows /\ sets' = Append(sets, row)
      BY <2>1 DEF SetMove
    <3> QED BY <1>1, <3>1, Longer
  <2>3. work' \in Seq(Items)
    <3>1. ChildFinds(walk, Len(sets) + 1) \subseteq Items
      BY DEF ChildFinds
    <3>2. /\ new \in Seq(ChildFinds(walk, Len(sets) + 1)) /\ work' = new \o Tail(work)
          /\ Tail(work) \in Seq(Items)
      BY <2>1 DEF SetMove, Taken
    <3> QED BY <3>1, <3>2, WorkGrows
  <2>4. visited' \subseteq Values
    BY <1>1, <2>1, TakenFacts DEF SetMove, Taken
  <2> QED BY <1>1, <2>1, <2>2, <2>3, <2>4 DEF SetMove, Taken, Typed, Target
<1>6. CASE \E walk, row : JoinMove(walk, row)
  <2>1. PICK walk, row : JoinMove(walk, row)
    BY <1>6
  <2>2. joinSets' \in Seq(JoinRows)
    <3>1. row \in JoinRows /\ joinSets' = Append(joinSets, row)
      BY <2>1 DEF JoinMove
    <3> QED BY <1>1, <3>1, Longer
  <2>3. work' \in Seq(Items)
    BY <2>1 DEF JoinMove, Taken
  <2>4. visited' \subseteq Values
    BY <1>1, <2>1, TakenFacts DEF JoinMove, Taken
  <2> QED BY <1>1, <2>1, <2>2, <2>3, <2>4 DEF JoinMove, Taken, Typed, Target
<1>7. CASE \E new : ThroughMove(new)
  <2>1. PICK new : ThroughMove(new)
    BY <1>7
  <2>2. work' \in Seq(Items)
    <3>1. ThroughFinds \subseteq Items
      BY DEF ThroughFinds
    <3>2. /\ new \in Seq(ThroughFinds) /\ work' = new \o Tail(work)
          /\ Tail(work) \in Seq(Items)
      BY <2>1 DEF ThroughMove, Taken, ThroughFinds
    <3> QED BY <3>1, <3>2, WorkGrows
  <2>3. visited' \subseteq Values
    BY <1>1, <2>1, TakenFacts DEF ThroughMove, Taken
  <2> QED BY <1>1, <2>1, <2>2, <2>3 DEF ThroughMove, Taken, Typed, Target
<1>8. CASE \E row, new : FutureMove(row, new)
  <2>1. PICK row, new : FutureMove(row, new)
    BY <1>8
  <2>2. held' \in Seq(HeldRows) /\ row.future \in Values
    <3>1. row \in HeldRows /\ held' = Append(held, row)
      BY <2>1 DEF FutureMove
    <3>2. row.future \in Values
      BY <3>1 DEF HeldRows
    <3> QED BY <1>1, <3>1, <3>2, Longer
  <2>3. work' \in Seq(Items)
    <3>1. FindsOf(<<Len(held) + 1>>, row.frames, "All") \subseteq Items
      BY DEF FindsOf
    <3>2. /\ new \in Seq(FindsOf(<<Len(held) + 1>>, row.frames, "All"))
          /\ work' = new \o Tail(work) /\ Tail(work) \in Seq(Items)
      BY <2>1 DEF FutureMove, Taken
    <3> QED BY <3>1, <3>2, WorkGrows
  <2>4. visited' \subseteq Values
    BY <1>1, <2>1, <2>2, TakenFacts DEF FutureMove, Taken
  <2> QED BY <1>1, <2>1, <2>2, <2>3, <2>4 DEF FutureMove, Taken, Typed, Target
<1>9. CASE UNCHANGED vars
  BY <1>1, <1>9 DEF vars, Typed, Target
<1> QED
  BY <1>2, <1>3, <1>4, <1>5, <1>6, <1>7, <1>8, <1>9, StepIsMove

-----------------------------------------------------------------------------
(* Rows.                                                                   *)

(* A row's future or set is a value the walk has visited, which is why a
   fresh find is no row's; a set's children are nodes its walk admitted. *)
HeldInv ==
    /\ \A i \in DOMAIN held :
          held[i].future \in visited /\ ~ TakenBack(Addr[held[i].future])
    /\ \A i, j \in DOMAIN held : held[i].future = held[j].future => i = j

SetsInv ==
    /\ \A i \in DOMAIN sets :
          /\ sets[i].value \in visited /\ ~ TakenBack(Addr[sets[i].value])
          /\ \A c \in DOMAIN sets[i].children : Listable(sets[i].children[c].node)
    /\ \A i, j \in DOMAIN sets : sets[i].value = sets[j].value => i = j

(* What is visited stays so. *)
LEMMA VisitedGrows ==
    ASSUME Typed, [Next]_vars
    PROVE  visited \subseteq visited' /\ world' = world
<1>1. CASE ScanMove \/ DropMove \/ FinishMove \/ UNCHANGED vars
  BY <1>1 DEF ScanMove, DropMove, FinishMove, vars
<1>2. CASE \E walk, row, new : SetMove(walk, row, new)
  BY <1>2 DEF SetMove
<1>3. CASE \E walk, row : JoinMove(walk, row)
  BY <1>3 DEF JoinMove
<1>4. CASE \E new : ThroughMove(new)
  BY <1>4 DEF ThroughMove
<1>5. CASE \E row, new : FutureMove(row, new)
  BY <1>5 DEF FutureMove
<1> QED BY <1>1, <1>2, <1>3, <1>4, <1>5, StepIsMove

(* No step lists a future twice or out of freed memory. *)
LEMMA HeldStep ==
    ASSUME Typed, HeldInv, [Next]_vars
    PROVE  HeldInv'
<1>1. visited \subseteq visited' /\ world' = world
  BY VisitedGrows
<1>2. CASE held' = held
  BY <1>1, <1>2 DEF HeldInv, TakenBack
<1>3. CASE \E row, new : FutureMove(row, new)
  <2>1. PICK row, new : FutureMove(row, new)
    BY <1>3
  <2>2. /\ row \in HeldRows /\ row.future \notin visited /\ row.future \in visited'
        /\ ~ TakenBack(Addr[row.future]) /\ held' = Append(held, row)
    BY <2>1 DEF FutureMove
  <2>3. held \in Seq(HeldRows)
    BY DEF Typed
  <2>4. PICK n \in Nat : n = Len(held)
    BY <2>3, Elements
  <2>5. /\ DOMAIN held = 1 .. n /\ DOMAIN held' = 1 .. (n + 1)
        /\ \A i \in 1 .. n : held'[i] = held[i]
        /\ held'[n + 1] = row
    BY <2>2, <2>3, <2>4, Longer
  <2>6. \A i \in 1 .. n : held[i].future \in visited /\ ~ TakenBack(Addr[held[i].future])
    BY <2>5 DEF HeldInv
  <2>7. \A i \in 1 .. (n + 1) :
           held'[i].future \in visited' /\ ~ TakenBack(Addr[held'[i].future])
    <3> TAKE i \in 1 .. (n + 1)
    <3>1. i = n + 1 \/ i \in 1 .. n
      BY <2>4
    <3> QED BY <1>1, <2>2, <2>5, <2>6, <3>1
  <2>8. ASSUME NEW i \in 1 .. (n + 1), NEW j \in 1 .. (n + 1), held'[i].future = held'[j].future
        PROVE  i = j
    <3>1. CASE i \in 1 .. n /\ j \in 1 .. n
      BY <2>5, <2>8, <3>1 DEF HeldInv
    <3>2. CASE i = n + 1 /\ j = n + 1
      BY <3>2
    <3>3. CASE i \in 1 .. n /\ j = n + 1
      BY <2>2, <2>5, <2>6, <2>8, <3>3
    <3>4. CASE i = n + 1 /\ j \in 1 .. n
      BY <2>2, <2>5, <2>6, <2>8, <3>4
    <3>5. (i \in 1 .. n \/ i = n + 1) /\ (j \in 1 .. n \/ j = n + 1)
      OBVIOUS
    <3> QED BY <3>1, <3>2, <3>3, <3>4, <3>5
  <2> QED BY <1>1, <2>5, <2>7, <2>8 DEF HeldInv, TakenBack
<1>4. held' = held \/ \E row, new : FutureMove(row, new)
  BY StepIsMove DEF ScanMove, DropMove, FinishMove, SetMove, JoinMove, ThroughMove, vars
<1> QED BY <1>2, <1>3, <1>4

(* Nor a set, or a child of one out of freed memory. *)
LEMMA SetsStep ==
    ASSUME Typed, SetsInv, [Next]_vars
    PROVE  SetsInv'
<1>1. visited \subseteq visited' /\ world' = world
  BY VisitedGrows
<1>2. CASE sets' = sets
  BY <1>1, <1>2 DEF SetsInv, TakenBack, Listable
<1>3. CASE \E walk, row, new : SetMove(walk, row, new)
  <2>1. PICK walk, row, new : SetMove(walk, row, new)
    BY <1>3
  <2>2. /\ row \in SetRows /\ row.value \notin visited /\ row.value \in visited'
        /\ ~ TakenBack(Addr[row.value]) /\ sets' = Append(sets, row)
    BY <2>1 DEF SetMove, Taken, TakenValue, Fresh, Stale
  <2>3. \A c \in DOMAIN row.children : Listable(row.children[c].node)
    BY <2>1 DEF SetMove, Walks
  <2>4. sets \in Seq(SetRows)
    BY DEF Typed
  <2>5. PICK n \in Nat : n = Len(sets)
    BY <2>4, Elements
  <2>6. /\ DOMAIN sets = 1 .. n /\ DOMAIN sets' = 1 .. (n + 1)
        /\ \A i \in 1 .. n : sets'[i] = sets[i]
        /\ sets'[n + 1] = row
    BY <2>2, <2>4, <2>5, Longer
  <2>7. \A i \in 1 .. n :
           /\ sets[i].value \in visited /\ ~ TakenBack(Addr[sets[i].value])
           /\ \A c \in DOMAIN sets[i].children : Listable(sets[i].children[c].node)
    BY <2>6 DEF SetsInv
  <2>8. \A i \in 1 .. (n + 1) :
           /\ sets'[i].value \in visited' /\ ~ TakenBack(Addr[sets'[i].value])
           /\ \A c \in DOMAIN sets'[i].children : Listable(sets'[i].children[c].node)
    <3> TAKE i \in 1 .. (n + 1)
    <3>1. CASE i = n + 1
      BY <2>2, <2>3, <2>6, <3>1
    <3>2. CASE i \in 1 .. n
      BY <1>1, <2>6, <2>7, <3>2
    <3> QED BY <3>1, <3>2
  <2>9. ASSUME NEW i \in 1 .. (n + 1), NEW j \in 1 .. (n + 1), sets'[i].value = sets'[j].value
        PROVE  i = j
    <3>1. CASE i \in 1 .. n /\ j \in 1 .. n
      BY <2>6, <2>9, <3>1 DEF SetsInv
    <3>2. CASE i = n + 1 /\ j = n + 1
      BY <3>2
    <3>3. CASE i \in 1 .. n /\ j = n + 1
      BY <2>2, <2>6, <2>7, <2>9, <3>3
    <3>4. CASE i = n + 1 /\ j \in 1 .. n
      BY <2>2, <2>6, <2>7, <2>9, <3>4
    <3>5. (i \in 1 .. n \/ i = n + 1) /\ (j \in 1 .. n \/ j = n + 1)
      OBVIOUS
    <3> QED BY <3>1, <3>2, <3>3, <3>4, <3>5
  <2> QED BY <1>1, <2>6, <2>8, <2>9 DEF SetsInv, TakenBack, Listable
<1>4. sets' = sets \/ \E walk, row, new : SetMove(walk, row, new)
  BY StepIsMove DEF ScanMove, DropMove, FinishMove, JoinMove, ThroughMove, FutureMove, vars
<1> QED BY <1>2, <1>3, <1>4

(* The state of the census keeps its types on every target. *)
THEOREM CensusTypes == Spec => []Typed
<1>1. Init => Typed
  BY TypedInit
<1>2. Typed /\ [Next]_vars => Typed'
  BY TypedStep
<1> QED BY <1>1, <1>2, PTL DEF Spec

(* On every target, however its futures alias and its lists are bent: no
   future and no set is two rows, and no row or child is of memory the
   allocator has taken back (Walker::record, Walker::record_set). *)
THEOREM RowsAreOnceAndLive == Spec => []NoRowTwiceNorFreed
<1> DEFINE Inv == Typed /\ HeldInv /\ SetsInv
<1>1. Init => Inv
  BY TypedInit DEF Init, HeldInv, SetsInv
<1>2. Inv /\ [Next]_vars => Inv'
  BY TypedStep, HeldStep, SetsStep
<1>3. Inv => NoRowTwiceNorFreed
  <2> SUFFICES ASSUME Inv
               PROVE  NoRowTwiceNorFreed
    OBVIOUS
  <2>1. ASSUME NEW i \in DOMAIN sets, NEW child \in ToSet(sets[i].children)
        PROVE  ~ TakenBack(child.node)
    <3>1. PICK c \in DOMAIN sets[i].children : child = sets[i].children[c]
      BY <2>1 DEF ToSet
    <3> QED BY <3>1 DEF SetsInv, Listable
  <2> QED BY <2>1 DEF HeldInv, SetsInv, NoRowTwiceNorFreed
<1> QED BY <1>1, <1>2, <1>3, PTL DEF Spec

(* The walk ends on every target: each step scans a task, looks into a value
   for the first time or leaves less to record. *)
THEOREM TheWalkMakesHeadway == Spec => WalkMakesHeadway
<1> DEFINE Headway == \/ task' > task
                      \/ phase' # phase
                      \/ visited \subseteq visited' /\ visited' # visited
                      \/ visited' = visited /\ Len(work') < Len(work)
<1>1. Init => Typed
  BY TypedInit
<1>2. Typed /\ [Next]_vars => Typed'
  BY TypedStep
<1>3. ASSUME Typed, [Next]_vars
      PROVE  [Headway]_vars
  <2>1. CASE ScanMove
    BY <1>3, <2>1 DEF ScanMove, Typed
  <2>2. CASE DropMove
    <3>1. Len(Tail(work)) = Len(work) - 1 /\ Len(work) \in Nat
      BY <2>2, HeadTailProperties, Elements DEF DropMove
    <3> QED BY <2>2, <3>1 DEF DropMove
  <2>3. CASE FinishMove
    BY <2>3 DEF FinishMove
  <2>4. ASSUME Taken, TakenValue \in visited', visited \subseteq visited'
        PROVE  Headway
    BY <2>4 DEF Taken, TakenValue, Fresh
  <2>5. CASE \E walk, row, new : SetMove(walk, row, new)
    BY <2>4, <2>5 DEF SetMove
  <2>6. CASE \E walk, row : JoinMove(walk, row)
    BY <2>4, <2>6 DEF JoinMove
  <2>7. CASE \E new : ThroughMove(new)
    BY <2>4, <2>7 DEF ThroughMove
  <2>8. CASE \E row, new : FutureMove(row, new)
    BY <2>4, <2>8 DEF FutureMove
  <2> QED BY <1>3, <2>1, <2>2, <2>3, <2>5, <2>6, <2>7, <2>8, StepIsMove
<1> QED BY <1>1, <1>2, <1>3, PTL DEF Spec, WalkMakesHeadway

-----------------------------------------------------------------------------
(* Damage.                                                                 *)

Node(i, c) == sets[i].children[c].node

SpanOf(i, c) == [lo |-> Node(i, c), hi |-> Node(i, c) + world.nodes[Node(i, c)].size,
                 set |-> i, child |-> c]

(* The spans are those of the children listed, and of no more. *)
SpansInv ==
    /\ \A i \in DOMAIN sets : \A c \in DOMAIN sets[i].children : SpanOf(i, c) \in spans
    /\ \A span \in spans :
          \E i \in DOMAIN sets : \E c \in DOMAIN sets[i].children : span = SpanOf(i, c)

(* A join set's row agrees with its count or is named, and is of one walk. *)
JoinsInv ==
    \A i \in DOMAIN joinSets :
        /\ \/ Len(joinSets[i].children) = joinSets[i].length
           \/ \E error \in errors : Addr[joinSets[i].value] \in error
        /\ \A c, d \in DOMAIN joinSets[i].children :
              joinSets[i].children[c] = joinSets[i].children[d] => c = d

DoneInv == phase = "done" => Overlaps \subseteq errors

(* Each child listed gets its span. *)
LEMMA SpansStep ==
    ASSUME Typed, SpansInv, [Next]_vars
    PROVE  SpansInv'
<1>1. world' = world
  BY VisitedGrows
<1>2. CASE sets' = sets /\ spans' = spans
  BY <1>1, <1>2 DEF SpansInv, SpanOf, Node
<1>3. CASE \E walk, row, new : SetMove(walk, row, new)
  <2>1. PICK walk, row, new : SetMove(walk, row, new)
    BY <1>3
  <2> DEFINE Fresh1(c) == [lo |-> walk.nodes[c],
                           hi |-> walk.nodes[c] + world.nodes[walk.nodes[c]].size,
                           set |-> Len(sets) + 1, child |-> c]
  <2>2. /\ row \in SetRows /\ sets' = Append(sets, row)
        /\ DOMAIN row.children = DOMAIN walk.nodes
        /\ \A c \in DOMAIN walk.nodes : row.children[c].node = walk.nodes[c]
        /\ spans' = spans \cup {Fresh1(c) : c \in DOMAIN walk.nodes}
    BY <2>1 DEF SetMove
  <2>3. sets \in Seq(SetRows)
    BY DEF Typed
  <2>4. PICK n \in Nat : n = Len(sets)
    BY <2>3, Elements
  <2>5. /\ DOMAIN sets = 1 .. n /\ DOMAIN sets' = 1 .. (n + 1)
        /\ \A i \in 1 .. n : sets'[i] = sets[i]
        /\ sets'[n + 1] = row
    BY <2>2, <2>3, <2>4, Longer
  <2>6. \A i \in 1 .. n : \A c : SpanOf(i, c)' = SpanOf(i, c)
    BY <1>1, <2>5 DEF SpanOf, Node
  <2>7. \A c \in DOMAIN walk.nodes : SpanOf(n + 1, c)' = Fresh1(c)
    BY <1>1, <2>2, <2>4, <2>5 DEF SpanOf, Node
  <2> HIDE DEF Fresh1
  <2>8. ASSUME NEW i \in 1 .. (n + 1), NEW c \in DOMAIN sets'[i].children
        PROVE  SpanOf(i, c)' \in spans'
    <3>1. CASE i \in 1 .. n
      <4>1. c \in DOMAIN sets[i].children /\ i \in DOMAIN sets
        BY <2>5, <2>8, <3>1
      <4>2. SpanOf(i, c) \in spans
        BY <4>1 DEF SpansInv
      <4> QED BY <2>2, <2>6, <3>1, <4>2
    <3>2. CASE i = n + 1
      <4>1. c \in DOMAIN walk.nodes
        BY <2>2, <2>5, <2>8, <3>2
      <4>2. Fresh1(c) \in spans'
        BY <2>2, <4>1
      <4>3. SpanOf(n + 1, c)' = Fresh1(c)
        BY <2>7, <4>1
      <4> QED BY <3>2, <4>2, <4>3
    <3> QED BY <3>1, <3>2
  <2>9. ASSUME NEW span \in spans'
        PROVE  \E i \in 1 .. (n + 1) : \E c \in DOMAIN sets'[i].children : span = SpanOf(i, c)'
    <3>1. CASE span \in spans
      <4>1. PICK i \in DOMAIN sets : \E c \in DOMAIN sets[i].children : span = SpanOf(i, c)
        BY <3>1 DEF SpansInv
      <4>2. PICK c \in DOMAIN sets[i].children : span = SpanOf(i, c)
        BY <4>1
      <4>3. i \in 1 .. n /\ i \in 1 .. (n + 1) /\ c \in DOMAIN sets'[i].children
        BY <2>5, <4>2
      <4> QED BY <2>6, <4>2, <4>3
    <3>2. CASE span \notin spans
      <4>1. PICK c \in DOMAIN walk.nodes : span = Fresh1(c)
        BY <2>2, <2>9, <3>2
      <4>2. n + 1 \in 1 .. (n + 1) /\ c \in DOMAIN sets'[n + 1].children
        BY <2>2, <2>5, <4>1
      <4>3. span = SpanOf(n + 1, c)'
        BY <2>7, <4>1
      <4> QED BY <4>2, <4>3
    <3> QED BY <3>1, <3>2
  <2> QED BY <2>5, <2>8, <2>9 DEF SpansInv
<1>4. (sets' = sets /\ spans' = spans) \/ \E walk, row, new : SetMove(walk, row, new)
  BY StepIsMove DEF ScanMove, DropMove, FinishMove, JoinMove, ThroughMove, FutureMove, vars
<1> QED BY <1>2, <1>3, <1>4

(* Errors are only added. *)
LEMMA ErrorsStay ==
    ASSUME Typed, [Next]_vars
    PROVE  errors \subseteq errors'
<1>1. CASE ScanMove \/ DropMove \/ FinishMove \/ UNCHANGED vars
  BY <1>1 DEF ScanMove, DropMove, FinishMove, vars
<1>2. CASE \E walk, row, new : SetMove(walk, row, new)
  BY <1>2 DEF SetMove
<1>3. CASE \E walk, row : JoinMove(walk, row)
  BY <1>3 DEF JoinMove
<1>4. CASE \E new : ThroughMove(new)
  BY <1>4 DEF ThroughMove
<1>5. CASE \E row, new : FutureMove(row, new)
  BY <1>5 DEF FutureMove
<1> QED BY <1>1, <1>2, <1>3, <1>4, <1>5, StepIsMove

(* A join set is counted when it is listed. *)
LEMMA JoinsStep ==
    ASSUME Typed, JoinsInv, [Next]_vars
    PROVE  JoinsInv'
<1>1. errors \subseteq errors'
  BY ErrorsStay
<1>2. CASE joinSets' = joinSets
  BY <1>1, <1>2 DEF JoinsInv
<1>3. CASE \E walk, row : JoinMove(walk, row)
  <2>1. PICK walk, row : JoinMove(walk, row)
    BY <1>3
  <2>2. /\ row \in JoinRows /\ joinSets' = Append(joinSets, row)
        /\ \/ Len(row.children) = row.length
           \/ \E error \in errors' : Addr[row.value] \in error
    BY <2>1 DEF JoinMove
  <2>3. \A c, d \in DOMAIN row.children : row.children[c] = row.children[d] => c = d
    BY <2>1 DEF JoinMove, Walks
  <2>4. joinSets \in Seq(JoinRows)
    BY DEF Typed
  <2>5. PICK n \in Nat : n = Len(joinSets)
    BY <2>4, Elements
  <2>6. /\ DOMAIN joinSets = 1 .. n /\ DOMAIN joinSets' = 1 .. (n + 1)
        /\ \A i \in 1 .. n : joinSets'[i] = joinSets[i]
        /\ joinSets'[n + 1] = row
    BY <2>2, <2>4, <2>5, Longer
  <2>7. ASSUME NEW i \in 1 .. (n + 1)
        PROVE  /\ \/ Len(joinSets'[i].children) = joinSets'[i].length
                  \/ \E error \in errors' : Addr[joinSets'[i].value] \in error
               /\ \A c, d \in DOMAIN joinSets'[i].children :
                     joinSets'[i].children[c] = joinSets'[i].children[d] => c = d
    <3>1. CASE i \in 1 .. n
      <4>1. i \in DOMAIN joinSets /\ joinSets'[i] = joinSets[i]
        BY <2>6, <3>1
      <4> QED BY <1>1, <4>1 DEF JoinsInv
    <3>2. CASE i = n + 1
      BY <2>2, <2>3, <2>6, <3>2
    <3> QED BY <3>1, <3>2
  <2> QED BY <2>6, <2>7 DEF JoinsInv
<1>4. joinSets' = joinSets \/ \E walk, row : JoinMove(walk, row)
  BY StepIsMove DEF ScanMove, DropMove, FinishMove, SetMove, ThroughMove, FutureMove, vars
<1> QED BY <1>2, <1>3, <1>4

(* The overlaps are reported at the end, after which nothing moves. *)
LEMMA DoneStep ==
    ASSUME Typed, DoneInv, [Next]_vars
    PROVE  DoneInv'
<1>1. CASE phase' = "scan"
  BY <1>1 DEF DoneInv
<1>2. CASE FinishMove
  <2>1. Overlaps \subseteq errors' /\ spans' = spans
    BY <1>2 DEF FinishMove
  <2>2. Overlaps' = Overlaps
    BY <2>1 DEF Overlaps, Neighbours
  <2> QED BY <2>1, <2>2 DEF DoneInv
<1>3. CASE UNCHANGED vars
  <2>1. Overlaps' = Overlaps
    BY <1>3 DEF vars, Overlaps, Neighbours
  <2> QED BY <1>3, <2>1 DEF vars, DoneInv
<1>4. CASE ScanMove \/ (\E walk, row, new : SetMove(walk, row, new))
           \/ (\E walk, row : JoinMove(walk, row)) \/ (\E new : ThroughMove(new))
           \/ (\E row, new : FutureMove(row, new))
  <2>1. phase' = "scan"
    BY <1>4 DEF ScanMove, SetMove, JoinMove, ThroughMove, FutureMove, Taken
  <2> QED BY <1>1, <2>1
<1>5. CASE DropMove
  BY <1>1, <1>5 DEF DropMove, Typed
<1> QED BY <1>2, <1>3, <1>4, <1>5, StepIsMove

SpanRecord == [lo : Nat, hi : Nat, set : Nat, child : Nat]

(* The spans in their order: it is total, and a lower start comes first. *)
LEMMA OrderOfSpans ==
    ASSUME NEW a \in SpanRecord, NEW b \in SpanRecord
    PROVE  /\ a = b \/ Before(a, b) \/ Before(b, a)
           /\ ~ (Before(a, b) /\ Before(b, a)) /\ ~ Before(a, a)
           /\ Before(a, b) => a.lo <= b.lo
<1>1. /\ a.lo \in Nat /\ a.hi \in Nat /\ a.set \in Nat /\ a.child \in Nat
      /\ b.lo \in Nat /\ b.hi \in Nat /\ b.set \in Nat /\ b.child \in Nat
  BY DEF SpanRecord
<1>2. (a.lo = b.lo /\ a.hi = b.hi /\ a.set = b.set /\ a.child = b.child) => a = b
  BY DEF SpanRecord
<1> QED BY <1>1, <1>2 DEF Before

(* Some span of any comes first: the lowest start, of those the lowest end,
   of those the first set, of those the first child. *)
LEMMA FirstSpan ==
    ASSUME NEW S, S \subseteq SpanRecord, S # {}
    PROVE  \E m \in S : \A s \in S : s = m \/ Before(m, s)
<1>0. \A s \in S : s \in SpanRecord /\ s.lo \in Nat /\ s.hi \in Nat /\ s.set \in Nat
                   /\ s.child \in Nat
  BY DEF SpanRecord
<1> DEFINE L == {s.lo : s \in S}
<1>1. PICK lo \in L : \A x \in L : lo <= x
  <2>1. L \subseteq Nat /\ L # {}
    BY <1>0
  <2> HIDE DEF L
  <2> QED BY <2>1, SomeLeast
<1> DEFINE S2 == {s \in S : s.lo = lo}
           H == {s.hi : s \in S2}
<1>2. PICK hi \in H : \A x \in H : hi <= x
  <2>1. H \subseteq Nat /\ H # {}
    BY <1>0, <1>1
  <2> HIDE DEF H
  <2> QED BY <2>1, SomeLeast
<1> DEFINE S3 == {s \in S2 : s.hi = hi}
           I == {s.set : s \in S3}
<1>3. PICK set \in I : \A x \in I : set <= x
  <2>1. I \subseteq Nat /\ I # {}
    BY <1>0, <1>2
  <2> HIDE DEF I
  <2> QED BY <2>1, SomeLeast
<1> DEFINE S4 == {s \in S3 : s.set = set}
           C == {s.child : s \in S4}
<1>4. PICK child \in C : \A x \in C : child <= x
  <2>1. C \subseteq Nat /\ C # {}
    BY <1>0, <1>3
  <2> HIDE DEF C
  <2> QED BY <2>1, SomeLeast
<1>5. PICK m \in S4 : m.child = child
  BY <1>4
<1>6. m \in S /\ m.lo = lo /\ m.hi = hi /\ m.set = set
  BY <1>5
<1>7. ASSUME NEW s \in S, s # m
      PROVE  Before(m, s)
  <2>1. lo <= s.lo /\ lo \in Nat /\ s.lo \in Nat
    BY <1>0, <1>1
  <2>2. s.lo = lo => hi <= s.hi
    BY <1>2
  <2>3. s.lo = lo /\ s.hi = hi => set <= s.set
    BY <1>3
  <2>4. s.lo = lo /\ s.hi = hi /\ s.set = set => child <= s.child
    BY <1>4
  <2>5. ~ Before(s, m)
    <3>1. /\ hi \in Nat /\ set \in Nat /\ child \in Nat
          /\ s.hi \in Nat /\ s.set \in Nat /\ s.child \in Nat
      BY <1>0, <1>5, <1>6
    <3> HIDE DEF S4
    <3> QED BY <1>5, <1>6, <2>1, <2>2, <2>3, <2>4, <3>1 DEF Before
  <2> QED BY <1>0, <1>6, <1>7, <2>5, OrderOfSpans
<1> QED BY <1>6, <1>7

(* A child's span is one, and not empty. *)
LEMMA SpanType ==
    ASSUME Typed, SetsInv, NEW i \in DOMAIN sets, NEW c \in DOMAIN sets[i].children
    PROVE  /\ SpanOf(i, c) \in SpanRecord /\ SpanOf(i, c).lo = Node(i, c)
           /\ SpanOf(i, c).lo < SpanOf(i, c).hi
           /\ SpanOf(i, c).set = i /\ SpanOf(i, c).child = c
<1>1. sets \in Seq(SetRows) /\ Target(world)
  BY DEF Typed
<1>2. i \in Nat /\ sets[i] \in SetRows
  BY <1>1, Elements
<1>3. sets[i].children \in Seq(Children)
  BY <1>2 DEF SetRows
<1>4. c \in Nat
  BY <1>3, Elements
<1>5. Listable(Node(i, c))
  BY DEF SetsInv, Node
<1>6. PICK n \in Nat : n = Node(i, c)
  BY <1>5 DEF Listable
<1>7. PICK size \in Nat \ {0} : size = world.nodes[Node(i, c)].size
  BY <1>1, <1>5 DEF Listable, Target
<1>8. SpanOf(i, c) = [lo |-> n, hi |-> n + size, set |-> i, child |-> c]
  BY <1>6, <1>7 DEF SpanOf
<1> QED BY <1>2, <1>4, <1>6, <1>8 DEF SpanRecord

(* A child is located by its node, or the overlap that hides it is named. *)
LEMMA LocatedOrNamed ==
    ASSUME Typed, SetsInv, SpansInv, NEW i \in DOMAIN sets, NEW c \in DOMAIN sets[i].children
    PROVE  \/ {[set |-> s.set, child |-> s.child] : s \in Locate(Node(i, c))}
                 = {[set |-> i, child |-> c]}
           \/ \E error \in Overlaps : Node(i, c) \in error
<1>1. PICK me : me = SpanOf(i, c)
  OBVIOUS
<1>2. /\ me \in SpanRecord /\ me.lo = Node(i, c) /\ me.lo < me.hi
      /\ me.set = i /\ me.child = c
  BY <1>1, SpanType
<1>3. me \in spans
  BY <1>1 DEF SpansInv
<1>4. spans \subseteq SpanRecord
  <2> SUFFICES ASSUME NEW span \in spans
               PROVE  span \in SpanRecord
    OBVIOUS
  <2>1. PICK j \in DOMAIN sets : \E d \in DOMAIN sets[j].children : span = SpanOf(j, d)
    BY DEF SpansInv
  <2>2. PICK d \in DOMAIN sets[j].children : span = SpanOf(j, d)
    BY <2>1
  <2> QED BY <2>2, SpanType
<1> DEFINE After == {s \in spans : Before(me, s) /\ s.lo = me.lo}
<1>5. \A s \in spans : s \in SpanRecord /\ s.lo \in Nat /\ s.hi \in Nat
  BY <1>4 DEF SpanRecord
<1>6. CASE After = {}
  <2>1. me \in Locate(Node(i, c))
    <3>1. Node(i, c) \in me.lo .. (me.hi - 1)
      BY <1>2, <1>3, <1>5
    <3>2. ASSUME NEW other \in spans, Before(me, other)
          PROVE  other.lo > Node(i, c)
      <4>1. me.lo <= other.lo /\ other.lo # me.lo
        BY <1>2, <1>5, <1>6, <3>2, OrderOfSpans
      <4> QED BY <1>2, <1>3, <1>5, <4>1
    <3> QED BY <1>3, <3>1, <3>2 DEF Locate
  <2>2. ASSUME NEW s \in Locate(Node(i, c))
        PROVE  s = me
    <3>1. /\ s \in spans /\ s.lo <= me.lo
          /\ \A other \in spans : Before(s, other) => other.lo > me.lo
      BY <1>2, <1>5, <2>2 DEF Locate
    <3>2. ~ Before(s, me)
      BY <1>3, <1>5, <3>1
    <3>3. ~ Before(me, s)
      <4>1. SUFFICES ASSUME Before(me, s)
                     PROVE  FALSE
        OBVIOUS
      <4>2. me.lo <= s.lo
        BY <1>2, <1>5, <3>1, <4>1, OrderOfSpans
      <4>3. s.lo = me.lo
        BY <1>3, <1>5, <3>1, <4>2
      <4> QED BY <1>6, <3>1, <4>1, <4>3
    <3> QED BY <1>2, <1>5, <3>1, <3>2, <3>3, OrderOfSpans
  <2>3. Locate(Node(i, c)) = {me}
    BY <2>1, <2>2
  <2> QED BY <1>2, <2>3
<1>7. CASE After # {}
  <2>1. PICK m \in After : \A s \in After : s = m \/ Before(m, s)
    <3>1. After \subseteq SpanRecord
      BY <1>4
    <3> HIDE DEF After
    <3> QED BY <1>7, <3>1, FirstSpan
  <2>2. m \in spans /\ Before(me, m) /\ m.lo = me.lo
    BY <2>1
  <2>3. ASSUME NEW s \in spans, Before(me, s), Before(s, m)
        PROVE  FALSE
    <3>1. me.lo <= s.lo /\ s.lo <= m.lo
      BY <1>2, <1>5, <2>2, <2>3, OrderOfSpans
    <3>2. s.lo = me.lo
      BY <1>3, <1>5, <2>2, <3>1
    <3>3. s = m \/ Before(m, s)
      BY <2>1, <2>3, <3>2
    <3> QED BY <1>5, <2>2, <2>3, <3>3, OrderOfSpans
  <2>4. PICK p : p = <<me, m>>
    OBVIOUS
  <2>5. p \in spans \X spans /\ p[1] = me /\ p[2] = m
    BY <1>3, <2>2, <2>4
  <2>6. p \in Neighbours
    BY <2>2, <2>3, <2>5 DEF Neighbours
  <2>7. p[1].hi > p[2].lo
    BY <1>2, <1>3, <1>5, <2>2, <2>5
  <2>8. {p[1].lo, p[2].lo} \in Overlaps
    BY <2>6, <2>7 DEF Overlaps
  <2> QED BY <1>2, <2>5, <2>8
<1> QED BY <1>6, <1>7

(* On every target: a child's node is located as that child or an error names
   it, a join set that miscounts itself is named by one, and none lists an
   entry twice (span_overlap_errors, walk_join_set_entries). *)
THEOREM DamageIsAlwaysNamed == Spec => []DamageIsNamed
<1> DEFINE Inv == Typed /\ SetsInv /\ SpansInv /\ JoinsInv /\ DoneInv
<1>1. Init => Inv
  BY TypedInit DEF Init, SetsInv, SpansInv, JoinsInv, DoneInv
<1>2. Inv /\ [Next]_vars => Inv'
  BY TypedStep, SetsStep, SpansStep, JoinsStep, DoneStep
<1>3. Inv => DamageIsNamed
  <2> SUFFICES ASSUME Inv, phase = "done"
               PROVE  DamageIsNamed
    BY DEF DamageIsNamed
  <2>1. Overlaps \subseteq errors
    BY DEF DoneInv
  <2>2. ASSUME NEW i \in DOMAIN sets, NEW c \in DOMAIN sets[i].children
        PROVE  \/ {[set |-> s.set, child |-> s.child] : s \in Locate(Node(i, c))}
                     = {[set |-> i, child |-> c]}
               \/ \E error \in errors : Node(i, c) \in error
    BY <2>1, <2>2, LocatedOrNamed
  <2> QED BY <2>2, Zenon DEF DamageIsNamed, JoinsInv, Node
<1> QED BY <1>1, <1>2, <1>3, PTL DEF Spec


-----------------------------------------------------------------------------
(* Holders.                                                                *)

(* A set that can only grow inside a finite one has stopped growing after as
   many steps as there are members to add. *)
LEMMA Settles ==
    ASSUME NEW V, IsFiniteSet(V), NEW st \in [SUBSET V -> SUBSET V],
           \A X \in SUBSET V : X \subseteq st[X],
           NEW g \in [0 .. Cardinality(V) -> SUBSET V],
           \A n \in 1 .. Cardinality(V) : g[n] = st[g[n - 1]]
    PROVE  st[g[Cardinality(V)]] = g[Cardinality(V)]
<1>1. PICK N \in Nat : N = Cardinality(V)
  BY FS_CardinalityType
<1>2. \A n \in 0 .. N : g[n] \in SUBSET V
  BY <1>1
<1>3. \A n \in 0 .. N : IsFiniteSet(g[n]) /\ Cardinality(g[n]) \in Nat
  BY <1>2, FS_Subset, FS_CardinalityType
<1> DEFINE C == {n \in 0 .. N : st[g[n]] # g[n] /\ ~ (Cardinality(g[n]) >= n)}
<1>4. C = {}
  <2> SUFFICES ASSUME C # {}
               PROVE  FALSE
    OBVIOUS
  <2>1. C \subseteq Nat
    OBVIOUS
  <2>2. PICK k \in C : \A j \in C : k <= j
    <3> HIDE DEF C
    <3> QED BY <2>1, SomeLeast
  <2>3. k \in 0 .. N /\ st[g[k]] # g[k] /\ Cardinality(g[k]) < k
    BY <1>3, <2>2
  <2>4. k # 0
    BY <1>3, <2>3
  <2>5. k - 1 \in 0 .. N /\ k \in 1 .. N /\ k - 1 \notin C
    BY <2>2, <2>3, <2>4
  <2>6. g[k] = st[g[k - 1]] /\ g[k - 1] \subseteq g[k]
    BY <1>1, <1>2, <2>5
  <2>7. g[k - 1] # g[k]
    BY <2>3, <2>6
  <2>8. Cardinality(g[k - 1]) >= k - 1
    BY <2>5, <2>6, <2>7
  <2>9. Cardinality(g[k - 1]) <= Cardinality(g[k]) /\ Cardinality(g[k - 1]) # Cardinality(g[k])
    BY <1>3, <2>3, <2>6, <2>7, FS_Subset
  <2>10. Cardinality(g[k]) \in Nat /\ Cardinality(g[k - 1]) \in Nat /\ k \in Nat
    BY <1>3, <2>3, <2>5
  <2> QED BY <2>3, <2>8, <2>9, <2>10
<1>5. SUFFICES ASSUME Cardinality(g[N]) >= N
               PROVE  st[g[N]] = g[N]
  BY <1>1, <1>4
<1>6. Cardinality(g[N]) <= N
  BY <1>1, <1>2, FS_Subset
<1>7. g[N] = V
  BY <1>1, <1>2, <1>3, <1>5, <1>6, FS_Subset
<1>8. st[V] \in SUBSET V /\ V \subseteq st[V]
  <2>1. V \in SUBSET V
    OBVIOUS
  <2> QED BY <2>1
<1>9. st[V] = V
  BY <1>8
<1> QED BY <1>7, <1>9

(* What a value opens on is values, whatever else is opened with it. *)
LEMMA OpenedType ==
    ASSUME Target(world), NEW X \in SUBSET Values
    PROVE  /\ Opened(X) \in SUBSET Values /\ X \subseteq Opened(X)
           /\ \A v \in X : Opened({v}) \subseteq Opened(X)
<1> DEFINE From(v) == CASE Kind[v] = "Adapter" -> world.next[v]
                        [] Kind[v] \in {"Fanout", "Table"} -> ToSet(world.holds[v])
                        [] OTHER -> {}
<1>1. \A v \in Values : world.next[v] \in SUBSET Values /\ world.holds[v] \in Seq(Values)
  BY DEF Target
<1>2. ASSUME NEW v \in Values
      PROVE  From(v) \in SUBSET Values
  <2>1. PICK q \in Seq(Values) : q = world.holds[v]
    BY <1>1
  <2>2. ToSet(q) \in SUBSET Values
    BY DEF ToSet
  <2>3. ToSet(world.holds[v]) \in SUBSET Values
    BY <2>1, <2>2
  <2> QED BY <1>1, <2>3
<1>3. \A Y : Opened(Y) = Y \cup UNION {From(v) : v \in Y}
  BY DEF Opened
<1> HIDE DEF From
<1> QED BY <1>2, <1>3

(* What a chain offers is what its frames hold, closed under looking through
   containers and adapters: a census looks through one at a time, and the
   closure is reached in as many rounds as there are values. *)
LEMMA OfferedFacts ==
    ASSUME Target(world), NEW frames \in Seq(Values), NEW chain, chain.frames = frames
    PROVE  /\ FoundIn(frames, "All") \subseteq Offered(chain)
           /\ \A v \in Offered(chain) : Opened({v}) \subseteq Offered(chain)
<1> DEFINE N == Cardinality(Values)
           base == {find[1] : find \in Finds(chain, "All")}
           T == SUBSET Values
           st == [p \in Nat \X T |-> Opened(p[2])]
           grown == CHOOSE f : f = [n \in 0 .. N |-> IF n = 0 THEN base ELSE Opened(f[n - 1])]
<1>1. N \in Nat /\ 0 \in Nat /\ 0 <= N
  BY TargetsAssumption, FS_CardinalityType
<1>2. base = {v \in Values : \E k \in DOMAIN frames : v \in ToSet(Offers(frames[k], "All"))}
  <2>1. base = UNION {ToSet(Offers(frame, "All")) : frame \in ToSet(frames)}
    <3> DEFINE U == UNION {ToSet(Offers(frame, "All")) : frame \in ToSet(frames)}
    <3>1. Finds(chain, "All") = {<<v, ToSet(frames)>> : v \in U}
      BY DEF Finds
    <3> HIDE DEF U
    <3>2. {find[1] : find \in {<<v, ToSet(frames)>> : v \in U}} = U
      <4>1. PICK on : on = ToSet(frames)
        OBVIOUS
      <4>2. \A v \in U : <<v, on>>[1] = v
        OBVIOUS
      <4>3. {find[1] : find \in {<<v, on>> : v \in U}} = {<<v, on>>[1] : v \in U}
        BY Zenon
      <4>4. {<<v, on>>[1] : v \in U} = U
        BY <4>2, Zenon
      <4> QED BY <4>1, <4>3, <4>4
    <3> QED BY <3>1, <3>2 DEF U
  <2>2. ASSUME NEW k \in DOMAIN frames
        PROVE  ToSet(Offers(frames[k], "All")) \in SUBSET Values /\ frames[k] \in ToSet(frames)
    <3>1. PICK q \in Seq(Values) : q = Offers(frames[k], "All")
      <4>1. frames[k] \in Values
        OBVIOUS
      <4> QED BY <4>1, OffersType DEF Scopes
    <3>2. ToSet(q) \in SUBSET Values
      BY DEF ToSet
    <3> QED BY <3>1, <3>2 DEF ToSet
  <2>3. \A frame \in ToSet(frames) : \E k \in DOMAIN frames : frame = frames[k]
    BY DEF ToSet
  <2> HIDE DEF base
  <2> QED BY <2>1, <2>2, <2>3
<1>3. base \in T /\ base = FoundIn(frames, "All")
  BY <1>2 DEF FoundIn
<1>4. \A n \in Nat, X \in T : st[<<n, X>>] = Opened(X) /\ Opened(X) \in T
  BY OpenedType
<1>5. StepTable(st, T)
  BY OpenedType DEF StepTable
<1>6. Offered(chain) = grown[N]
  BY DEF Offered
<1> HIDE DEF N, base, st, T
<1>7. PICK f : IsIteration(f, T, base, st, 0, N)
  BY <1>1, <1>3, <1>5, Iterates
<1>8. /\ f \in [0 .. N -> T] /\ f[0] = base
      /\ \A n \in (0 + 1) .. N : f[n] = st[<<n, f[n - 1]>>]
  BY <1>7 DEF IsIteration
<1>9. ASSUME NEW n \in 0 .. N
      PROVE  f[n] = IF n = 0 THEN base ELSE Opened(f[n - 1])
  <2>1. CASE n # 0
    <3>1. n \in (0 + 1) .. N /\ n - 1 \in 0 .. N /\ n \in Nat
      BY <1>1, <2>1
    <3> QED BY <1>4, <1>8, <2>1, <3>1
  <2> QED BY <1>8, <2>1
<1>10. f = [n \in 0 .. N |-> IF n = 0 THEN base ELSE Opened(f[n - 1])]
  <2>1. f = [n \in 0 .. N |-> f[n]]
    BY <1>8
  <2> QED BY <1>9, <2>1
<1>11. grown = [n \in 0 .. N |-> IF n = 0 THEN base ELSE Opened(grown[n - 1])]
  BY <1>10
<1> HIDE DEF grown
<1>12. grown[0] = base /\ \A n \in 1 .. N : grown[n] = Opened(grown[n - 1])
  BY <1>1, <1>11
<1>13. \A n \in 0 .. N : grown[n] \in {X \in T : base \subseteq X}
  <2> DEFINE S == {X \in T : base \subseteq X}
  <2>1. grown[0] \in S
    BY <1>3, <1>12
  <2>2. ASSUME NEW n \in (0 + 1) .. N, grown[n - 1] \in S
        PROVE  grown[n] \in S
    <3>1. n \in 1 .. N
      BY <1>1
    <3>2. grown[n - 1] \in T /\ base \subseteq grown[n - 1]
      BY <2>2
    <3>3. Opened(grown[n - 1]) \in T /\ grown[n - 1] \subseteq Opened(grown[n - 1])
      BY <3>2, OpenedType DEF T
    <3>4. grown[n] = Opened(grown[n - 1])
      BY <1>12, <3>1
    <3> QED BY <3>2, <3>3, <3>4
  <2> HIDE DEF S
  <2>3. \A n \in 0 .. N : grown[n] \in S
    BY <1>1, <2>1, <2>2, Throughout
  <2> QED BY <2>3 DEF S
<1> DEFINE round == [X \in SUBSET Values |-> Opened(X)]
<1>14. /\ round \in [SUBSET Values -> SUBSET Values]
       /\ \A X \in SUBSET Values : X \subseteq round[X] /\ round[X] = Opened(X)
  BY OpenedType
<1> HIDE DEF round
<1>15. grown \in [0 .. Cardinality(Values) -> SUBSET Values]
  <2>1. grown = [n \in 0 .. N |-> grown[n]]
    BY <1>11
  <2> QED BY <1>13, <2>1 DEF N, T
<1>16. \A n \in 1 .. Cardinality(Values) : grown[n] = round[grown[n - 1]]
  <2> SUFFICES ASSUME NEW n \in 1 .. Cardinality(Values)
               PROVE  grown[n] = round[grown[n - 1]]
    OBVIOUS
  <2>1. n \in 1 .. N /\ n - 1 \in 0 .. N
    BY <1>1 DEF N
  <2>2. grown[n - 1] \in SUBSET Values
    BY <1>13, <2>1 DEF T
  <2> QED BY <1>12, <1>14, <2>1, <2>2
<1>17. round[grown[N]] = grown[N]
  BY <1>14, <1>15, <1>16, TargetsAssumption, Settles DEF N
<1>18. grown[N] \in SUBSET Values /\ base \subseteq grown[N]
  BY <1>1, <1>13 DEF T
<1>19. Opened(grown[N]) = grown[N]
  BY <1>14, <1>17, <1>18
<1> QED BY <1>3, <1>6, <1>18, <1>19, OpenedType

(* The target is frozen, and a chain and what it offers are read off it. *)
LEMMA ChainStays ==
    ASSUME world' = world, NEW root
    PROVE  InspectFuture(root)' = InspectFuture(root)
BY SMT DEF InspectFuture, Await, RouteRefused, Refused, TakenBack

(* What storage offers is a fact of the target. *)
LEMMA OfferedStays ==
    ASSUME world' = world, NEW chain
    PROVE  Offered(chain)' = Offered(chain)
BY SMT DEF Offered, Finds, Offers, Opened

(* Rows are only ever added. *)
RowsKept ==
    /\ \A i \in DOMAIN held : i \in DOMAIN held' /\ held'[i] = held[i]
    /\ \A i \in DOMAIN sets : i \in DOMAIN sets' /\ sets'[i] = sets[i]

(* A holder named once is the holder ever after. *)
LEMMA HolderStays ==
    ASSUME world' = world, RowsKept, NEW via, NEW v, HolderHolds(via, v)
    PROVE  HolderHolds(via, v)'
<1>1. CASE via = <<>>
  BY <1>1 DEF HolderHolds
<1>2. CASE Len(via) = 1 /\ via[1] \in DOMAIN held
             /\ v \in Offered([frames |-> held[via[1]].frames])
  <2>1. PICK c : c = [frames |-> held[via[1]].frames]
    OBVIOUS
  <2>2. via[1] \in DOMAIN held' /\ c = [frames |-> held'[via[1]].frames]
    BY <1>2, <2>1 DEF RowsKept
  <2>3. v \in Offered(c)
    BY <1>2, <2>1
  <2>4. v \in Offered(c)'
    BY <2>3, OfferedStays
  <2>5. v \in Offered([frames |-> held[via[1]].frames])'
    BY <2>2, <2>4
  <2> QED BY <1>2, <2>2, <2>5 DEF HolderHolds
<1>3. CASE /\ Len(via) = 2 /\ via[1] \in DOMAIN sets
           /\ via[2] \in DOMAIN sets[via[1]].children
           /\ world.nodes[sets[via[1]].children[via[2]].node].slot # <<>>
           /\ v \in Offered(InspectFuture(world.nodes[sets[via[1]].children[via[2]].node].slot[1]))
  <2>1. PICK slot : slot = world.nodes[sets[via[1]].children[via[2]].node].slot
    OBVIOUS
  <2>2. /\ via[1] \in DOMAIN sets' /\ via[2] \in DOMAIN sets'[via[1]].children
        /\ slot = world'.nodes[sets'[via[1]].children[via[2]].node].slot
    BY <1>3, <2>1 DEF RowsKept
  <2>3. PICK root : root = slot[1]
    OBVIOUS
  <2>4. PICK c : c = InspectFuture(root)
    OBVIOUS
  <2>5. c = InspectFuture(root)'
    BY <2>4, ChainStays
  <2>6. v \in Offered(c)
    BY <1>3, <2>1, <2>3, <2>4
  <2>7. v \in Offered(c)'
    BY <2>6, OfferedStays
  <2>8. v \in Offered(InspectFuture(root))'
    BY <2>5, <2>7
  <2>9. v \in Offered(InspectFuture(world.nodes[sets[via[1]].children[via[2]].node].slot[1]))'
    BY <2>2, <2>3, <2>8
  <2>10. (world.nodes[sets[via[1]].children[via[2]].node].slot # <<>>)'
    BY <1>3, <2>1, <2>2
  <2> QED BY <1>3, <2>2, <2>9, <2>10 DEF HolderHolds
<1> QED BY <1>1, <1>2, <1>3 DEF HolderHolds

(* Every step leaves the rows there are. *)
LEMMA RowsStay ==
    ASSUME Typed, [Next]_vars
    PROVE  RowsKept
<1>1. held \in Seq(HeldRows) /\ sets \in Seq(SetRows)
  BY DEF Typed
<1>2. CASE \E row, new : FutureMove(row, new)
  <2>1. PICK row : row \in HeldRows /\ held' = Append(held, row) /\ sets' = sets
    BY <1>2 DEF FutureMove
  <2>2. \A i \in DOMAIN held : i \in DOMAIN held' /\ held'[i] = held[i]
    BY <1>1, <2>1, Longer
  <2> QED BY <2>1, <2>2 DEF RowsKept
<1>3. CASE \E walk, row, new : SetMove(walk, row, new)
  <2>1. PICK row : row \in SetRows /\ sets' = Append(sets, row) /\ held' = held
    BY <1>3 DEF SetMove
  <2>2. \A i \in DOMAIN sets : i \in DOMAIN sets' /\ sets'[i] = sets[i]
    BY <1>1, <2>1, Longer
  <2> QED BY <2>1, <2>2 DEF RowsKept
<1>4. CASE held' = held /\ sets' = sets
  BY <1>4 DEF RowsKept
<1>5. \/ held' = held /\ sets' = sets
      \/ \E row, new : FutureMove(row, new)
      \/ \E walk, row, new : SetMove(walk, row, new)
  BY StepIsMove DEF ScanMove, DropMove, FinishMove, JoinMove, ThroughMove, vars
<1> QED BY <1>2, <1>3, <1>4, <1>5

(* What is queued after a find is taken off is new or was queued before. *)
LEMMA Queued ==
    ASSUME NEW S, NEW A, NEW q \in Seq(S), q # <<>>, NEW new \in Seq(A),
           NEW i \in DOMAIN (new \o Tail(q))
    PROVE  \/ (new \o Tail(q))[i] \in A
           \/ \E j \in DOMAIN q : (new \o Tail(q))[i] = q[j]
<1>1. PICK rest \in Seq(S) : rest = Tail(q)
  BY HeadTailProperties
<1>2. Len(new) \in Nat /\ Len(rest) \in Nat /\ Len(q) \in Nat /\ Len(rest) = Len(q) - 1
  BY <1>1, HeadTailProperties, Elements
<1>3. i \in 1 .. (Len(new) + Len(rest))
  BY <1>1
<1>4. CASE i <= Len(new)
  BY <1>1, <1>2, <1>3, <1>4
<1>5. CASE i > Len(new)
  <2>1. i - Len(new) \in 1 .. Len(rest) /\ (new \o rest)[i] = rest[i - Len(new)]
    BY <1>2, <1>3, <1>5
  <2>2. rest[i - Len(new)] = q[i - Len(new) + 1] /\ i - Len(new) + 1 \in DOMAIN q
    BY <1>1, <1>2, <2>1
  <2> QED BY <1>1, <2>1, <2>2
<1> QED BY <1>2, <1>3, <1>4, <1>5

(* A holder that holds a value holds what the value opens on. *)
LEMMA HolderHoldsThrough ==
    ASSUME Typed, SetsInv, NEW via, NEW v, HolderHolds(via, v), NEW u \in Opened({v})
    PROVE  HolderHolds(via, u)
<1>0. Target(world)
  BY DEF Typed
<1>1. CASE via = <<>>
  BY <1>1 DEF HolderHolds
<1>2. CASE Len(via) = 1 /\ via[1] \in DOMAIN held
             /\ v \in Offered([frames |-> held[via[1]].frames])
  <2>1. held[via[1]] \in HeldRows
    BY <1>2 DEF Typed
  <2>2. PICK frames \in Seq(Values) : frames = held[via[1]].frames
    BY <2>1 DEF HeldRows
  <2>3. PICK c \in [frames : Seq(Values)] : c = [frames |-> frames]
    OBVIOUS
  <2>3a. c.frames = frames
    BY <2>3
  <2>4. v \in Offered(c)
    BY <1>2, <2>2, <2>3
  <2>5. u \in Offered(c)
    BY <1>0, <2>3a, <2>4, OfferedFacts
  <2>6. u \in Offered([frames |-> held[via[1]].frames])
    BY <2>2, <2>3, <2>5
  <2> QED BY <1>2, <2>6 DEF HolderHolds
<1>3. CASE /\ Len(via) = 2 /\ via[1] \in DOMAIN sets
           /\ via[2] \in DOMAIN sets[via[1]].children
           /\ world.nodes[sets[via[1]].children[via[2]].node].slot # <<>>
           /\ v \in Offered(InspectFuture(world.nodes[sets[via[1]].children[via[2]].node].slot[1]))
  <2>1. PICK a : a = sets[via[1]].children[via[2]].node
    OBVIOUS
  <2>2. a \in DOMAIN world.nodes /\ world.nodes[a].slot # Broken
    BY <1>3, <2>1 DEF SetsInv, Listable
  <2>3. PICK root \in Values : root = world.nodes[a].slot[1]
    BY <1>0, <1>3, <2>1, <2>2, SlotFacts
  <2>4. PICK c \in Chains : c = InspectFuture(root)
    BY <1>0, ChainType
  <2>5. c.frames \in Seq(Values)
    BY DEF Chains, ChainRecord
  <2>6. v \in Offered(c)
    BY <1>3, <2>1, <2>3, <2>4
  <2>7. u \in Offered(c)
    BY <1>0, <2>5, <2>6, OfferedFacts
  <2>8. u \in Offered(InspectFuture(world.nodes[sets[via[1]].children[via[2]].node].slot[1]))
    BY <2>1, <2>3, <2>4, <2>7
  <2> QED BY <1>3, <2>8 DEF HolderHolds
<1> QED BY <1>1, <1>2, <1>3 DEF HolderHolds

(* The finds of a future's own frames name the row it was given. *)
LEMMA FutureNamesHolder ==
    ASSUME Typed, NEW row, NEW new, FutureMove(row, new),
           NEW x \in FindsOf(<<Len(held) + 1>>, row.frames, "All")
    PROVE  HolderHolds(x.via, x.value)'
<1>1. /\ Target(world) /\ held \in Seq(HeldRows) /\ row \in HeldRows
      /\ held' = Append(held, row) /\ world' = world
  BY DEF Typed, FutureMove
<1>2. PICK n \in Nat : n = Len(held)
  BY <1>1, Elements
<1>3. n + 1 \in DOMAIN held' /\ held'[n + 1] = row
  BY <1>1, <1>2, Longer
<1>4. PICK frames \in Seq(Values) : frames = row.frames
  BY <1>1 DEF HeldRows
<1>5. PICK c \in [frames : Seq(Values)] : c = [frames |-> frames]
  OBVIOUS
<1>5a. c.frames = frames
  BY <1>5
<1>6. x.via = <<n + 1>> /\ x.value \in FoundIn(frames, "All")
  BY <1>2, <1>4 DEF FindsOf
<1>7. x.value \in Offered(c)
  BY <1>1, <1>5a, <1>6, OfferedFacts
<1>8. x.value \in Offered(c)'
  BY <1>1, <1>7, OfferedStays
<1>9. PICK via : via = x.via
  OBVIOUS
<1>10. Len(via) = 1 /\ via[1] = n + 1
  BY <1>6, <1>9
<1>11. c = [frames |-> held'[via[1]].frames]
  BY <1>3, <1>4, <1>5, <1>10
<1>12. x.value \in Offered([frames |-> held[via[1]].frames])'
  BY <1>8, <1>11
<1>13. HolderHolds(via, x.value)'
  BY <1>3, <1>10, <1>12 DEF HolderHolds
<1> QED BY <1>9, <1>13

(* The finds of a set's children name the set's row and the child. *)
LEMMA SetNamesHolder ==
    ASSUME Typed, NEW walk, NEW row, NEW new, SetMove(walk, row, new),
           NEW x \in ChildFinds(walk, Len(sets) + 1)
    PROVE  HolderHolds(x.via, x.value)'
<1>1. /\ Target(world) /\ sets \in Seq(SetRows) /\ row \in SetRows
      /\ sets' = Append(sets, row) /\ world' = world /\ walk \in Walks
  BY DEF Typed, SetMove
<1>2. PICK n \in Nat : n = Len(sets)
  BY <1>1, Elements
<1>3. n + 1 \in DOMAIN sets' /\ sets'[n + 1] = row
  BY <1>1, <1>2, Longer
<1>4. PICK k \in DOMAIN walk.nodes :
         /\ world.nodes[walk.nodes[k]].slot # <<>> /\ x.via = <<n + 1, k>>
         /\ x.value \in FoundIn(InspectFuture(world.nodes[walk.nodes[k]].slot[1]).frames, "All")
  BY <1>2 DEF ChildFinds
<1>5. PICK a : a = walk.nodes[k]
  OBVIOUS
<1>6. k \in DOMAIN row.children /\ row.children[k].node = a
  BY <1>5 DEF SetMove
<1>7. a \in DOMAIN world.nodes /\ world.nodes[a].slot # Broken
  BY <1>1, <1>5 DEF Walks, Listable
<1>8. PICK root \in Values : root = world.nodes[a].slot[1]
  BY <1>1, <1>4, <1>5, <1>7, SlotFacts
<1>9. PICK c \in Chains : c = InspectFuture(root)
  BY <1>1, ChainType
<1>10. c.frames \in Seq(Values)
  BY DEF Chains, ChainRecord
<1>11. x.value \in FoundIn(c.frames, "All")
  BY <1>4, <1>5, <1>8, <1>9
<1>12. x.value \in Offered(c)
  BY <1>1, <1>10, <1>11, OfferedFacts
<1>13. x.value \in Offered(c)'
  BY <1>1, <1>12, OfferedStays
<1>14. c = InspectFuture(root)'
  BY <1>1, <1>9, ChainStays
<1>15. x.value \in Offered(InspectFuture(root))'
  BY <1>13, <1>14
<1>16. PICK via : via = x.via
  OBVIOUS
<1>17. Len(via) = 2 /\ via[1] = n + 1 /\ via[2] = k
  BY <1>4, <1>16
<1>18. via[1] \in DOMAIN sets' /\ via[2] \in DOMAIN sets'[via[1]].children
  BY <1>3, <1>6, <1>17
<1>19. sets'[via[1]].children[via[2]].node = a
  BY <1>3, <1>6, <1>17
<1>20. /\ world'.nodes[sets'[via[1]].children[via[2]].node].slot # <<>>
       /\ root = world'.nodes[sets'[via[1]].children[via[2]].node].slot[1]
  BY <1>1, <1>4, <1>5, <1>8, <1>19
<1>21. x.value \in Offered(InspectFuture(world.nodes[sets[via[1]].children[via[2]].node].slot[1]))'
  BY <1>15, <1>20
<1>22. HolderHolds(via, x.value)'
  BY <1>17, <1>18, <1>20, <1>21 DEF HolderHolds
<1> QED BY <1>16, <1>22

(* Every find queued and every row listed keeps naming its holder. *)
LEMMA ViasStep ==
    ASSUME Typed, SetsInv, ViasNameTheHolder, [Next]_vars
    PROVE  ViasNameTheHolder'
<1>1. world' = world /\ RowsKept
  BY VisitedGrows, RowsStay
<1>2. /\ work \in Seq(Items) /\ held \in Seq(HeldRows)
      /\ sets \in Seq(SetRows) /\ joinSets \in Seq(JoinRows)
  BY DEF Typed
<1>3. \A via, v : HolderHolds(via, v) => HolderHolds(via, v)'
  BY <1>1, HolderStays
<1>4. \A x : (\E i \in DOMAIN work : x = work[i]) => HolderHolds(x.via, x.value)'
  <2> SUFFICES ASSUME NEW x, NEW i \in DOMAIN work, x = work[i]
               PROVE  HolderHolds(x.via, x.value)'
    OBVIOUS
  <2>1. HolderHolds(x.via, x.value)
    BY DEF ViasNameTheHolder
  <2> QED BY <1>3, <2>1
<1>5. ASSUME work # <<>>, NEW via, NEW v, via = Head(work).via, v = TakenValue
      PROVE  HolderHolds(via, v) /\ HolderHolds(via, v)'
  <2>1. Head(work) = work[1] /\ 1 \in DOMAIN work
    BY <1>2, <1>5
  <2>2. HolderHolds(via, v)
    BY <1>5, <2>1 DEF ViasNameTheHolder, TakenValue
  <2> QED BY <1>3, <2>2
<1>6. ASSUME work # <<>>, NEW A, NEW new \in Seq(A), work' = new \o Tail(work),
             \A x \in A : HolderHolds(x.via, x.value)'
      PROVE  (\A i \in DOMAIN work : HolderHolds(work[i].via, work[i].value))'
  <2> SUFFICES ASSUME NEW i \in DOMAIN work'
               PROVE  HolderHolds(work[i].via, work[i].value)'
    OBVIOUS
  <2>1. PICK x : x = work'[i]
    OBVIOUS
  <2>2. x \in A \/ \E j \in DOMAIN work : x = work[j]
    BY <1>2, <1>6, <2>1, Queued
  <2>3. HolderHolds(x.via, x.value)'
    BY <1>4, <1>6, <2>2
  <2> QED BY <2>1, <2>3
<1>7. ASSUME held' = held
      PROVE  (\A i \in DOMAIN held : HolderHolds(held[i].via, held[i].slot))'
  BY <1>3, <1>7 DEF ViasNameTheHolder
<1>8. ASSUME sets' = sets
      PROVE  (\A i \in DOMAIN sets : HolderHolds(sets[i].via, sets[i].value))'
  BY <1>3, <1>8 DEF ViasNameTheHolder
<1>9. ASSUME joinSets' = joinSets
      PROVE  (\A i \in DOMAIN joinSets : HolderHolds(joinSets[i].via, joinSets[i].value))'
  BY <1>3, <1>9 DEF ViasNameTheHolder
<1>10. CASE ScanMove
  <2>1. PICK q \in Seq({x \in Items : x.via = <<>>}) : q = work'
    BY <1>10 DEF ScanMove
  <2>2. \A i \in DOMAIN q : q[i].via = <<>>
    OBVIOUS
  <2>3. \A i \in DOMAIN work' : work'[i].via = <<>>
    BY <2>1, <2>2
  <2>4. (\A i \in DOMAIN work : HolderHolds(work[i].via, work[i].value))'
    BY <2>3 DEF HolderHolds
  <2> QED BY <1>7, <1>8, <1>9, <1>10, <2>4 DEF ScanMove, ViasNameTheHolder
<1>11. CASE DropMove
  <2>1. PICK none, new : none = {} /\ new = <<>>
    OBVIOUS
  <2>2. work # <<>> /\ work' = Tail(work) /\ Tail(work) \in Seq(Items)
    BY <1>2, <1>11, HeadTailProperties DEF DropMove
  <2>3. work' = new \o Tail(work) /\ new \in Seq(none)
    BY <2>1, <2>2
  <2>4. \A x \in none : HolderHolds(x.via, x.value)'
    BY <2>1
  <2>5. (\A i \in DOMAIN work : HolderHolds(work[i].via, work[i].value))'
    BY <1>6, <2>2, <2>3, <2>4
  <2> QED BY <1>7, <1>8, <1>9, <1>11, <2>5 DEF DropMove, ViasNameTheHolder
<1>12. CASE FinishMove \/ UNCHANGED vars
  <2>1. work' = work /\ held' = held /\ sets' = sets /\ joinSets' = joinSets
    BY <1>12 DEF FinishMove, vars
  <2>2. (\A i \in DOMAIN work : HolderHolds(work[i].via, work[i].value))'
    BY <1>4, <2>1
  <2> QED BY <1>7, <1>8, <1>9, <2>1, <2>2 DEF ViasNameTheHolder
<1>13. CASE \E walk, row, new : SetMove(walk, row, new)
  <2>1. PICK walk, row, new : SetMove(walk, row, new)
    BY <1>13
  <2>2. /\ work # <<>> /\ row \in SetRows /\ sets' = Append(sets, row)
        /\ row.value = TakenValue /\ row.via = Head(work).via
        /\ held' = held /\ joinSets' = joinSets /\ work' = new \o Tail(work)
        /\ new \in Seq(ChildFinds(walk, Len(sets) + 1))
    BY <2>1 DEF SetMove, Taken
  <2>3. PICK A : A = ChildFinds(walk, Len(sets) + 1)
    OBVIOUS
  <2>4. \A x \in A : HolderHolds(x.via, x.value)'
    BY <2>1, <2>3, SetNamesHolder
  <2>5. (\A i \in DOMAIN work : HolderHolds(work[i].via, work[i].value))'
    BY <1>6, <2>2, <2>3, <2>4
  <2>6. HolderHolds(row.via, row.value)'
    BY <1>5, <2>2
  <2>7. ASSUME NEW i \in DOMAIN sets'
        PROVE  HolderHolds(sets[i].via, sets[i].value)'
    <3>1. i \in DOMAIN sets \/ sets'[i] = row
      BY <1>2, <2>2, Longer
    <3>2. CASE i \in DOMAIN sets
      <4>1. PICK x : x = sets[i] /\ x = sets'[i]
        BY <1>1, <3>2 DEF RowsKept
      <4>2. HolderHolds(x.via, x.value)
        BY <3>2, <4>1 DEF ViasNameTheHolder
      <4>3. HolderHolds(x.via, x.value)'
        BY <1>3, <4>2
      <4> QED BY <4>1, <4>3
    <3>3. CASE sets'[i] = row
      BY <2>6, <3>3
    <3> QED BY <3>1, <3>2, <3>3
  <2> QED BY <1>7, <1>9, <2>2, <2>5, <2>7 DEF ViasNameTheHolder
<1>14. CASE \E walk, row : JoinMove(walk, row)
  <2>1. PICK walk, row : JoinMove(walk, row)
    BY <1>14
  <2>2. /\ work # <<>> /\ row \in JoinRows /\ joinSets' = Append(joinSets, row)
        /\ row.value = TakenValue /\ row.via = Head(work).via
        /\ held' = held /\ sets' = sets /\ work' = Tail(work)
    BY <2>1 DEF JoinMove, Taken
  <2>3. PICK none, new : none = {} /\ new = <<>>
    OBVIOUS
  <2>4. work' = new \o Tail(work) /\ new \in Seq(none)
    <3>1. Tail(work) \in Seq(Items)
      BY <1>2, <2>2, HeadTailProperties
    <3> QED BY <2>2, <2>3, <3>1
  <2>5. \A x \in none : HolderHolds(x.via, x.value)'
    BY <2>3
  <2>6. (\A i \in DOMAIN work : HolderHolds(work[i].via, work[i].value))'
    BY <1>6, <2>2, <2>4, <2>5
  <2>7. HolderHolds(row.via, row.value)'
    BY <1>5, <2>2
  <2>8. ASSUME NEW i \in DOMAIN joinSets'
        PROVE  HolderHolds(joinSets[i].via, joinSets[i].value)'
    <3>1. (i \in DOMAIN joinSets /\ joinSets'[i] = joinSets[i]) \/ joinSets'[i] = row
      BY <1>2, <2>2, Longer
    <3>2. CASE i \in DOMAIN joinSets /\ joinSets'[i] = joinSets[i]
      <4>1. PICK x : x = joinSets[i] /\ x = joinSets'[i]
        BY <3>2
      <4>2. HolderHolds(x.via, x.value)
        BY <3>2, <4>1 DEF ViasNameTheHolder
      <4>3. HolderHolds(x.via, x.value)'
        BY <1>3, <4>2
      <4> QED BY <4>1, <4>3
    <3>3. CASE joinSets'[i] = row
      BY <2>7, <3>3
    <3> QED BY <3>1, <3>2, <3>3
  <2> QED BY <1>7, <1>8, <2>2, <2>6, <2>8 DEF ViasNameTheHolder
<1>15. CASE \E new : ThroughMove(new)
  <2>1. PICK new : ThroughMove(new)
    BY <1>15
  <2>2. /\ work # <<>> /\ new \in Seq(ThroughFinds) /\ work' = new \o Tail(work)
        /\ held' = held /\ sets' = sets /\ joinSets' = joinSets
    BY <2>1 DEF ThroughMove, Taken, ThroughFinds
  <2>3. ASSUME NEW x \in ThroughFinds
        PROVE  HolderHolds(x.via, x.value)'
    <3>1. PICK via, v : via = Head(work).via /\ v = TakenValue
      OBVIOUS
    <3>2. HolderHolds(via, v)
      BY <1>5, <2>2, <3>1
    <3>3. x.via = via /\ x.value \in Opened({v})
      BY <3>1 DEF ThroughFinds
    <3>4. HolderHolds(via, x.value)
      BY <3>2, <3>3, HolderHoldsThrough
    <3> QED BY <1>3, <3>3, <3>4
  <2>4. (\A i \in DOMAIN work : HolderHolds(work[i].via, work[i].value))'
    BY <1>6, <2>2, <2>3
  <2> QED BY <1>7, <1>8, <1>9, <2>2, <2>4 DEF ViasNameTheHolder
<1>16. CASE \E row, new : FutureMove(row, new)
  <2>1. PICK row, new : FutureMove(row, new)
    BY <1>16
  <2>2. /\ work # <<>> /\ row \in HeldRows /\ held' = Append(held, row)
        /\ row.slot = TakenValue /\ row.via = Head(work).via
        /\ sets' = sets /\ joinSets' = joinSets /\ work' = new \o Tail(work)
        /\ new \in Seq(FindsOf(<<Len(held) + 1>>, row.frames, "All"))
    BY <2>1 DEF FutureMove, Taken
  <2>3. PICK A : A = FindsOf(<<Len(held) + 1>>, row.frames, "All")
    OBVIOUS
  <2>4. \A x \in A : HolderHolds(x.via, x.value)'
    BY <2>1, <2>3, FutureNamesHolder
  <2>5. (\A i \in DOMAIN work : HolderHolds(work[i].via, work[i].value))'
    BY <1>6, <2>2, <2>3, <2>4
  <2>6. HolderHolds(row.via, row.slot)'
    BY <1>5, <2>2
  <2>7. ASSUME NEW i \in DOMAIN held'
        PROVE  HolderHolds(held[i].via, held[i].slot)'
    <3>1. i \in DOMAIN held \/ held'[i] = row
      BY <1>2, <2>2, Longer
    <3>2. CASE i \in DOMAIN held
      <4>1. PICK x : x = held[i] /\ x = held'[i]
        BY <1>1, <3>2 DEF RowsKept
      <4>2. HolderHolds(x.via, x.slot)
        BY <3>2, <4>1 DEF ViasNameTheHolder
      <4>3. HolderHolds(x.via, x.slot)'
        BY <1>3, <4>2
      <4> QED BY <4>1, <4>3
    <3>3. CASE held'[i] = row
      BY <2>6, <3>3
    <3> QED BY <3>1, <3>2, <3>3
  <2> QED BY <1>8, <1>9, <2>2, <2>5, <2>7 DEF ViasNameTheHolder
<1> QED
  BY <1>10, <1>11, <1>12, <1>13, <1>14, <1>15, <1>16, StepIsMove

(* On every target: the index a find names, reserved before the descent, is
   that of the future or set child whose frames hold it, at every step
   (Walker::record, Walker::record_set). *)
THEOREM ViasAlwaysNameTheHolder == Spec => []ViasNameTheHolder
<1> DEFINE Inv == Typed /\ SetsInv /\ ViasNameTheHolder
<1>1. Init => Inv
  BY TypedInit DEF Init, SetsInv, ViasNameTheHolder
<1>2. Inv /\ [Next]_vars => Inv'
  BY TypedStep, SetsStep, ViasStep
<1> QED BY <1>1, <1>2, PTL DEF Spec

=============================================================================
