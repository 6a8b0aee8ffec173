------------------------- MODULE SessionCellsProofs -------------------------
(***************************************************************************)
(* Why a session's answers descend from one census and one sweep: proofs, *)
(* with and without "--audit", warmed or not, for any number of commands  *)
(* and wherever the launch worker ends, that every set of a cell lands,   *)
(* that no accessor asks for itself, and that a warm session is complete. *)
(***************************************************************************)
EXTENDS SessionCells, SequenceTheorems, TLAPS

Instr ==
    {Ask(c) : c \in Cells} \cup {Fill(c) : c \in Cells \ {"attribution"}}
    \cup {Put(c) : c \in {"attribution", "analysis", "task_rows"}}
    \cup {Check(x) : x \in Audits} \cup {Expect("attribution"), Join}

Origins == Cells \X {"session", "worker"}

CellsType ==
    /\ cells \in [Cells -> SUBSET Origins]
    /\ code \in Seq(Instr)
    /\ worker \in {"none", "started", "extents", "census", "done", "dead"}
    /\ built \in [WorkerCells -> SUBSET Origins]
    /\ audits \in [Audits -> {0, 1}]
    /\ phase \in {"launch", "prompt", "command"}
    /\ phase = "prompt" => code = <<>>

----------------------------------------------------------------------------
(* What may ask for what.  A cell ranks above everything its              *)
(* initialisation asks for, and a call weighs what it may come to fill.   *)

Rank(c) ==
    IF c \in {"extents", "census", "stacks"} THEN 1
    ELSE IF c \in {"wakers", "blocking_lwps", "thread_rows", "census_tree"} THEN 2
    ELSE IF c = "attribution" THEN 3
    ELSE IF c = "analysis" THEN 4 ELSE 6

Weight(call) ==
    IF call = Join \/ call = Check("census") THEN 1
    ELSE IF call[1] \in {"check", "expect"} \/ call = Ask("attribution") THEN 5
    ELSE Rank(call[2])

Sets(call) == call[1] \in {"fill", "put"}

(* The calls ahead of one that sets a cell weigh less than it. *)
Ordered(s) ==
    \A j, k \in DOMAIN s : j < k /\ Sets(s[k]) => Weight(s[j]) < Weight(s[k])

(* The calls that put p in front of what is left after h. *)
Lighter(p, h) ==
    /\ p \in Seq(Instr)
    /\ Ordered(p)
    /\ \A k \in DOMAIN p : Weight(p[k]) <= Weight(h) /\ p[k] # Join

(* Every cell still to be set is empty. *)
SetsAwait == \A k \in DOMAIN code : Sets(code[k]) => cells[code[k][2]] = {}

(* The attribution is there before the analysis, and not without one to   *)
(* come.                                                                  *)
SetsAnalysis(k) == Sets(code[k]) /\ code[k][2] = "analysis"

AttributionFirst ==
    /\ cells["analysis"] # {} => cells["attribution"] # {}
    /\ cells["attribution"] # {} => cells["analysis"] # {} \/ \E k \in DOMAIN code : SetsAnalysis(k)
    /\ \A k \in DOMAIN code : SetsAnalysis(k) =>
          \/ cells["attribution"] # {}
          \/ \E j \in DOMAIN code : j < k /\ code[j] = Put("attribution")
    /\ \A k \in DOMAIN code : code[k] = Put("attribution") =>
          \E j \in DOMAIN code : j > k /\ SetsAnalysis(j)

Expected ==
    \A k \in DOMAIN code : code[k] = Expect("attribution") =>
       \/ cells["analysis"] # {}
       \/ \E j \in DOMAIN code : j < k /\ (SetsAnalysis(j) \/ code[j] = Ask("analysis"))

(* Until the join nothing has asked for what the worker builds. *)
Apart == {"stacks", "blocking_lwps", "thread_rows"}

BeforeJoin ==
    \A k \in DOMAIN code : code[k] = Join =>
       /\ \A c \in WorkerCells : cells[c] = {}
       /\ \A j \in DOMAIN code :
             /\ j < k => code[j] \in {Ask(c) : c \in Apart} \cup {Fill(c) : c \in Apart}
             /\ j > k => code[j] # Join /\ code[j][1] # "fill"

----------------------------------------------------------------------------
(* Lineages. *)

Closed == \A c \in Cells : \A origin \in cells[c] : origin \in cells[origin[1]]

BuiltClosed ==
    /\ \A c \in WorkerCells : \A origin \in built[c] :
          origin[1] \in WorkerCells /\ origin \in built[origin[1]]
    /\ worker = "started" => \A c \in WorkerCells : built[c] = {}
    /\ worker = "extents" => built["census"] = {} /\ built["wakers"] = {}
    /\ worker = "census" => built["wakers"] = {}

----------------------------------------------------------------------------
(* What the launch still has to do. *)

Needed == ListingCells \cup WorkerCells \cup {"analysis", "attribution"}

Pending(c) ==
    \E k \in DOMAIN code : \/ Sets(code[k]) /\ code[k][2] = c
                           \/ c # "attribution" /\ code[k] = Ask(c)

PendingCheck(x) ==
    \E k \in DOMAIN code : \/ code[k] = Check(x)
                           \/ x = "census" /\ code[k] = Ask("census")
                           \/ x # "census" /\ code[k] = Ask("attribution")

Warming ==
    worker # "none" =>
      /\ \A c \in Needed : cells[c] # {} \/ (phase = "launch" /\ Pending(c))
      /\ Audit => \A x \in Audits : audits[x] = 1 \/ (phase = "launch" /\ PendingCheck(x))

Audited == ~ Audit => \A x \in Audits : audits[x] = 0

CellsInv ==
    /\ CellsType /\ Ordered(code) /\ SetsAwait /\ AttributionFirst /\ Expected /\ BeforeJoin
    /\ Closed /\ BuiltClosed /\ dropped = {}
    /\ Warming /\ Audited

----------------------------------------------------------------------------
(* Calls. *)

(* What an instruction is made of. *)
LEMMA InstrShape ==
    \A i \in Instr : /\ i[1] \in {"ask", "fill", "put", "check", "expect", "join"}
                     /\ i[2] \in Cells
                     /\ i = <<i[1], i[2]>>
                     /\ i[1] = "fill" => i[2] # "attribution"
                     /\ i[1] = "put" => i[2] \in {"attribution", "analysis", "task_rows"}
                     /\ i[1] = "check" => i[2] \in Audits
                     /\ i[1] = "expect" => i = Expect("attribution")
                     /\ i[1] = "join" => i = Join
  BY DEF Instr, Ask, Fill, Put, Check, Expect, Join, Cells, WorkerCells, ListingCells, Audits

(* Putting the attribution back sets its cell. *)
LEMMA PutSets == Sets(Put("attribution")) /\ Put("attribution")[2] = "attribution"
  BY DEF Sets, Put

(* A weight is a number. *)
LEMMA WeightType == \A i \in Instr : Weight(i) \in Nat
  BY InstrShape DEF Weight, Rank

(* What is where once p is put in front of what is left of s. *)
Pushed(s, p, t) ==
    /\ t \in Seq(Instr)
    /\ DOMAIN t = 1 .. (Len(p) + Len(s) - 1)
    /\ \A k \in DOMAIN t : \/ k \in DOMAIN p /\ t[k] = p[k]
                           \/ k > Len(p) /\ (k - Len(p) + 1) \in DOMAIN s /\ t[k] = s[k - Len(p) + 1]
    /\ \A k \in DOMAIN p : k \in DOMAIN t /\ t[k] = p[k]
    /\ \A k \in DOMAIN s \ {1} : (k - 1 + Len(p)) \in DOMAIN t /\ t[k - 1 + Len(p)] = s[k]

(* What is left to do, p in front of the rest. *)
LEMMA Push ==
    ASSUME NEW s \in Seq(Instr), s # <<>>, NEW p \in Seq(Instr), NEW t, t = p \o Tail(s)
    PROVE  Pushed(s, p, t)
  <1>1. Tail(s) \in Seq(Instr) /\ Len(Tail(s)) = Len(s) - 1
        /\ \A i \in 1 .. Len(Tail(s)) : Tail(s)[i] = s[i + 1]
    BY HeadTailProperties
  <1>2. /\ t \in Seq(Instr) /\ Len(t) = Len(p) + Len(s) - 1
        /\ \A i \in 1 .. Len(t) : t[i] = IF i <= Len(p) THEN p[i] ELSE Tail(s)[i - Len(p)]
    BY <1>1, ConcatProperties
  <1>3. DOMAIN s = 1 .. Len(s) /\ DOMAIN p = 1 .. Len(p) /\ DOMAIN t = 1 .. Len(t)
        /\ Len(s) \in Nat /\ Len(p) \in Nat
    BY <1>2, LenProperties
  <1> QED
    BY <1>1, <1>2, <1>3, SMTT(30) DEF Pushed

(* What serves an instruction and is lighter than it can take its place. *)
LEMMA OrderedPush ==
    ASSUME NEW s \in Seq(Instr), s # <<>>, NEW p, Lighter(p, s[1]), Ordered(s)
    PROVE  Ordered(p \o Tail(s))
  <1> DEFINE t == p \o Tail(s)
  <1> HIDE DEF t
  <1>1. p \in Seq(Instr) /\ Ordered(p) /\ \A k \in DOMAIN p : Weight(p[k]) <= Weight(s[1])
    BY DEF Lighter
  <1>2. /\ DOMAIN t = 1 .. (Len(p) + Len(s) - 1) /\ t \in Seq(Instr)
        /\ \A k \in DOMAIN t : \/ k \in DOMAIN p /\ t[k] = p[k]
                               \/ k > Len(p) /\ (k - Len(p) + 1) \in DOMAIN s /\ t[k] = s[k - Len(p) + 1]
    BY <1>1, Push DEF t, Pushed
  <1>3. Len(s) \in Nat /\ Len(p) \in Nat /\ DOMAIN s = 1 .. Len(s) /\ DOMAIN p = 1 .. Len(p)
        /\ s[1] \in Instr /\ \A k \in DOMAIN s : s[k] \in Instr
    BY <1>1, LenProperties, EmptySeq, ElementOfSeq
  <1>4. \A k \in DOMAIN p : Weight(p[k]) \in Nat
    BY <1>1, <1>3, WeightType, ElementOfSeq
  <1> SUFFICES ASSUME NEW j \in DOMAIN t, NEW k \in DOMAIN t, j < k, Sets(t[k])
               PROVE  Weight(t[j]) < Weight(t[k])
    BY DEF Ordered, t
  <1>5. CASE k \in DOMAIN p /\ t[k] = p[k]
    BY <1>1, <1>2, <1>3, <1>5 DEF Ordered
  <1>6. CASE k > Len(p) /\ (k - Len(p) + 1) \in DOMAIN s /\ t[k] = s[k - Len(p) + 1]
    <2>1. CASE j \in DOMAIN p /\ t[j] = p[j]
      <3>1. Weight(s[1]) < Weight(t[k])
        BY <1>2, <1>3, <1>6 DEF Ordered
      <3> QED
        BY <3>1, <2>1, <1>1, <1>3, <1>4, <1>6, WeightType
    <2>2. CASE j > Len(p) /\ (j - Len(p) + 1) \in DOMAIN s /\ t[j] = s[j - Len(p) + 1]
      BY <1>2, <1>3, <1>6, <2>2 DEF Ordered
    <2> QED
      BY <2>1, <2>2, <1>2
  <1> QED
    BY <1>2, <1>5, <1>6

(* Concatenations of two sequences, place by place. *)
LEMMA Concat ==
    ASSUME NEW S, NEW s \in Seq(S), NEW t \in Seq(S), NEW m \in Nat, NEW n \in Nat,
           DOMAIN s = 1 .. m, DOMAIN t = 1 .. n
    PROVE  /\ s \o t \in Seq(S)
           /\ DOMAIN (s \o t) = 1 .. (m + n)
           /\ \A i \in 1 .. m : (s \o t)[i] = s[i]
           /\ \A i \in 1 .. n : (s \o t)[m + i] = t[i]
  <1>1. Len(s) = m /\ Len(t) = n
    BY LenProperties
  <1>2. s \o t \in Seq(S) /\ Len(s \o t) = m + n
        /\ \A i \in 1 .. (m + n) : (s \o t)[i] = IF i <= m THEN s[i] ELSE t[i - m]
    BY <1>1, ConcatProperties
  <1> QED
    BY <1>2, LenProperties

(* The elements of two sequences, one after the other. *)
LEMMA Joined ==
    ASSUME NEW S, NEW s \in Seq(S), NEW t \in Seq(S), NEW u, u = s \o t
    PROVE  /\ u \in Seq(S)
           /\ Len(u) = Len(s) + Len(t)
           /\ \A i \in 1 .. Len(u) : u[i] = IF i <= Len(s) THEN s[i] ELSE t[i - Len(s)]
  BY ConcatProperties

(* The same with an element between them. *)
LEMMA Between ==
    ASSUME NEW S, NEW s \in Seq(S), NEW x \in S, NEW t \in Seq(S), NEW u, u = s \o <<x>> \o t
    PROVE  /\ u \in Seq(S)
           /\ DOMAIN u = 1 .. (Len(s) + 1 + Len(t))
           /\ \A i \in 1 .. Len(s) : u[i] = s[i]
           /\ u[Len(s) + 1] = x
           /\ \A i \in 1 .. Len(t) : u[Len(s) + 1 + i] = t[i]
  <1> DEFINE v == s \o <<x>>
  <1>1. <<x>> \in Seq(S) /\ Len(<<x>>) = 1 /\ <<x>>[1] = x
    OBVIOUS
  <1>2. /\ v \in Seq(S) /\ Len(v) = Len(s) + 1
        /\ \A i \in 1 .. Len(v) : v[i] = IF i <= Len(s) THEN s[i] ELSE <<x>>[i - Len(s)]
    BY <1>1, ConcatProperties
  <1>3. Len(s) \in Nat /\ Len(t) \in Nat
    BY LenProperties
  <1>4. (\A i \in 1 .. Len(s) : v[i] = s[i]) /\ v[Len(s) + 1] = x
    BY <1>1, <1>2, <1>3
  <1>5. u = v \o t
    OBVIOUS
  <1> HIDE DEF v
  <1>6. /\ u \in Seq(S) /\ Len(u) = Len(v) + Len(t)
        /\ \A i \in 1 .. Len(u) : u[i] = IF i <= Len(v) THEN v[i] ELSE t[i - Len(v)]
    BY <1>2, <1>5, Joined
  <1> QED
    BY <1>2, <1>3, <1>4, <1>6, LenProperties

(* What an initialisation asks for: less than its cell, and never its     *)
(* cell.                                                                  *)
Asks(c, b) ==
    /\ b \in Seq(Instr)
    /\ Ordered(b)
    /\ \A k \in DOMAIN b :
          /\ Weight(b[k]) < Rank(c)
          /\ b[k][1] \in {"ask", "put"}
          /\ b[k][1] = "put" => c = "analysis" /\ b[k] = Put("attribution")
          /\ c \in Apart => b[k] \in {Ask(d) : d \in Apart}
    /\ c = "analysis" => \E k \in DOMAIN b : b[k] = Put("attribution")

(* A cell's initialiser asks only for cells it may. *)
LEMMA BodyFacts ==
    ASSUME NEW c \in Cells \ {"attribution"}
    PROVE  Asks(c, Body(c))
  <1>0. c \in {"extents", "census", "stacks", "wakers", "analysis", "census_tree", "relations",
               "task_rows", "thread_rows", "future_rows", "conn_rows", "blocking_lwps"}
    BY DEF Cells, WorkerCells, ListingCells
  <1>1. CASE c \in {"extents", "census", "stacks"}
    <2> DEFINE p == <<>>
    <2>1. Body(c) = p
      BY <1>1 DEF Body
    <2>2. p \in Seq(Instr) /\ DOMAIN p = 1 .. 0
      BY DEF Instr, Cells, WorkerCells, ListingCells
    <2>3. Asks(c, p)
      BY <1>1, <2>2 DEF Asks, Ordered, Weight, Rank, Sets, Apart, Ask, Put, Check, Join
    <2> QED
      BY <2>1, <2>3
  <1>2. CASE c = "wakers"
    <2> DEFINE p == <<Ask("extents"), Ask("census")>>
    <2>1. Body(c) = p
      BY <1>2 DEF Body
    <2>2. p \in Seq(Instr) /\ DOMAIN p = 1 .. 2
      BY DEF Instr, Cells, WorkerCells, ListingCells
    <2>3. Asks(c, p)
      BY <1>2, <2>2 DEF Asks, Ordered, Weight, Rank, Sets, Apart, Ask, Put, Check, Join
    <2> QED
      BY <2>1, <2>3
  <1>3. CASE c = "analysis"
    <2> DEFINE p == <<Ask("wakers"), Ask("extents"), Ask("census"), Put("attribution")>>
    <2>1. Body(c) = p
      BY <1>3 DEF Body, Fold
    <2>2. p \in Seq(Instr) /\ DOMAIN p = 1 .. 4
      BY DEF Instr, Cells, WorkerCells, ListingCells
    <2>3. Asks(c, p)
      BY <1>3, <2>2 DEF Asks, Ordered, Weight, Rank, Sets, Apart, Ask, Put, Check, Join
    <2> QED
      BY <2>1, <2>3
  <1>4. CASE c = "census_tree"
    <2> DEFINE p == <<Ask("census")>>
    <2>1. Body(c) = p
      BY <1>4 DEF Body
    <2>2. p \in Seq(Instr) /\ DOMAIN p = 1 .. 1
      BY DEF Instr, Cells, WorkerCells, ListingCells
    <2>3. Asks(c, p)
      BY <1>4, <2>2 DEF Asks, Ordered, Weight, Rank, Sets, Apart, Ask, Put, Check, Join
    <2> QED
      BY <2>1, <2>3
  <1>5. CASE c = "relations"
    <2> DEFINE p == <<Ask("census"), Ask("analysis")>>
    <2>1. Body(c) = p
      BY <1>5 DEF Body
    <2>2. p \in Seq(Instr) /\ DOMAIN p = 1 .. 2
      BY DEF Instr, Cells, WorkerCells, ListingCells
    <2>3. Asks(c, p)
      BY <1>5, <2>2 DEF Asks, Ordered, Weight, Rank, Sets, Apart, Ask, Put, Check, Join
    <2> QED
      BY <2>1, <2>3
  <1>6. CASE c = "task_rows"
    <2> DEFINE q == <<Ask("analysis")>> \o BaseRows
               w == WithSlots
               p == q \o w
    <2>0. Body(c) = p
      BY <1>6 DEF Body
    <2>3. /\ <<Ask("analysis")>> \in Seq(Instr) /\ BaseRows \in Seq(Instr) /\ WithSlots \in Seq(Instr)
          /\ DOMAIN <<Ask("analysis")>> = 1 .. 1 /\ DOMAIN BaseRows = 1 .. 1 /\ DOMAIN WithSlots = 1 .. 3
      BY DEF BaseRows, WithSlots, Instr, Cells, WorkerCells, ListingCells
    <2>4. q \in Seq(Instr) /\ DOMAIN q = 1 .. 2 /\ q[1] = Ask("analysis") /\ q[2] = Ask("blocking_lwps")
      BY <2>3, Concat DEF BaseRows
    <2>5. w[1] = Ask("census") /\ w[2] = Ask("analysis") /\ w[3] = Ask("attribution")
      BY DEF WithSlots
    <2>6. w \in Seq(Instr) /\ DOMAIN w = 1 .. 3
      BY <2>3
    <2>9. p = q \o w
      OBVIOUS
    <2> HIDE DEF q, w, p
    <2>7. Len(q) = 2 /\ Len(w) = 3
      BY <2>4, <2>6, LenProperties
    <2>8. /\ p \in Seq(Instr) /\ Len(p) = 5
          /\ \A i \in 1 .. 5 : p[i] = IF i <= 2 THEN q[i] ELSE w[i - 2]
      <3>1. q \in Seq(Instr) /\ w \in Seq(Instr)
        BY <2>4, <2>6
      <3>2. /\ p \in Seq(Instr) /\ Len(p) = Len(q) + Len(w)
            /\ \A i \in 1 .. Len(p) : p[i] = IF i <= Len(q) THEN q[i] ELSE w[i - Len(q)]
        BY <3>1, <2>9, Joined
      <3> QED
        BY <3>2, <2>7
    <2>1. /\ p \in Seq(Instr) /\ DOMAIN p = 1 .. 5 /\ p[1] = Ask("analysis") /\ p[2] = Ask("blocking_lwps")
          /\ p[3] = Ask("census") /\ p[4] = Ask("analysis") /\ p[5] = Ask("attribution")
      BY <2>4, <2>5, <2>8, LenProperties
    <2>2. Asks(c, p)
      <3>1. \A k \in 1 .. 5 : Weight(p[k]) < Rank(c) /\ p[k][1] = "ask"
        BY <1>6, <2>1 DEF Weight, Rank, Ask, Check, Join
      <3> QED
        BY <1>6, <2>1, <3>1 DEF Asks, Ordered, Sets, Apart
    <2> QED
      BY <2>0, <2>2
  <1>7. CASE c = "thread_rows"
    <2> DEFINE p == <<Ask("stacks")>>
    <2>1. Body(c) = p
      BY <1>7 DEF Body
    <2>2. p \in Seq(Instr) /\ DOMAIN p = 1 .. 1
      BY DEF Instr, Cells, WorkerCells, ListingCells
    <2>3. Asks(c, p)
      BY <1>7, <2>2 DEF Asks, Ordered, Weight, Rank, Sets, Apart, Ask, Put, Check, Join
    <2> QED
      BY <2>1, <2>3
  <1>8. CASE c = "future_rows"
    <2> DEFINE p == <<Ask("census"), Ask("census"), Ask("attribution")>>
    <2>1. Body(c) = p
      BY <1>8 DEF Body
    <2>2. p \in Seq(Instr) /\ DOMAIN p = 1 .. 3
      BY DEF Instr, Cells, WorkerCells, ListingCells
    <2>3. Asks(c, p)
      BY <1>8, <2>2 DEF Asks, Ordered, Weight, Rank, Sets, Apart, Ask, Put, Check, Join
    <2> QED
      BY <2>1, <2>3
  <1>9. CASE c = "conn_rows"
    <2> DEFINE p == <<Ask("census"), Ask("analysis"), Ask("attribution")>>
    <2>1. Body(c) = p
      BY <1>9 DEF Body
    <2>2. p \in Seq(Instr) /\ DOMAIN p = 1 .. 3
      BY DEF Instr, Cells, WorkerCells, ListingCells
    <2>3. Asks(c, p)
      BY <1>9, <2>2 DEF Asks, Ordered, Weight, Rank, Sets, Apart, Ask, Put, Check, Join
    <2> QED
      BY <2>1, <2>3
  <1>10. CASE c = "blocking_lwps" /\ BlockingRuns
    <2> DEFINE p == <<Ask("stacks")>>
    <2>1. Body(c) = p
      BY <1>10 DEF Body
    <2>2. p \in Seq(Instr) /\ DOMAIN p = 1 .. 1
      BY DEF Instr, Cells, WorkerCells, ListingCells
    <2>3. Asks(c, p)
      BY <1>10, <2>2 DEF Asks, Ordered, Weight, Rank, Sets, Apart, Ask, Put, Check, Join
    <2> QED
      BY <2>1, <2>3
  <1>11. CASE c = "blocking_lwps" /\ ~ BlockingRuns
    <2> DEFINE p == <<>>
    <2>1. Body(c) = p
      BY <1>11 DEF Body
    <2>2. p \in Seq(Instr) /\ DOMAIN p = 1 .. 0
      BY DEF Instr, Cells, WorkerCells, ListingCells
    <2>3. Asks(c, p)
      BY <1>11, <2>2 DEF Asks, Ordered, Weight, Rank, Sets, Apart, Ask, Put, Check, Join
    <2> QED
      BY <2>1, <2>3
  <1> QED
    BY <1>0, <1>1, <1>2, <1>3, <1>4, <1>5, <1>6, <1>7, <1>8, <1>9, <1>10, <1>11

----------------------------------------------------------------------------
(* What a call may put in its place: lighter calls that set empty cells,  *)
(* the attribution before the analysis, and nothing of the worker's while *)
(* the worker runs ...                                                    *)
Opens(p, h) ==
    /\ Lighter(p, h)
    /\ \A k \in DOMAIN p :
          /\ Sets(p[k]) => cells[p[k][2]] = {}
          /\ Sets(p[k]) /\ p[k][2] = "analysis" =>
                \E j \in DOMAIN p : j < k /\ p[j] = Put("attribution")
          /\ p[k] = Put("attribution") =>
                \E j \in DOMAIN p : j > k /\ Sets(p[j]) /\ p[j][2] = "analysis"
          /\ p[k] = Expect("attribution") =>
                \E j \in DOMAIN p : j < k /\ p[j] = Ask("analysis")
          /\ h \in {Ask(c) : c \in Apart} =>
                p[k] \in {Ask(c) : c \in Apart} \cup {Fill(c) : c \in Apart}

(* ... and what it must leave there. *)
Serves(p, h) ==
    /\ \A c \in Cells \ {"attribution"} :
          h = Ask(c) => cells[c] # {} \/ \E k \in DOMAIN p : p[k] = Fill(c)
    /\ h = Ask("census") => \E k \in DOMAIN p : p[k] = Check("census")
    /\ h = Ask("attribution") => /\ \E k \in DOMAIN p : p[k] = Check("wakers")
                                 /\ \E k \in DOMAIN p : p[k] = Check("attribution")

(* Only the census has something to do once its cell is filled. *)
LEMMA AfterFacts ==
    ASSUME NEW c \in Cells
    PROVE  /\ After(c) \in Seq(Instr)
           /\ c # "census" => Len(After(c)) = 0
           /\ c = "census" => Len(After(c)) = 1 /\ After(c)[1] = Check("census")
  <1>1. <<>> \in Seq(Instr) /\ Len(<<>>) = 0
    OBVIOUS
  <1>2. Check("census") \in Instr
    BY DEF Instr, Audits
  <1>3. <<Check("census")>> \in Seq(Instr) /\ Len(<<Check("census")>>) = 1
        /\ <<Check("census")>>[1] = Check("census")
    BY <1>2
  <1> QED
    BY <1>1, <1>3 DEF After

(* What an initialisation and its fill amount to. *)
Initialises(c, p) ==
    /\ p \in Seq(Instr)
    /\ Ordered(p)
    /\ \A k \in DOMAIN p :
          /\ Weight(p[k]) <= Rank(c)
          /\ p[k][1] \in {"ask", "put", "fill", "check"}
          /\ p[k][1] = "put" => c = "analysis" /\ p[k] = Put("attribution")
          /\ p[k][1] = "fill" => p[k] = Fill(c)
          /\ c \in Apart => p[k] \in {Ask(d) : d \in Apart} \cup {Fill(d) : d \in Apart}
    /\ c = "analysis" => \A k \in DOMAIN p : p[k] = Fill(c) =>
          \E j \in DOMAIN p : j < k /\ p[j] = Put("attribution")
    /\ c = "analysis" => \A k \in DOMAIN p : p[k] = Put("attribution") =>
          \E j \in DOMAIN p : j > k /\ p[j] = Fill(c)
    /\ \E k \in DOMAIN p : p[k] = Fill(c)
    /\ c = "census" => \E k \in DOMAIN p : p[k] = Check("census")

(* An accessor's initialisation, with the fill that ends it. *)
LEMMA InitialiseShape ==
    ASSUME NEW c \in Cells \ {"attribution"}, NEW b, Asks(c, b), NEW a \in Seq(Instr),
           c # "census" => Len(a) = 0,
           c = "census" => Len(a) = 1 /\ a[1] = Check("census"),
           NEW x, x = Fill(c), NEW p, p = b \o <<x>> \o a
    PROVE  Initialises(c, p)
  <1>2. x \in Instr
    BY DEF Instr
  <1>6. b \in Seq(Instr) /\ Len(b) \in Nat /\ DOMAIN b = 1 .. Len(b)
    BY LenProperties DEF Asks
  <1>9. /\ p \in Seq(Instr) /\ DOMAIN p = 1 .. (Len(b) + 1 + Len(a))
        /\ \A i \in 1 .. Len(b) : p[i] = b[i]
        /\ p[Len(b) + 1] = Fill(c)
        /\ \A i \in 1 .. Len(a) : p[Len(b) + 1 + i] = a[i]
    BY <1>2, <1>6, Between
  <1>10. /\ DOMAIN p = IF c = "census" THEN 1 .. (Len(b) + 2) ELSE 1 .. (Len(b) + 1)
         /\ \A i \in 1 .. Len(b) : p[i] = b[i]
         /\ p[Len(b) + 1] = Fill(c)
         /\ c = "census" => p[Len(b) + 2] = Check("census")
    BY <1>6, <1>9
  <1>11. /\ Weight(Fill(c)) = Rank(c) /\ Rank(c) \in Nat /\ Sets(Fill(c))
         /\ Fill(c)[1] = "fill" /\ Fill(c)[2] = c
         /\ Check("census")[1] = "check" /\ ~ Sets(Check("census"))
         /\ Weight(Check("census")) = 1 /\ (c = "census" => Rank(c) = 1)
         /\ c = "census" => c \notin Apart
    BY DEF Weight, Rank, Fill, Check, Join, Ask, Sets, Apart
  <1>12. /\ \A k \in DOMAIN b : /\ Weight(b[k]) < Rank(c) /\ Weight(b[k]) \in Nat
                                /\ b[k][1] \in {"ask", "put"}
                                /\ b[k][1] = "put" => c = "analysis" /\ b[k] = Put("attribution")
                                /\ c \in Apart => b[k] \in {Ask(d) : d \in Apart}
         /\ Ordered(b)
         /\ c = "analysis" => \E k \in DOMAIN b : b[k] = Put("attribution")
    BY <1>6, WeightType, ElementOfSeq DEF Asks
  <1>13. \A k \in DOMAIN p : k \in DOMAIN b \/ k = Len(b) + 1 \/ (c = "census" /\ k = Len(b) + 2)
    BY <1>6, <1>10
  <1>14. Ordered(p)
    <2> SUFFICES ASSUME NEW j \in DOMAIN p, NEW k \in DOMAIN p, j < k, Sets(p[k])
                 PROVE  Weight(p[j]) < Weight(p[k])
      BY DEF Ordered
    <2>1. CASE k \in DOMAIN b
      BY <2>1, <1>6, <1>10, <1>12, <1>13 DEF Ordered
    <2>2. CASE k = Len(b) + 1
      BY <2>2, <1>6, <1>10, <1>11, <1>12, <1>13
    <2>3. CASE c = "census" /\ k = Len(b) + 2
      BY <2>3, <1>10, <1>11
    <2> QED
      BY <2>1, <2>2, <2>3, <1>13
  <1>15. ASSUME NEW k \in DOMAIN p
         PROVE  /\ Weight(p[k]) <= Rank(c)
                /\ p[k][1] \in {"ask", "put", "fill", "check"}
                /\ p[k][1] = "put" => c = "analysis" /\ p[k] = Put("attribution")
                /\ p[k][1] = "fill" => p[k] = Fill(c)
                /\ c \in Apart => p[k] \in {Ask(d) : d \in Apart} \cup {Fill(d) : d \in Apart}
    <2>1. CASE k \in DOMAIN b
      BY <2>1, <1>6, <1>10, <1>11, <1>12
    <2>2. CASE k = Len(b) + 1
      BY <2>2, <1>10, <1>11
    <2>3. CASE c = "census" /\ k = Len(b) + 2
      BY <2>3, <1>10, <1>11
    <2> QED
      BY <2>1, <2>2, <2>3, <1>13
  <1>16. ASSUME c = "analysis", NEW k \in DOMAIN p, p[k] = Fill(c)
         PROVE  \E j \in DOMAIN p : j < k /\ p[j] = Put("attribution")
    <2>1. k = Len(b) + 1
      BY <1>16, <1>6, <1>10, <1>11, <1>12, <1>13
    <2> QED
      BY <2>1, <1>16, <1>6, <1>10, <1>12
  <1>18. ASSUME c = "analysis", NEW k \in DOMAIN p, p[k] = Put("attribution")
         PROVE  \E j \in DOMAIN p : j > k /\ p[j] = Fill(c)
    <2>1. k # Len(b) + 1
      BY <1>18, <1>10, <1>11 DEF Put
    <2>2. k < Len(b) + 1 /\ Len(b) + 1 \in DOMAIN p
      BY <2>1, <1>18, <1>6, <1>10, <1>13
    <2> QED
      BY <2>2, <1>6, <1>10
  <1>17. Len(b) + 1 \in DOMAIN p /\ (c = "census" => Len(b) + 2 \in DOMAIN p)
    BY <1>6, <1>10
  <1> QED
    BY <1>9, <1>10, <1>14, <1>15, <1>16, <1>17, <1>18 DEF Initialises

(* An ask of an empty cell opens into what initialises it. *)
LEMMA InitialiseOpens ==
    ASSUME CellsInv, NEW c \in Cells \ {"attribution"}, code # <<>>, code[1] = Ask(c), cells[c] = {},
           NEW p, p = Body(c) \o <<Fill(c)>> \o After(c)
    PROVE  Opens(p, Ask(c)) /\ Serves(p, Ask(c))
  <1>1. Asks(c, Body(c)) /\ After(c) \in Seq(Instr) /\ (c # "census" => Len(After(c)) = 0)
        /\ (c = "census" => Len(After(c)) = 1 /\ After(c)[1] = Check("census"))
    BY BodyFacts, AfterFacts
  <1>0. Initialises(c, p)
    <2> DEFINE b == Body(c)
               a == After(c)
               x == Fill(c)
    <2>1. Asks(c, b) /\ a \in Seq(Instr) /\ p = b \o <<x>> \o a /\ x = Fill(c)
      BY <1>1
    <2>2. (c # "census" => Len(a) = 0) /\ (c = "census" => Len(a) = 1 /\ a[1] = Check("census"))
      BY <1>1
    <2> HIDE DEF a, b, x
    <2> QED
      BY <2>1, <2>2, InitialiseShape
  <1>2. /\ p \in Seq(Instr)
        /\ Ordered(p)
        /\ \A k \in DOMAIN p :
              /\ Weight(p[k]) <= Rank(c)
              /\ p[k][1] \in {"ask", "put", "fill", "check"}
              /\ p[k][1] = "put" => c = "analysis" /\ p[k] = Put("attribution")
              /\ p[k][1] = "fill" => p[k] = Fill(c)
              /\ c \in Apart => p[k] \in {Ask(d) : d \in Apart} \cup {Fill(d) : d \in Apart}
        /\ c = "analysis" => \A k \in DOMAIN p : p[k] = Fill(c) =>
              \E j \in DOMAIN p : j < k /\ p[j] = Put("attribution")
        /\ c = "analysis" => \A k \in DOMAIN p : p[k] = Put("attribution") =>
              \E j \in DOMAIN p : j > k /\ p[j] = Fill(c)
        /\ \E k \in DOMAIN p : p[k] = Fill(c)
        /\ c = "census" => \E k \in DOMAIN p : p[k] = Check("census")
    BY <1>0 DEF Initialises
  <1>3. /\ Weight(Ask(c)) = Rank(c)
        /\ \A d \in Cells : Ask(c) = Ask(d) => c = d
        /\ Ask(c)[1] = "ask" /\ Ask(c)[2] = c
        /\ Put("attribution")[2] = "attribution" /\ Fill(c)[2] = c
        /\ Join[1] = "join" /\ Expect("attribution")[1] = "expect"
    BY DEF Weight, Ask, Join, Check, Put, Fill, Expect
  <1>4. c = "analysis" => cells["attribution"] = {}
    <2> SUFFICES ASSUME c = "analysis", NEW k \in DOMAIN code, SetsAnalysis(k) PROVE FALSE
      BY DEF CellsInv, AttributionFirst
    <2>1. code \in Seq(Instr) /\ Len(code) \in Nat /\ DOMAIN code = 1 .. Len(code) /\ 1 \in DOMAIN code
      BY LenProperties, EmptySeq DEF CellsInv, CellsType
    <2>2. k # 1
      BY <1>3 DEF SetsAnalysis, Sets
    <2>3. Weight(code[1]) < Weight(code[k])
      <3>1. 1 < k /\ Sets(code[k]) /\ Ordered(code)
        BY <2>1, <2>2 DEF CellsInv, SetsAnalysis
      <3> QED
        BY <3>1, <2>1 DEF Ordered
    <2>4. Weight(code[k]) = 4
      <3>1. Join[1] = "join" /\ Check("census")[1] = "check" /\ Ask("attribution")[1] = "ask"
        BY DEF Join, Check, Ask
      <3>2. code[k][1] \in {"fill", "put"} /\ code[k][2] = "analysis"
        BY DEF SetsAnalysis, Sets
      <3> QED
        BY <3>1, <3>2 DEF Weight, Rank
    <2>5. Weight(code[1]) = 4
      BY <1>3 DEF Rank
    <2> QED
      BY <2>3, <2>4, <2>5
  <1>5. Lighter(p, Ask(c))
    BY <1>2, <1>3 DEF Lighter
  <1>6. ASSUME NEW k \in DOMAIN p
        PROVE  /\ Sets(p[k]) => cells[p[k][2]] = {}
               /\ Sets(p[k]) /\ p[k][2] = "analysis" =>
                     \E j \in DOMAIN p : j < k /\ p[j] = Put("attribution")
               /\ p[k] # Expect("attribution")
    <2>1. p[k][1] = "put" => p[k][2] = "attribution" /\ cells["attribution"] = {}
      BY <1>2, <1>3, <1>4
    <2>2. p[k][1] = "fill" => p[k] = Fill(c) /\ p[k][2] = c
      BY <1>2, <1>3
    <2> QED
      BY <2>1, <2>2, <1>2, <1>3 DEF Sets
  <1>10. ASSUME NEW k \in DOMAIN p, p[k] = Put("attribution")
         PROVE  \E j \in DOMAIN p : j > k /\ Sets(p[j]) /\ p[j][2] = "analysis"
    <2>1. c = "analysis"
      BY <1>10, <1>2 DEF Put
    <2>2. PICK j \in DOMAIN p : j > k /\ p[j] = Fill(c)
      BY <2>1, <1>10, <1>2
    <2>3. Sets(Fill(c)) /\ Fill(c)[2] = "analysis"
      BY <2>1 DEF Sets, Fill
    <2> QED
      BY <2>2, <2>3
  <1>7. Ask(c) \in {Ask(d) : d \in Apart} => c \in Apart
    BY DEF Ask
  <1>8. Opens(p, Ask(c))
    BY <1>2, <1>5, <1>6, <1>7, <1>10 DEF Opens
  <1>9. Serves(p, Ask(c))
    BY <1>2 DEF Serves, Ask
  <1> QED
    BY <1>8, <1>9

(* An ask of the attribution opens into what takes it. *)
LEMMA AttributionOpens ==
    Opens(Attribution, Ask("attribution")) /\ Serves(Attribution, Ask("attribution"))
  <1>1. Attribution \in Seq(Instr) /\ DOMAIN Attribution = 1 .. 4
    BY DEF Attribution, Instr, Cells, WorkerCells, ListingCells, Audits
  <1>2. \A k \in 1 .. 4 : ~ Sets(Attribution[k]) /\ Weight(Attribution[k]) <= 5 /\ Attribution[k] # Join
    BY DEF Attribution, Sets, Weight, Rank, Ask, Expect, Check, Join
  <1>3. Weight(Ask("attribution")) = 5 /\ Ask("attribution") \notin {Ask(c) : c \in Apart}
    BY DEF Weight, Ask, Check, Join, Apart
  <1>4. Opens(Attribution, Ask("attribution"))
    <2>1. Lighter(Attribution, Ask("attribution"))
      BY <1>1, <1>2, <1>3 DEF Lighter, Ordered
    <2>2. \A k \in 1 .. 4 : Attribution[k] = Expect("attribution") =>
             \E j \in 1 .. 4 : j < k /\ Attribution[j] = Ask("analysis")
      <3>1. Attribution[1] = Ask("analysis") /\ Attribution[1] # Expect("attribution")
        BY DEF Attribution, Ask, Expect
      <3> QED
        BY <3>1
    <2> QED
      BY <1>1, <1>2, <1>3, <2>1, <2>2, PutSets DEF Opens
  <1>5. Serves(Attribution, Ask("attribution"))
    <2>1. Attribution[3] = Check("wakers") /\ Attribution[4] = Check("attribution")
      BY DEF Attribution
    <2>2. Ask("attribution") # Ask("census") /\ \A c \in Cells \ {"attribution"} : Ask("attribution") # Ask(c)
      BY DEF Ask
    <2> QED
      BY <1>1, <2>1, <2>2 DEF Serves
  <1> QED
    BY <1>4, <1>5

(* An ask of a filled cell opens into what follows the fill. *)
LEMMA AfterOpens ==
    ASSUME NEW c \in Cells \ {"attribution"}, cells[c] # {}
    PROVE  Opens(After(c), Ask(c)) /\ Serves(After(c), Ask(c))
  <1> DEFINE a == After(c)
  <1>1. a \in Seq(Instr) /\ (c # "census" => Len(a) = 0)
        /\ (c = "census" => Len(a) = 1 /\ a[1] = Check("census"))
    BY AfterFacts
  <1> HIDE DEF a
  <1>2. (c # "census" => DOMAIN a = 1 .. 0) /\ (c = "census" => DOMAIN a = 1 .. 1)
    BY <1>1, LenProperties
  <1>3. \A k \in DOMAIN a : c = "census" /\ a[k] = Check("census")
    BY <1>1, <1>2
  <1>4. /\ ~ Sets(Check("census")) /\ Weight(Check("census")) = 1 /\ Check("census") # Join
        /\ Check("census") # Expect("attribution") /\ Weight(Ask("census")) = 1
        /\ Ask("census") \notin {Ask(d) : d \in Apart}
    BY DEF Sets, Weight, Rank, Check, Join, Expect, Ask, Apart
  <1>5. Opens(a, Ask(c))
    <2>1. Lighter(a, Ask(c))
      BY <1>1, <1>3, <1>4 DEF Lighter, Ordered
    <2> QED
      BY <2>1, <1>3, <1>4, PutSets DEF Opens
  <1>6. Serves(a, Ask(c))
    <2>1. \A d \in Cells : Ask(c) = Ask(d) => c = d
      BY DEF Ask
    <2>2. "census" \in Cells /\ "attribution" \in Cells
      BY DEF Cells, WorkerCells
    <2>3. c = "census" => \E k \in DOMAIN a : a[k] = Check("census")
      BY <1>1, <1>2
    <2> QED
      BY <2>1, <2>2, <2>3 DEF Serves
  <1> QED
    BY <1>5, <1>6 DEF a

----------------------------------------------------------------------------
(* A call that sets nothing and joins nothing keeps the invariant if what *)
(* it puts in its place opens and serves.                                 *)
LEMMA PushKeeps ==
    ASSUME CellsInv, code # <<>>, NEW h, h = code[1], NEW p, Opens(p, h), Serves(p, h),
           h[1] \in {"ask", "check", "expect"},
           code' = p \o Tail(code), cells' = cells, dropped' = dropped,
           phase \in {"launch", "command"}, phase' = phase, worker' = worker, built' = built,
           audits' \in [Audits -> {0, 1}],
           \A x \in Audits : audits[x] = 1 => audits'[x] = 1,
           \A x \in Audits : Audit /\ h = Check(x) => audits'[x] = 1,
           ~ Audit => audits' = audits
    PROVE  CellsInv'
  <1>1. /\ code \in Seq(Instr) /\ Len(code) \in Nat /\ DOMAIN code = 1 .. Len(code)
        /\ 1 \in DOMAIN code /\ h \in Instr
    BY LenProperties, EmptySeq, ElementOfSeq DEF CellsInv, CellsType
  <1>2. p \in Seq(Instr) /\ Len(p) \in Nat /\ DOMAIN p = 1 .. Len(p) /\ Lighter(p, h)
    BY LenProperties DEF Opens, Lighter
  <1>3. /\ code' \in Seq(Instr)
        /\ DOMAIN code' = 1 .. (Len(p) + Len(code) - 1)
        /\ \A k \in DOMAIN code' :
              \/ k \in DOMAIN p /\ code'[k] = p[k]
              \/ /\ k > Len(p) /\ (k - Len(p) + 1) \in DOMAIN code
                 /\ code'[k] = code[k - Len(p) + 1]
        /\ \A k \in DOMAIN p : k \in DOMAIN code' /\ code'[k] = p[k]
        /\ \A k \in DOMAIN code \ {1} :
              (k - 1 + Len(p)) \in DOMAIN code' /\ code'[k - 1 + Len(p)] = code[k]
    <2>1. Pushed(code, p, code')
      BY <1>1, <1>2, Push
    <2> QED
      BY <2>1 DEF Pushed
  <1>4. CellsType'
    <2>1. /\ cells \in [Cells -> SUBSET Origins]
          /\ worker \in {"none", "started", "extents", "census", "done", "dead"}
          /\ built \in [WorkerCells -> SUBSET Origins]
      BY DEF CellsInv, CellsType
    <2>2. code' \in Seq(Instr)
      BY <1>3
    <2> QED
      BY <2>1, <2>2 DEF CellsType
  <1>5. Ordered(code)'
    <2>1. Ordered(p \o Tail(code))
      BY <1>1, <1>2, OrderedPush DEF CellsInv
    <2> QED
      BY <2>1, SMTT(30) DEF Ordered, Sets, Weight
  <1>6. SetsAwait'
    BY <1>1, <1>2, <1>3, ZenonT(30) DEF CellsInv, SetsAwait, Opens
  <1>7. AttributionFirst'
    <2>1. ~ Sets(h)
      BY DEF Sets
    <2>2. \A k \in DOMAIN code : SetsAnalysis(k) => k # 1
      BY <2>1 DEF SetsAnalysis
    <2>3. cells["attribution"] # {} => cells["analysis"] # {} \/ \E k \in DOMAIN code' : SetsAnalysis(k)'
      <3> SUFFICES ASSUME NEW k \in DOMAIN code, SetsAnalysis(k)
                   PROVE  \E m \in DOMAIN code' : SetsAnalysis(m)'
        BY DEF CellsInv, AttributionFirst
      <3>1. (k - 1 + Len(p)) \in DOMAIN code' /\ code'[k - 1 + Len(p)] = code[k]
        BY <2>2, <1>3
      <3> QED
        BY <3>1 DEF SetsAnalysis, Sets
    <2>4. ASSUME NEW k \in DOMAIN code', SetsAnalysis(k)', cells["attribution"] = {}
          PROVE  \E j \in DOMAIN code' : j < k /\ code'[j] = Put("attribution")
      <3>1. CASE k \in DOMAIN p /\ code'[k] = p[k]
        BY <3>1, <2>4, <1>2, <1>3 DEF Opens, SetsAnalysis, Sets
      <3>2. CASE k > Len(p) /\ (k - Len(p) + 1) \in DOMAIN code /\ code'[k] = code[k - Len(p) + 1]
        <4>1. PICK j \in DOMAIN code : j < k - Len(p) + 1 /\ code[j] = Put("attribution")
          BY <3>2, <2>4, <1>1, <1>2 DEF CellsInv, AttributionFirst, SetsAnalysis, Sets
        <4>2. j # 1
          BY <4>1 DEF Put
        <4>3. (j - 1 + Len(p)) \in DOMAIN code' /\ code'[j - 1 + Len(p)] = code[j]
          BY <4>2, <1>3
        <4>4. j - 1 + Len(p) < k
          BY <4>1, <3>2, <1>1, <1>2, <1>3
        <4> QED
          BY <4>1, <4>3, <4>4
      <3> QED
        BY <3>1, <3>2, <1>3
    <2>5. ASSUME NEW k \in DOMAIN code', code'[k] = Put("attribution")
          PROVE  \E j \in DOMAIN code' : j > k /\ SetsAnalysis(j)'
      <3>1. CASE k \in DOMAIN p /\ code'[k] = p[k]
        <4>1. PICK j \in DOMAIN p : j > k /\ Sets(p[j]) /\ p[j][2] = "analysis"
          BY <3>1, <2>5 DEF Opens
        <4> QED
          BY <4>1, <1>3 DEF SetsAnalysis, Sets
      <3>2. CASE k > Len(p) /\ (k - Len(p) + 1) \in DOMAIN code /\ code'[k] = code[k - Len(p) + 1]
        <4>1. PICK j \in DOMAIN code : j > k - Len(p) + 1 /\ SetsAnalysis(j)
          BY <3>2, <2>5 DEF CellsInv, AttributionFirst
        <4>2. j # 1
          BY <4>1, <2>2
        <4>3. (j - 1 + Len(p)) \in DOMAIN code' /\ code'[j - 1 + Len(p)] = code[j]
          BY <4>2, <1>3
        <4>4. j - 1 + Len(p) > k
          BY <4>1, <3>2, <1>1, <1>2, <1>3
        <4> QED
          BY <4>1, <4>3, <4>4 DEF SetsAnalysis, Sets
      <3> QED
        BY <3>1, <3>2, <1>3
    <2> QED
      BY <2>3, <2>4, <2>5 DEF CellsInv, AttributionFirst
  <1>8. Expected'
    <2> SUFFICES ASSUME NEW k \in DOMAIN code', code'[k] = Expect("attribution"), cells["analysis"] = {}
                 PROVE  \E j \in DOMAIN code' : j < k /\ (SetsAnalysis(j)' \/ code'[j] = Ask("analysis"))
      BY DEF Expected
    <2>1. CASE k \in DOMAIN p /\ code'[k] = p[k]
      BY <2>1, <1>2, <1>3 DEF Opens
    <2>2. CASE k > Len(p) /\ (k - Len(p) + 1) \in DOMAIN code /\ code'[k] = code[k - Len(p) + 1]
      <3>1. PICK j \in DOMAIN code : j < k - Len(p) + 1 /\ (SetsAnalysis(j) \/ code[j] = Ask("analysis"))
        BY <2>2, <1>1, <1>2 DEF CellsInv, Expected
      <3>2. CASE j # 1
        <4>1. (j - 1 + Len(p)) \in DOMAIN code' /\ code'[j - 1 + Len(p)] = code[j]
          BY <3>2, <1>3
        <4>2. j - 1 + Len(p) < k
          BY <3>1, <2>2, <1>1, <1>2, <1>3
        <4> QED
          BY <4>1, <4>2, <3>1 DEF SetsAnalysis, Sets
      <3>3. CASE j = 1
        <4>1. h = Ask("analysis") /\ "analysis" \in Cells \ {"attribution"}
          BY <3>1, <3>3 DEF SetsAnalysis, Sets, Cells
        <4>2. PICK m \in DOMAIN p : p[m] = Fill("analysis")
          BY <4>1 DEF Serves
        <4>3. m \in DOMAIN code' /\ code'[m] = Fill("analysis") /\ m < k
          BY <4>2, <2>2, <1>2, <1>3
        <4>4. Fill("analysis")[1] = "fill" /\ Fill("analysis")[2] = "analysis"
          BY DEF Fill
        <4> QED
          BY <4>3, <4>4 DEF SetsAnalysis, Sets
      <3> QED
        BY <3>2, <3>3
    <2> QED
      BY <2>1, <2>2, <1>3
  <1>9. BeforeJoin'
    <2> SUFFICES ASSUME NEW k \in DOMAIN code', code'[k] = Join
                 PROVE  /\ \A c \in WorkerCells : cells[c] = {}
                        /\ \A j \in DOMAIN code' :
                              /\ j < k => code'[j] \in {Ask(c) : c \in Apart} \cup {Fill(c) : c \in Apart}
                              /\ j > k => code'[j] # Join /\ code'[j][1] # "fill"
      BY DEF BeforeJoin
    <2> DEFINE m == k - Len(p) + 1
    <2>1. k > Len(p) /\ m \in DOMAIN code /\ code[m] = Join
      BY <1>2, <1>3 DEF Lighter
    <2>2. /\ \A c \in WorkerCells : cells[c] = {}
          /\ \A j \in DOMAIN code :
                /\ j < m => code[j] \in {Ask(c) : c \in Apart} \cup {Fill(c) : c \in Apart}
                /\ j > m => code[j] # Join /\ code[j][1] # "fill"
      BY <2>1 DEF CellsInv, BeforeJoin
    <2>3. 1 < m
      BY <2>1, <1>1, <1>2
    <2>4. h \in {Ask(c) : c \in Apart}
      <3>1. h \in {Ask(c) : c \in Apart} \cup {Fill(c) : c \in Apart}
        BY <2>2, <2>3, <1>1
      <3>2. h \notin {Fill(c) : c \in Apart}
        BY DEF Fill
      <3> QED
        BY <3>1, <3>2
    <2>5. ASSUME NEW j \in DOMAIN code'
          PROVE  /\ j < k => code'[j] \in {Ask(c) : c \in Apart} \cup {Fill(c) : c \in Apart}
                 /\ j > k => code'[j] # Join /\ code'[j][1] # "fill"
      <3>1. CASE j \in DOMAIN p /\ code'[j] = p[j]
        <4>1. j < k
          BY <3>1, <2>1, <1>1, <1>2, <1>3
        <4>2. ~ (j > k)
          BY <4>1, <1>1, <1>2, <1>3
        <4>3. p[j] \in {Ask(c) : c \in Apart} \cup {Fill(c) : c \in Apart}
          BY <3>1, <2>4 DEF Opens
        <4> QED
          BY <3>1, <4>2, <4>3
      <3>2. CASE j > Len(p) /\ (j - Len(p) + 1) \in DOMAIN code /\ code'[j] = code[j - Len(p) + 1]
        <4>1. (j < k => j - Len(p) + 1 < m) /\ (j > k => j - Len(p) + 1 > m)
          <5>1. j \in Nat /\ k \in Nat
            BY <1>1, <1>2, <1>3
          <5> QED
            BY <5>1, <1>2
        <4> QED
          BY <4>1, <3>2, <2>2
      <3> QED
        BY <3>1, <3>2, <1>3
    <2> QED
      BY <2>2, <2>5
  <1>10. Closed' /\ BuiltClosed' /\ dropped' = {}
    BY DEF CellsInv, Closed, BuiltClosed
  <1>11. \A c \in Needed : Pending(c) => cells[c] # {} \/ Pending(c)'
    <2> SUFFICES ASSUME NEW c \in Needed, Pending(c), cells[c] = {} PROVE Pending(c)'
      OBVIOUS
    <2>1. PICK k \in DOMAIN code : \/ Sets(code[k]) /\ code[k][2] = c
                                   \/ c # "attribution" /\ code[k] = Ask(c)
      BY DEF Pending
    <2>2. CASE k # 1
      <3>1. (k - 1 + Len(p)) \in DOMAIN code' /\ code'[k - 1 + Len(p)] = code[k]
        BY <2>2, <1>3
      <3> QED
        BY <2>1, <3>1 DEF Pending, Sets
    <2>3. CASE k = 1
      <3>1. h = Ask(c) /\ c \in Cells \ {"attribution"}
        BY <2>1, <2>3 DEF Sets, Needed, Cells
      <3>2. PICK m \in DOMAIN p : p[m] = Fill(c)
        BY <3>1 DEF Serves
      <3>3. m \in DOMAIN code' /\ code'[m] = Fill(c) /\ Fill(c)[1] = "fill" /\ Fill(c)[2] = c
        BY <3>2, <1>3 DEF Fill
      <3> QED
        BY <3>3 DEF Pending, Sets
    <2> QED
      BY <2>2, <2>3
  <1>12. ASSUME Audit, NEW x \in Audits, PendingCheck(x) PROVE audits'[x] = 1 \/ PendingCheck(x)'
    <2>1. PICK k \in DOMAIN code : \/ code[k] = Check(x)
                                   \/ x = "census" /\ code[k] = Ask("census")
                                   \/ x # "census" /\ code[k] = Ask("attribution")
      BY <1>12 DEF PendingCheck
    <2>2. CASE k # 1
      <3>1. (k - 1 + Len(p)) \in DOMAIN code' /\ code'[k - 1 + Len(p)] = code[k]
        BY <2>2, <1>3
      <3> QED
        BY <2>1, <3>1 DEF PendingCheck
    <2>3. CASE k = 1
      <3>1. CASE h = Check(x)
        BY <3>1, <1>12
      <3>2. CASE (x = "census" /\ h = Ask("census")) \/ (x # "census" /\ h = Ask("attribution"))
        <4>1. PICK m \in DOMAIN p : p[m] = Check(x)
          BY <3>2 DEF Serves, Audits
        <4> QED
          BY <4>1, <1>3 DEF PendingCheck
      <3> QED
        BY <2>1, <2>3, <3>1, <3>2
    <2> QED
      BY <2>2, <2>3
  <1>13. Warming'
    BY <1>11, <1>12 DEF CellsInv, Warming
  <1>14. Audited'
    BY DEF CellsInv, Audited
  <1> QED
    BY <1>4, <1>5, <1>6, <1>7, <1>8, <1>9, <1>10, <1>13, <1>14 DEF CellsInv

----------------------------------------------------------------------------
(* The calls that set a cell, and the join. *)

(* What is left to do once the first instruction is done. *)
LEMMA Popped ==
    ASSUME CellsInv, code # <<>>, code' = Tail(code)
    PROVE  /\ code \in Seq(Instr) /\ Len(code) \in Nat /\ DOMAIN code = 1 .. Len(code)
           /\ 1 \in DOMAIN code /\ Head(code) = code[1] /\ code[1] \in Instr
           /\ code' \in Seq(Instr)
           /\ \A k \in DOMAIN code' : k \in Nat /\ k + 1 \in DOMAIN code /\ code'[k] = code[k + 1]
           /\ \A k \in DOMAIN code \ {1} : k - 1 \in DOMAIN code' /\ code'[k - 1] = code[k]
  <1>1. /\ code \in Seq(Instr) /\ Len(code) \in Nat /\ DOMAIN code = 1 .. Len(code)
        /\ 1 \in DOMAIN code /\ code[1] \in Instr
    BY LenProperties, EmptySeq, ElementOfSeq DEF CellsInv, CellsType
  <1>2. /\ Head(code) = code[1]
        /\ code' \in Seq(Instr) /\ Len(code') = Len(code) - 1
        /\ \A i \in 1 .. Len(code') : code'[i] = code[i + 1]
    BY <1>1, HeadTailProperties
  <1>3. DOMAIN code' = 1 .. (Len(code) - 1)
    BY <1>2, LenProperties
  <1> QED
    BY <1>1, <1>2, <1>3

(* The rest of an ordered list is ordered. *)
LEMMA OrderedTail ==
    ASSUME CellsInv, code # <<>>, code' = Tail(code)
    PROVE  Ordered(code)'
  <1>1. \A k \in DOMAIN code' : k \in Nat /\ k + 1 \in DOMAIN code /\ code'[k] = code[k + 1]
    BY Popped
  <1> DEFINE t == code'
  <1>2. ASSUME NEW j \in DOMAIN t, NEW k \in DOMAIN t, j < k, Sets(t[k])
        PROVE  Weight(t[j]) < Weight(t[k])
    <2>1. j + 1 < k + 1 /\ Sets(code[k + 1]) /\ t[j] = code[j + 1] /\ t[k] = code[k + 1]
      BY <1>1, <1>2
    <2> QED
      BY <1>1, <2>1 DEF CellsInv, Ordered
  <1> QED
    BY <1>2 DEF Ordered, Sets, Weight

(* An instruction that sets a cell weighs what the cell does. *)
LEMMA SetsWeight == \A i : Sets(i) => Weight(i) = Rank(i[2])
  <1>1. Join[1] = "join" /\ Check("census")[1] = "check" /\ Ask("attribution")[1] = "ask"
    BY DEF Join, Check, Ask
  <1> QED
    BY <1>1 DEF Sets, Weight

(* A cell's inputs are cells. *)
LEMMA InputsType ==
    ASSUME NEW c \in Cells
    PROVE  Inputs(c) \subseteq Cells
  <1>1. CASE c \in {"analysis", "attribution"}
    BY <1>1 DEF Inputs, Cells, WorkerCells
  <1>2. CASE c \notin {"analysis", "attribution"}
    <2> DEFINE b == Body(c)
    <2>1. b \in Seq(Instr)
      BY <1>2, BodyFacts DEF Asks
    <2>2. \A j \in DOMAIN b : b[j][2] \in Cells
      BY <2>1, ElementOfSeq, LenProperties, InstrShape
    <2>3. Inputs(c) = {b[i][2] : i \in {j \in DOMAIN b : b[j][1] = "ask"}}
      BY <1>2 DEF Inputs
    <2> HIDE DEF b
    <2> QED
      BY <2>2, <2>3
  <1> QED
    BY <1>1, <1>2

(* A lineage is made of origins. *)
LEMMA LineageType ==
    ASSUME CellsType, NEW c \in Cells
    PROVE  Lineage(c, "session") \subseteq Origins
  <1>1. Inputs(c) \subseteq Cells
    BY InputsType
  <1>2. \A d \in Cells : cells[d] \subseteq Origins
    BY DEF CellsType
  <1>3. <<c, "session">> \in Origins
    BY DEF Origins
  <1> QED
    BY <1>1, <1>2, <1>3 DEF Lineage

(* Setting a cell keeps the invariant. *)
LEMMA FillKeeps ==
    ASSUME CellsInv, FillCell, worker' = worker, built' = built
    PROVE  CellsInv'
  <1> DEFINE c == code[1][2]
  <1>1. /\ code # <<>> /\ phase \in {"launch", "command"} /\ Head(code)[1] \in {"fill", "put"}
        /\ code' = Tail(code) /\ phase' = phase /\ audits' = audits
    BY DEF FillCell, At, Rest
  <1>2. /\ code \in Seq(Instr) /\ Len(code) \in Nat /\ DOMAIN code = 1 .. Len(code)
        /\ 1 \in DOMAIN code /\ Head(code) = code[1] /\ code[1] \in Instr
        /\ code' \in Seq(Instr)
        /\ \A k \in DOMAIN code' : k \in Nat /\ k + 1 \in DOMAIN code /\ code'[k] = code[k + 1]
        /\ \A k \in DOMAIN code \ {1} : k - 1 \in DOMAIN code' /\ code'[k - 1] = code[k]
    BY <1>1, Popped
  <1>3. Sets(code[1]) /\ c \in Cells /\ Here = c /\ code[1] = <<code[1][1], c>>
    BY <1>1, <1>2, InstrShape DEF Sets, Here
  <1>4. cells[c] = {}
    BY <1>2, <1>3 DEF CellsInv, SetsAwait
  <1>5. cells' = [cells EXCEPT ![c] = Lineage(c, "session")] /\ dropped' = {}
    BY <1>3, <1>4 DEF FillCell, CellsInv
  <1> DEFINE new == Lineage(c, "session")
  <1>6. /\ cells \in [Cells -> SUBSET Origins] /\ new \subseteq Origins
        /\ cells'[c] = new /\ <<c, "session">> \in new
        /\ \A d \in Cells \ {c} : cells'[d] = cells[d]
        /\ new = {<<c, "session">>} \cup UNION {cells[d] : d \in Inputs(c)}
    BY <1>3, <1>5, LineageType DEF CellsInv, CellsType, Lineage
  <1>7. cells'[c] # {} /\ \A d \in Cells : cells[d] # {} => cells'[d] # {}
    BY <1>6
  <1> HIDE DEF new, c
  <1>8. CellsType'
    <2>1. cells' \in [Cells -> SUBSET Origins]
      BY <1>3, <1>5, <1>6 DEF new
    <2>2. /\ worker \in {"none", "started", "extents", "census", "done", "dead"}
          /\ built \in [WorkerCells -> SUBSET Origins]
          /\ audits \in [Audits -> {0, 1}]
      BY DEF CellsInv, CellsType
    <2> QED
      BY <1>1, <1>2, <2>1, <2>2 DEF CellsType
  <1>9. Ordered(code)'
    BY <1>1, <1>2, OrderedTail
  <1>10. ASSUME NEW k \in DOMAIN code \ {1}, Sets(code[k]) PROVE code[k][2] # c
    <2>1. Weight(code[1]) < Weight(code[k])
      <3>1. 1 < k /\ Ordered(code)
        BY <1>2 DEF CellsInv
      <3> QED
        BY <3>1, <1>2, <1>10 DEF Ordered
    <2>2. Weight(code[1]) = Rank(c) /\ Weight(code[k]) = Rank(code[k][2])
      BY <1>3, <1>10, SetsWeight DEF c
    <2>3. Rank(c) \in Nat
      BY DEF Rank
    <2> QED
      BY <2>1, <2>2, <2>3
  <1>11. SetsAwait'
    <2> SUFFICES ASSUME NEW k \in DOMAIN code', Sets(code[k + 1])
                 PROVE  cells'[code[k + 1][2]] = {}
      BY <1>2 DEF SetsAwait, Sets
    <2>1. k + 1 \in DOMAIN code \ {1} /\ code[k + 1] \in Instr
      BY <1>2, ElementOfSeq
    <2>2. code[k + 1][2] \in Cells \ {c} /\ cells[code[k + 1][2]] = {}
      BY <2>1, <1>10, InstrShape DEF CellsInv, SetsAwait
    <2> QED
      BY <2>2, <1>6
  <1>12. "analysis" \in Cells /\ "attribution" \in Cells
    BY DEF Cells
  <1>13. AttributionFirst'
    <2>1. c = "analysis" => cells["attribution"] # {}
      <3> SUFFICES ASSUME c = "analysis", cells["attribution"] = {} PROVE FALSE
        OBVIOUS
      <3>1. SetsAnalysis(1)
        BY <1>3 DEF SetsAnalysis, c
      <3>2. \E j \in DOMAIN code : j < 1
        BY <3>1, <1>2 DEF CellsInv, AttributionFirst
      <3> QED
        BY <3>2, <1>2
    <2>2. cells'["analysis"] # {} => cells'["attribution"] # {}
      BY <2>1, <1>6, <1>7, <1>12 DEF CellsInv, AttributionFirst
    <2>3. \A k \in DOMAIN code \ {1} : SetsAnalysis(k) => k - 1 \in DOMAIN code' /\ SetsAnalysis(k - 1)'
      BY <1>2 DEF SetsAnalysis, Sets
    <2>4. cells'["attribution"] # {} => cells'["analysis"] # {} \/ \E k \in DOMAIN code' : SetsAnalysis(k)'
      <3>1. CASE c = "attribution"
        <4>1. code[1] = Put("attribution")
          BY <1>2, <1>3, <3>1, InstrShape DEF Put, Sets
        <4>2. PICK j \in DOMAIN code : j > 1 /\ SetsAnalysis(j)
          BY <4>1, <1>2 DEF CellsInv, AttributionFirst
        <4> QED
          BY <4>2, <2>3
      <3>2. CASE c = "analysis"
        BY <3>2, <1>7
      <3>3. CASE c \notin {"analysis", "attribution"}
        <4>1. ASSUME NEW k \in DOMAIN code, SetsAnalysis(k) PROVE k # 1
          BY <3>3, <4>1 DEF SetsAnalysis, c
        <4> QED
          BY <4>1, <2>3, <3>3, <1>6, <1>12 DEF CellsInv, AttributionFirst
      <3> QED
        BY <3>1, <3>2, <3>3
    <2>5. ASSUME NEW k \in DOMAIN code', SetsAnalysis(k)', cells'["attribution"] = {}
          PROVE  \E j \in DOMAIN code' : j < k /\ code'[j] = Put("attribution")
      <3>1. k + 1 \in DOMAIN code /\ SetsAnalysis(k + 1) /\ cells["attribution"] = {}
        BY <2>5, <1>2, <1>7, <1>12 DEF SetsAnalysis, Sets
      <3>2. PICK j \in DOMAIN code : j < k + 1 /\ code[j] = Put("attribution")
        BY <3>1 DEF CellsInv, AttributionFirst
      <3>3. j # 1
        <4> SUFFICES ASSUME j = 1 PROVE FALSE
          OBVIOUS
        <4>1. c = "attribution"
          BY <3>2, PutSets DEF c
        <4> QED
          BY <4>1, <2>5, <1>7
      <3> QED
        BY <3>2, <3>3, <1>2
    <2>6. ASSUME NEW k \in DOMAIN code', code'[k] = Put("attribution")
          PROVE  \E j \in DOMAIN code' : j > k /\ SetsAnalysis(j)'
      <3>1. PICK j \in DOMAIN code : j > k + 1 /\ SetsAnalysis(j)
        BY <2>6, <1>2 DEF CellsInv, AttributionFirst
      <3>2. j # 1 /\ j - 1 > k
        BY <3>1, <1>2
      <3> QED
        BY <3>1, <3>2, <2>3
    <2> QED
      BY <2>2, <2>4, <2>5, <2>6 DEF AttributionFirst
  <1>14. Expected'
    <2> SUFFICES ASSUME NEW k \in DOMAIN code', code'[k] = Expect("attribution"), cells'["analysis"] = {}
                 PROVE  \E j \in DOMAIN code' : j < k /\ (SetsAnalysis(j)' \/ code'[j] = Ask("analysis"))
      BY DEF Expected
    <2>1. k + 1 \in DOMAIN code /\ code[k + 1] = Expect("attribution") /\ cells["analysis"] = {}
      BY <1>2, <1>7, <1>12
    <2>2. PICK j \in DOMAIN code : j < k + 1 /\ (SetsAnalysis(j) \/ code[j] = Ask("analysis"))
      BY <2>1 DEF CellsInv, Expected
    <2>3. j # 1
      <3> SUFFICES ASSUME j = 1 PROVE FALSE
        OBVIOUS
      <3>1. c = "analysis"
        BY <2>2, <1>3 DEF SetsAnalysis, Sets, Ask, c
      <3> QED
        BY <3>1, <1>7
    <2>4. j - 1 \in DOMAIN code' /\ code'[j - 1] = code[j] /\ j - 1 < k
      BY <2>2, <2>3, <1>2
    <2> QED
      BY <2>2, <2>4 DEF SetsAnalysis, Sets
  <1>15. BeforeJoin'
    <2> SUFFICES ASSUME NEW k \in DOMAIN code', code'[k] = Join
                 PROVE  /\ \A d \in WorkerCells : cells'[d] = {}
                        /\ \A j \in DOMAIN code' :
                              /\ j < k => code'[j] \in {Ask(d) : d \in Apart} \cup {Fill(d) : d \in Apart}
                              /\ j > k => code'[j] # Join /\ code'[j][1] # "fill"
      BY DEF BeforeJoin
    <2>1. k + 1 \in DOMAIN code /\ code[k + 1] = Join /\ 1 < k + 1
      BY <1>2
    <2>2. /\ \A d \in WorkerCells : cells[d] = {}
          /\ \A j \in DOMAIN code :
                /\ j < k + 1 => code[j] \in {Ask(d) : d \in Apart} \cup {Fill(d) : d \in Apart}
                /\ j > k + 1 => code[j] # Join /\ code[j][1] # "fill"
      BY <2>1 DEF CellsInv, BeforeJoin
    <2>3. c \notin WorkerCells
      <3>1. code[1] \in {Ask(d) : d \in Apart} \cup {Fill(d) : d \in Apart}
        BY <2>1, <2>2, <1>2
      <3> QED
        BY <3>1 DEF Ask, Fill, Apart, WorkerCells, c
    <2>4. \A d \in WorkerCells : d \in Cells \ {c}
      BY <2>3 DEF Cells
    <2>5. ASSUME NEW j \in DOMAIN code'
          PROVE  /\ j < k => code'[j] \in {Ask(d) : d \in Apart} \cup {Fill(d) : d \in Apart}
                 /\ j > k => code'[j] # Join /\ code'[j][1] # "fill"
      <3>1. /\ j + 1 \in DOMAIN code /\ code'[j] = code[j + 1]
            /\ (j < k => j + 1 < k + 1) /\ (j > k => j + 1 > k + 1)
        BY <1>2
      <3> QED
        BY <3>1, <2>2
    <2> QED
      BY <2>2, <2>4, <2>5, <1>6
  <1>16. Closed'
    <2> SUFFICES ASSUME NEW d \in Cells, NEW o \in cells'[d] PROVE o \in cells'[o[1]]
      BY DEF Closed
    <2>1. ASSUME NEW e \in Cells, o \in cells[e] PROVE o \in cells'[o[1]]
      <3>1. o \in cells[o[1]] /\ o \in Origins
        BY <2>1, <1>6 DEF CellsInv, Closed
      <3>2. o[1] \in Cells /\ o[1] # c
        BY <3>1, <1>4 DEF Origins
      <3> QED
        BY <3>1, <3>2, <1>6
    <2>2. CASE d # c
      BY <2>1, <2>2, <1>6
    <2>3. CASE d = c
      <3>1. Inputs(c) \subseteq Cells
        BY <1>3, InputsType
      <3>2. o = <<c, "session">> \/ \E e \in Inputs(c) : o \in cells[e]
        BY <2>3, <1>6
      <3>3. CASE o = <<c, "session">>
        BY <3>3, <1>6
      <3> QED
        BY <3>1, <3>2, <3>3, <2>1
    <2> QED
      BY <2>2, <2>3
  <1>17. BuiltClosed' /\ Audited'
    BY <1>1 DEF CellsInv, BuiltClosed, Audited
  <1>18. \A d \in Needed : Pending(d) => cells'[d] # {} \/ Pending(d)'
    <2> SUFFICES ASSUME NEW d \in Needed, Pending(d), d # c PROVE Pending(d)'
      BY <1>7
    <2>1. PICK k \in DOMAIN code : \/ Sets(code[k]) /\ code[k][2] = d
                                   \/ d # "attribution" /\ code[k] = Ask(d)
      BY DEF Pending
    <2>2. k # 1
      BY <2>1, <1>3 DEF Sets, Ask, c
    <2> QED
      BY <2>1, <2>2, <1>2 DEF Pending, Sets
  <1>19. \A x \in Audits : PendingCheck(x) => PendingCheck(x)'
    <2> SUFFICES ASSUME NEW x \in Audits, PendingCheck(x) PROVE PendingCheck(x)'
      OBVIOUS
    <2>1. PICK k \in DOMAIN code : \/ code[k] = Check(x)
                                   \/ x = "census" /\ code[k] = Ask("census")
                                   \/ x # "census" /\ code[k] = Ask("attribution")
      BY DEF PendingCheck
    <2>2. k # 1
      BY <2>1, <1>3 DEF Sets, Ask, Check
    <2> QED
      BY <2>1, <2>2, <1>2 DEF PendingCheck
  <1>20. Warming'
    <2>1. Needed \subseteq Cells
      BY DEF Needed, Cells
    <2> QED
      BY <2>1, <1>1, <1>7, <1>18, <1>19 DEF CellsInv, Warming
  <1> QED
    BY <1>5, <1>8, <1>9, <1>11, <1>13, <1>14, <1>15, <1>16, <1>17, <1>20 DEF CellsInv

(* Adopting the worker's cells keeps it. *)
LEMMA JoinKeeps ==
    ASSUME CellsInv, JoinWorker, worker' = worker, built' = built
    PROVE  CellsInv'
  <1>1. /\ code # <<>> /\ phase \in {"launch", "command"} /\ Head(code)[1] = "join"
        /\ code' = Tail(code) /\ phase' = phase /\ audits' = audits /\ cells' = Adopt
    BY DEF JoinWorker, At, Rest
  <1>2. /\ code \in Seq(Instr) /\ Len(code) \in Nat /\ DOMAIN code = 1 .. Len(code)
        /\ 1 \in DOMAIN code /\ Head(code) = code[1] /\ code[1] \in Instr
        /\ code' \in Seq(Instr)
        /\ \A k \in DOMAIN code' : k \in Nat /\ k + 1 \in DOMAIN code /\ code'[k] = code[k + 1]
        /\ \A k \in DOMAIN code \ {1} : k - 1 \in DOMAIN code' /\ code'[k - 1] = code[k]
    BY <1>1, Popped
  <1>3. code[1] = Join /\ code[1][1] = "join"
    BY <1>1, <1>2, InstrShape
  <1>4. /\ \A c \in WorkerCells : cells[c] = {}
        /\ \A j \in DOMAIN code : j > 1 => code[j] # Join /\ code[j][1] # "fill"
    BY <1>2, <1>3 DEF CellsInv, BeforeJoin
  <1>5. dropped' = {}
    BY <1>4 DEF JoinWorker, CellsInv
  <1>6. /\ cells \in [Cells -> SUBSET Origins] /\ built \in [WorkerCells -> SUBSET Origins]
        /\ \A c \in WorkerCells : cells'[c] = IF worker = "done" THEN built[c] ELSE {}
        /\ \A c \in Cells \ WorkerCells : cells'[c] = cells[c]
        /\ WorkerCells \subseteq Cells
    BY <1>1, <1>4 DEF Adopt, CellsInv, CellsType, Cells
  <1>7. CellsType'
    <2>1. cells' \in [Cells -> SUBSET Origins]
      BY <1>1, <1>6 DEF Adopt
    <2>2. /\ worker \in {"none", "started", "extents", "census", "done", "dead"}
          /\ audits \in [Audits -> {0, 1}]
      BY DEF CellsInv, CellsType
    <2> QED
      BY <1>1, <1>2, <1>6, <2>1, <2>2 DEF CellsType
  <1>8. Ordered(code)'
    BY <1>1, OrderedTail
  <1>9. SetsAwait'
    <2> SUFFICES ASSUME NEW k \in DOMAIN code', Sets(code[k + 1])
                 PROVE  cells'[code[k + 1][2]] = {}
      BY <1>2 DEF SetsAwait, Sets
    <2>1. k + 1 \in DOMAIN code /\ k + 1 > 1 /\ code[k + 1] \in Instr
      BY <1>2, ElementOfSeq
    <2>2. code[k + 1][1] = "put"
      BY <2>1, <1>4 DEF Sets
    <2>3. code[k + 1][2] \in Cells \ WorkerCells /\ cells[code[k + 1][2]] = {}
      BY <2>1, <2>2, InstrShape DEF CellsInv, SetsAwait, Cells, WorkerCells
    <2> QED
      BY <2>3, <1>6
  <1>10. cells'["analysis"] = cells["analysis"] /\ cells'["attribution"] = cells["attribution"]
    BY <1>6 DEF Cells, WorkerCells
  <1>11. ASSUME NEW k \in DOMAIN code, code[k][1] # "join"
         PROVE  k \in Nat /\ k - 1 \in DOMAIN code' /\ code'[k - 1] = code[k]
    BY <1>2, <1>3, <1>11
  <1>12. \A k \in DOMAIN code : SetsAnalysis(k) =>
            k \in Nat /\ k - 1 \in DOMAIN code' /\ code'[k - 1] = code[k] /\ SetsAnalysis(k - 1)'
    BY <1>11 DEF SetsAnalysis, Sets
  <1>13. AttributionFirst'
    <2>1. cells["attribution"] # {} => cells["analysis"] # {} \/ \E k \in DOMAIN code' : SetsAnalysis(k)'
      BY <1>12 DEF CellsInv, AttributionFirst
    <2>2. ASSUME NEW k \in DOMAIN code', SetsAnalysis(k)', cells["attribution"] = {}
          PROVE  \E j \in DOMAIN code' : j < k /\ code'[j] = Put("attribution")
      <3>1. k + 1 \in DOMAIN code /\ SetsAnalysis(k + 1)
        BY <2>2, <1>2 DEF SetsAnalysis, Sets
      <3>2. PICK j \in DOMAIN code : j < k + 1 /\ code[j] = Put("attribution")
        BY <3>1, <2>2 DEF CellsInv, AttributionFirst
      <3>3. j \in Nat /\ j - 1 \in DOMAIN code' /\ code'[j - 1] = code[j]
        BY <3>2, <1>11, PutSets DEF Sets
      <3> QED
        BY <3>2, <3>3, <1>2
    <2>3. ASSUME NEW k \in DOMAIN code', code'[k] = Put("attribution")
          PROVE  \E j \in DOMAIN code' : j > k /\ SetsAnalysis(j)'
      <3>1. PICK j \in DOMAIN code : j > k + 1 /\ SetsAnalysis(j)
        BY <2>3, <1>2 DEF CellsInv, AttributionFirst
      <3>2. j - 1 > k
        BY <3>1, <1>2, <1>12
      <3> QED
        BY <3>1, <3>2, <1>12
    <2> QED
      BY <2>1, <2>2, <2>3, <1>10 DEF CellsInv, AttributionFirst
  <1>14. Expected'
    <2> SUFFICES ASSUME NEW k \in DOMAIN code', code'[k] = Expect("attribution"), cells["analysis"] = {}
                 PROVE  \E j \in DOMAIN code' : j < k /\ (SetsAnalysis(j)' \/ code'[j] = Ask("analysis"))
      BY <1>10 DEF Expected
    <2>1. k + 1 \in DOMAIN code /\ code[k + 1] = Expect("attribution")
      BY <1>2
    <2>2. PICK j \in DOMAIN code : j < k + 1 /\ (SetsAnalysis(j) \/ code[j] = Ask("analysis"))
      BY <2>1 DEF CellsInv, Expected
    <2>3. j \in Nat /\ j - 1 \in DOMAIN code' /\ code'[j - 1] = code[j]
      BY <2>2, <1>11 DEF SetsAnalysis, Sets, Ask
    <2>4. j - 1 < k
      BY <2>2, <2>3, <1>2
    <2> QED
      BY <2>2, <2>3, <2>4 DEF SetsAnalysis, Sets
  <1>15. BeforeJoin'
    BY <1>2, <1>4 DEF BeforeJoin
  <1>16. Closed'
    <2> SUFFICES ASSUME NEW d \in Cells, NEW o \in cells'[d] PROVE o \in cells'[o[1]]
      BY DEF Closed
    <2>1. CASE d \in WorkerCells
      <3>1. worker = "done" /\ o \in built[d]
        BY <2>1, <1>6
      <3>2. o[1] \in WorkerCells /\ o \in built[o[1]]
        BY <3>1, <2>1 DEF CellsInv, BuiltClosed
      <3> QED
        BY <3>1, <3>2, <1>6
    <2>2. CASE d \notin WorkerCells
      <3>1. o \in cells[o[1]] /\ o \in Origins
        BY <2>2, <1>6 DEF CellsInv, Closed
      <3>2. o[1] \in Cells \ WorkerCells
        BY <3>1, <1>4 DEF Origins
      <3> QED
        BY <3>1, <3>2, <1>6
    <2> QED
      BY <2>1, <2>2
  <1>17. BuiltClosed' /\ Audited'
    BY <1>1 DEF CellsInv, BuiltClosed, Audited
  <1>18. \A d \in Needed : Pending(d) => Pending(d)'
    <2> SUFFICES ASSUME NEW d \in Needed, Pending(d) PROVE Pending(d)'
      OBVIOUS
    <2>1. PICK k \in DOMAIN code : \/ Sets(code[k]) /\ code[k][2] = d
                                   \/ d # "attribution" /\ code[k] = Ask(d)
      BY DEF Pending
    <2>2. code[k][1] # "join"
      BY <2>1 DEF Sets, Ask
    <2> QED
      BY <2>1, <2>2, <1>11 DEF Pending, Sets
  <1>19. \A x \in Audits : PendingCheck(x) => PendingCheck(x)'
    <2> SUFFICES ASSUME NEW x \in Audits, PendingCheck(x) PROVE PendingCheck(x)'
      OBVIOUS
    <2>1. PICK k \in DOMAIN code : \/ code[k] = Check(x)
                                   \/ x = "census" /\ code[k] = Ask("census")
                                   \/ x # "census" /\ code[k] = Ask("attribution")
      BY DEF PendingCheck
    <2>2. code[k][1] # "join"
      BY <2>1 DEF Ask, Check
    <2> QED
      BY <2>1, <2>2, <1>11 DEF PendingCheck
  <1>20. Warming'
    <2>1. \A c \in Needed : c \in Cells /\ (cells[c] # {} => cells'[c] # {})
      BY <1>4, <1>6 DEF Needed, Cells
    <2> QED
      BY <2>1, <1>1, <1>18, <1>19 DEF CellsInv, Warming
  <1> QED
    BY <1>5, <1>7, <1>8, <1>9, <1>13, <1>14, <1>15, <1>16, <1>17, <1>20 DEF CellsInv

----------------------------------------------------------------------------
(* The launch worker. *)

(* The worker touches nothing the session reads before the join. *)
LEMMA WorkerKeeps ==
    ASSUME CellsInv, WorkerStep
    PROVE  CellsInv'
  <1>1. /\ cells' = cells /\ code' = code /\ audits' = audits /\ dropped' = dropped /\ phase' = phase
    BY DEF WorkerStep
  <1>2. /\ built \in [WorkerCells -> SUBSET Origins]
        /\ \A c \in WorkerCells : \A origin \in built[c] :
              origin[1] \in WorkerCells /\ origin \in built[origin[1]]
        /\ worker = "started" => \A c \in WorkerCells : built[c] = {}
        /\ worker = "extents" => built["census"] = {} /\ built["wakers"] = {}
        /\ worker = "census" => built["wakers"] = {}
    BY DEF CellsInv, CellsType, BuiltClosed
  <1>3. \A c \in WorkerCells : c \in Cells /\ <<c, "worker">> \in Origins /\ <<c, "worker">>[1] = c
    BY DEF Origins, Cells
  <1>4. /\ worker # "none" /\ worker' # "none"
        /\ worker' \in {"none", "started", "extents", "census", "done", "dead"}
        /\ built' \in [WorkerCells -> SUBSET Origins]
        /\ BuiltClosed'
    <2>1. CASE WorkerExtents
      <3>1. built' = [built EXCEPT !["extents"] = {<<"extents", "worker">>}]
        BY <2>1 DEF WorkerExtents, WorkerBuilds
      <3> QED
        BY <2>1, <3>1, <1>2, <1>3 DEF WorkerExtents, WorkerCells, BuiltClosed
    <2>2. CASE WorkerCensus
      <3>1. built' = [built EXCEPT !["census"] = {<<"census", "worker">>}]
        BY <2>2 DEF WorkerCensus, WorkerBuilds
      <3> QED
        BY <2>2, <3>1, <1>2, <1>3 DEF WorkerCensus, WorkerCells, BuiltClosed
    <2>3. CASE WorkerSweep
      <3>1. built' = [built EXCEPT !["wakers"] =
                        {<<"wakers", "worker">>} \cup built["extents"] \cup built["census"]]
        BY <2>3 DEF WorkerSweep, WorkerBuilds
      <3>2. worker = "census" /\ worker' = "done" /\ built["wakers"] = {}
        BY <2>3, <1>2 DEF WorkerSweep
      <3>3. /\ built'["wakers"] = {<<"wakers", "worker">>} \cup built["extents"] \cup built["census"]
            /\ \A c \in WorkerCells \ {"wakers"} : built'[c] = built[c]
            /\ built' \in [WorkerCells -> SUBSET Origins]
        BY <3>1, <1>2, <1>3 DEF WorkerCells
      <3>4. ASSUME NEW c \in WorkerCells, NEW o \in built[c]
            PROVE  o[1] \in WorkerCells /\ o \in built'[o[1]]
        BY <3>2, <3>3, <1>2
      <3>5. ASSUME NEW c \in WorkerCells, NEW o \in built'[c]
            PROVE  o[1] \in WorkerCells /\ o \in built'[o[1]]
        <4>1. CASE c # "wakers"
          BY <4>1, <3>3, <3>4
        <4>2. CASE c = "wakers" /\ o = <<"wakers", "worker">>
          BY <4>2, <3>3, <1>3
        <4>3. CASE c = "wakers" /\ o # <<"wakers", "worker">>
          <5>1. o \in built["extents"] \/ o \in built["census"]
            BY <4>3, <3>3
          <5> QED
            BY <5>1, <3>4 DEF WorkerCells
        <4> QED
          BY <4>1, <4>2, <4>3
      <3> QED
        BY <3>2, <3>3, <3>5 DEF BuiltClosed
    <2>4. CASE WorkerDies
      BY <2>4, <1>2 DEF WorkerDies, BuiltClosed
    <2> QED
      BY <2>1, <2>2, <2>3, <2>4 DEF WorkerStep
  <1>5. CellsType'
    BY <1>1, <1>4 DEF CellsInv, CellsType
  <1>6. Ordered(code)' /\ SetsAwait' /\ AttributionFirst' /\ Expected' /\ BeforeJoin' /\ Closed' /\ dropped' = {}
    BY <1>1 DEF CellsInv, Ordered, SetsAwait, AttributionFirst, Expected, BeforeJoin, Closed,
               SetsAnalysis, Sets, Weight
  <1>7. Warming' /\ Audited'
    BY <1>1, <1>4 DEF CellsInv, Warming, Audited, Pending, PendingCheck, Sets
  <1> QED
    BY <1>4, <1>5, <1>6, <1>7 DEF CellsInv

----------------------------------------------------------------------------
(* The session's thread. *)

(* An instruction that leaves nothing behind opens into nothing. *)
LEMMA EmptyOpens ==
    ASSUME NEW h, h[1] \in {"check", "expect"}
    PROVE  Opens(<<>>, h) /\ Serves(<<>>, h)
  <1>1. <<>> \in Seq(Instr) /\ DOMAIN <<>> = {}
    OBVIOUS
  <1>2. \A c : h # Ask(c)
    BY DEF Ask
  <1> QED
    BY <1>1, <1>2 DEF Opens, Serves, Lighter, Ordered

(* The audit of the wakers asks for what it audits. *)
LEMMA CheckOpens ==
    /\ Opens(<<Ask("wakers"), Ask("analysis")>>, Check("wakers"))
    /\ Serves(<<Ask("wakers"), Ask("analysis")>>, Check("wakers"))
  <1> DEFINE p == <<Ask("wakers"), Ask("analysis")>>
  <1>1. p \in Seq(Instr) /\ DOMAIN p = 1 .. 2
    BY DEF Instr, Cells, WorkerCells, ListingCells
  <1>2. \A k \in 1 .. 2 : /\ ~ Sets(p[k]) /\ Weight(p[k]) <= 5 /\ p[k] # Join
                          /\ p[k] # Expect("attribution")
    BY DEF Sets, Weight, Rank, Ask, Check, Join, Expect
  <1>3. Weight(Check("wakers")) = 5 /\ \A c : Check("wakers") # Ask(c)
    BY DEF Weight, Ask, Check, Join
  <1> HIDE DEF p
  <1>4. Lighter(p, Check("wakers"))
    BY <1>1, <1>2, <1>3 DEF Lighter, Ordered
  <1> QED
    BY <1>1, <1>2, <1>3, <1>4, PutSets DEF Opens, Serves, p

(* A step of the session's thread keeps the invariant. *)
LEMMA SessionKeeps ==
    ASSUME CellsInv, SessionStep
    PROVE  CellsInv'
  <1>1. worker' = worker /\ built' = built
    BY DEF SessionStep
  <1>2. audits \in [Audits -> {0, 1}] /\ code \in Seq(Instr)
    BY DEF CellsInv, CellsType
  <1>3. ASSUME NEW op, At(op)
        PROVE  /\ phase \in {"launch", "command"} /\ code # <<>> /\ code[1] \in Instr
               /\ Here = code[1][2] /\ code[1][1] = op /\ code[1] = <<op, Here>>
    <2>1. phase \in {"launch", "command"} /\ code # <<>> /\ Head(code)[1] = op
      BY <1>3 DEF At
    <2>2. Head(code) = code[1] /\ code[1] \in Instr
      BY <2>1, <1>2, HeadTailProperties, EmptySeq, ElementOfSeq, LenProperties
    <2> QED
      BY <2>1, <2>2, InstrShape DEF Here
  <1>4. CASE AskFull
    <2>1. /\ At("ask") /\ Here # "attribution" /\ cells[Here] # {} /\ code' = After(Here) \o Tail(code)
          /\ cells' = cells /\ audits' = audits /\ dropped' = dropped /\ phase' = phase
      BY <1>4 DEF AskFull, Rest
    <2> DEFINE c == Here
    <2>2. c \in Cells \ {"attribution"} /\ code[1] = Ask(c) /\ Ask(c)[1] = "ask"
      BY <2>1, <1>3, InstrShape DEF Ask
    <2>3. Opens(After(c), Ask(c)) /\ Serves(After(c), Ask(c))
      BY <2>1, <2>2, AfterOpens
    <2>4. \A x \in Audits : Ask(c) # Check(x)
      BY DEF Ask, Check
    <2> HIDE DEF c
    <2> QED
      BY <2>1, <2>2, <2>3, <2>4, <1>1, <1>2, <1>3, PushKeeps DEF c
  <1>5. CASE AskEmpty
    <2>1. /\ At("ask") /\ Here # "attribution" /\ cells[Here] = {}
          /\ code' = Body(Here) \o <<Fill(Here)>> \o After(Here) \o Tail(code)
          /\ cells' = cells /\ audits' = audits /\ dropped' = dropped /\ phase' = phase
      BY <1>5 DEF AskEmpty, Rest
    <2> DEFINE c == Here
               p == Body(c) \o <<Fill(c)>> \o After(c)
    <2>2. c \in Cells \ {"attribution"} /\ code[1] = Ask(c) /\ Ask(c)[1] = "ask"
      BY <2>1, <1>3, InstrShape DEF Ask
    <2>3. Opens(p, Ask(c)) /\ Serves(p, Ask(c))
      BY <2>1, <2>2, <1>3, InitialiseOpens
    <2>4. \A x \in Audits : Ask(c) # Check(x)
      BY DEF Ask, Check
    <2>5. code' = p \o Tail(code)
      BY <2>1
    <2> HIDE DEF c, p
    <2> QED
      BY <2>1, <2>2, <2>3, <2>4, <2>5, <1>1, <1>2, <1>3, PushKeeps
  <1>6. CASE AskAttribution
    <2>1. /\ At("ask") /\ Here = "attribution" /\ code' = Attribution \o Tail(code)
          /\ cells' = cells /\ audits' = audits /\ dropped' = dropped /\ phase' = phase
      BY <1>6 DEF AskAttribution, Rest
    <2>2. code[1] = Ask("attribution") /\ Ask("attribution")[1] = "ask"
      BY <2>1, <1>3 DEF Ask
    <2>3. \A x \in Audits : Ask("attribution") # Check(x)
      BY DEF Ask, Check
    <2> QED
      BY <2>1, <2>2, <2>3, <1>1, <1>2, <1>3, AttributionOpens, PushKeeps
  <1>7. CASE FillCell
    BY <1>1, <1>7, FillKeeps
  <1>8. CASE RunCheck
    <2> DEFINE x == Here
               p == IF FirstAudit(x) /\ x = "wakers" THEN <<Ask("wakers"), Ask("analysis")>> ELSE <<>>
    <2>1. /\ At("check") /\ code' = p \o Tail(code)
          /\ audits' = IF FirstAudit(x) THEN [audits EXCEPT ![x] = @ + 1] ELSE audits
          /\ cells' = cells /\ dropped' = dropped /\ phase' = phase
      BY <1>8 DEF RunCheck, Rest
    <2>2. x \in Audits /\ code[1] = Check(x) /\ Check(x)[1] = "check"
      BY <2>1, <1>3, InstrShape DEF Check
    <2>3. Opens(p, Check(x)) /\ Serves(p, Check(x))
      BY <2>2, CheckOpens, EmptyOpens
    <2>4. /\ audits' \in [Audits -> {0, 1}]
          /\ \A y \in Audits : audits[y] = 1 => audits'[y] = 1
          /\ Audit => audits'[x] = 1
          /\ ~ Audit => audits' = audits
      BY <2>1, <2>2, <1>2 DEF FirstAudit
    <2>5. \A y \in Audits : Check(x) = Check(y) => x = y
      BY DEF Check
    <2> HIDE DEF x, p
    <2> QED
      BY <2>1, <2>2, <2>3, <2>4, <2>5, <1>1, <1>3, PushKeeps
  <1>9. CASE ExpectCell
    <2>1. /\ At("expect") /\ code' = Tail(code)
          /\ cells' = cells /\ audits' = audits /\ dropped' = dropped /\ phase' = phase
      BY <1>9 DEF ExpectCell, Rest
    <2>2. code[1][1] = "expect" /\ \A x \in Audits : code[1] # Check(x)
      BY <2>1, <1>3 DEF Check
    <2>3. Opens(<<>>, code[1]) /\ Serves(<<>>, code[1])
      BY <2>2, EmptyOpens
    <2>4. code' = <<>> \o Tail(code)
      <3>1. Tail(code) \in Seq(Instr)
        BY <2>1, <1>2, <1>3, HeadTailProperties
      <3> QED
        BY <2>1, <3>1, ConcatEmptySeq
    <2> QED
      BY <2>1, <2>2, <2>3, <2>4, <1>1, <1>2, <1>3, PushKeeps
  <1>10. CASE JoinWorker
    BY <1>1, <1>10, JoinKeeps
  <1>11. CASE Return
    <2>1. /\ phase \in {"launch", "command"} /\ phase' = "prompt" /\ code = <<>> /\ code' = code
          /\ cells' = cells /\ audits' = audits /\ dropped' = dropped
      BY <1>11 DEF Return
    <2>2. DOMAIN code = {} /\ DOMAIN code' = {}
      BY <2>1
    <2>3. CellsType' /\ dropped' = {} /\ Closed' /\ BuiltClosed' /\ Audited'
      BY <2>1, <1>1 DEF CellsInv, CellsType, Closed, BuiltClosed, Audited
    <2>4. Ordered(code)' /\ SetsAwait' /\ AttributionFirst' /\ Expected' /\ BeforeJoin'
      BY <2>1, <2>2 DEF CellsInv, Ordered, SetsAwait, AttributionFirst, Expected, BeforeJoin
    <2>5. Warming'
      BY <2>1, <2>2, <1>1 DEF CellsInv, Warming, Pending, PendingCheck
    <2> QED
      BY <2>3, <2>4, <2>5 DEF CellsInv
  <1> QED
    BY <1>4, <1>5, <1>6, <1>7, <1>8, <1>9, <1>10, <1>11 DEF SessionStep

(* So does the start of a command. *)
LEMMA CommandKeeps ==
    ASSUME CellsInv, Command
    PROVE  CellsInv'
  <1>1. \A s \in Commands : s \in Seq(Instr) /\ \A k \in DOMAIN s : s[k][1] = "ask"
    <2>1. \A s \in Commands : s \in Seq(Instr)
      <3>1. \A c \in Cells : Ask(c) \in Instr
        BY DEF Instr
      <3>2. /\ {"task_rows", "future_rows", "thread_rows", "conn_rows", "relations", "census_tree"} \subseteq Cells
            /\ {"census", "analysis", "attribution", "extents", "wakers"} \subseteq Cells
        BY DEF Cells, WorkerCells, ListingCells
      <3>3. /\ Ask("task_rows") \in Instr /\ Ask("future_rows") \in Instr /\ Ask("thread_rows") \in Instr
            /\ Ask("conn_rows") \in Instr /\ Ask("relations") \in Instr /\ Ask("census_tree") \in Instr
            /\ Ask("census") \in Instr /\ Ask("analysis") \in Instr /\ Ask("attribution") \in Instr
            /\ Ask("extents") \in Instr /\ Ask("wakers") \in Instr
        BY <3>1, <3>2
      <3>4. /\ <<Ask("task_rows"), Ask("census"), Ask("analysis")>> \in Seq(Instr)
            /\ <<Ask("census"), Ask("future_rows"), Ask("census_tree")>> \in Seq(Instr)
            /\ <<Ask("thread_rows")>> \in Seq(Instr) /\ <<Ask("conn_rows")>> \in Seq(Instr)
            /\ <<Ask("analysis"), Ask("relations")>> \in Seq(Instr)
        BY <3>3
      <3>5. /\ <<Ask("analysis"), Ask("relations"), Ask("census"),
                 Ask("attribution"), Ask("extents")>> \in Seq(Instr)
            /\ <<Ask("extents"), Ask("census"), Ask("attribution")>> \in Seq(Instr)
            /\ <<Ask("wakers"), Ask("attribution")>> \in Seq(Instr)
        BY <3>3
      <3> QED
        BY <3>4, <3>5, Zenon DEF Commands
    <2>2. ASSUME NEW s \in Commands, NEW k \in DOMAIN s PROVE s[k][1] = "ask"
      <3>1. \A c : Ask(c)[1] = "ask"
        BY DEF Ask
      <3>2. \E c \in Cells : s[k] = Ask(c)
        BY DEF Commands, Cells, WorkerCells, ListingCells
      <3> QED
        BY <3>1, <3>2
    <2> QED
      BY <2>1, <2>2
  <1>2. /\ phase = "prompt" /\ phase' = "command" /\ code' \in Commands
        /\ cells' = cells /\ worker' = worker /\ built' = built /\ audits' = audits /\ dropped' = dropped
    BY DEF Command
  <1>3. code = <<>> /\ DOMAIN code = {}
    BY <1>2 DEF CellsInv, CellsType
  <1>4. code' \in Seq(Instr) /\ \A k \in DOMAIN code' : code'[k][1] = "ask"
    BY <1>1, <1>2
  <1>5. CellsType' /\ dropped' = {} /\ Closed' /\ BuiltClosed' /\ Audited'
    BY <1>2, <1>4 DEF CellsInv, CellsType, Closed, BuiltClosed, Audited
  <1>6. Ordered(code)' /\ SetsAwait' /\ Expected' /\ BeforeJoin'
    BY <1>4 DEF Ordered, SetsAwait, Expected, BeforeJoin, Sets, Expect, Join
  <1>7. AttributionFirst'
    <2>1. cells["attribution"] # {} <=> cells["analysis"] # {}
      BY <1>3 DEF CellsInv, AttributionFirst
    <2> QED
      BY <2>1, <1>2, <1>4 DEF AttributionFirst, SetsAnalysis, Sets, Put
  <1>8. Warming'
    BY <1>2 DEF CellsInv, Warming
  <1> QED
    BY <1>5, <1>6, <1>7, <1>8 DEF CellsInv

----------------------------------------------------------------------------
(* The launch. *)

(* The calls of warm_listings, in order, the last one for "--audit". *)
Warm == <<Ask("blocking_lwps"), Ask("thread_rows"), Join,
          Ask("wakers"), Ask("extents"), Ask("census"), Put("attribution"),
          Put("analysis"), Ask("census"), Ask("analysis"), Ask("attribution"),
          Put("task_rows"), Ask("future_rows"), Ask("attribution")>>

Agrees(s, n) == s \in Seq(Instr) /\ Len(s) = n /\ \A i \in 1 .. n : s[i] = Warm[i]
Follows(t, m, n) == t \in Seq(Instr) /\ Len(t) = n /\ \A i \in 1 .. n : t[i] = Warm[m + i]

(* Lists that agree with the launch, one after the other. *)
LEMMA AgreeStep ==
    ASSUME NEW s, NEW t, NEW u, NEW m \in Nat, NEW n \in Nat, NEW k,
           Agrees(s, m), Follows(t, m, n), u = s \o t, k = m + n
    PROVE  Agrees(u, k)
  <1>1. s \in Seq(Instr) /\ t \in Seq(Instr)
    BY DEF Agrees, Follows
  <1>2. /\ u \in Seq(Instr) /\ Len(u) = Len(s) + Len(t)
        /\ \A i \in 1 .. Len(u) : u[i] = IF i <= Len(s) THEN s[i] ELSE t[i - Len(s)]
    BY <1>1, Joined
  <1>3. Len(s) = m /\ Len(t) = n /\ (\A i \in 1 .. m : s[i] = Warm[i]) /\ \A i \in 1 .. n : t[i] = Warm[m + i]
    BY DEF Agrees, Follows
  <1>4. ASSUME NEW i \in 1 .. k PROVE u[i] = Warm[i]
    <2>1. CASE i <= m
      BY <2>1, <1>2, <1>3
    <2>2. CASE ~ (i <= m)
      <3>1. i - m \in 1 .. n /\ m + (i - m) = i
        BY <2>2
      <3>2. u[i] = t[i - m]
        BY <2>2, <1>2, <1>3
      <3> QED
        BY <3>1, <3>2, <1>3
    <2> QED
      BY <2>1, <2>2
  <1> QED
    BY <1>2, <1>3, <1>4 DEF Agrees

(* The launch as written is the launch as ordered. *)
LEMMA WarmShape == Agrees(WarmListings, IF Audit THEN 14 ELSE 13)
  <1> DEFINE a == BaseRows
             b == <<Ask("thread_rows"), Join>>
             c == Fold
             d == <<Put("analysis")>>
             e == WithSlots
             f == <<Put("task_rows"), Ask("future_rows")>>
             g == IF Audit THEN <<Ask("attribution")>> ELSE <<>>
             ab == a \o b
             ac == ab \o c
             ad == ac \o d
             ae == ad \o e
             af == ae \o f
             ag == af \o g
  <1>1. WarmListings = ag
    BY DEF WarmListings
  <1>2. /\ a \in Seq(Instr) /\ b \in Seq(Instr) /\ c \in Seq(Instr) /\ d \in Seq(Instr)
        /\ e \in Seq(Instr) /\ f \in Seq(Instr)
    BY DEF BaseRows, Fold, WithSlots, Instr, Cells, WorkerCells, ListingCells
  <1>3. Agrees(a, 1) /\ Follows(b, 1, 2)
    BY <1>2 DEF Agrees, Follows, BaseRows, Warm
  <1>4. Follows(c, 3, 4) /\ Follows(d, 7, 1)
    BY <1>2 DEF Follows, Fold, Warm
  <1>5. Follows(e, 8, 3) /\ Follows(f, 11, 2)
    BY <1>2 DEF Follows, WithSlots, Warm
  <1>6. Follows(g, 13, IF Audit THEN 1 ELSE 0)
    <2>1. CASE Audit
      <3>1. <<Ask("attribution")>> \in Seq(Instr)
        BY DEF Instr, Cells
      <3> QED
        BY <2>1, <3>1 DEF Follows, Warm
    <2>2. CASE ~ Audit
      BY <2>2 DEF Follows
    <2> QED
      BY <2>1, <2>2
  <1> HIDE DEF a, b, c, d, e, f, g, ab, ac, ad, ae, af, ag
  <1>7. Agrees(ab, 3)
    <2>1. Agrees(a, 1) /\ Follows(b, 1, 2) /\ ab = a \o b /\ 1 \in Nat /\ 2 \in Nat /\ 3 = 1 + 2
      BY <1>3 DEF ab
    <2> QED
      BY ONLY <2>1, AgreeStep
  <1>8. Agrees(ac, 7)
    <2>1. Agrees(ab, 3) /\ Follows(c, 3, 4) /\ ac = ab \o c /\ 3 \in Nat /\ 4 \in Nat /\ 7 = 3 + 4
      BY <1>4, <1>7 DEF ac
    <2> QED
      BY ONLY <2>1, AgreeStep
  <1>9. Agrees(ad, 8)
    <2>1. Agrees(ac, 7) /\ Follows(d, 7, 1) /\ ad = ac \o d /\ 7 \in Nat /\ 1 \in Nat /\ 8 = 7 + 1
      BY <1>4, <1>8 DEF ad
    <2> QED
      BY ONLY <2>1, AgreeStep
  <1>10. Agrees(ae, 11)
    <2>1. Agrees(ad, 8) /\ Follows(e, 8, 3) /\ ae = ad \o e /\ 8 \in Nat /\ 3 \in Nat /\ 11 = 8 + 3
      BY <1>5, <1>9 DEF ae
    <2> QED
      BY ONLY <2>1, AgreeStep
  <1>11. Agrees(af, 13)
    <2>1. Agrees(ae, 11) /\ Follows(f, 11, 2) /\ af = ae \o f /\ 11 \in Nat /\ 2 \in Nat /\ 13 = 11 + 2
      BY <1>5, <1>10 DEF af
    <2> QED
      BY ONLY <2>1, AgreeStep
  <1>12. Agrees(ag, IF Audit THEN 14 ELSE 13)
    <2> DEFINE n == IF Audit THEN 1 ELSE 0
               k == IF Audit THEN 14 ELSE 13
    <2>1. Agrees(af, 13) /\ Follows(g, 13, n) /\ ag = af \o g /\ 13 \in Nat /\ n \in Nat /\ k = 13 + n
      BY <1>6, <1>11 DEF ag
    <2> HIDE DEF n, k
    <2>2. Agrees(ag, k)
      BY ONLY <2>1, AgreeStep
    <2> QED
      BY <2>2 DEF k
  <1> QED
    BY <1>1, <1>12

(* The invariant holds at first. *)
LEMMA InitHolds ==
    ASSUME Init
    PROVE  CellsInv
  <1>1. /\ cells = [c \in Cells |-> {}] /\ built = [c \in WorkerCells |-> {}]
        /\ audits = [x \in Audits |-> 0] /\ dropped = {} /\ phase = "launch"
    BY DEF Init
  <1>2. /\ cells \in [Cells -> SUBSET Origins] /\ built \in [WorkerCells -> SUBSET Origins]
        /\ audits \in [Audits -> {0, 1}]
        /\ \A c \in Cells : cells[c] = {}
        /\ \A c \in WorkerCells : built[c] = {}
        /\ \A x \in Audits : audits[x] = 0
        /\ WorkerCells \subseteq Cells
    <2>1. WorkerCells \subseteq Cells
      BY DEF Cells
    <2>2. cells \in [Cells -> SUBSET Origins] /\ \A c \in Cells : cells[c] = {}
      BY <1>1
    <2>3. built \in [WorkerCells -> SUBSET Origins] /\ \A c \in WorkerCells : built[c] = {}
      BY <1>1
    <2>4. audits \in [Audits -> {0, 1}] /\ \A x \in Audits : audits[x] = 0
      BY <1>1
    <2> QED
      BY <2>1, <2>2, <2>3, <2>4
  <1>3. Closed /\ BuiltClosed /\ Audited
    BY <1>2 DEF Closed, BuiltClosed, Audited, WorkerCells
  <1>4. cells["analysis"] = {} /\ cells["attribution"] = {}
    BY <1>2 DEF Cells
  <1>5. CASE code = <<>> /\ worker = "none"
    <2>1. DOMAIN code = {} /\ code \in Seq(Instr)
      BY <1>5
    <2>2. CellsType /\ Warming
      BY <1>1, <1>2, <1>5, <2>1 DEF CellsType, Warming
    <2>3. Ordered(code) /\ SetsAwait /\ AttributionFirst /\ Expected /\ BeforeJoin
      BY <1>4, <2>1 DEF Ordered, SetsAwait, AttributionFirst, Expected, BeforeJoin
    <2> QED
      BY <1>1, <1>3, <2>2, <2>3 DEF CellsInv
  <1>6. CASE code = WarmListings /\ worker = "started"
    <2> DEFINE n == IF Audit THEN 14 ELSE 13
    <2>1. Agrees(code, n)
      BY <1>6, WarmShape
    <2>2. n \in 13 .. 14 /\ 1 .. 13 \subseteq 1 .. n
      OBVIOUS
    <2> HIDE DEF n
    <2>3. code \in Seq(Instr) /\ DOMAIN code = 1 .. n /\ \A k \in 1 .. n : code[k] = Warm[k]
      BY <2>1, LenProperties DEF Agrees
    <2>4. /\ Warm[1] = Ask("blocking_lwps") /\ Warm[2] = Ask("thread_rows") /\ Warm[3] = Join
          /\ Warm[4] = Ask("wakers") /\ Warm[5] = Ask("extents") /\ Warm[6] = Ask("census")
          /\ Warm[7] = Put("attribution") /\ Warm[8] = Put("analysis") /\ Warm[9] = Ask("census")
          /\ Warm[10] = Ask("analysis") /\ Warm[11] = Ask("attribution")
          /\ Warm[12] = Put("task_rows") /\ Warm[13] = Ask("future_rows") /\ Warm[14] = Ask("attribution")
      BY DEF Warm
    <2>5. \A k \in 1 .. n : Sets(Warm[k]) <=> k \in {7, 8, 12}
      <3>1. /\ \A c : ~ Sets(Ask(c)) /\ Sets(Put(c))
            /\ ~ Sets(Join)
        BY DEF Sets, Ask, Put, Join
      <3> QED
        BY <2>2, <2>4, <3>1
    <2>6. /\ \A k \in 1 .. 6 : Weight(Warm[k]) < 3
          /\ Weight(Warm[7]) = 3 /\ Weight(Warm[8]) = 4
          /\ \A k \in 9 .. 11 : Weight(Warm[k]) < 6
          /\ Weight(Warm[12]) = 6
          /\ \A k \in 1 .. 14 : Weight(Warm[k]) \in Nat
      <3>1. /\ Weight(Ask("blocking_lwps")) = 2 /\ Weight(Ask("thread_rows")) = 2 /\ Weight(Join) = 1
            /\ Weight(Ask("wakers")) = 2 /\ Weight(Ask("extents")) = 1 /\ Weight(Ask("census")) = 1
        BY DEF Weight, Rank, Ask, Join, Check
      <3>2. /\ Weight(Put("attribution")) = 3 /\ Weight(Put("analysis")) = 4 /\ Weight(Put("task_rows")) = 6
            /\ Weight(Ask("analysis")) = 4 /\ Weight(Ask("attribution")) = 5 /\ Weight(Ask("future_rows")) = 6
        BY DEF Weight, Rank, Ask, Put, Join, Check
      <3> QED
        BY <2>4, <3>1, <3>2
    <2>7. Ordered(code)
      <3> SUFFICES ASSUME NEW j \in 1 .. n, NEW k \in {7, 8, 12}, j < k
                   PROVE  Weight(Warm[j]) < Weight(Warm[k])
        BY <2>3, <2>5 DEF Ordered
      <3>1. CASE k = 7
        BY <3>1, <2>6
      <3>2. CASE k = 8
        <4>1. j \in 1 .. 6 \/ j = 7
          BY <3>2
        <4> QED
          BY <4>1, <3>2, <2>6
      <3>3. CASE k = 12
        <4>1. j \in 1 .. 6 \/ j = 7 \/ j = 8 \/ j \in 9 .. 11
          BY <3>3
        <4> QED
          BY <4>1, <3>3, <2>6
      <3> QED
        BY <3>1, <3>2, <3>3
    <2>8. Put("attribution")[2] = "attribution" /\ Put("analysis")[2] = "analysis" /\ Put("task_rows")[2] = "task_rows"
      BY DEF Put
    <2>9. SetsAwait
      <3>1. cells["task_rows"] = {}
        BY <1>2 DEF Cells, ListingCells
      <3> QED
        BY <2>3, <2>4, <2>5, <2>8, <3>1, <1>4 DEF SetsAwait
    <2>10. AttributionFirst
      <3>1. SetsAnalysis(8) /\ 7 \in DOMAIN code /\ 8 \in DOMAIN code /\ code[7] = Put("attribution")
        BY <2>2, <2>3, <2>4, <2>5, <2>8 DEF SetsAnalysis
      <3>2. \A k \in DOMAIN code : SetsAnalysis(k) => k = 8
        BY <2>3, <2>4, <2>5, <2>8 DEF SetsAnalysis
      <3>3. \A k \in DOMAIN code : code[k] = Put("attribution") => k = 7
        <4>1. \A k \in DOMAIN code : code[k] = Put("attribution") => k \in {7, 8, 12}
          BY <2>3, <2>5, PutSets
        <4> QED
          BY <4>1, <2>3, <2>4, <2>8
      <3> QED
        BY <1>4, <3>1, <3>2, <3>3 DEF AttributionFirst
    <2>11. \A k \in 1 .. 14 : Warm[k] # Expect("attribution") /\ Warm[k][1] # "fill" /\ (Warm[k] = Join => k = 3)
      <3>1. /\ \A c : Ask(c) # Expect("attribution") /\ Ask(c)[1] # "fill" /\ Ask(c) # Join
            /\ \A c : Put(c) # Expect("attribution") /\ Put(c)[1] # "fill" /\ Put(c) # Join
            /\ Join # Expect("attribution") /\ Join[1] # "fill"
        BY DEF Ask, Put, Join, Expect
      <3> QED
        BY <2>4, <3>1
    <2>12. Expected
      BY <2>2, <2>3, <2>11 DEF Expected
    <2>13. BeforeJoin
      <3>1. Ask("blocking_lwps") \in {Ask(c) : c \in Apart} /\ Ask("thread_rows") \in {Ask(c) : c \in Apart}
        BY DEF Apart
      <3>2. \A k \in DOMAIN code : code[k] = Join => k = 3
        BY <2>2, <2>3, <2>11
      <3>3. ASSUME NEW j \in DOMAIN code
            PROVE  /\ j < 3 => code[j] \in {Ask(c) : c \in Apart}
                   /\ j > 3 => code[j] # Join /\ code[j][1] # "fill"
        <4>1. j < 3 => j = 1 \/ j = 2
          BY <2>2, <2>3
        <4> QED
          BY <4>1, <3>1, <2>2, <2>3, <2>4, <2>11
      <3> QED
        BY <3>2, <3>3, <1>2 DEF BeforeJoin
    <2>14. \A c \in Needed : Pending(c)
      <3>1. /\ code[2] = Ask("thread_rows") /\ code[4] = Ask("wakers") /\ code[5] = Ask("extents")
            /\ code[6] = Ask("census") /\ code[10] = Ask("analysis") /\ code[13] = Ask("future_rows")
            /\ Sets(code[7]) /\ code[7][2] = "attribution" /\ Sets(code[12]) /\ code[12][2] = "task_rows"
        BY <2>2, <2>3, <2>4, <2>5, <2>8
      <3>2. {2, 4, 5, 6, 7, 10, 12, 13} \subseteq DOMAIN code
        BY <2>2, <2>3
      <3>3. ASSUME NEW c \in Needed
            PROVE  c \in {"thread_rows", "wakers", "extents", "census", "analysis", "future_rows",
                          "attribution", "task_rows"}
        BY DEF Needed, ListingCells, WorkerCells
      <3>4. ASSUME NEW k \in DOMAIN code, NEW c, c # "attribution", code[k] = Ask(c) PROVE Pending(c)
        BY <3>4 DEF Pending
      <3>5. ASSUME NEW k \in DOMAIN code, NEW c, Sets(code[k]), code[k][2] = c PROVE Pending(c)
        BY <3>5 DEF Pending
      <3>8. 2 \in DOMAIN code /\ 4 \in DOMAIN code /\ 5 \in DOMAIN code /\ 6 \in DOMAIN code
            /\ 10 \in DOMAIN code /\ 13 \in DOMAIN code
        BY <3>2
      <3>6. /\ Pending("thread_rows") /\ Pending("wakers") /\ Pending("extents") /\ Pending("census")
            /\ Pending("analysis") /\ Pending("future_rows")
        BY ONLY <3>1, <3>8, <3>4
      <3>7. Pending("attribution") /\ Pending("task_rows")
        BY <3>1, <3>2, <3>5
      <3> QED
        BY <3>3, <3>6, <3>7
    <2>15. \A x \in Audits : PendingCheck(x)
      <3>1. code[6] = Ask("census") /\ code[11] = Ask("attribution") /\ {6, 11} \subseteq DOMAIN code
        BY <2>2, <2>3, <2>4
      <3> QED
        BY <3>1 DEF PendingCheck, Audits
    <2>16. CellsType /\ Warming
      BY <1>1, <1>2, <1>6, <2>3, <2>14, <2>15 DEF CellsType, Warming
    <2> QED
      BY <1>1, <1>3, <2>7, <2>9, <2>10, <2>12, <2>13, <2>16 DEF CellsInv
  <1> QED
    BY <1>5, <1>6 DEF Init

----------------------------------------------------------------------------
(* The theorems. *)

(* The invariant: the calls still to be made are ordered by what they may *)
(* come to fill, every cell still to be set is empty, nothing of the      *)
(* worker's is asked for before the join, and whatever the launch has yet *)
(* to fill or check is still ahead (main.rs, the accessors, adopt, fold   *)
(* and warm_listings).                                                    *)
THEOREM CellsHold == Spec => []CellsInv
  <1>1. Init => CellsInv
    BY InitHolds
  <1>2. CellsInv /\ [Next]_vars => CellsInv'
    <2> SUFFICES ASSUME CellsInv, [Next]_vars PROVE CellsInv'
      OBVIOUS
    <2>1. CASE WorkerStep
      BY <2>1, WorkerKeeps
    <2>2. CASE SessionStep
      BY <2>2, SessionKeeps
    <2>3. CASE Command
      BY <2>3, CommandKeeps
    <2>4. CASE UNCHANGED vars
      <3>1. /\ cells' = cells /\ code' = code /\ worker' = worker /\ built' = built /\ audits' = audits
            /\ dropped' = dropped /\ phase' = phase
        BY <2>4 DEF vars
      <3>2. CellsType' /\ Ordered(code)' /\ SetsAwait' /\ AttributionFirst' /\ Expected' /\ BeforeJoin'
        BY <3>1 DEF CellsInv, CellsType, Ordered, SetsAwait, AttributionFirst, Expected, BeforeJoin,
                    SetsAnalysis, Sets, Weight
      <3>3. Closed' /\ BuiltClosed' /\ dropped' = {} /\ Warming' /\ Audited'
        BY <3>1 DEF CellsInv, Closed, BuiltClosed, Warming, Audited, Pending, PendingCheck, Sets
      <3> QED
        BY <3>2, <3>3 DEF CellsInv
    <2> QED
      BY <2>1, <2>2, <2>3, <2>4 DEF Next
  <1> QED
    BY <1>1, <1>2, PTL DEF Spec

(* Everything a session answers from was built from what its cells hold   *)
(* now, and no set of a cell is lost: however the launch worker and the   *)
(* session's thread interleave, wherever the worker dies, and for any     *)
(* number of commands (main.rs, adopt and fold).                          *)
THEOREM LineageIsOne == Spec => []OneLineage
  <1>1. CellsInv => OneLineage
    BY DEF CellsInv, Closed, OneLineage
  <1> QED
    BY <1>1, CellsHold, PTL

(* No accessor asks for itself, the attribution is there wherever it is   *)
(* expected, and after the launch the listings, everything under them and *)
(* the self-checks "--audit" asks for are done, once (main.rs, the        *)
(* accessors, attribution, first_audit).                                  *)
THEOREM AccessorsNeverPanic == Spec => []AccessorsHold
  <1>1. ASSUME CellsInv PROVE AccessorsHold
    <2>1. code \in Seq(Instr)
      BY <1>1 DEF CellsInv, CellsType
    <2>2. ASSUME code # <<>>
          PROVE  /\ Head(code) = code[1] /\ code[1] \in Instr /\ 1 \in DOMAIN code
                 /\ DOMAIN code = 1 .. Len(code) /\ Len(code) \in Nat
      BY <2>1, <2>2, HeadTailProperties, EmptySeq, ElementOfSeq, LenProperties
    <2>3. ASSUME Reentrant PROVE FALSE
      <3>1. code # <<>> /\ Head(code)[1] = "ask" /\ Here # "attribution"
        BY <2>3 DEF Reentrant, At
      <3>2. PICK k \in DOMAIN code : code[k] = Fill(Here)
        BY <2>3 DEF Reentrant, UnderWay
      <3>3. code[1] = Ask(Here)
        BY <3>1, <2>2, InstrShape DEF Here, Ask
      <3>4. /\ Weight(Ask(Here)) = Rank(Here) /\ Weight(Fill(Here)) = Rank(Here) /\ Rank(Here) \in Nat
            /\ Sets(Fill(Here)) /\ Ask(Here) # Fill(Here)
        BY <3>1 DEF Weight, Ask, Fill, Check, Join, Sets, Rank
      <3>5. 1 < k
        BY <3>1, <3>2, <3>3, <3>4, <2>2
      <3>6. Weight(code[1]) < Weight(code[k])
        BY <1>1, <3>1, <3>2, <3>4, <3>5, <2>2 DEF CellsInv, Ordered
      <3> QED
        BY <3>2, <3>3, <3>4, <3>6
    <2>4. ASSUME Missing PROVE FALSE
      <3>1. code # <<>> /\ Head(code)[1] = "expect" /\ cells[Here] = {}
        BY <2>4 DEF Missing, At
      <3>2. code[1] = Expect("attribution") /\ Here = "attribution"
        BY <3>1, <2>2, InstrShape DEF Here, Expect
      <3>3. cells["analysis"] # {}
        <4>1. ~ \E j \in DOMAIN code : j < 1
          BY <3>1, <2>2
        <4> QED
          BY <1>1, <3>1, <3>2, <2>2, <4>1 DEF CellsInv, Expected
      <3> QED
        BY <1>1, <3>1, <3>2, <3>3 DEF CellsInv, AttributionFirst
    <2>5. WarmIsComplete
      BY <1>1 DEF CellsInv, CellsType, Warming, Audited, WarmIsComplete, Warmed, Needed
    <2> QED
      BY <2>3, <2>4, <2>5 DEF AccessorsHold, NeverPanics
  <1> QED
    BY <1>1, CellsHold, PTL

=============================================================================
