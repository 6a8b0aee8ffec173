------------------------ MODULE SessionCursorProofs ------------------------
(***************************************************************************)
(* Why the cursor is always one the target has, and why it comes back:     *)
(* proofs, for every target and every set of lines, that each way of       *)
(* moving the cursor leaves its coordinates in agreement, and that what a  *)
(* scope or a loop borrowed is put back where the last command outside     *)
(* every one of them left it. Last, that a question is about the cursor as *)
(* it is when the answer is given.                                         *)
(***************************************************************************)
EXTENDS SessionCursor, SequenceTheorems, FiniteSetTheorems, TLAPS

(* What CursorHolds says, of any cursor: the one the session is on and the *)
(* ones its scopes and loops are to put back.                              *)
OnFrame(c) ==
    c.root # None =>
        LET chain == ChainOf(c)
        IN IF chain = <<>> THEN c.frame = 0 /\ c.last # None
           ELSE c.frame < Len(chain) /\ c.last = FrameBase(chain, c.frame)

Pinned(c) ==
    c.future # None =>
        /\ c.root = <<"future", FindAddr[c.future]>>
        /\ CursorFuture(c) = c.future
        /\ ChainOf(c) = FindChain[c.future]

Nested(c) ==
    (c.root # None /\ c.lwp # None) => c.lwp = Polling[CursorTask(c)]

(* A cursor that pins no future is on a task, by its id or its header.     *)
Rooted(c) ==
    (c.root # None /\ c.future = None) => c.root[1] = "task" \/ TaskRooted(c.root[2])

Good(c) == c \in Cursor /\ OnFrame(c) /\ Pinned(c) /\ Nested(c) /\ Rooted(c)

(* A call the session is in the middle of: what it saved is a cursor to go *)
(* back to, and a loop's rows are rows of its listing.                     *)
RowsOf(op) == CASE op = "tasks" -> Tasks [] op = "futures" -> Finds [] op = "threads" -> Lwps

Borrows(it) == it.kind \in {"restore", "loop"}

Kept(it) ==
    /\ it = Item(it.kind, it.cmd, it.rows, it.saved, it.failed)
    /\ Borrows(it) => Good(it.saved)
    /\ it.kind = "loop" => it.cmd.op \in Loops /\ it.rows \in Seq(RowsOf(it.cmd.op))

IsSeq(s) == \E S : s \in Seq(S)
Push(it, s) == <<it>> \o s
Calls(s) == IsSeq(s) /\ \A i \in 1..Len(s) : Kept(s[i])

(* Where the session is to come back to: where it is, if nothing borrowed  *)
(* the cursor, else what the outermost scope or loop saved.                *)
ComesBack(s, c, h) ==
    /\ (\A i \in 1..Len(s) : ~Borrows(s[i])) => c = h
    /\ \A i \in 1..Len(s) :
         (Borrows(s[i]) /\ \A j \in 1..Len(s) : j > i => ~Borrows(s[j])) => s[i].saved = h

CameBack == output = "open" => ComesBack(stack, cursor, home)

AtRest == phase \in {"prompt", "ended"} => stack = <<>>

CursorInv == rest \in Seq(Commands) /\ Calls(stack) /\ Good(cursor) /\ CameBack /\ AtRest

----------------------------------------------------------------------------
(* The ways of moving the cursor. *)

(* The cursor on nothing is a good one. *)
LEMMA NoCursorGood ==
    ASSUME SessionAssumption
    PROVE  Good(NoCursor)
BY DEF SessionAssumption, Good, NoCursor, Cursor, Roots, OnFrame, Pinned, Nested, Rooted

(* A frame within the chain has a base. *)
LEMMA BaseIs ==
    ASSUME NEW chain \in Seq(Addrs), NEW n \in Nat, n < Len(chain)
    PROVE  FrameBase(chain, n) \in Addrs
<1>1. Len(chain) \in Nat /\ Len(chain) - n \in 1..Len(chain)
  OBVIOUS
<1> QED BY <1>1, ElementOfSeq DEF FrameBase

(* A sequence is empty when it has no elements. *)
LEMMA EmptyIs ==
    ASSUME NEW S, NEW s \in Seq(S)
    PROVE  s = <<>> <=> Len(s) = 0
BY EmptySeq

(* So is one on a frame of a task. *)
LEMMA OnTaskGood ==
    ASSUME SessionAssumption, NEW t \in Tasks, NEW n \in Nat, n = 0 \/ n < Len(TaskChain[t])
    PROVE  Good(OnTask(t, n))
<1> DEFINE c == OnTask(t, n)
           chain == TaskChain[t]
<1>1. /\ c.lwp = Polling[t] /\ c.root = TaskRoot(t) /\ c.future = None /\ c.frame = n
      /\ c.last = IF chain = <<>> THEN Header[t] ELSE FrameBase(chain, n)
  BY DEF OnTask
<1>2. chain \in Seq(Addrs) /\ Header[t] \in Addrs /\ Polling[t] \in Lwps \cup {None}
  BY DEF SessionAssumption
<1>3. /\ chain = <<>> => n = 0
      /\ chain # <<>> => n < Len(chain) /\ FrameBase(chain, n) \in Addrs
  BY <1>2, EmptyIs, BaseIs
<1>4. TaskRooted(Header[t]) /\ TaskAt[Header[t]] = t
  BY DEF SessionAssumption, TaskRooted
<1>5. TaskRoot(t) \in Roots /\ TaskRoot(t) # None
  BY <1>2 DEF TaskRoot, Roots, SessionAssumption
<1>6. c \in Cursor
  BY <1>2, <1>3, <1>5 DEF OnTask, Cursor
<1>7. ChainOf(c) = chain /\ CursorTask(c) = t
  BY <1>1, <1>4, <1>5 DEF ChainOf, CursorTask, TaskRoot, SessionAssumption
<1>8. OnFrame(c)
  BY <1>1, <1>2, <1>3, <1>7 DEF OnFrame, SessionAssumption
<1>9. Rooted(c)
  BY <1>1, <1>4 DEF Rooted, TaskRoot
<1> QED BY <1>1, <1>6, <1>7, <1>8, <1>9 DEF Good, Pinned, Nested

(* And one on a future that was found. *)
LEMMA OnFutureGood ==
    ASSUME SessionAssumption, NEW f \in Finds
    PROVE  Good(OnFuture(f))
<1> DEFINE at == [lwp |-> IF f \in Children THEN None ELSE Polling[FindOwner[f]],
                  root |-> <<"future", FindAddr[f]>>, future |-> f, frame |-> 0,
                  last |-> FindAddr[f]]
           c == OnFuture(f)
           chain == FindChain[f]
<1>1. /\ chain \in Seq(Addrs) /\ FindAddr[f] \in Addrs /\ FindOwner[f] \in Tasks
      /\ Polling[FindOwner[f]] \in Lwps \cup {None} /\ f # None
      /\ <<"future", FindAddr[f]>> \in Roots /\ <<"future", FindAddr[f]>> # None
  BY DEF SessionAssumption, Roots
<1>2. ~TaskRooted(FindAddr[f])
  BY <1>1 DEF SessionAssumption, TaskRooted
<1>3. ASSUME NEW d, d.root = <<"future", FindAddr[f]>>, d.future = f
      PROVE  /\ ChainOf(d) = chain /\ CursorFuture(d) = f /\ CursorTask(d) = FindOwner[f]
  <2>1. RootFuture(d) = f /\ d.root[1] = "future" /\ d.root[2] = FindAddr[f]
    BY <1>1, <1>3 DEF RootFuture
  <2>2. TaskAt[FindAddr[f]] \in {FindOwner[f], None}
    BY DEF SessionAssumption
  <2> QED BY <1>1, <1>2, <1>3, <2>1, <2>2 DEF ChainOf, CursorFuture, CursorTask
<1>4. ChainOf(at) = chain
  <2>1. at.root = <<"future", FindAddr[f]>> /\ at.future = f
    OBVIOUS
  <2> QED BY <1>3, <2>1
<1>5. chain # <<>> => 0 < Len(chain) /\ FrameBase(chain, 0) \in Addrs
  BY <1>1, EmptyIs, BaseIs
<1>6. c = IF chain = <<>> THEN at ELSE [at EXCEPT !.last = FrameBase(chain, 0)]
  BY <1>4 DEF OnFuture
<1>7. /\ c.lwp = at.lwp /\ c.root = at.root /\ c.future = f /\ c.frame = 0
      /\ c.last = IF chain = <<>> THEN FindAddr[f] ELSE FrameBase(chain, 0)
  BY <1>6
<1>8. at \in Cursor
  <2>1. FindAddr[f] \in Addrs \cup {None} /\ f \in Finds \cup {None} /\ 0 \in Nat
    BY <1>1
  <2> DEFINE worker == IF f \in Children THEN None ELSE Polling[FindOwner[f]]
  <2>2. worker \in Lwps \cup {None}
    BY <1>1
  <2> HIDE DEF worker
  <2>3. [lwp |-> worker, root |-> <<"future", FindAddr[f]>>, future |-> f, frame |-> 0,
         last |-> FindAddr[f]] \in Cursor
    BY <1>1, <2>1, <2>2 DEF Cursor
  <2> QED BY <2>3 DEF worker
<1>9. c \in Cursor
  <2>1. \A d \in Cursor, a \in Addrs : [d EXCEPT !.last = a] \in Cursor
    BY DEF Cursor
  <2> HIDE DEF at, c, chain
  <2> QED BY <1>5, <1>6, <1>8, <2>1
<1>10. ChainOf(c) = chain /\ CursorFuture(c) = f /\ CursorTask(c) = FindOwner[f]
  BY <1>3, <1>7
<1>11. OnFrame(c)
  BY <1>1, <1>5, <1>7, <1>10 DEF OnFrame, SessionAssumption
<1>12. Pinned(c) /\ Nested(c) /\ Rooted(c)
  BY <1>1, <1>7, <1>10 DEF Pinned, Nested, Rooted
<1> QED BY <1>9, <1>11, <1>12 DEF Good

(* And one on a thread. *)
LEMMA OnThreadGood ==
    ASSUME SessionAssumption, NEW l, NEW c \in SelectThread(l)
    PROVE  Good(c)
<1>1. /\ l \in Lwps /\ StackPointer[l] \in Addrs
      /\ c = [lwp |-> l, root |-> None, future |-> None, frame |-> 0, last |-> StackPointer[l]]
  BY ZenonT(30) DEF SelectThread, NoCursor, SessionAssumption
<1> QED BY <1>1 DEF Good, Cursor, Roots, OnFrame, Pinned, Nested, Rooted

(* What a selector command selects is a good cursor. *)
LEMMA SelectGood ==
    ASSUME SessionAssumption, NEW op \in Selectors, NEW arg, NEW c \in Select(op, arg)
    PROVE  Good(c)
<1>1. CASE op = "task"
  <2>1. c \in SelectTask(arg)
    BY <1>1 DEF Select
  <2>2. CASE arg \in Tasks /\ c = OnTask(arg, 0)
    BY <2>2, OnTaskGood
  <2>3. CASE /\ arg \in Addrs /\ TaskAt[arg] # None
             /\ c = OnTask(TaskAt[arg], ClaimingFrame(TaskAt[arg], arg))
    <3>1. TaskAt[arg] \in Tasks
      BY <2>3 DEF SessionAssumption
    <3>2. /\ Claims[TaskAt[arg]][arg] \in 0 .. Len(TaskChain[TaskAt[arg]])
          /\ Len(TaskChain[TaskAt[arg]]) \in Nat
      BY <2>3, <3>1 DEF SessionAssumption
    <3>3. /\ ClaimingFrame(TaskAt[arg], arg) \in Nat
          /\ \/ ClaimingFrame(TaskAt[arg], arg) = 0
             \/ ClaimingFrame(TaskAt[arg], arg) < Len(TaskChain[TaskAt[arg]])
      BY <3>2 DEF ClaimingFrame
    <3> QED BY <2>3, <3>1, <3>3, OnTaskGood
  <2> QED BY <2>1, <2>2, <2>3 DEF SelectTask
<1>2. CASE op = "future"
  <2>1. c \in SelectFuture(arg)
    BY <1>2 DEF Select
  <2>2. arg \in Addrs /\ FutureAt[arg] # None /\ c = OnFuture(FutureAt[arg])
    BY <2>1 DEF SelectFuture
  <2>3. FutureAt[arg] \in Finds
    BY <2>2 DEF SessionAssumption
  <2> QED BY <2>2, <2>3, OnFutureGood
<1>3. CASE op = "thread"
  BY <1>3, OnThreadGood DEF Select
<1> QED BY <1>1, <1>2, <1>3 DEF Selectors

(* A frame move changes the frame and "$_" together, and nothing else. *)
LEMMA ToFrameGood ==
    ASSUME SessionAssumption, NEW c, Good(c), NEW n \in Nat, NEW d \in ToFrame(c, n)
    PROVE  Good(d)
<1> DEFINE chain == ChainOf(c)
<1>1. /\ c \in Cursor /\ c.root # None /\ ~(n + 1 > Len(chain))
      /\ d = [c EXCEPT !.frame = n, !.last = FrameBase(chain, n)]
  BY DEF ToFrame, Good
<1>2. chain \in Seq(Addrs)
  <2>1. c.root \in ({"task"} \X Tasks) \cup ({"future"} \X Addrs)
    BY <1>1 DEF Cursor, Roots
  <2>2. CASE c.root \in {"task"} \X Tasks
    BY <2>2 DEF ChainOf, SessionAssumption
  <2>3. CASE c.root \in {"future"} \X Addrs
    <3>1. RootFuture(c) \in Finds \cup {None}
      BY <1>1, <2>3 DEF RootFuture, SessionAssumption, Cursor
    <3>2. TaskRooted(c.root[2]) => TaskAt[c.root[2]] \in Tasks
      BY <2>3 DEF TaskRooted, SessionAssumption
    <3>3. <<>> \in Seq(Addrs)
      OBVIOUS
    <3> QED BY <2>3, <3>1, <3>2, <3>3 DEF ChainOf, SessionAssumption
  <2> QED BY <2>1, <2>2, <2>3
<1>3. n < Len(chain) /\ FrameBase(chain, n) \in Addrs /\ chain # <<>>
  BY <1>1, <1>2, BaseIs
<1>4. /\ d.root = c.root /\ d.future = c.future /\ d.lwp = c.lwp
      /\ d.frame = n /\ d.last = FrameBase(chain, n)
  BY <1>1 DEF Cursor
<1>5. d \in Cursor
  BY <1>1, <1>3 DEF Cursor
<1>6. ChainOf(d) = chain /\ CursorFuture(d) = CursorFuture(c) /\ CursorTask(d) = CursorTask(c)
  BY <1>4 DEF ChainOf, CursorFuture, CursorTask, RootFuture
<1>7. OnFrame(d)
  BY <1>3, <1>4, <1>6 DEF OnFrame
<1>8. Rooted(d)
  BY <1>4 DEF Rooted, Good
<1> QED BY <1>4, <1>5, <1>6, <1>7, <1>8 DEF Good, Pinned, Nested

(* What a move makes of a good cursor is a good one. *)
LEMMA MoveGood ==
    ASSUME SessionAssumption, NEW op \in Moves, NEW arg, NEW c, Good(c),
           NEW d \in Move(op, arg, c)
    PROVE  Good(d)
<1>1. c.frame \in Nat
  BY DEF Good, Cursor
<1>2. CASE op = "frame" /\ arg = None
  <2>1. d = c
    BY <1>2 DEF Move
  <2> QED BY <2>1
<1>3. CASE op = "frame" /\ arg # None
  <2>1. arg \in Nat /\ d \in ToFrame(c, arg)
    BY <1>3 DEF Move
  <2> QED BY <2>1, ToFrameGood
<1>4. CASE op = "up"
  <2>1. d \in ToFrame(c, c.frame + 1) /\ c.frame + 1 \in Nat
    BY <1>1, <1>4 DEF Move
  <2> QED BY <2>1, ToFrameGood
<1>5. CASE op = "down"
  <2>1. c.frame # 0 /\ d \in ToFrame(c, c.frame - 1) /\ c.frame - 1 \in Nat
    BY <1>1, <1>5 DEF Move
  <2> QED BY <2>1, ToFrameGood
<1> QED BY <1>2, <1>3, <1>4, <1>5 DEF Moves

(* A listing lists what it is a listing of. *)
LEMMA ListingIs ==
    ASSUME NEW S, IsFiniteSet(S)
    PROVE  Listing(S) \in Seq(S)
<1> DEFINE n == Cardinality(S)
<1>1. n \in Nat /\ ExistsBijection(1..n, S)
  BY FS_CardinalityType
<1>2. PICK s \in [1..n -> S] : \A i, j \in 1..n : s[i] = s[j] => i = j
  BY <1>1 DEF ExistsBijection, Bijection, Injection, IsInjective
<1>3. \E r \in [1..n -> S] : \A i, j \in DOMAIN r : r[i] = r[j] => i = j
  BY <1>2
<1>4. Listing(S) \in [1..n -> S]
  BY <1>3 DEF Listing
<1> QED BY <1>1, <1>4

(* A loop's rows are rows of its listing. *)
LEMMA RowsAre ==
    ASSUME SessionAssumption, NEW op \in Loops
    PROVE  Rows(op) \in Seq(RowsOf(op))
BY ListingIs DEF Rows, RowsOf, Loops, SessionAssumption

(* The cursor a loop sets on a row is a good one. *)
LEMMA ScopeToGood ==
    ASSUME SessionAssumption, NEW op \in Loops, NEW row \in RowsOf(op)
    PROVE  Good(ScopeTo(op, row))
<1>1. CASE op = "tasks"
  BY <1>1, OnTaskGood DEF RowsOf, ScopeTo
<1>2. CASE op = "futures"
  BY <1>2, OnFutureGood DEF RowsOf, ScopeTo
<1>3. CASE op = "threads"
  <2>1. row \in Lwps /\ ScopeTo(op, row) = CHOOSE c \in SelectThread(row) : TRUE
    BY <1>3 DEF RowsOf, ScopeTo
  <2>2. \E c \in SelectThread(row) : TRUE
    BY <2>1 DEF SelectThread
  <2> QED BY <2>1, <2>2, OnThreadGood
<1> QED BY <1>1, <1>2, <1>3 DEF Loops

----------------------------------------------------------------------------
(* The calls under way, and what comes back of them. *)

(* The call stack with one more call on it. *)
LEMMA PushIs ==
    ASSUME NEW s, IsSeq(s), NEW it
    PROVE  /\ IsSeq(Push(it, s)) /\ Len(s) \in Nat /\ Len(Push(it, s)) = Len(s) + 1
           /\ Push(it, s)[1] = it /\ \A i \in 1..Len(s) : Push(it, s)[i + 1] = s[i]
           /\ \A i \in 1..(Len(s) + 1) :
                i = 1 \/ (i - 1 \in 1..Len(s) /\ Push(it, s)[i] = s[i - 1])
<1>1. PICK S : s \in Seq(S)
  BY DEF IsSeq
<1> DEFINE T == S \cup {it}
<1>2. s \in Seq(T) /\ <<it>> \in Seq(T) /\ Len(<<it>>) = 1 /\ <<it>>[1] = it
  BY <1>1
<1> HIDE DEF T
<1>3. /\ Push(it, s) \in Seq(T) /\ Len(Push(it, s)) = 1 + Len(s)
      /\ \A i \in 1..(1 + Len(s)) :
           Push(it, s)[i] = IF i <= 1 THEN <<it>>[i] ELSE s[i - 1]
  BY <1>2, ConcatProperties DEF Push
<1>4. Len(s) \in Nat
  BY <1>2
<1> QED BY <1>2, <1>3, <1>4 DEF IsSeq

(* The call stack once its top call returns. *)
LEMMA PopIs ==
    ASSUME NEW s, IsSeq(s), s # <<>>
    PROVE  /\ IsSeq(Tail(s)) /\ Len(s) \in Nat \ {0} /\ Len(Tail(s)) = Len(s) - 1
           /\ Head(s) = s[1] /\ \A i \in 1..(Len(s) - 1) : Tail(s)[i] = s[i + 1]
<1>1. PICK S : s \in Seq(S)
  BY DEF IsSeq
<1>2. Len(s) \in Nat \ {0} /\ Tail(s) \in Seq(S)
  BY <1>1, EmptySeq
<1> QED BY <1>1, <1>2 DEF IsSeq

(* Two calls at once are one and then the other. *)
LEMMA TwoPushed ==
    ASSUME NEW s, IsSeq(s), NEW a, NEW b
    PROVE  <<a, b>> \o s = Push(a, Push(b, s)) /\ <<a, b>> = Push(a, Push(b, <<>>))
<1>1. PICK S : s \in Seq(S)
  BY DEF IsSeq
<1> DEFINE T == S \cup {a, b}
<1>2. s \in Seq(T) /\ <<a>> \in Seq(T) /\ <<b>> \in Seq(T) /\ <<>> \in Seq(T)
  BY <1>1
<1>3. <<a, b>> = <<a>> \o <<b>> /\ <<b>> = <<b>> \o <<>>
  <2>1. <<b>> = <<b>> \o <<>>
    BY <1>2, ConcatEmptySeq
  <2>2. <<a, b>> = <<a>> \o <<b>>
    <3>1. <<a, b>> \in Seq(T) /\ Len(<<a, b>>) = 2 /\ <<a, b>>[1] = a /\ <<a, b>>[2] = b
      OBVIOUS
    <3>2. /\ <<a>> \o <<b>> \in Seq(T) /\ Len(<<a>> \o <<b>>) = 2
          /\ (<<a>> \o <<b>>)[1] = a /\ (<<a>> \o <<b>>)[2] = b
      BY <1>2
    <3>3. \A i \in 1..Len(<<a, b>>) : <<a, b>>[i] = (<<a>> \o <<b>>)[i]
      <4>1. \A i \in 1..2 : i = 1 \/ i = 2
        OBVIOUS
      <4> QED BY <3>1, <3>2, <4>1
    <3> HIDE DEF T
    <3> QED BY <3>1, <3>2, <3>3, SeqEqual
  <2> QED BY <2>1, <2>2
<1>4. (<<a>> \o <<b>>) \o s = <<a>> \o (<<b>> \o s)
  <2> HIDE DEF T
  <2> QED BY <1>2, ConcatAssociative
<1> QED BY <1>3, <1>4 DEF Push

(* A good stack with a good call on it is one. *)
LEMMA CallsPushed ==
    ASSUME NEW s, Calls(s), NEW it, Kept(it)
    PROVE  Calls(Push(it, s))
BY PushIs DEF Calls

(* What is left of a good stack is one. *)
LEMMA CallsPopped ==
    ASSUME NEW s, Calls(s), s # <<>>
    PROVE  Calls(Tail(s)) /\ Kept(Head(s))
<1>1. /\ IsSeq(Tail(s)) /\ Len(s) \in Nat \ {0} /\ Len(Tail(s)) = Len(s) - 1
      /\ Head(s) = s[1] /\ \A i \in 1..(Len(s) - 1) : Tail(s)[i] = s[i + 1]
  BY PopIs DEF Calls
<1> QED BY <1>1 DEF Calls

(* A call that borrowed nothing returns, or another takes its place. *)
LEMMA BackPopped ==
    ASSUME NEW s, IsSeq(s), s # <<>>, ~Borrows(Head(s)), NEW c, NEW h, ComesBack(s, c, h)
    PROVE  ComesBack(Tail(s), c, h)
<1> DEFINE r == Tail(s)
<1>1. /\ Len(s) \in Nat \ {0} /\ Len(r) = Len(s) - 1
      /\ Head(s) = s[1] /\ \A i \in 1..(Len(s) - 1) : r[i] = s[i + 1]
  BY PopIs
<1> HIDE DEF r
<1>2. (\A i \in 1..Len(r) : ~Borrows(r[i])) => \A i \in 1..Len(s) : ~Borrows(s[i])
  <2> SUFFICES ASSUME \A i \in 1..Len(r) : ~Borrows(r[i]), NEW i \in 1..Len(s)
               PROVE  ~Borrows(s[i])
    OBVIOUS
  <2>1. i = 1 \/ (i - 1 \in 1..Len(r) /\ r[i - 1] = s[i])
    BY <1>1
  <2> QED BY <1>1, <2>1
<1>3. ASSUME NEW i \in 1..Len(r), Borrows(r[i]), \A j \in 1..Len(r) : j > i => ~Borrows(r[j])
      PROVE  r[i].saved = h
  <2>1. i + 1 \in 1..Len(s) /\ s[i + 1] = r[i]
    BY <1>1
  <2>2. ASSUME NEW j \in 1..Len(s), j > i + 1
        PROVE  ~Borrows(s[j])
    <3>1. j - 1 \in 1..Len(r) /\ j - 1 > i /\ r[j - 1] = s[j]
      BY <1>1, <2>2
    <3> QED BY <1>3, <3>1
  <2> QED BY <1>3, <2>1, <2>2 DEF ComesBack
<1> QED BY <1>2, <1>3 DEF ComesBack, r

(* A call that does not borrow the cursor leaves where it comes back to. *)
LEMMA BackPushed ==
    ASSUME NEW s, IsSeq(s), NEW it, ~Borrows(it), NEW c, NEW h, ComesBack(s, c, h)
    PROVE  ComesBack(Push(it, s), c, h)
<1> DEFINE r == Push(it, s)
<1>1. /\ Len(s) \in Nat /\ Len(r) = Len(s) + 1 /\ r[1] = it
      /\ \A i \in 1..Len(s) : r[i + 1] = s[i]
      /\ \A i \in 1..(Len(s) + 1) : i = 1 \/ (i - 1 \in 1..Len(s) /\ r[i] = s[i - 1])
  BY PushIs
<1> HIDE DEF r
<1>2. (\A i \in 1..Len(r) : ~Borrows(r[i])) => \A i \in 1..Len(s) : ~Borrows(s[i])
  BY <1>1
<1>3. ASSUME NEW i \in 1..Len(r), Borrows(r[i]), \A j \in 1..Len(r) : j > i => ~Borrows(r[j])
      PROVE  r[i].saved = h
  <2>1. i - 1 \in 1..Len(s) /\ r[i] = s[i - 1]
    BY <1>1, <1>3
  <2>2. \A j \in 1..Len(s) : j > i - 1 => ~Borrows(s[j])
    BY <1>1, <1>3
  <2> QED BY <1>3, <2>1, <2>2 DEF ComesBack
<1> QED BY <1>2, <1>3 DEF ComesBack, r

(* A scope or a loop borrows the cursor, wherever it then moves it. *)
LEMMA BackBorrowed ==
    ASSUME NEW s, IsSeq(s), NEW it, Borrows(it), NEW h, ComesBack(s, it.saved, h), NEW d
    PROVE  ComesBack(Push(it, s), d, h)
<1> DEFINE r == Push(it, s)
<1>1. /\ Len(s) \in Nat /\ Len(r) = Len(s) + 1 /\ r[1] = it
      /\ \A i \in 1..Len(s) : r[i + 1] = s[i]
      /\ \A i \in 1..(Len(s) + 1) : i = 1 \/ (i - 1 \in 1..Len(s) /\ r[i] = s[i - 1])
  BY PushIs
<1> HIDE DEF r
<1>2. \E i \in 1..Len(r) : Borrows(r[i])
  <2>1. 1 \in 1..Len(r)
    BY <1>1
  <2> QED BY <1>1, <2>1
<1>3. ASSUME NEW i \in 1..Len(r), Borrows(r[i]), \A j \in 1..Len(r) : j > i => ~Borrows(r[j])
      PROVE  r[i].saved = h
  <2>1. \A j \in 1..Len(s) : j > i - 1 => ~Borrows(s[j])
    BY <1>1, <1>3
  <2>2. CASE i = 1
    <3>1. \A j \in 1..Len(s) : ~Borrows(s[j])
      BY <2>1, <2>2
    <3> QED BY <1>1, <2>2, <3>1 DEF ComesBack
  <2>3. CASE i # 1
    <3>1. i - 1 \in 1..Len(s) /\ r[i] = s[i - 1]
      BY <1>1, <2>3
    <3> QED BY <1>3, <2>1, <3>1 DEF ComesBack
  <2> QED BY <2>2, <2>3
<1> QED BY <1>2, <1>3 DEF ComesBack, r

(* A scope or a loop puts back what it borrowed. *)
LEMMA BackReturned ==
    ASSUME NEW s, IsSeq(s), s # <<>>, Borrows(Head(s)), NEW c, NEW h, ComesBack(s, c, h)
    PROVE  ComesBack(Tail(s), Head(s).saved, h)
<1> DEFINE r == Tail(s)
<1>1. /\ Len(s) \in Nat \ {0} /\ Len(r) = Len(s) - 1
      /\ Head(s) = s[1] /\ \A i \in 1..(Len(s) - 1) : r[i] = s[i + 1]
  BY PopIs
<1> HIDE DEF r
<1>2. ASSUME \A i \in 1..Len(r) : ~Borrows(r[i])
      PROVE  s[1].saved = h
  <2>1. ASSUME NEW j \in 1..Len(s), j > 1
        PROVE  ~Borrows(s[j])
    <3>1. j - 1 \in 1..Len(r) /\ r[j - 1] = s[j]
      BY <1>1, <2>1
    <3> QED BY <1>2, <3>1
  <2>2. 1 \in 1..Len(s) /\ Borrows(s[1])
    BY <1>1
  <2> QED BY <2>1, <2>2 DEF ComesBack
<1>3. ASSUME NEW i \in 1..Len(r), Borrows(r[i]), \A j \in 1..Len(r) : j > i => ~Borrows(r[j])
      PROVE  r[i].saved = h
  <2>1. i + 1 \in 1..Len(s) /\ s[i + 1] = r[i]
    BY <1>1
  <2>2. ASSUME NEW j \in 1..Len(s), j > i + 1
        PROVE  ~Borrows(s[j])
    <3>1. j - 1 \in 1..Len(r) /\ j - 1 > i /\ r[j - 1] = s[j]
      BY <1>1, <2>2
    <3> QED BY <1>3, <3>1
  <2> QED BY <1>3, <2>1, <2>2 DEF ComesBack
<1> QED BY <1>1, <1>2, <1>3 DEF ComesBack, r

(* A command moves the cursor: for good, if nothing borrowed it. *)
LEMMA BackMoved ==
    ASSUME IsSeq(stack), stack # <<>>, ~Borrows(Top), ComesBack(stack, cursor, home),
           NEW d, Moved(d)
    PROVE  ComesBack(Below, d, home')
<1>1. ComesBack(Below, cursor, home) /\ IsSeq(Below)
  BY BackPopped, PopIs DEF Top, Below
<1>2. DOMAIN Below = 1..Len(Below)
  BY <1>1 DEF IsSeq
<1>3. Outside <=> \A i \in 1..Len(Below) : ~Borrows(Below[i])
  BY <1>2 DEF Outside, Borrows
<1>4. home' = IF Outside THEN d ELSE home
  BY DEF Moved
<1> QED BY <1>1, <1>3, <1>4 DEF ComesBack

----------------------------------------------------------------------------
(* Every step keeps the invariant. *)

(* The calls a command makes are good ones, and only a restore gives a     *)
(* cursor back.                                                            *)
LEMMA ItemsKept ==
    /\ Kept(Answer) /\ ~Borrows(Answer)
    /\ \A cmd : /\ Kept(Words(cmd)) /\ ~Borrows(Words(cmd))
                /\ Kept(Parsed(cmd)) /\ ~Borrows(Parsed(cmd))
    /\ \A c : /\ Borrows(Restore(c)) /\ Restore(c).saved = c
              /\ Good(c) => Kept(Restore(c))
BY DEF Kept, Borrows, Answer, Words, Parsed, Restore, Item

(* What the call on top says, taken off. *)
LEMMA TopIs ==
    ASSUME CursorInv, NEW kind, At(kind)
    PROVE  /\ stack # <<>> /\ phase = "line" /\ Top.kind = kind /\ Kept(Top)
           /\ IsSeq(stack) /\ IsSeq(Below) /\ Calls(Below)
           /\ (output = "open" /\ ~Borrows(Top)) => ComesBack(Below, cursor, home)
           /\ (output = "open" /\ Borrows(Top)) => ComesBack(Below, Top.saved, home)
<1>1. stack # <<>> /\ phase = "line" /\ Top.kind = kind
  BY DEF At
<1>2. Calls(stack) /\ IsSeq(stack) /\ (output = "open" => ComesBack(stack, cursor, home))
  BY DEF CursorInv, Calls, CameBack
<1> QED BY <1>1, <1>2, CallsPopped, BackPopped, BackReturned, PopIs DEF Top, Below, Calls

(* The invariant of the next state from its parts. *)
LEMMA StateHolds ==
    ASSUME rest' \in Seq(Commands), Calls(stack'), Good(cursor'),
           output' = "open" => ComesBack(stack', cursor', home'),
           phase' \in {"line", "panicked"} \/ stack' = <<>>
    PROVE  CursorInv'
BY DEF CursorInv, CameBack, AtRest, Calls, IsSeq, ComesBack, Good, OnFrame, Pinned, Nested, Rooted

(* A call that borrowed nothing returns. *)
LEMMA ReturnKeeps ==
    ASSUME CursorInv, NEW kind, At(kind), kind \notin {"restore", "loop"},
           stack' = Below, UNCHANGED <<cursor, rest, home, output, phase>>
    PROVE  CursorInv'
<1>1. /\ phase = "line" /\ Calls(Below) /\ ~Borrows(Top)
      /\ output = "open" => ComesBack(Below, cursor, home)
  BY TopIs DEF Borrows
<1> QED BY <1>1, StateHolds DEF CursorInv

(* The start of a command keeps the invariant. *)
LEMMA StartCommandKeeps ==
    ASSUME SessionAssumption, CursorInv, StartCommand
    PROVE  CursorInv'
<1> DEFINE cmd == Head(rest)
<1>1. /\ phase' = "line" /\ home' = home /\ output' = output /\ rest' = Tail(rest)
      /\ stack = <<>> /\ rest # <<>>
  BY DEF StartCommand, history
<1>2. rest' \in Seq(Commands) /\ cmd \in Commands
  BY <1>1 DEF CursorInv
<1>3. /\ Calls(<<>>) /\ IsSeq(<<>>) /\ Good(cursor)
      /\ output = "open" => ComesBack(<<>>, cursor, home)
  BY <1>1 DEF CursorInv, Calls, CameBack
<1>4. CASE stack' = <<Words(cmd)>> /\ cursor' = cursor
  <2>1. stack' = Push(Words(cmd), <<>>)
    <3>1. <<Words(cmd)>> \in Seq({Words(cmd)})
      OBVIOUS
    <3> QED BY <1>4, <3>1, ConcatEmptySeq DEF Push
  <2>2. Calls(stack')
    BY <1>3, <2>1, CallsPushed, ItemsKept
  <2>3. output = "open" => ComesBack(stack', cursor, home)
    BY <1>3, <2>1, BackPushed, ItemsKept
  <2> QED BY <1>1, <1>2, <1>3, <1>4, <2>2, <2>3, StateHolds
<1>5. CASE /\ cmd.op = "scoped" /\ cursor' \in Select(cmd.by, cmd.arg)
           /\ stack' = <<Words(cmd.then), Restore(cursor)>>
  <2>1. Good(cursor')
    BY <1>2, <1>5, SelectGood DEF SessionAssumption
  <2>2. stack' = Push(Words(cmd.then), Push(Restore(cursor), <<>>))
    BY <1>3, <1>5, TwoPushed
  <2>3. Calls(Push(Restore(cursor), <<>>))
    BY <1>3, CallsPushed, ItemsKept
  <2>4. Calls(stack')
    BY <2>2, <2>3, CallsPushed, ItemsKept
  <2>5. output = "open" => ComesBack(Push(Restore(cursor), <<>>), cursor', home)
    BY <1>3, BackBorrowed, ItemsKept
  <2>6. output = "open" => ComesBack(stack', cursor', home)
    BY <2>2, <2>3, <2>5, BackPushed, ItemsKept DEF Calls
  <2> QED BY <1>1, <1>2, <2>1, <2>4, <2>6, StateHolds
<1>6. CASE cursor' = cursor /\ stack' = stack
  BY <1>1, <1>2, <1>3, <1>6, StateHolds
<1> QED BY <1>4, <1>5, <1>6 DEF StartCommand

(* So does the answer to its words. *)
LEMMA AnswerWordsKeeps ==
    ASSUME CursorInv, AnswerWords
    PROVE  CursorInv'
<1>1. /\ At("words") /\ UNCHANGED <<cursor, rest, home, output, phase>>
      /\ \/ stack' = Below
         \/ stack' = <<Parsed(Substituted(Top.cmd, cursor)), Answer>> \o Below
  BY DEF AnswerWords, Running, Return, history
<1>2. CASE stack' = Below
  BY <1>1, <1>2, ReturnKeeps
<1>3. CASE stack' = <<Parsed(Substituted(Top.cmd, cursor)), Answer>> \o Below
  <2>1. /\ phase = "line" /\ Calls(Below) /\ IsSeq(Below)
        /\ output = "open" => ComesBack(Below, cursor, home)
    BY <1>1, TopIs DEF Borrows
  <2>2. stack' = Push(Parsed(Substituted(Top.cmd, cursor)), Push(Answer, Below))
    BY <1>3, <2>1, TwoPushed
  <2>3. Calls(Push(Answer, Below)) /\ Calls(stack')
    BY <2>1, <2>2, CallsPushed, ItemsKept
  <2>4. output = "open" => ComesBack(Push(Answer, Below), cursor, home)
    BY <2>1, BackPushed, ItemsKept
  <2>5. output = "open" => ComesBack(stack', cursor, home)
    BY <2>2, <2>3, <2>4, BackPushed, ItemsKept DEF Calls
  <2> QED BY <1>1, <2>1, <2>3, <2>5, StateHolds DEF CursorInv
<1> QED BY <1>1, <1>2, <1>3

(* A selector, or a move whose command may follow it. *)
LEMMA MovedKeeps ==
    ASSUME CursorInv, At("dispatch"), NEW c, Good(c), Moved(c), NEW cmd,
           stack' = Below \/ stack' = <<Parsed(cmd)>> \o Below,
           UNCHANGED <<rest, output, phase>>
    PROVE  CursorInv'
<1>1. /\ phase = "line" /\ Calls(Below) /\ IsSeq(Below) /\ ~Borrows(Top)
      /\ stack # <<>> /\ IsSeq(stack) /\ (output = "open" => ComesBack(stack, cursor, home))
  BY TopIs DEF Borrows, CursorInv, CameBack
<1>2. output = "open" => ComesBack(Below, c, home')
  BY <1>1, BackMoved
<1>3. cursor' = c
  BY DEF Moved
<1>4. CASE stack' = Below
  BY <1>1, <1>2, <1>3, <1>4, StateHolds DEF CursorInv
<1>5. CASE stack' = Push(Parsed(cmd), Below)
  <2>1. Calls(stack')
    BY <1>1, <1>5, CallsPushed, ItemsKept
  <2>2. output = "open" => ComesBack(stack', c, home')
    BY <1>1, <1>2, <1>5, BackPushed, ItemsKept
  <2> QED BY <1>1, <1>3, <2>1, <2>2, StateHolds DEF CursorInv
<1> QED BY <1>4, <1>5 DEF Push

(* A selector. *)
LEMMA DispatchSelectorKeeps ==
    ASSUME SessionAssumption, CursorInv, DispatchSelector
    PROVE  CursorInv'
<1>1. /\ At("dispatch") /\ Top.cmd.op \in Selectors /\ stack' = Below
      /\ UNCHANGED <<rest, output, phase>>
  BY DEF DispatchSelector, Dispatching, Running, Return
<1>2. CASE UNCHANGED <<cursor, home>>
  BY <1>1, <1>2, ReturnKeeps
<1>3. CASE \E c \in Select(Top.cmd.op, Top.cmd.arg) : Moved(c)
  BY <1>1, <1>3, SelectGood, MovedKeeps
<1> QED BY <1>2, <1>3 DEF DispatchSelector

(* A move. *)
LEMMA DispatchMoveKeeps ==
    ASSUME SessionAssumption, CursorInv, DispatchMove
    PROVE  CursorInv'
<1>1. At("dispatch") /\ Top.cmd.op \in Moves /\ UNCHANGED <<rest, output, phase>>
  BY DEF DispatchMove, Dispatching, Running
<1>2. CASE stack' = Below /\ UNCHANGED <<cursor, home>>
  BY <1>1, <1>2, ReturnKeeps
<1>3. ASSUME NEW c \in Move(Top.cmd.op, Top.cmd.arg, cursor), NEW w \in Writes, Moved(c),
             IF w = "ok" THEN AfterMove(Top.cmd.then, c) ELSE Return(w)
      PROVE  CursorInv'
  <2>1. Good(c)
    BY <1>1, MoveGood DEF CursorInv
  <2>2. \/ stack' = Below
        \/ stack' = <<Parsed(Substituted(Top.cmd.then, c))>> \o Below
    BY <1>3 DEF AfterMove, Return
  <2> QED BY <1>1, <1>3, <2>1, <2>2, MovedKeeps
<1> QED BY <1>2, <1>3 DEF DispatchMove, Return

(* The calls that only answer return. *)
LEMMA AnsweredKeeps ==
    ASSUME CursorInv, FlushAnswer \/ DispatchQuestion \/ DispatchQuit
    PROVE  CursorInv'
<1>1. CASE FlushAnswer
  <2>1. At("answer") /\ stack' = Below /\ UNCHANGED <<cursor, rest, home, output, phase>>
    BY <1>1 DEF FlushAnswer, Return, history
  <2> QED BY <2>1, ReturnKeeps
<1>2. CASE DispatchQuestion
  <2>1. At("dispatch") /\ stack' = Below /\ UNCHANGED <<cursor, rest, home, output, phase>>
    BY <1>2 DEF DispatchQuestion, Dispatching, Running, Asked, Return
  <2> QED BY <2>1, ReturnKeeps
<1>3. CASE DispatchQuit
  <2>1. At("dispatch") /\ stack' = Below /\ UNCHANGED <<cursor, rest, home, output, phase>>
    BY <1>3 DEF DispatchQuit, Dispatching, Running, Return, history
  <2> QED BY <2>1, ReturnKeeps
<1> QED BY <1>1, <1>2, <1>3

(* The start of a loop over rows. *)
LEMMA StartLoopKeeps ==
    ASSUME SessionAssumption, CursorInv, StartLoop
    PROVE  CursorInv'
<1> DEFINE it == Item("loop", Top.cmd, Rows(Top.cmd.op), cursor, 0)
<1>1. /\ At("dispatch") /\ Top.cmd.op \in Loops /\ stack' = <<it>> \o Below
      /\ UNCHANGED <<cursor, rest, home, output, phase>>
  BY DEF StartLoop, Dispatching, Running, history
<1>2. /\ phase = "line" /\ Calls(Below) /\ IsSeq(Below) /\ Good(cursor)
      /\ output = "open" => ComesBack(Below, cursor, home)
  <2>1. Good(cursor)
    BY DEF CursorInv
  <2>2. At("dispatch")
    BY <1>1
  <2>3. Top.kind = "dispatch" /\ ~Borrows(Top)
    BY <2>2, TopIs DEF Borrows
  <2> QED BY <2>1, <2>2, <2>3, TopIs
<1>3. Borrows(it) /\ it.saved = cursor /\ Kept(it)
  BY <1>1, <1>2, RowsAre DEF Borrows, Kept, Item
<1>4. stack' = Push(it, Below)
  BY <1>1 DEF Push
<1> HIDE DEF it
<1>5. Calls(stack')
  BY <1>2, <1>3, <1>4, CallsPushed
<1>6. output = "open" => ComesBack(stack', cursor, home)
  BY <1>2, <1>3, <1>4, BackBorrowed
<1> QED BY <1>1, <1>2, <1>5, <1>6, StateHolds DEF CursorInv

(* A loop goes on with what it saved; one that ends without putting it     *)
(* back does so because nobody reads its answer.                           *)
LEMMA LoopGoesOn ==
    ASSUME CursorInv, At("loop"), NEW it, it.kind = "loop", it.saved = Top.saved, Kept(it),
           NEW d
    PROVE  /\ Calls(Push(it, Below)) /\ IsSeq(Push(it, Below))
           /\ output = "open" => ComesBack(Push(it, Below), d, home)
<1>1. /\ Borrows(Top) /\ Calls(Below) /\ IsSeq(Below)
      /\ output = "open" => ComesBack(Below, Top.saved, home)
  BY TopIs DEF Borrows
<1>2. Borrows(it)
  BY DEF Borrows
<1>3. Calls(Push(it, Below)) /\ IsSeq(Push(it, Below))
  BY <1>1, CallsPushed DEF Calls
<1> QED BY <1>1, <1>2, <1>3, BackBorrowed

(* A loop that stops because its output is closed. *)
LEMMA LoopGivesUp ==
    ASSUME CursorInv, At("loop"), output # "open", stack' = Below,
           UNCHANGED <<cursor, rest, output, phase>>
    PROVE  CursorInv'
<1>1. phase = "line" /\ Calls(Below)
  BY TopIs
<1> QED BY <1>1, StateHolds DEF CursorInv

(* A loop with other rows left differs in them alone. *)
LEMMA RowsSet ==
    ASSUME NEW it, NEW kind, NEW cmd, NEW rows, NEW saved, NEW failed, NEW r,
           it = Item(kind, cmd, rows, saved, failed)
    PROVE  [it EXCEPT !.rows = r] = Item(kind, cmd, r, saved, failed)
BY DEF Item

(* A row of a loop. *)
LEMMA LoopRowKeeps ==
    ASSUME SessionAssumption, CursorInv, LoopRow
    PROVE  CursorInv'
<1> DEFINE c == ScopeTo(Top.cmd.op, Head(Top.rows))
           it == [Top EXCEPT !.rows = Tail(@)]
<1>1. At("loop") /\ Top.rows # <<>> /\ UNCHANGED <<rest, home, output, phase>>
  BY DEF LoopRow, history
<1>2. CASE output # "open" /\ stack' = Below /\ cursor' = cursor
  BY <1>1, <1>2, LoopGivesUp
<1>3. CASE cursor' = c /\ stack' = <<Parsed(Substituted(Top.cmd.then, c)), it>> \o Below
  <2>1. /\ Top.kind = "loop" /\ Kept(Top) /\ phase = "line" /\ IsSeq(Below)
    BY <1>1, TopIs
  <2>2. Top.cmd.op \in Loops /\ Top.rows \in Seq(RowsOf(Top.cmd.op)) /\ Good(Top.saved)
    BY <2>1 DEF Kept, Borrows
  <2>3. Head(Top.rows) \in RowsOf(Top.cmd.op) /\ Tail(Top.rows) \in Seq(RowsOf(Top.cmd.op))
    BY <1>1, <2>2, HeadTailProperties
  <2>4. Good(c)
    BY <2>2, <2>3, ScopeToGood
  <2>5. it = Item("loop", Top.cmd, Tail(Top.rows), Top.saved, Top.failed)
    <3>1. PICK r : r = Tail(Top.rows)
      OBVIOUS
    <3>2. Top = Item("loop", Top.cmd, Top.rows, Top.saved, Top.failed)
      BY <2>1 DEF Kept
    <3>3. PICK top : top = Top
      OBVIOUS
    <3>4. top = Item("loop", top.cmd, top.rows, top.saved, top.failed)
      BY <3>2, <3>3
    <3>5. [top EXCEPT !.rows = r] = Item("loop", top.cmd, r, top.saved, top.failed)
      BY ONLY <3>4, RowsSet
    <3> QED BY <3>1, <3>3, <3>5
  <2>6. it.kind = "loop" /\ it.saved = Top.saved /\ Kept(it)
    BY <2>2, <2>3, <2>5, ZenonT(30) DEF Kept, Item, Borrows
  <2> HIDE DEF it, c
  <2>7. stack' = Push(Parsed(Substituted(Top.cmd.then, c)), Push(it, Below))
    BY <1>3, <2>1, TwoPushed
  <2>8. /\ Calls(Push(it, Below)) /\ IsSeq(Push(it, Below))
        /\ output = "open" => ComesBack(Push(it, Below), c, home)
    BY <1>1, <2>6, LoopGoesOn
  <2>9. Calls(stack') /\ (output = "open" => ComesBack(stack', c, home))
    BY <2>7, <2>8, CallsPushed, BackPushed, ItemsKept
  <2> QED BY <1>1, <1>3, <2>1, <2>4, <2>9, StateHolds DEF CursorInv
<1> QED BY <1>2, <1>3 DEF LoopRow, Writes, Return

(* The end of a loop that failed. *)
LEMMA LoopFailureKeeps ==
    ASSUME CursorInv, LoopFailure
    PROVE  CursorInv'
<1> DEFINE it == [Top EXCEPT !.failed = @ + 1]
<1>1. At("loop") /\ UNCHANGED <<cursor, rest, home, output, phase>>
  BY DEF LoopFailure, history
<1>2. CASE output # "open" /\ stack' = Below
  BY <1>1, <1>2, LoopGivesUp
<1>3. CASE stack' = <<it>> \o Below
  <2>1. Top.kind = "loop" /\ Kept(Top) /\ phase = "line"
    BY <1>1, TopIs
  <2>2. it = Item("loop", Top.cmd, Top.rows, Top.saved, Top.failed + 1)
    BY <2>1 DEF Kept, Item
  <2>3. it.kind = "loop" /\ it.saved = Top.saved /\ Kept(it)
    BY <2>1, <2>2 DEF Kept, Item, Borrows
  <2>4. stack' = Push(it, Below)
    BY <1>3 DEF Push
  <2> HIDE DEF it
  <2>5. Calls(stack') /\ (output = "open" => ComesBack(stack', cursor, home))
    BY <1>1, <2>3, <2>4, LoopGoesOn
  <2> QED BY <1>1, <2>1, <2>5, StateHolds DEF CursorInv
<1> QED BY <1>2, <1>3 DEF LoopFailure, Writes, Return

(* A loop that ran all its rows, and a scope, put the cursor back. *)
LEMMA BroughtBackKeeps ==
    ASSUME CursorInv, LoopEnd \/ EndScope
    PROVE  CursorInv'
<1>1. /\ At("loop") \/ At("restore")
      /\ cursor' = Top.saved /\ stack' = Below /\ UNCHANGED <<rest, home, output, phase>>
  BY DEF LoopEnd, EndScope, Return, history
<1>2. /\ phase = "line" /\ Kept(Top) /\ Calls(Below) /\ Borrows(Top)
      /\ output = "open" => ComesBack(Below, Top.saved, home)
  BY <1>1, TopIs DEF Borrows
<1>3. Good(Top.saved)
  BY <1>2 DEF Kept
<1> QED BY <1>1, <1>2, <1>3, StateHolds DEF CursorInv

(* The steps that move no call. *)
LEMMA StillKeeps ==
    ASSUME SessionAssumption, CursorInv,
           \/ DispatchHistory \/ EndLine \/ ReaderLeaves \/ UNCHANGED vars
           \/ \E l \in Lines : ReadLine(l)
    PROVE  CursorInv'
<1>0. <<>> \in Seq(Commands)
  OBVIOUS
<1>1. /\ cursor' = cursor /\ stack' = stack /\ home' = home /\ rest' \in Seq(Commands)
      /\ output' = "open" => output = "open"
  BY <1>0, ZenonT(30) DEF DispatchHistory, EndLine, ReaderLeaves, ReadLine, vars, history, CursorInv,
              SessionAssumption
<1>2. phase' \in {"line", "panicked"} \/ phase' = phase \/ stack = <<>>
  BY DEF DispatchHistory, EndLine, ReaderLeaves, ReadLine, vars
<1> QED BY <1>1, <1>2 DEF CursorInv, CameBack, AtRest, Calls, IsSeq

(* The inductive invariant of the cursor and of the calls under way. *)
THEOREM CursorIsKept == Spec => []CursorInv
<1>1. Init => CursorInv
  <2> SUFFICES ASSUME Init PROVE CursorInv
    OBVIOUS
  <2>1. Good(cursor)
    BY SessionAssumption, NoCursorGood DEF Init
  <2>2. /\ Calls(stack) /\ rest \in Seq(Commands) /\ AtRest
        /\ ComesBack(stack, cursor, home)
    BY DEF Init, Calls, IsSeq, AtRest, ComesBack
  <2> QED BY <2>1, <2>2 DEF CursorInv, CameBack
<1>2. CursorInv /\ [Next]_vars => CursorInv'
  <2> SUFFICES ASSUME CursorInv, [Next]_vars PROVE CursorInv'
    OBVIOUS
  <2>1. CASE StartCommand
    BY <2>1, SessionAssumption, StartCommandKeeps
  <2>2. CASE AnswerWords
    BY <2>2, AnswerWordsKeeps
  <2>3. CASE FlushAnswer \/ DispatchQuestion \/ DispatchQuit
    BY <2>3, AnsweredKeeps
  <2>4. CASE DispatchSelector
    BY <2>4, SessionAssumption, DispatchSelectorKeeps
  <2>5. CASE DispatchMove
    BY <2>5, SessionAssumption, DispatchMoveKeeps
  <2>6. CASE StartLoop
    BY <2>6, SessionAssumption, StartLoopKeeps
  <2>7. CASE LoopRow
    BY <2>7, SessionAssumption, LoopRowKeeps
  <2>8. CASE LoopFailure
    BY <2>8, LoopFailureKeeps
  <2>9. CASE LoopEnd \/ EndScope
    BY <2>9, BroughtBackKeeps
  <2>10. CASE \/ DispatchHistory \/ EndLine \/ ReaderLeaves \/ UNCHANGED vars
              \/ \E l \in Lines : ReadLine(l)
    BY <2>10, SessionAssumption, StillKeeps
  <2> QED BY <2>1, <2>2, <2>3, <2>4, <2>5, <2>6, <2>7, <2>8, <2>9, <2>10 DEF Next, Execute
<1> QED BY <1>1, <1>2, PTL DEF Spec

(* Wherever selectors, frame moves, scopes and loops took it, the cursor's *)
(* coordinates agree: "$_" is the address of the frame it is on, a pinned  *)
(* future is the one its root stands for, the lwp polls its root's task    *)
(* (cursor.rs, select_task, scope_to_future, exec_frame).                  *)
THEOREM CursorAgrees == Spec => []CursorHolds
<1>1. CursorInv => CursorHolds
  BY DEF CursorInv, Good, OnFrame, Pinned, Nested, CursorHolds, LastAddrIsFrame, PinHolds,
         CoordinatesNest
<1> QED BY <1>1, CursorIsKept, PTL

(* At the prompt the cursor is where the last command outside every scope  *)
(* and loop left it, as long as the answer's reader stays (execute_one,    *)
(* exec_each_task and its like).                                           *)
THEOREM CursorIsReturned == Spec => []CursorComesBack
<1>1. CursorInv => CursorComesBack
  BY DEF CursorInv, CameBack, AtRest, ComesBack, CursorComesBack
<1> QED BY <1>1, CursorIsKept, PTL

----------------------------------------------------------------------------
(* What a question is about. *)

(* The commands of the lines and the ones they carry, none of which spells *)
(* out the address it asks "whatis" of.                                    *)
Carried(Q) ==
    /\ Commands \subseteq Q
    /\ \A cmd \in Q :
         /\ cmd = [op |-> cmd.op, by |-> cmd.by, arg |-> cmd.arg, then |-> cmd.then]
         /\ cmd.op = "whatis" => cmd.arg \in {None, Last}
         /\ cmd.op \in Moves => cmd.then \in Q \cup {None}
         /\ cmd.op \in Loops \cup {"scoped"} => cmd.then \in Q

(* A command of the lines, its "$_" read or not. *)
Spoken(Q, cmd) == \E q \in Q : \E a : cmd = [q EXCEPT !.arg = a]

(* A call that may come to the top: one whose "$_" has been read was given *)
(* the address of the frame the cursor is on.                              *)
Ready(Q, it, c) ==
    /\ it.kind = "words" => it.cmd \in Q
    /\ it.kind \in {"dispatch", "loop"} => Spoken(Q, it.cmd)
    /\ it.kind = "dispatch" /\ it.cmd.op = "whatis" => it.cmd.arg \in {None, c.last}

(* What waits below the top has no words left to read. *)
Settled(Q, s) ==
    /\ IsSeq(s)
    /\ \A i \in 1..Len(s) : /\ s[i].kind \notin {"words", "dispatch"}
                            /\ s[i].kind = "loop" => Spoken(Q, s[i].cmd)

Asks(Q, s, c) == IsSeq(s) /\ (s # <<>> => Ready(Q, Head(s), c) /\ Settled(Q, Tail(s)))

(* What carries on where a call returned asks nothing of its own. *)
LEMMA SettledAsks ==
    ASSUME NEW Q, NEW s, Settled(Q, s), NEW c
    PROVE  Asks(Q, s, c)
<1>1. IsSeq(s)
  BY DEF Settled
<1>2. ASSUME s # <<>> PROVE Ready(Q, Head(s), c) /\ Settled(Q, Tail(s))
  <2>1. /\ IsSeq(Tail(s)) /\ Len(s) \in Nat \ {0} /\ Len(Tail(s)) = Len(s) - 1
        /\ Head(s) = s[1] /\ \A i \in 1..(Len(s) - 1) : Tail(s)[i] = s[i + 1]
    BY <1>1, <1>2, PopIs
  <2>2. 1 \in 1..Len(s)
    BY <2>1
  <2>3. Ready(Q, s[1], c)
    BY <2>2 DEF Settled, Ready
  <2>4. \A i \in 1..Len(Tail(s)) : i + 1 \in 1..Len(s) /\ Tail(s)[i] = s[i + 1]
    BY <2>1
  <2>5. Settled(Q, Tail(s))
    BY <2>1, <2>4 DEF Settled
  <2> QED BY <2>1, <2>3, <2>5
<1> QED BY <1>1, <1>2 DEF Asks

(* A call goes on top of settled ones. *)
LEMMA AsksPushed ==
    ASSUME NEW Q, NEW s, Settled(Q, s), NEW it, NEW c
    PROVE  /\ Ready(Q, it, c) => Asks(Q, Push(it, s), c)
           /\ (it.kind \notin {"words", "dispatch"} /\ Ready(Q, it, c)) => Settled(Q, Push(it, s))
<1>1. /\ IsSeq(s) /\ IsSeq(Push(it, s)) /\ Len(s) \in Nat /\ Len(Push(it, s)) = Len(s) + 1
      /\ Push(it, s)[1] = it
      /\ \A i \in 1..(Len(s) + 1) :
           i = 1 \/ (i - 1 \in 1..Len(s) /\ Push(it, s)[i] = s[i - 1])
  BY PushIs DEF Settled
<1>2. Push(it, s) # <<>> /\ Head(Push(it, s)) = it /\ Tail(Push(it, s)) = s
  <2>1. PICK S : s \in Seq(S)
    BY <1>1 DEF IsSeq
  <2>2. PICK T : T = S \cup {it}
    OBVIOUS
  <2>3. s \in Seq(T) /\ it \in T
    BY <2>1, <2>2
  <2> QED BY <2>3 DEF Push
<1>3. Ready(Q, it, c) => Asks(Q, Push(it, s), c)
  BY <1>1, <1>2 DEF Asks
<1>4. (it.kind \notin {"words", "dispatch"} /\ Ready(Q, it, c)) => Settled(Q, Push(it, s))
  BY <1>1 DEF Settled, Ready
<1> QED BY <1>3, <1>4

(* A command whose "$_" was read is the same command otherwise. *)
LEMMA SpokenIs ==
    ASSUME NEW Q, Carried(Q), NEW cmd, Spoken(Q, cmd)
    PROVE  /\ cmd.op \in Moves => cmd.then \in Q \cup {None}
           /\ cmd.op \in Loops \cup {"scoped"} => cmd.then \in Q
<1>1. PICK q, a : q \in Q /\ cmd = [q EXCEPT !.arg = a]
  BY DEF Spoken
<1>2. q = [op |-> q.op, by |-> q.by, arg |-> q.arg, then |-> q.then]
  BY <1>1 DEF Carried
<1>3. cmd.op = q.op /\ cmd.then = q.then
  BY <1>1, <1>2
<1> QED BY <1>1, <1>3 DEF Carried

(* Reading "$_" gives a command ready to be dispatched. *)
LEMMA ParsedReady ==
    ASSUME NEW Q, Carried(Q), NEW cmd \in Q, NEW c
    PROVE  Ready(Q, Parsed(Substituted(cmd, c)), c)
<1>1. cmd = [op |-> cmd.op, by |-> cmd.by, arg |-> cmd.arg, then |-> cmd.then]
  BY DEF Carried
<1>2. PICK p : p = Substituted(cmd, c)
  OBVIOUS
<1>3. Spoken(Q, p)
  <2>1. cmd = [cmd EXCEPT !.arg = cmd.arg]
    BY <1>1
  <2> QED BY <1>2, <2>1 DEF Spoken, Substituted
<1>4. p.op = "whatis" => p.arg \in {None, c.last}
  <2>1. CASE cmd.arg = Last
    <3>1. p = [cmd EXCEPT !.arg = c.last]
      BY <1>2, <2>1 DEF Substituted
    <3>2. p.arg = c.last
      BY <1>1, <3>1
    <3> QED BY <3>2
  <2>2. CASE cmd.arg # Last
    <3>1. p = cmd
      BY <1>2, <2>2 DEF Substituted
    <3> QED BY <2>2, <3>1 DEF Carried
  <2> QED BY <2>1, <2>2
<1>5. Parsed(p).kind = "dispatch" /\ Parsed(p).cmd = p
  BY DEF Parsed, Item
<1> QED BY <1>2, <1>3, <1>4, <1>5 DEF Ready

(* The calls that carry no words of their own, and the words. *)
LEMMA ItemsReady ==
    ASSUME NEW Q, NEW c
    PROVE  /\ Ready(Q, Answer, c) /\ Answer.kind \notin {"words", "dispatch"}
           /\ \A d : Ready(Q, Restore(d), c) /\ Restore(d).kind \notin {"words", "dispatch"}
           /\ \A cmd \in Q : Ready(Q, Words(cmd), c)
BY DEF Ready, Answer, Restore, Words, Item

(* No call is under way: nothing is asked. *)
LEMMA NothingSettled ==
    ASSUME NEW Q, NEW c
    PROVE  Settled(Q, <<>>) /\ Asks(Q, <<>>, c) /\ IsSeq(<<>>)
<1>1. <<>> \in Seq({}) /\ Len(<<>>) = 0
  OBVIOUS
<1> QED BY <1>1 DEF Settled, Asks, IsSeq

(* Every step leaves a call on top whose questions are the cursor's. *)
LEMMA AsksStep ==
    ASSUME SessionAssumption, NEW Q, Carried(Q), CursorInv, Asks(Q, stack, cursor), [Next]_vars
    PROVE  Asks(Q, stack', cursor')
<1>1. /\ IsSeq(stack)
      /\ stack # <<>> => Ready(Q, Top, cursor) /\ Settled(Q, Below)
  BY DEF Asks, Top, Below
<1>2. CASE stack' = Below /\ stack # <<>>
  BY <1>1, <1>2, SettledAsks
<1>3. CASE stack' = stack /\ cursor' = cursor
  BY <1>3
<1>4. CASE StartCommand
  <2>1. PICK cmd : cmd = Head(rest)
    OBVIOUS
  <2>2. cmd \in Commands /\ cmd \in Q
    BY <1>4, <2>1 DEF StartCommand, CursorInv, Carried
  <2>3. CASE stack' = <<Words(cmd)>>
    <3>1. stack' = Push(Words(cmd), <<>>)
      <4>1. <<Words(cmd)>> \in Seq({Words(cmd)})
        OBVIOUS
      <4> QED BY <2>3, <4>1, ConcatEmptySeq DEF Push
    <3> QED BY <2>2, <3>1, NothingSettled, ItemsReady, AsksPushed
  <2>4. CASE cmd.op = "scoped" /\ stack' = <<Words(cmd.then), Restore(cursor)>>
    <3>1. cmd.then \in Q
      BY <2>2, <2>4 DEF Carried
    <3>2. stack' = Push(Words(cmd.then), Push(Restore(cursor), <<>>))
      BY <2>4, NothingSettled, TwoPushed
    <3>3. Settled(Q, Push(Restore(cursor), <<>>))
      BY NothingSettled, ItemsReady, AsksPushed
    <3> QED BY <3>1, <3>2, <3>3, ItemsReady, AsksPushed
  <2> QED BY <1>3, <1>4, <2>1, <2>3, <2>4 DEF StartCommand
<1>5. CASE AnswerWords
  <2>1. stack # <<>> /\ Top.kind = "words" /\ cursor' = cursor
    BY <1>5 DEF AnswerWords, Running, At
  <2>2. Top.cmd \in Q /\ Settled(Q, Below)
    BY <1>1, <2>1 DEF Ready
  <2>3. CASE stack' = <<Parsed(Substituted(Top.cmd, cursor)), Answer>> \o Below
    <3>1. stack' = Push(Parsed(Substituted(Top.cmd, cursor)), Push(Answer, Below))
      BY <2>2, <2>3, TwoPushed DEF Settled
    <3>2. Settled(Q, Push(Answer, Below))
      BY <2>2, ItemsReady, AsksPushed
    <3> QED BY <2>1, <2>2, <3>1, <3>2, ParsedReady, AsksPushed
  <2> QED BY <1>2, <1>5, <2>1, <2>3 DEF AnswerWords, Return
<1>6. CASE DispatchMove
  <2>1. stack # <<>> /\ Top.kind = "dispatch" /\ Top.cmd.op \in Moves
    BY <1>6 DEF DispatchMove, Dispatching, Running, At
  <2>2. Spoken(Q, Top.cmd) /\ Settled(Q, Below)
    BY <1>1, <2>1 DEF Ready
  <2>3. Top.cmd.then \in Q \cup {None}
    BY <2>1, <2>2, SpokenIs
  <2>4. ASSUME NEW c, Moved(c), AfterMove(Top.cmd.then, c)
        PROVE  Asks(Q, stack', cursor')
    <3>1. cursor' = c
      BY <2>4 DEF Moved
    <3>2. CASE stack' = Below
      BY <1>2, <2>1, <3>2
    <3>3. CASE Top.cmd.then # None /\ stack' = <<Parsed(Substituted(Top.cmd.then, c))>> \o Below
      <4>1. Top.cmd.then \in Q
        BY <2>3, <3>3
      <4>2. stack' = Push(Parsed(Substituted(Top.cmd.then, c)), Below)
        BY <3>3 DEF Push
      <4> QED BY <2>2, <3>1, <4>1, <4>2, ParsedReady, AsksPushed
    <3> QED BY <2>4, <3>2, <3>3 DEF AfterMove, Return
  <2> QED BY <1>2, <1>6, <2>1, <2>4 DEF DispatchMove, Return
<1>7. CASE StartLoop
  <2>1. PICK it : it = Item("loop", Top.cmd, Rows(Top.cmd.op), cursor, 0)
    OBVIOUS
  <2>2. /\ stack # <<>> /\ Top.kind = "dispatch" /\ cursor' = cursor
        /\ stack' = Push(it, Below)
    BY <1>7, <2>1 DEF StartLoop, Dispatching, Running, At, Push
  <2>3. Spoken(Q, Top.cmd) /\ Settled(Q, Below) /\ it.kind = "loop" /\ it.cmd = Top.cmd
    BY <1>1, <2>1, <2>2 DEF Ready, Item
  <2>4. Ready(Q, it, cursor)
    BY <2>3 DEF Ready
  <2> QED BY <2>2, <2>3, <2>4, AsksPushed
<1>8. CASE LoopRow
  <2>1. PICK c, it : c = ScopeTo(Top.cmd.op, Head(Top.rows)) /\ it = [Top EXCEPT !.rows = Tail(@)]
    OBVIOUS
  <2>2. stack # <<>> /\ At("loop") /\ Top.kind = "loop"
    BY <1>8 DEF LoopRow, At
  <2>3. Kept(Top)
    BY <2>2, TopIs
  <2>4. it.kind = "loop" /\ it.cmd = Top.cmd /\ Top.cmd.op \in Loops
    <3>1. Top = Item(Top.kind, Top.cmd, Top.rows, Top.saved, Top.failed) /\ Top.cmd.op \in Loops
      BY <2>2, <2>3 DEF Kept
    <3> QED BY <2>1, <2>2, <3>1 DEF Item
  <2>5. Spoken(Q, Top.cmd) /\ Settled(Q, Below)
    BY <1>1, <2>2 DEF Ready
  <2>6. Top.cmd.then \in Q
    BY <2>4, <2>5, SpokenIs
  <2>7. CASE cursor' = c /\ stack' = <<Parsed(Substituted(Top.cmd.then, c)), it>> \o Below
    <3>1. PICK p : p = Parsed(Substituted(Top.cmd.then, c))
      OBVIOUS
    <3>2. stack' = Push(p, Push(it, Below))
      BY <2>5, <2>7, <3>1, TwoPushed DEF Settled
    <3>3. Ready(Q, it, c)
      BY <2>4, <2>5 DEF Ready
    <3>4. Settled(Q, Push(it, Below))
      BY <2>4, <2>5, <3>3, AsksPushed
    <3>5. Ready(Q, p, c)
      BY <2>6, <3>1, ParsedReady
    <3>6. Asks(Q, Push(p, Push(it, Below)), c)
      BY <3>4, <3>5, AsksPushed
    <3> QED BY <2>7, <3>2, <3>6
  <2> QED BY <1>2, <1>8, <2>1, <2>2, <2>7 DEF LoopRow, Return
<1>9. CASE LoopFailure
  <2>1. PICK it : it = [Top EXCEPT !.failed = @ + 1]
    OBVIOUS
  <2>2. stack # <<>> /\ At("loop") /\ Top.kind = "loop" /\ cursor' = cursor
    BY <1>9 DEF LoopFailure, At
  <2>3. Kept(Top)
    BY <2>2, TopIs
  <2>4. it.kind = "loop" /\ it.cmd = Top.cmd
    <3>1. Top = Item(Top.kind, Top.cmd, Top.rows, Top.saved, Top.failed)
      BY <2>2, <2>3 DEF Kept
    <3> QED BY <2>1, <2>2, <3>1 DEF Item
  <2>5. Spoken(Q, Top.cmd) /\ Settled(Q, Below)
    BY <1>1, <2>2 DEF Ready
  <2>6. CASE stack' = <<it>> \o Below
    <3>1. stack' = Push(it, Below)
      BY <2>6 DEF Push
    <3>2. Ready(Q, it, cursor)
      BY <2>4, <2>5 DEF Ready
    <3> QED BY <2>2, <2>5, <3>1, <3>2, AsksPushed
  <2> QED BY <1>2, <1>9, <2>1, <2>2, <2>6 DEF LoopFailure, Return
<1>10. CASE \/ FlushAnswer \/ DispatchSelector \/ DispatchQuestion \/ DispatchQuit
            \/ LoopEnd \/ EndScope
  BY <1>2, <1>10 DEF FlushAnswer, DispatchSelector, DispatchQuestion, DispatchQuit, LoopEnd,
     EndScope, Return, Asked, At, Dispatching, Running
<1>11. CASE \/ DispatchHistory \/ EndLine \/ ReaderLeaves \/ UNCHANGED vars
            \/ \E l \in Lines : ReadLine(l)
  BY <1>3, <1>11 DEF DispatchHistory, EndLine, ReaderLeaves, ReadLine, vars
<1> QED BY <1>4, <1>5, <1>6, <1>7, <1>8, <1>9, <1>10, <1>11 DEF Next, Execute

(* What is asked of a good cursor by the call on top is about that cursor. *)
LEMMA QuestionIsTheCursors ==
    ASSUME SessionAssumption, NEW Q, CursorInv, Asks(Q, stack, cursor), [Next]_vars,
           asked' # asked
    PROVE  asked'[2] = CASE asked'[1] = "whatis" -> cursor.last
                         [] asked'[1] = "future" -> cursor.future
                         [] asked'[1] = "task"   -> CursorTask(cursor)
                         [] asked'[1] = "thread" -> cursor.lwp
<1>1. DispatchQuestion
  BY DEF Next, Execute, StartCommand, AnswerWords, FlushAnswer, DispatchSelector, DispatchMove,
     DispatchQuit, DispatchHistory, StartLoop, LoopRow, LoopFailure, LoopEnd, EndScope, EndLine,
     ReaderLeaves, ReadLine, history, vars
<1>2. PICK op, what : op = Top.cmd.op /\ what = Question(Top.cmd, cursor)
  OBVIOUS
<1>3. /\ stack # <<>> /\ Top.kind = "dispatch" /\ what # None
      /\ asked' = <<op, what>>
      /\ op = "whatis" \/ (op \in Selectors /\ Top.cmd.arg = None)
  BY <1>1, <1>2 DEF DispatchQuestion, Dispatching, Running, At, Asked
<1>4. asked'[1] = op /\ asked'[2] = what
  BY <1>3
<1>5. Good(cursor)
  BY DEF CursorInv
<1>6. CASE op = "whatis"
  <2>1. Top.cmd.arg \in {None, cursor.last}
    BY <1>2, <1>3, <1>6 DEF Asks, Ready, Top
  <2> QED BY <1>2, <1>4, <1>6, <2>1 DEF Question
<1>7. CASE op = "future"
  <2>1. what = CursorFuture(cursor)
    BY <1>2, <1>3, <1>7 DEF Question
  <2>2. cursor.future # None => CursorFuture(cursor) = cursor.future
    BY <1>5 DEF Good, Pinned
  <2>3. cursor.future = None => CursorFuture(cursor) = None
    BY <1>5 DEF Good, Rooted, CursorFuture
  <2> QED BY <1>3, <1>4, <1>7, <2>1, <2>2, <2>3
<1>8. CASE op = "task"
  BY <1>2, <1>3, <1>4, <1>8 DEF Question
<1>9. CASE op = "thread"
  BY <1>2, <1>3, <1>4, <1>9 DEF Question
<1> QED BY <1>3, <1>6, <1>7, <1>8, <1>9 DEF Selectors

(* Where no line spells out an address to "whatis", a question is about    *)
(* the frame, future, task or thread the cursor is on when it is answered, *)
(* inside any nesting of scopes, loops and moves (substitute_head,         *)
(* after_move, root_future).                                               *)
THEOREM QuestionsAreCurrent ==
    ASSUME NEW CONSTANT Q, Carried(Q)
    PROVE  Spec => QuestionsAreTheCursors
<1>1. Init => Asks(Q, stack, cursor)
  BY NothingSettled DEF Init
<1>2. CursorInv /\ Asks(Q, stack, cursor) /\ [Next]_vars => Asks(Q, stack, cursor)'
  <2> SUFFICES ASSUME CursorInv, Asks(Q, stack, cursor), [Next]_vars
               PROVE  Asks(Q, stack, cursor)'
    OBVIOUS
  <2>1. Asks(Q, stack', cursor')
    BY SessionAssumption, AsksStep
  <2> QED BY <2>1
<1>3. CursorInv /\ Asks(Q, stack, cursor) /\ [Next]_vars =>
        [asked' # asked =>
           asked'[2] = CASE asked'[1] = "whatis" -> cursor.last
                         [] asked'[1] = "future" -> cursor.future
                         [] asked'[1] = "task"   -> CursorTask(cursor)
                         [] asked'[1] = "thread" -> cursor.lwp]_vars
  BY SessionAssumption, QuestionIsTheCursors
<1> QED BY <1>1, <1>2, <1>3, CursorIsKept, PTL DEF Spec, QuestionsAreTheCursors

=============================================================================
