-------------------------- MODULE DiscoveryProofs --------------------------
(***************************************************************************)
(* What discovery keeps on every target, of any size and in any state of   *)
(* damage: its types, and what a "--runtime" selection promises.  It never *)
(* reads what an excluded runtime's own list, registries or pool hold,     *)
(* never scans the storage of a task such a runtime owns, and never learns *)
(* late that a task was one.  And what its accounts say: every piece of    *)
(* work is done once or still queued, recomputing the scope removes        *)
(* nothing, every readable task a list links to is filed, and the walks    *)
(* reported as failed are those of the damaged lists.  And, where the      *)
(* target's routes agree about each task, that an uncapped sweep finds     *)
(* exactly what can be reached, and says of it what all the evidence does. *)
(***************************************************************************)
EXTENDS Discovery, SequenceTheorems, FiniteSetTheorems, TLAPS

-----------------------------------------------------------------------------
(* Types.                                                                  *)


(* The operators of the store build records from records. *)
LEMMA ObserveType ==
    ASSUME NEW r \in Record, NEW s \in Source,
           NEW kinds \in SUBSET Kinds, NEW claims \in SUBSET Claim
    PROVE  Observe(r, s, kinds, claims) \in Record
<1>1. SourceKind(s) \in SUBSET Kinds
  BY DEF SourceKind, Kinds
<1>2. Omits(r, s) \in BOOLEAN
  BY DEF Omits, Lists
<1>3. r.omitted \in Nat /\ r.omitted + 1 \in Nat
  BY DEF Record
<1> QED
  BY <1>1, <1>2, <1>3 DEF Observe, Record

(* The kind a header shows is one of the kinds. *)
LEMMA HeaderKindType ==
    ASSUME NEW t \in Tasks
    PROVE  HeaderKind(t) \in SUBSET Kinds
  BY DEF HeaderKind, Kinds

(* A list's claim and its mismatch name the list's owner. *)
LEMMA ListClaimType ==
    ASSUME NEW o \in Owners, NEW t \in Tasks
    PROVE  ListClaim(o, t) \in SUBSET Claim /\ ListMismatch(o, t) \in SUBSET Owners
  BY DEF ListClaim, ListMismatch, Claim

(* A cell's claim, its mismatch and what it admits name owners. *)
LEMMA CellClaimType ==
    ASSUME NEW t \in Tasks
    PROVE  /\ CellClaim(t) \in SUBSET Claim
           /\ CellMismatch(t) \in SUBSET Owners
           /\ Admits(t) \in SUBSET Owners
  BY DEF CellClaim, CellMismatch, Admits, CellOwner, Claim

(* Filing a listed task gives a record. *)
LEMMA ObserveListedType ==
    ASSUME TypeOK, NEW o \in Owners, NEW t \in Tasks
    PROVE  ObserveListed(o, t) \in Record
<1> DEFINE s == [route |-> "list", at |-> o, nth |-> 0]
<1>1. s \in Source
  BY DEF Source, Routes, Nodes
<1>2. rec[t] \in Record
  BY DEF TypeOK
<1>3. Observe(rec[t], s, HeaderKind(t), ListClaim(o, t)) \in Record
  BY <1>1, <1>2, ObserveType, HeaderKindType, ListClaimType
<1> QED
  BY <1>3, ListClaimType DEF ObserveListed, Record

(* What a new observation makes scannable is a sequence of tasks. *)
LEMMA ScannableType ==
    ASSUME NEW t \in Tasks, NEW r
    PROVE  Scannable(t, r) \in Seq(Tasks)
  BY DEF Scannable

(* Handing over the newly resident records keeps a queue a queue. *)
LEMMA TakeScannableType ==
    ASSUME TypeOK, NEW q \in QueueType, NEW more \in Seq(Tasks)
    PROVE  TakeScannable(q, more) \in QueueType
<1>1. q.scans \o scannable \o more \in Seq(Tasks)
  BY DEF TypeOK, QueueType
<1> QED
  BY <1>1 DEF TakeScannable, QueueType

(* Scheduling an owner keeps a queue a queue. *)
LEMMA ScheduleType ==
    ASSUME NEW q \in QueueType, NEW o \in Owners, NEW enumerate \in BOOLEAN
    PROVE  Schedule(q, o, enumerate) \in QueueType
<1>1. CASE o \in Runtimes
  <2>1. /\ Append(q.runtimes, o) \in Seq(Runtimes)
        /\ Append(q.timers, o) \in Seq(Runtimes)
        /\ Append(q.io, o) \in Seq(Runtimes)
        /\ Append(q.queues, o) \in Seq(Runtimes)
    BY <1>1 DEF QueueType
  <2> QED
    BY <1>1, <2>1 DEF Schedule, QueueType
<1>2. CASE o \notin Runtimes
  <2>1. Append(q.sets, o) \in Seq(LocalSets)
    BY <1>2 DEF QueueType, Owners
  <2> QED
    BY <1>2, <2>1 DEF Schedule, QueueType
<1> QED
  BY <1>1, <1>2

(* Popping an item keeps the queue a queue. *)
LEMMA PoppedType ==
    ASSUME TypeOK, NEW k \in QueueKinds, queue[k] # <<>>
    PROVE  Popped(k) \in QueueType
<1>0. queue \in QueueType
  BY DEF TypeOK
<1>1. CASE k = "validations"
  <2>1. Tail(queue.validations) \in Seq(Candidate)
    BY <1>0, <1>1 DEF QueueType
  <2> QED
    BY <1>0, <1>1, <2>1 DEF Popped, QueueType
<1>2. CASE k = "runtimes"
  <2>1. Tail(queue.runtimes) \in Seq(Runtimes)
    BY <1>0, <1>2 DEF QueueType
  <2> QED
    BY <1>0, <1>2, <2>1 DEF Popped, QueueType
<1>3. CASE k = "sets"
  <2>1. Tail(queue.sets) \in Seq(LocalSets)
    BY <1>0, <1>3 DEF QueueType
  <2> QED
    BY <1>0, <1>3, <2>1 DEF Popped, QueueType
<1>4. CASE k = "scans"
  <2>1. Tail(queue.scans) \in Seq(Tasks)
    BY <1>0, <1>4 DEF QueueType
  <2> QED
    BY <1>0, <1>4, <2>1 DEF Popped, QueueType
<1>5. CASE k = "timers"
  <2>1. Tail(queue.timers) \in Seq(Runtimes)
    BY <1>0, <1>5 DEF QueueType
  <2> QED
    BY <1>0, <1>5, <2>1 DEF Popped, QueueType
<1>6. CASE k = "io"
  <2>1. Tail(queue.io) \in Seq(Runtimes)
    BY <1>0, <1>6 DEF QueueType
  <2> QED
    BY <1>0, <1>6, <2>1 DEF Popped, QueueType
<1>7. CASE k = "queues"
  <2>1. Tail(queue.queues) \in Seq(Runtimes)
    BY <1>0, <1>7 DEF QueueType
  <2> QED
    BY <1>0, <1>7, <2>1 DEF Popped, QueueType
<1> QED
  BY <1>1, <1>2, <1>3, <1>4, <1>5, <1>6, <1>7 DEF QueueKinds

(* What the loop's head does keeps its types. *)
LEMMA PopsType ==
    ASSUME TypeOK, NEW k \in QueueKinds, Pops(k)
    PROVE  processed' \in [QueueKinds -> Nat] /\ Popped(k) \in QueueType
<1>1. processed' \in [QueueKinds -> Nat]
  BY DEF Pops, TypeOK
<1> QED
  BY <1>1, PoppedType DEF Pops

(* The pointers of a storage or a registry become finds. *)
LEMMA CandidatesType ==
    ASSUME NEW found \in Seq(Tasks), NEW route, NEW from,
           \/ route = "scan" /\ from \in Tasks
           \/ route \in {"timers", "io", "queue"} /\ from \in Runtimes
    PROVE  Candidates(found, route, from) \in Seq(Candidate)
<1>1. \A i \in 1..Len(found) :
        [addr |-> found[i], route |-> route, from |-> from, nth |-> i] \in Candidate
  BY DEF Candidate
<1>2. Len(found) \in Nat
  OBVIOUS
<1> QED
  BY <1>1, <1>2, IsASeq DEF Candidates

(* A walk starts in a walk's state. *)
LEMMA StartWalkType ==
    ASSUME TypeOK, NEW o \in Owners, StartWalk(o)
    PROVE  walk' \in WalkState /\ errors' \subseteq Error
<1>1. Home(o) \in Homes
  BY ConstantsAssumption DEF Home, Homes, Owners
<1>2. world.shards[Home(o)] \in Seq(Tasks \cup {Null, Wild})
  BY <1>1 DEF TypeOK, WorldType
<1>3. walk' \in WalkState
  BY <1>2 DEF StartWalk, WalkFrom, WalkState
<1>4. errors' \subseteq Error
  BY DEF StartWalk, TypeOK, Error, Nodes
<1> QED
  BY <1>3, <1>4

(* The find a validation pops. *)
LEMMA PoppedCandidate ==
    ASSUME TypeOK, Pops("validations"),
           NEW c, c = Head(queue.validations)
    PROVE  /\ c \in Candidate
           /\ c.addr \in Tasks
           /\ SourceOf(c) \in Source
           /\ QueueClaim(c) \in SUBSET Claim
           /\ Filed(c) \subseteq Nodes \X Tasks
<1>1. queue.validations \in Seq(Candidate) /\ queue.validations # <<>>
  BY DEF TypeOK, QueueType, Pops
<1>2. c \in Candidate
  BY <1>1
<1>3. c.addr \in Tasks
  BY <1>2 DEF Candidate
<1>4. SourceOf(c) \in Source
  BY <1>2 DEF Candidate, SourceOf, Source, Routes, Nodes, Owners
<1>5. QueueClaim(c) \in SUBSET Claim
  BY <1>2 DEF Candidate, QueueClaim, Claim, Owners
<1>6. Filed(c) \subseteq Nodes \X Tasks
  BY <1>2, <1>3 DEF Filed, Candidate, Nodes, Owners, TypeOK
<1> QED
  BY <1>2, <1>3, <1>4, <1>5, <1>6

(* Every variable keeps its type: Init establishes it and each action of  *)
(* the session preserves it, on any target.                               *)
THEOREM TypeCorrect == Spec => []TypeOK
<1>1. Init => TypeOK
  <2> SUFFICES ASSUME Init PROVE TypeOK
    OBVIOUS
  <2>1. world \in WorldType
    BY ConstantsAssumption DEF Init, WorldOK
  <2>2. world.runtimes \in Seq(Owners)
    BY <2>1, SeqMonotonic DEF WorldType, Owners
  <2>3. rec \in [Tasks -> Record]
    BY DEF Init, NoRecord, Record
  <2>4. queue \in QueueType
    BY DEF Init, EmptyQueue, QueueType
  <2>5. admitted \subseteq Owners
    BY <2>2 DEF Init
  <2>6. processed \in [QueueKinds -> Nat]
    BY DEF Init
  <2>7. walk \in WalkState
    BY DEF Init, WalkState
  <2>8. /\ phase \in {"enumerate", "probe", "schedule", "sweep", "done"}
        /\ todo \in Seq(Owners)
        /\ roots \in Seq(Owners)
        /\ scannable \in Seq(Tasks)
    BY <2>2 DEF Init
  <2>9. /\ scheduled \subseteq Owners
        /\ foundFrom \subseteq Nodes \X Tasks
        /\ capped \in BOOLEAN
        /\ reached \subseteq Owners
        /\ errors \subseteq Error
    BY DEF Init
  <2> QED
    BY <2>1, <2>3, <2>4, <2>5, <2>6, <2>7, <2>8, <2>9 DEF TypeOK
<1>2. TypeOK /\ [Next]_vars => TypeOK'
  <2> SUFFICES ASSUME TypeOK, [Next]_vars PROVE TypeOK'
    OBVIOUS
  <2>0. /\ world \in WorldType
        /\ rec \in [Tasks -> Record]
        /\ queue \in QueueType
    BY DEF TypeOK
  <2>1. CASE WalkNode
    <3>0. walk \in [owner : Owners, shards : Seq(Tasks \cup {Null, Wild}),
                    at : Tasks \cup {Null, Wild}, visited : SUBSET Tasks]
      BY <2>1 DEF WalkNode, Walking, TypeOK, WalkState
    <3>1. walk.at \in Tasks /\ walk.owner \in Owners
      BY <2>1, <3>0 DEF WalkNode, NodeReads
    <3>2. rec' \in [Tasks -> Record]
      BY <2>0, <2>1, <3>1, ObserveListedType DEF WalkNode
    <3>3. scannable' \in Seq(Tasks)
      BY <2>1, <3>1, ScannableType DEF WalkNode, TypeOK
    <3>4. walk' \in WalkState
      <4>1. world.next[walk.at] \in Tasks \cup {Null, Wild}
        BY <2>0, <2>1, <3>1 DEF WalkNode, NodeReads, WorldType
      <4> QED
        BY <2>1, <3>0, <3>1, <4>1 DEF WalkNode, WalkState
    <3> QED
      BY <2>1, <3>2, <3>3, <3>4 DEF WalkNode, TypeOK, work
  <2>2. CASE WalkFails
    <3>0. walk \in [owner : Owners, shards : Seq(Tasks \cup {Null, Wild}),
                    at : Tasks \cup {Null, Wild}, visited : SUBSET Tasks]
      BY <2>2 DEF WalkFails, Walking, TypeOK, WalkState
    <3>1. walk' \in WalkState
      BY <2>2, <3>0 DEF WalkFails, WalkState
    <3>2. errors' \subseteq Error
      BY <2>2, <3>0 DEF WalkFails, TypeOK, Error, Nodes
    <3> QED
      BY <2>2, <3>1, <3>2 DEF WalkFails, TypeOK, work, store
  <2>3. CASE NextShard
    <3>0. walk \in [owner : Owners, shards : Seq(Tasks \cup {Null, Wild}),
                    at : Tasks \cup {Null, Wild}, visited : SUBSET Tasks]
      BY <2>3 DEF NextShard, Walking, TypeOK, WalkState
    <3>a. /\ Head(walk.shards) \in Tasks \cup {Null, Wild}
          /\ Tail(walk.shards) \in Seq(Tasks \cup {Null, Wild})
      BY <2>3, <3>0 DEF NextShard
    <3>1. walk' \in WalkState
      BY <2>3, <3>0, <3>a DEF NextShard, WalkState
    <3> QED
      BY <2>3, <3>1 DEF NextShard, TypeOK, work, store
  <2>4. CASE EndWalk
    <3>0. <<>> \in Seq(Tasks)
      OBVIOUS
    <3>1. queue' \in QueueType /\ scannable' \in Seq(Tasks)
      BY <2>0, <2>4, <3>0, TakeScannableType DEF EndWalk, TypeOK
    <3> QED
      BY <2>4, <3>1 DEF EndWalk, TypeOK, WalkState
  <2>5. CASE EnumerateRoot
    <3>1. Head(todo) \in Owners /\ Tail(todo) \in Seq(Owners)
      BY <2>5 DEF EnumerateRoot, TypeOK
    <3>2. walk' \in WalkState /\ errors' \subseteq Error
      BY <2>5, <3>1, StartWalkType DEF EnumerateRoot
    <3> QED
      BY <2>5, <3>1, <3>2 DEF EnumerateRoot, TypeOK, work, store
  <2>6. CASE EndEnumerate
    <3>1. world.tls \in Seq(Owners)
      BY <2>0, SeqMonotonic DEF WorldType, Owners
    <3> QED
      BY <2>6, <3>1 DEF EndEnumerate, TypeOK, work, store
  <2>7. CASE ProbeTls
    <3>1. Head(todo) \in Owners /\ Tail(todo) \in Seq(Owners)
      BY <2>7 DEF ProbeTls, TypeOK
    <3>a. Append(roots, Head(todo)) \in Seq(Owners)
      BY <3>1 DEF TypeOK
    <3>2. roots' \in Seq(Owners) /\ admitted' \subseteq Owners
      BY <2>7, <3>1, <3>a DEF ProbeTls, TypeOK
    <3>3. errors' \subseteq Error
      BY <2>7, <3>1 DEF ProbeTls, TypeOK, Error, Nodes
    <3> QED
      BY <2>7, <3>1, <3>2, <3>3 DEF ProbeTls, TypeOK, work, store
  <2>8. CASE EndProbe
    BY <2>8 DEF EndProbe, TypeOK, work, store
  <2>9. CASE ScheduleRoot
    <3>1. Head(todo) \in Owners /\ Tail(todo) \in Seq(Owners)
      BY <2>9 DEF ScheduleRoot, TypeOK
    <3>2. queue' \in QueueType /\ scheduled' \subseteq Owners
      BY <2>0, <2>9, <3>1, ScheduleType DEF ScheduleRoot, TypeOK
    <3> QED
      BY <2>9, <3>1, <3>2 DEF ScheduleRoot, TypeOK, store
  <2>10. CASE StartSweep
    <3>0. <<>> \in Seq(Tasks)
      OBVIOUS
    <3>1. queue' \in QueueType /\ scannable' \in Seq(Tasks)
      BY <2>0, <2>10, <3>0, TakeScannableType DEF StartSweep
    <3> QED
      BY <2>10, <3>1 DEF StartSweep, TypeOK
  <2>11. CASE ValidateKnown
    <3> DEFINE c == Head(queue.validations)
               r == Observe(rec[c.addr], SourceOf(c), {}, QueueClaim(c))
    <3>1. /\ c.addr \in Tasks
          /\ SourceOf(c) \in Source
          /\ QueueClaim(c) \in SUBSET Claim
          /\ Filed(c) \subseteq Nodes \X Tasks
      BY <2>11, PoppedCandidate DEF ValidateKnown
    <3>2. r \in Record
      BY <2>0, <3>1, ObserveType
    <3>3. processed' \in [QueueKinds -> Nat] /\ Popped("validations") \in QueueType
      BY <2>11, PopsType DEF ValidateKnown, QueueKinds
    <3>4. queue' \in QueueType
      BY <2>11, <3>1, <3>3, ScannableType, TakeScannableType DEF ValidateKnown
    <3>5. rec' \in [Tasks -> Record]
      BY <2>0, <2>11, <3>1, <3>2 DEF ValidateKnown
    <3>6. foundFrom' \subseteq Nodes \X Tasks
      BY <2>11, <3>1 DEF ValidateKnown
    <3>7. /\ scannable' = <<>>
          /\ UNCHANGED <<world, phase, todo, roots, walk, admitted, scheduled,
                         capped, reached, errors>>
      BY <2>11 DEF ValidateKnown
    <3> HIDE DEF c, r
    <3> QED
      BY <3>3, <3>4, <3>5, <3>6, <3>7 DEF TypeOK
  <2>12. CASE ValidateFresh
    <3> DEFINE c == Head(queue.validations)
               t == c.addr
               r == Observe(rec[t], SourceOf(c), HeaderKind(t), QueueClaim(c))
               q == TakeScannable(Popped("validations"), Scannable(t, r))
               new == {o \in Admits(t) : Schedules(o)}
    <3>1. /\ t \in Tasks
          /\ SourceOf(c) \in Source
          /\ QueueClaim(c) \in SUBSET Claim
          /\ Filed(c) \subseteq Nodes \X Tasks
      BY <2>12, PoppedCandidate DEF ValidateFresh
    <3>2. r \in Record
      BY <2>0, <3>1, ObserveType, HeaderKindType
    <3>3. processed' \in [QueueKinds -> Nat] /\ Popped("validations") \in QueueType
      BY <2>12, PopsType DEF ValidateFresh, QueueKinds
    <3>4. q \in QueueType
      BY <3>1, <3>3, ScannableType, TakeScannableType
    <3>5. Admits(t) \subseteq Owners /\ (new # {} => world.cell[t] \in Owners)
      BY DEF Admits, CellOwner
    <3>6. queue' = IF new = {} THEN q ELSE Schedule(q, world.cell[t], TRUE)
      BY <2>12 DEF ValidateFresh
    <3>7. queue' \in QueueType
      BY <3>4, <3>5, <3>6, ScheduleType
    <3>8. rec' \in [Tasks -> Record]
      <4>1. [r EXCEPT !.claims = @ \cup CellClaim(t),
                      !.mismatches = @ \cup CellMismatch(t)] \in Record
        BY <3>1, <3>2, CellClaimType DEF Record
      <4> QED
        BY <2>0, <2>12, <4>1 DEF ValidateFresh
    <3>9. errors' \subseteq Error
      BY <2>12, <3>1 DEF ValidateFresh, TypeOK, Error, Nodes
    <3>10. /\ admitted' = admitted \cup Admits(t)
           /\ scheduled' = scheduled \cup new
           /\ foundFrom' = Filed(c)
      BY <2>12 DEF ValidateFresh
    <3>11. admitted' \subseteq Owners /\ scheduled' \subseteq Owners
      BY <3>5, <3>10 DEF TypeOK
    <3>12. foundFrom' \subseteq Nodes \X Tasks
      BY <3>1, <3>10
    <3>13. /\ scannable' = <<>>
           /\ UNCHANGED <<world, phase, todo, roots, walk, capped, reached>>
      BY <2>12 DEF ValidateFresh
    <3> HIDE DEF c, t, r, q, new
    <3> QED
      BY <3>3, <3>7, <3>8, <3>9, <3>11, <3>12, <3>13 DEF TypeOK
  <2>13. CASE ValidateFails
    <3>1. Head(queue.validations).addr \in Tasks
      BY <2>13, PoppedCandidate DEF ValidateFails
    <3>2. processed' \in [QueueKinds -> Nat] /\ Popped("validations") \in QueueType
      BY <2>13, PopsType DEF ValidateFails, QueueKinds
    <3>0. <<>> \in Seq(Tasks)
      OBVIOUS
    <3>3. queue' \in QueueType
      BY <2>13, <3>0, <3>2, TakeScannableType DEF ValidateFails
    <3>4. errors' \subseteq Error
      BY <2>13, <3>1 DEF ValidateFails, TypeOK, Error, Nodes
    <3> QED
      BY <2>13, <3>2, <3>3, <3>4 DEF ValidateFails, TypeOK
  <2>14. CASE EnumerateRuntime
    <3>1. processed' \in [QueueKinds -> Nat] /\ Popped("runtimes") \in QueueType
      BY <2>14, PopsType DEF EnumerateRuntime, QueueKinds
    <3>2. Head(queue.runtimes) \in Owners
      BY <2>0, <2>14 DEF EnumerateRuntime, Pops, QueueType, Owners
    <3>3. walk' \in WalkState /\ errors' \subseteq Error
      BY <2>14, <3>2, StartWalkType DEF EnumerateRuntime
    <3> QED
      BY <2>14, <3>1, <3>3 DEF EnumerateRuntime, TypeOK, store
  <2>15. CASE EnumerateLocalSet
    <3>1. processed' \in [QueueKinds -> Nat] /\ Popped("sets") \in QueueType
      BY <2>15, PopsType DEF EnumerateLocalSet, QueueKinds
    <3>2. Head(queue.sets) \in Owners
      BY <2>0, <2>15 DEF EnumerateLocalSet, Pops, QueueType, Owners
    <3>3. walk' \in WalkState /\ errors' \subseteq Error
      BY <2>15, <3>2, StartWalkType DEF EnumerateLocalSet
    <3> QED
      BY <2>15, <3>1, <3>3 DEF EnumerateLocalSet, TypeOK, store
  <2>16. CASE ScanTask
    <3> DEFINE t == Head(queue.scans)
               found == Candidates(world.refs[t], "scan", t)
    <3>1. processed' \in [QueueKinds -> Nat] /\ Popped("scans") \in QueueType
      BY <2>16, PopsType DEF ScanTask, QueueKinds
    <3>2. t \in Tasks
      BY <2>0, <2>16 DEF ScanTask, Pops, QueueType
    <3>3. found \in Seq(Candidate)
      BY <2>0, <3>2, CandidatesType DEF WorldType
    <3>4. Popped("scans").validations \o found \in Seq(Candidate)
      BY <3>1, <3>3 DEF QueueType
    <3>5. [Popped("scans") EXCEPT !.validations = @ \o found] \in QueueType
      BY <3>1, <3>4 DEF QueueType
    <3>6. \/ queue' = Popped("scans")
          \/ queue' = [Popped("scans") EXCEPT !.validations = @ \o found]
      BY <2>16 DEF ScanTask
    <3>7. queue' \in QueueType
      BY <3>1, <3>5, <3>6
    <3>8. rec' \in [Tasks -> Record]
      <4>1. rec[t] \in Record /\ [rec[t] EXCEPT !.scanned = TRUE] \in Record
        BY <2>0, <3>2 DEF Record
      <4>2. \/ rec' = rec
            \/ rec' = [rec EXCEPT ![t] = [rec[t] EXCEPT !.scanned = TRUE]]
        BY <2>16 DEF ScanTask
      <4> HIDE DEF t
      <4> QED
        BY <2>0, <3>2, <4>1, <4>2
    <3> HIDE DEF t, found
    <3> QED
      BY <2>16, <3>1, <3>7, <3>8 DEF ScanTask, TypeOK
  <2>17. ASSUME NEW k \in {"timers", "io", "queues"},
                NEW found \in [Handles -> Seq(Tasks)],
                NEW route \in {"timers", "io", "queue"},
                Harvest(k, found, route)
         PROVE  TypeOK'
    <3> DEFINE o == Head(queue[k])
               finds == Candidates(found[HandleOf[o]], route, o)
    <3>1. processed' \in [QueueKinds -> Nat] /\ Popped(k) \in QueueType
      BY <2>17, PopsType DEF Harvest, QueueKinds
    <3>2. queue[k] \in Seq(Runtimes) /\ queue[k] # <<>>
      BY <2>0, <2>17 DEF Harvest, Pops, QueueType
    <3>3. o \in Runtimes /\ HandleOf[o] \in Handles
      BY <3>2, ConstantsAssumption
    <3>4. finds \in Seq(Candidate)
      BY <3>3, CandidatesType
    <3>5. Popped(k).validations \o finds \in Seq(Candidate)
      BY <3>1, <3>4 DEF QueueType
    <3>6. queue' = [Popped(k) EXCEPT !.validations = @ \o finds]
      BY <2>17 DEF Harvest
    <3>7. queue' \in QueueType
      BY <3>1, <3>5, <3>6 DEF QueueType
    <3> HIDE DEF o, finds
    <3> QED
      BY <2>17, <3>1, <3>7 DEF Harvest, TypeOK, store
  <2>18. CASE HarvestTimers
    BY <2>0, <2>17, <2>18 DEF HarvestTimers, WorldType
  <2>19. CASE HarvestIo
    BY <2>0, <2>17, <2>19 DEF HarvestIo, WorldType
  <2>20. CASE HarvestBlockingQueue
    BY <2>0, <2>17, <2>20 DEF HarvestBlockingQueue, WorldType
  <2>21. CASE Finish
    <3>1. rec' \in [Tasks -> Record]
      <4>1. ASSUME NEW t \in Tasks
            PROVE  /\ rec[t] \in Record
                   /\ [rec[t] EXCEPT !.inScope = (t \in Scope)] \in Record
        <5> DEFINE b == t \in Scope
        <5>1. b \in BOOLEAN
          OBVIOUS
        <5> HIDE DEF b
        <5>2. rec[t] \in Record /\ [rec[t] EXCEPT !.inScope = b] \in Record
          BY <2>0, <5>1 DEF Record
        <5> QED
          BY <5>2 DEF b
      <4>2. rec' = [t \in Tasks |-> IF Known(t)
                                    THEN [rec[t] EXCEPT !.inScope = (t \in Scope)]
                                    ELSE rec[t]]
        BY <2>21 DEF Finish
      <4> QED
        BY <4>1, <4>2
    <3> QED
      BY <2>21, <3>1 DEF Finish, TypeOK, work
  <2>22. CASE UNCHANGED vars
    BY <2>22 DEF vars, TypeOK
  <2> QED
    BY <2>1, <2>2, <2>3, <2>4, <2>5, <2>6, <2>7, <2>8, <2>9, <2>10, <2>11,
       <2>12, <2>13, <2>14, <2>15, <2>16, <2>18, <2>19, <2>20, <2>21, <2>22
    DEF Next, Walk, Prepare, Sweep, Terminated
<1> QED
  BY <1>1, <1>2, PTL DEF Spec

-----------------------------------------------------------------------------
(* The selection.                                                          *)


(* The owners the selection admits. *)
Included == {o \in Owners : ~IsExcluded(o)}

IncludedFind == {c \in Candidate : c.from \in Tasks \cup Included}

Records == {t \in Tasks : Known(t)}

(* A queue in which every owner and every find's origin is included, and  *)
(* every task to scan is one of T.                                        *)
IncludedQueue(T) ==
    [validations : Seq(IncludedFind), runtimes : Seq(Included),
     sets : Seq(Included), scans : Seq(T), timers : Seq(Included),
     io : Seq(Included), queues : Seq(Included)]

(* Everything the session is about to read belongs to an included owner,  *)
(* and only records that exist are queued for a scan.                     *)
FrontierIncluded ==
    /\ todo \in Seq(Included)
    /\ roots \in Seq(Included)
    /\ admitted \subseteq Included
    /\ scheduled \subseteq Included
    /\ Walking => walk.owner \in Included
    /\ queue \in IncludedQueue(Records)
    /\ scannable \in Seq(Records)

(* The inductive invariant: the frontier, and what the store holds. *)
ExclusionInv ==
    /\ FrontierIncluded
    /\ \A t \in Tasks : rec[t].scanned => Known(t)
    /\ ExcludedNeverRead
    /\ ScannedNeverExcluded

----------------------------------------------------------------------------
(* What a step may do to one record. *)
RecordStep(t) ==
    /\ rec[t].sources \subseteq rec'[t].sources
    /\ \A s \in rec'[t].sources :
         s \in rec[t].sources \/ s.at \in Tasks \cup Included
    /\ Known(t) => \E X \in SUBSET Included :
                     OwnersOf(rec'[t]) = OwnersOf(rec[t]) \cup X
    /\ rec'[t].scanned =>
         \/ rec[t].scanned
         \/ Known(t) /\ ~ExcludedOwned(rec[t])

(* Claims of included owners cannot make an excluded runtime the one      *)
(* owner of a record it was not the one owner of.                         *)
LEMMA ExclusionIsNotGained ==
    ASSUME NEW r, NEW s, NEW X \in SUBSET Included,
           OwnersOf(s) = OwnersOf(r) \cup X, ~ExcludedOwned(r)
    PROVE  ~ExcludedOwned(s)
<1> SUFFICES ASSUME NEW o \in Owners, OwnersOf(s) = {o}, IsExcluded(o)
             PROVE  FALSE
  BY DEF ExcludedOwned
<1>1. o \notin Included
  BY DEF Included
<1>2. X = {}
  BY <1>1
<1>3. OwnersOf(r) = {o}
  BY <1>2
<1> QED
  BY <1>3 DEF ExcludedOwned

(* A record left alone makes the step RecordStep allows. *)
LEMMA UnchangedRecord ==
    ASSUME NEW t, rec'[t] = rec[t]
    PROVE  RecordStep(t)
<1>1. OwnersOf(rec'[t]) = OwnersOf(rec[t]) \cup {}
  OBVIOUS
<1> QED
  BY <1>1 DEF RecordStep

(* A record gains a source of an included owner or of a task, and claims  *)
(* only of included owners unless it is new.                              *)
LEMMA ObservedRecord ==
    ASSUME TypeOK, NEW t \in Tasks, NEW s \in Source, NEW kinds \in SUBSET Kinds,
           NEW claims \in SUBSET Claim,
           s.at \in Tasks \cup Included,
           {c.owner : c \in claims} \subseteq Included,
           rec'[t].sources = Observe(rec[t], s, kinds, claims).sources,
           rec'[t].claims = Observe(rec[t], s, kinds, claims).claims
             \/ ~Known(t),
           rec'[t].scanned = rec[t].scanned
    PROVE  RecordStep(t)
<1> DEFINE n == Observe(rec[t], s, kinds, claims)
<1>0. rec[t] \in Record
  BY DEF TypeOK
<1>1. /\ rec[t].sources \subseteq n.sources
      /\ n.sources \subseteq rec[t].sources \cup {s}
      /\ OwnersOf(n) = OwnersOf(rec[t]) \cup {c.owner : c \in claims}
  <2>1. n.claims = rec[t].claims \cup claims
    BY <1>0 DEF Observe, Record
  <2>2. n.sources = IF Omits(rec[t], s) THEN rec[t].sources
                    ELSE rec[t].sources \cup {s}
    BY <1>0 DEF Observe, Record
  <2> HIDE DEF n
  <2>3. OwnersOf(n) = OwnersOf(rec[t]) \cup {c.owner : c \in claims}
    BY <2>1 DEF OwnersOf
  <2> QED
    BY <2>2, <2>3
<1>2. Known(t) => OwnersOf(rec'[t]) = OwnersOf(n)
  BY DEF OwnersOf
<1> HIDE DEF n
<1>3. Known(t) => \E X \in SUBSET Included :
                     OwnersOf(rec'[t]) = OwnersOf(rec[t]) \cup X
  BY <1>1, <1>2
<1>4. rec'[t].sources = n.sources
  BY DEF n
<1> QED
  BY <1>1, <1>3, <1>4 DEF RecordStep

(* Every step of the session does to every record only what RecordStep    *)
(* allows.                                                                *)
LEMMA StoreStep ==
    ASSUME TypeOK, ExclusionInv, [Next]_vars
    PROVE  \A t \in Tasks : RecordStep(t)
<1>0. rec \in [Tasks -> Record] /\ queue \in QueueType
  BY DEF TypeOK
<1>1. CASE WalkNode
  <2> DEFINE u == walk.at
             o == walk.owner
             s == [route |-> "list", at |-> o, nth |-> 0]
  <2>1. o \in Included /\ u \in Tasks
    BY <1>1 DEF WalkNode, NodeReads, ExclusionInv, FrontierIncluded
  <2>2. s \in Source /\ s.at = o
    BY <2>1 DEF Source, Routes, Nodes, Included
  <2>3. HeaderKind(u) \in SUBSET Kinds /\ ListClaim(o, u) \in SUBSET Claim
    BY <2>1, HeaderKindType, ListClaimType DEF Included
  <2>4. {c.owner : c \in ListClaim(o, u)} \subseteq Included
    BY <2>1 DEF ListClaim
  <2> DEFINE n == Observe(rec[u], s, HeaderKind(u), ListClaim(o, u))
  <2>5. n \in Record
    BY <1>0, <2>1, <2>2, <2>3, ObserveType
  <2>6. rec' = [rec EXCEPT ![u] = ObserveListed(o, u)]
    BY <1>1 DEF WalkNode
  <2>7. /\ ObserveListed(o, u).sources = n.sources
        /\ ObserveListed(o, u).claims = n.claims
        /\ ObserveListed(o, u).scanned = n.scanned
    <3> HIDE DEF n
    <3>1. ObserveListed(o, u) = [n EXCEPT !.mismatches = @ \cup ListMismatch(o, u)]
      BY DEF ObserveListed, n
    <3> QED
      BY <2>5, <3>1 DEF Record
  <2>8. n.scanned = rec[u].scanned
    BY <1>0, <2>1 DEF Observe, Record
  <2>9. rec'[u] = ObserveListed(o, u)
    BY <1>0, <2>1, <2>6
  <2>10. RecordStep(u)
    <3> HIDE DEF u, o, s
    <3> QED
      BY <2>1, <2>2, <2>3, <2>4, <2>7, <2>8, <2>9, ObservedRecord
  <2>11. \A t \in Tasks \ {u} : rec'[t] = rec[t]
    BY <1>0, <2>6
  <2> QED
    BY <2>10, <2>11, UnchangedRecord
<1>2. CASE ValidateKnown
  <2> DEFINE c == Head(queue.validations)
             u == c.addr
             n == Observe(rec[u], SourceOf(c), {}, QueueClaim(c))
  <2>1. /\ u \in Tasks
        /\ SourceOf(c) \in Source
        /\ QueueClaim(c) \in SUBSET Claim
    BY <1>2, PoppedCandidate DEF ValidateKnown
  <2>2. c \in IncludedFind
    BY <1>2 DEF ValidateKnown, Pops, ExclusionInv, FrontierIncluded, IncludedQueue
  <2>3. SourceOf(c).at \in Tasks \cup Included
    BY <2>2 DEF SourceOf, IncludedFind
  <2>4. {d.owner : d \in QueueClaim(c)} \subseteq Included
    BY <2>2, ConstantsAssumption DEF QueueClaim, IncludedFind, Candidate, Owners
  <2>5. rec' = [rec EXCEPT ![u] = n]
    BY <1>2 DEF ValidateKnown
  <2>6. n.scanned = rec[u].scanned
    BY <1>0, <2>1 DEF Observe, Record
  <2>7. rec'[u] = n
    BY <1>0, <2>1, <2>5
  <2>8. RecordStep(u)
    <3>1. {} \in SUBSET Kinds
      OBVIOUS
    <3> HIDE DEF u, c
    <3> QED
      BY <2>1, <2>3, <2>4, <2>6, <2>7, <3>1, ObservedRecord
  <2>9. \A t \in Tasks \ {u} : rec'[t] = rec[t]
    BY <1>0, <2>5
  <2> QED
    BY <2>8, <2>9, UnchangedRecord
<1>3. CASE ValidateFresh
  <2> DEFINE c == Head(queue.validations)
             u == c.addr
             n == Observe(rec[u], SourceOf(c), HeaderKind(u), QueueClaim(c))
             m == [n EXCEPT !.claims = @ \cup CellClaim(u),
                            !.mismatches = @ \cup CellMismatch(u)]
  <2>1. /\ u \in Tasks
        /\ SourceOf(c) \in Source
        /\ QueueClaim(c) \in SUBSET Claim
        /\ HeaderKind(u) \in SUBSET Kinds
    BY <1>3, PoppedCandidate, HeaderKindType DEF ValidateFresh
  <2>2. c \in IncludedFind
    BY <1>3 DEF ValidateFresh, Pops, ExclusionInv, FrontierIncluded, IncludedQueue
  <2>3. SourceOf(c).at \in Tasks \cup Included
    BY <2>2 DEF SourceOf, IncludedFind
  <2>4. {d.owner : d \in QueueClaim(c)} \subseteq Included
    BY <2>2, ConstantsAssumption DEF QueueClaim, IncludedFind, Candidate, Owners
  <2>5. rec' = [rec EXCEPT ![u] = m] /\ ~Known(u)
    BY <1>3 DEF ValidateFresh
  <2>6. n \in Record /\ n.scanned = rec[u].scanned
    <3>1. n \in Record
      BY <1>0, <2>1, ObserveType
    <3>2. n.scanned = rec[u].scanned
      BY <1>0, <2>1 DEF Observe, Record
    <3> QED
      BY <3>1, <3>2
  <2>7. m.sources = n.sources /\ m.scanned = n.scanned
    <3> HIDE DEF n
    <3> QED
      BY <2>6 DEF Record
  <2>8. rec'[u] = m
    BY <1>0, <2>1, <2>5
  <2>9. RecordStep(u)
    <3> HIDE DEF u, c, m
    <3> QED
      BY <2>1, <2>3, <2>4, <2>5, <2>6, <2>7, <2>8, ObservedRecord
  <2>10. \A t \in Tasks \ {u} : rec'[t] = rec[t]
    BY <1>0, <2>5
  <2> QED
    BY <2>9, <2>10, UnchangedRecord
<1>4. CASE ScanTask
  <2> DEFINE u == Head(queue.scans)
  <2>1. u \in Records
    BY <1>4 DEF ScanTask, Pops, ExclusionInv, FrontierIncluded, IncludedQueue
  <2>2. \/ rec' = rec
        \/ /\ ~ExcludedOwned(rec[u])
           /\ rec' = [rec EXCEPT ![u] = [rec[u] EXCEPT !.scanned = TRUE]]
    BY <1>4 DEF ScanTask
  <2> HIDE DEF u
  <2>3. CASE rec' = rec
    BY <2>3, UnchangedRecord
  <2>4. CASE /\ ~ExcludedOwned(rec[u])
             /\ rec' = [rec EXCEPT ![u] = [rec[u] EXCEPT !.scanned = TRUE]]
    <3>1. u \in Tasks /\ Known(u) /\ rec[u] \in Record
      BY <1>0, <2>1 DEF Records
    <3>2. rec'[u] = [rec[u] EXCEPT !.scanned = TRUE]
      BY <1>0, <2>4, <3>1
    <3>3. rec'[u].sources = rec[u].sources /\ rec'[u].claims = rec[u].claims
      BY <3>1, <3>2 DEF Record
    <3>4. OwnersOf(rec'[u]) = OwnersOf(rec[u]) \cup {}
      BY <3>3 DEF OwnersOf
    <3>5. RecordStep(u)
      BY <2>4, <3>1, <3>3, <3>4 DEF RecordStep
    <3>6. \A t \in Tasks \ {u} : rec'[t] = rec[t]
      BY <1>0, <2>4
    <3> QED
      BY <3>5, <3>6, UnchangedRecord
  <2> QED
    BY <2>2, <2>3, <2>4
<1>5. CASE Finish
  <2> SUFFICES ASSUME NEW t \in Tasks PROVE RecordStep(t)
    OBVIOUS
  <2> DEFINE b == t \in Scope
  <2>1. \/ rec'[t] = rec[t]
        \/ rec'[t] = [rec[t] EXCEPT !.inScope = b]
    BY <1>5 DEF Finish
  <2> HIDE DEF b
  <2>2. CASE rec'[t] = [rec[t] EXCEPT !.inScope = b]
    <3>1. /\ rec'[t].sources = rec[t].sources
          /\ rec'[t].claims = rec[t].claims
          /\ rec'[t].scanned = rec[t].scanned
      BY <1>0, <2>2 DEF Record
    <3>2. OwnersOf(rec'[t]) = OwnersOf(rec[t]) \cup {}
      BY <3>1 DEF OwnersOf
    <3> QED
      BY <3>1, <3>2 DEF RecordStep
  <2> QED
    BY <2>1, <2>2, UnchangedRecord
<1>6. CASE rec' = rec
  BY <1>6, UnchangedRecord
<1> QED
  BY <1>1, <1>2, <1>3, <1>4, <1>5, <1>6
  DEF Next, Walk, Prepare, Sweep, Terminated, vars, store, WalkFails, NextShard,
      EndWalk, EnumerateRoot, EndEnumerate, ProbeTls, EndProbe, ScheduleRoot,
      StartSweep, ValidateFails, EnumerateRuntime, EnumerateLocalSet, Harvest,
      HarvestTimers, HarvestIo, HarvestBlockingQueue

----------------------------------------------------------------------------
(* The frontier: popping, scheduling and handing over keep it included.   *)

(* Popping keeps the queue's owners included. *)
LEMMA PoppedIncluded ==
    ASSUME NEW T, queue \in IncludedQueue(T), NEW k \in QueueKinds,
           queue[k] # <<>>
    PROVE  Popped(k) \in IncludedQueue(T)
<1>1. CASE k = "validations"
  <2>1. Tail(queue.validations) \in Seq(IncludedFind)
    BY <1>1 DEF IncludedQueue
  <2> QED
    BY <1>1, <2>1 DEF Popped, IncludedQueue
<1>2. CASE k = "runtimes"
  <2>1. Tail(queue.runtimes) \in Seq(Included)
    BY <1>2 DEF IncludedQueue
  <2> QED
    BY <1>2, <2>1 DEF Popped, IncludedQueue
<1>3. CASE k = "sets"
  <2>1. Tail(queue.sets) \in Seq(Included)
    BY <1>3 DEF IncludedQueue
  <2> QED
    BY <1>3, <2>1 DEF Popped, IncludedQueue
<1>4. CASE k = "scans"
  <2>1. Tail(queue.scans) \in Seq(T)
    BY <1>4 DEF IncludedQueue
  <2> QED
    BY <1>4, <2>1 DEF Popped, IncludedQueue
<1>5. CASE k = "timers"
  <2>1. Tail(queue.timers) \in Seq(Included)
    BY <1>5 DEF IncludedQueue
  <2> QED
    BY <1>5, <2>1 DEF Popped, IncludedQueue
<1>6. CASE k = "io"
  <2>1. Tail(queue.io) \in Seq(Included)
    BY <1>6 DEF IncludedQueue
  <2> QED
    BY <1>6, <2>1 DEF Popped, IncludedQueue
<1>7. CASE k = "queues"
  <2>1. Tail(queue.queues) \in Seq(Included)
    BY <1>7 DEF IncludedQueue
  <2> QED
    BY <1>7, <2>1 DEF Popped, IncludedQueue
<1> QED
  BY <1>1, <1>2, <1>3, <1>4, <1>5, <1>6, <1>7 DEF QueueKinds

(* Handing over newly resident records keeps it so. *)
LEMMA TakenIncluded ==
    ASSUME NEW T, NEW q \in IncludedQueue(T), scannable \in Seq(T),
           NEW more \in Seq(T)
    PROVE  TakeScannable(q, more) \in IncludedQueue(T)
<1>1. q.scans \o scannable \o more \in Seq(T)
  BY DEF IncludedQueue
<1> QED
  BY <1>1 DEF TakeScannable, IncludedQueue

(* Scheduling an included owner keeps it so. *)
LEMMA ScheduleIncluded ==
    ASSUME NEW T, NEW q \in IncludedQueue(T), NEW o \in Included,
           NEW enumerate \in BOOLEAN
    PROVE  Schedule(q, o, enumerate) \in IncludedQueue(T)
<1>1. /\ Append(q.runtimes, o) \in Seq(Included)
      /\ Append(q.timers, o) \in Seq(Included)
      /\ Append(q.io, o) \in Seq(Included)
      /\ Append(q.queues, o) \in Seq(Included)
      /\ Append(q.sets, o) \in Seq(Included)
  BY DEF IncludedQueue
<1> QED
  BY <1>1 DEF Schedule, IncludedQueue

(* Finds made in the storage of a task or in the registries of an         *)
(* included owner are finds of the selection.                             *)
LEMMA FindsIncluded ==
    ASSUME NEW found \in Seq(Tasks), NEW route, NEW from,
           \/ route = "scan" /\ from \in Tasks
           \/ /\ route \in {"timers", "io", "queue"}
              /\ from \in Runtimes \cap Included
    PROVE  Candidates(found, route, from) \in Seq(IncludedFind)
<1>1. \A i \in 1..Len(found) :
        [addr |-> found[i], route |-> route, from |-> from, nth |-> i]
          \in IncludedFind
  BY DEF IncludedFind, Candidate
<1>2. Len(found) \in Nat
  OBVIOUS
<1> QED
  BY <1>1, <1>2, IsASeq DEF Candidates

(* Queueing the selection's finds keeps it so. *)
LEMMA AddFinds ==
    ASSUME NEW T, NEW q \in IncludedQueue(T), NEW finds \in Seq(IncludedFind)
    PROVE  [q EXCEPT !.validations = @ \o finds] \in IncludedQueue(T)
<1>1. q.validations \o finds \in Seq(IncludedFind)
  BY DEF IncludedQueue
<1> QED
  BY <1>1 DEF IncludedQueue

(* The queue's scans may be read as drawn from a larger set. *)
LEMMA WidenScans ==
    ASSUME NEW S, NEW T, S \subseteq T, NEW q \in IncludedQueue(S)
    PROVE  q \in IncludedQueue(T)
<1>1. q.scans \in Seq(T)
  <2>1. q.scans \in Seq(S)
    BY DEF IncludedQueue
  <2> QED
    BY <2>1, SeqMonotonic
<1> QED
  BY <1>1 DEF IncludedQueue

(* The selection is a fact of the target, which no step changes. *)
LEMMA SelectionFixed ==
    ASSUME world' = world
    PROVE  Included' = Included /\ IncludedFind' = IncludedFind
<1>1. \A o : IsExcluded(o)' = IsExcluded(o)
  BY DEF IsExcluded
<1>2. Included' = Included
  BY <1>1 DEF Included
<1> QED
  BY <1>2 DEF IncludedFind

(* No step changes the target. *)
LEMMA WorldFixed ==
    ASSUME [Next]_vars
    PROVE  world' = world
  BY DEF Next, Walk, Prepare, Sweep, Terminated, vars, WalkNode, WalkFails,
         NextShard, EndWalk, EnumerateRoot, EndEnumerate, ProbeTls, EndProbe,
         ScheduleRoot, StartSweep, ValidateKnown, ValidateFresh, ValidateFails,
         EnumerateRuntime, EnumerateLocalSet, ScanTask, Harvest,
         HarvestTimers, HarvestIo, HarvestBlockingQueue, Finish

(* An observed record exists: its first reference is never only counted. *)
LEMMA ObserveKnows ==
    ASSUME NEW r \in Record, NEW s \in Source, NEW kinds, NEW claims
    PROVE  Observe(r, s, kinds, claims).sources # {}
<1>1. Observe(r, s, kinds, claims).sources
        = IF Omits(r, s) THEN r.sources ELSE r.sources \cup {s}
  BY DEF Observe, Record
<1>2. ASSUME Omits(r, s), r.sources = {} PROVE FALSE
  <2>1. References(r) = {}
    BY <1>2 DEF References
  <2>2. Cardinality(References(r)) = 0
    BY <2>1, FS_EmptySet
  <2> QED
    BY <1>2, <2>2, ConstantsAssumption DEF Omits
<1> QED
  BY <1>1, <1>2

(* A record, once it exists, exists for good. *)
LEMMA RecordsGrow ==
    ASSUME TypeOK, ExclusionInv, [Next]_vars
    PROVE  Records \subseteq Records'
  BY StoreStep DEF RecordStep, Records, Known

(* No step puts work for an excluded owner, or a scan of a task with no   *)
(* record, on the frontier.                                               *)
LEMMA FrontierStep ==
    ASSUME TypeOK, ExclusionInv, [Next]_vars
    PROVE  FrontierIncluded'
<1> DEFINE R == Records'
           Q == IncludedQueue(R)
           Goal == /\ todo' \in Seq(Included)
                   /\ roots' \in Seq(Included)
                   /\ admitted' \subseteq Included
                   /\ scheduled' \subseteq Included
                   /\ Walking' => walk'.owner \in Included
                   /\ queue' \in Q
                   /\ scannable' \in Seq(R)
<1>0. world' = world /\ Included' = Included /\ IncludedFind' = IncludedFind
  BY WorldFixed, SelectionFixed
<1>1. Records \subseteq R
  BY RecordsGrow
<1> SUFFICES Goal
  <2>1. IncludedQueue(Records)' = Q
    BY <1>0 DEF IncludedQueue
  <2> QED
    BY <1>0, <2>1 DEF FrontierIncluded
<1> HIDE DEF R
<1>2. /\ todo \in Seq(Included)
      /\ roots \in Seq(Included)
      /\ admitted \subseteq Included
      /\ scheduled \subseteq Included
      /\ Walking => walk.owner \in Included
      /\ queue \in Q
      /\ scannable \in Seq(R)
  BY <1>1, WidenScans, SeqMonotonic DEF ExclusionInv, FrontierIncluded
<1>3. <<>> \in Seq(R)
  OBVIOUS
<1>4. rec \in [Tasks -> Record] /\ queue \in QueueType /\ world \in WorldType
  BY DEF TypeOK
<1>5. \A l \in LocalSets : l \in Included
  BY ConstantsAssumption DEF Included, IsExcluded, Owners
<1>6. \A k \in QueueKinds : Pops(k) => Popped(k) \in Q
  BY <1>2, PoppedIncluded DEF Pops
<1>7. \A k \in {"runtimes", "sets", "timers", "io", "queues"} :
        Pops(k) => Head(queue[k]) \in Included
  BY <1>2 DEF Pops, IncludedQueue
<1>8. \A t \in R : Scannable(t, rec'[t]) \in Seq(R)
  BY DEF Scannable
<1>10. CASE WalkNode
  <2> DEFINE t == walk.at
  <2>1. t \in Tasks /\ walk.owner \in Included
    BY <1>2, <1>10 DEF WalkNode, NodeReads
  <2>2. t \in R
    <3> DEFINE o == walk.owner
               src == [route |-> "list", at |-> o, nth |-> 0]
               n == Observe(rec[t], src, HeaderKind(t), ListClaim(o, t))
    <3>1. src \in Source
      BY <2>1 DEF Source, Routes, Nodes, Included
    <3>2. n \in Record /\ n.sources # {}
      BY <1>4, <2>1, <3>1, ObserveKnows, ObserveType, HeaderKindType,
         ListClaimType DEF Included
    <3>3. rec'[t] = [n EXCEPT !.mismatches = @ \cup ListMismatch(o, t)]
      BY <1>4, <1>10, <2>1 DEF WalkNode, ObserveListed
    <3> HIDE DEF n
    <3>4. rec'[t].sources # {}
      BY <3>2, <3>3 DEF Record
    <3> QED
      BY <2>1, <3>4 DEF R, Records, Known
  <2>3. rec'[t] = ObserveListed(walk.owner, t)
    BY <1>4, <1>10, <2>1 DEF WalkNode
  <2>4. scannable' = scannable \o Scannable(t, rec'[t])
    BY <1>10, <2>3 DEF WalkNode
  <2>5. scannable' \in Seq(R)
    BY <1>2, <1>8, <2>2, <2>4
  <2>6. walk'.owner = walk.owner
    <3>1. walk \in [owner : Owners, shards : Seq(Tasks \cup {Null, Wild}),
                    at : Tasks \cup {Null, Wild}, visited : SUBSET Tasks]
      BY <1>10 DEF WalkNode, Walking, TypeOK, WalkState
    <3> QED
      BY <1>10, <3>1 DEF WalkNode
  <2> QED
    BY <1>2, <1>10, <2>1, <2>5, <2>6 DEF WalkNode, work
<1>11. CASE WalkFails
  <2>1. walk'.owner = walk.owner /\ walk.owner \in Included
    <3>1. walk \in [owner : Owners, shards : Seq(Tasks \cup {Null, Wild}),
                    at : Tasks \cup {Null, Wild}, visited : SUBSET Tasks]
      BY <1>11 DEF WalkFails, Walking, TypeOK, WalkState
    <3> QED
      BY <1>2, <1>11, <3>1 DEF WalkFails
  <2> QED
    BY <1>2, <1>11, <2>1 DEF WalkFails, work, store
<1>12. CASE NextShard
  <2>1. walk'.owner = walk.owner /\ walk.owner \in Included
    <3>1. walk \in [owner : Owners, shards : Seq(Tasks \cup {Null, Wild}),
                    at : Tasks \cup {Null, Wild}, visited : SUBSET Tasks]
      BY <1>12 DEF NextShard, Walking, TypeOK, WalkState
    <3> QED
      BY <1>2, <1>12, <3>1 DEF NextShard
  <2> QED
    BY <1>2, <1>12, <2>1 DEF NextShard, work, store
<1>13. CASE EndWalk
  <2>1. TakeScannable(queue, <<>>) \in Q
    BY <1>2, <1>3, TakenIncluded
  <2>2. queue' \in Q /\ scannable' \in Seq(R)
    BY <1>2, <1>3, <1>13, <2>1 DEF EndWalk
  <2> QED
    BY <1>2, <1>13, <2>2 DEF EndWalk, Walking
<1>14. CASE EnumerateRoot
  <2>1. Head(todo) \in Included /\ Tail(todo) \in Seq(Included)
    BY <1>2, <1>14 DEF EnumerateRoot
  <2>2. walk'.owner = Head(todo)
    BY <1>14 DEF EnumerateRoot, StartWalk, WalkFrom
  <2> QED
    BY <1>2, <1>14, <2>1, <2>2 DEF EnumerateRoot, work, store
<1>15. CASE EndEnumerate
  <2>1. world.tls \in Seq(Included)
    BY <1>4, <1>5, SeqMonotonic DEF WorldType
  <2> QED
    BY <1>2, <1>15, <2>1 DEF EndEnumerate, work, store, Walking
<1>16. CASE ProbeTls
  <2>1. Head(todo) \in Included /\ Tail(todo) \in Seq(Included)
    BY <1>2, <1>16 DEF ProbeTls
  <2>2. Append(roots, Head(todo)) \in Seq(Included)
    BY <1>2, <2>1
  <2>3. roots' \in Seq(Included) /\ admitted' \subseteq Included
    BY <1>2, <1>16, <2>1, <2>2 DEF ProbeTls
  <2> QED
    BY <1>2, <1>16, <2>1, <2>3 DEF ProbeTls, work, store, Walking
<1>17. CASE EndProbe
  BY <1>2, <1>17 DEF EndProbe, work, store, Walking
<1>18. CASE ScheduleRoot
  <2>1. Head(todo) \in Included /\ Tail(todo) \in Seq(Included)
    BY <1>2, <1>18 DEF ScheduleRoot
  <2>2. Schedule(queue, Head(todo), FALSE) \in Q
    BY <1>2, <2>1, ScheduleIncluded
  <2>3. queue' \in Q /\ scheduled' \subseteq Included
    BY <1>2, <1>18, <2>1, <2>2 DEF ScheduleRoot
  <2> QED
    BY <1>2, <1>18, <2>1, <2>3 DEF ScheduleRoot, store, Walking
<1>19. CASE StartSweep
  <2>1. TakeScannable(queue, <<>>) \in Q
    BY <1>2, <1>3, TakenIncluded
  <2> QED
    BY <1>2, <1>3, <1>19, <2>1 DEF StartSweep, Walking
<1>20. CASE ValidateKnown
  <2> DEFINE t == Head(queue.validations).addr
             r == Observe(rec[t], SourceOf(Head(queue.validations)), {},
                          QueueClaim(Head(queue.validations)))
  <2>1. t \in Tasks /\ Known(t)
    BY <1>20, PoppedCandidate DEF ValidateKnown
  <2>2. t \in R
    BY <1>1, <2>1 DEF Records
  <2>3. Scannable(t, r) \in Seq(R)
    BY <2>2 DEF Scannable
  <2>4. TakeScannable(Popped("validations"), Scannable(t, r)) \in Q
    BY <1>2, <1>6, <1>20, <2>3, TakenIncluded DEF ValidateKnown, QueueKinds
  <2>5. queue' = TakeScannable(Popped("validations"), Scannable(t, r))
    BY <1>20 DEF ValidateKnown
  <2> QED
    BY <1>2, <1>3, <1>20, <2>4, <2>5 DEF ValidateKnown, Walking
<1>21. CASE ValidateFresh
  <2> DEFINE c == Head(queue.validations)
             t == c.addr
             r == Observe(rec[t], SourceOf(c), HeaderKind(t), QueueClaim(c))
             m == [r EXCEPT !.claims = @ \cup CellClaim(t),
                            !.mismatches = @ \cup CellMismatch(t)]
             q == TakeScannable(Popped("validations"), Scannable(t, r))
             new == {o \in Admits(t) : Schedules(o)}
  <2>1. /\ t \in Tasks
        /\ SourceOf(c) \in Source
        /\ QueueClaim(c) \in SUBSET Claim
    BY <1>21, PoppedCandidate DEF ValidateFresh
  <2>2. r \in Record /\ r.sources # {}
    BY <1>4, <2>1, ObserveKnows, ObserveType, HeaderKindType
  <2>3. rec'[t] = m
    BY <1>4, <1>21, <2>1 DEF ValidateFresh
  <2>4. t \in R
    <3> HIDE DEF r
    <3>1. m.sources # {}
      BY <2>2 DEF Record
    <3> HIDE DEF m, t
    <3> QED
      BY <2>1, <2>3, <3>1 DEF R, Records, Known
  <2>5. Scannable(t, r) \in Seq(R)
    BY <2>4 DEF Scannable
  <2>6. q \in Q
    BY <1>2, <1>6, <1>21, <2>5, TakenIncluded DEF ValidateFresh, QueueKinds
  <2>7. Admits(t) \subseteq Included /\ (new # {} => world.cell[t] \in Included)
    BY DEF Admits, CellOwner, Included
  <2>8. queue' = IF new = {} THEN q ELSE Schedule(q, world.cell[t], TRUE)
    BY <1>21 DEF ValidateFresh
  <2>9. admitted' = admitted \cup Admits(t) /\ scheduled' = scheduled \cup new
    BY <1>21 DEF ValidateFresh
  <2>10. new \subseteq Admits(t)
    OBVIOUS
  <2>11. /\ scannable' = <<>>
         /\ UNCHANGED <<todo, roots, walk>>
    BY <1>21 DEF ValidateFresh
  <2> HIDE DEF c, t, r, m, q, new
  <2>12. queue' \in Q
    BY <2>6, <2>7, <2>8, ScheduleIncluded
  <2> QED
    BY <1>2, <1>3, <2>7, <2>9, <2>10, <2>11, <2>12 DEF Walking
<1>22. CASE ValidateFails
  <2>1. TakeScannable(Popped("validations"), <<>>) \in Q
    BY <1>2, <1>3, <1>6, <1>22, TakenIncluded DEF ValidateFails, QueueKinds
  <2> QED
    BY <1>2, <1>3, <1>22, <2>1 DEF ValidateFails, Walking
<1>23. CASE EnumerateRuntime
  <2>1. Popped("runtimes") \in Q /\ Head(queue.runtimes) \in Included
    BY <1>6, <1>7, <1>23 DEF EnumerateRuntime, QueueKinds
  <2>2. walk'.owner = Head(queue.runtimes)
    BY <1>23 DEF EnumerateRuntime, StartWalk, WalkFrom
  <2> QED
    BY <1>2, <1>23, <2>1, <2>2 DEF EnumerateRuntime, store
<1>24. CASE EnumerateLocalSet
  <2>1. Popped("sets") \in Q /\ Head(queue.sets) \in Included
    BY <1>6, <1>7, <1>24 DEF EnumerateLocalSet, QueueKinds
  <2>2. walk'.owner = Head(queue.sets)
    BY <1>24 DEF EnumerateLocalSet, StartWalk, WalkFrom
  <2> QED
    BY <1>2, <1>24, <2>1, <2>2 DEF EnumerateLocalSet, store
<1>25. CASE ScanTask
  <2> DEFINE t == Head(queue.scans)
             finds == Candidates(world.refs[t], "scan", t)
  <2>1. t \in Tasks
    BY <1>4, <1>25 DEF ScanTask, Pops, QueueType
  <2>2. finds \in Seq(IncludedFind)
    BY <1>4, <2>1, FindsIncluded DEF WorldType
  <2>3. Popped("scans") \in Q
    BY <1>6, <1>25 DEF ScanTask, QueueKinds
  <2>4. [Popped("scans") EXCEPT !.validations = @ \o finds] \in Q
    BY <2>2, <2>3, AddFinds
  <2>5. \/ queue' = Popped("scans")
        \/ queue' = [Popped("scans") EXCEPT !.validations = @ \o finds]
    BY <1>25 DEF ScanTask
  <2> HIDE DEF t, finds
  <2> QED
    BY <1>2, <1>25, <2>3, <2>4, <2>5 DEF ScanTask, Walking
<1>26. ASSUME NEW k \in {"timers", "io", "queues"},
              NEW found \in [Handles -> Seq(Tasks)],
              NEW route \in {"timers", "io", "queue"},
              Harvest(k, found, route)
       PROVE  Goal
  <2> DEFINE o == Head(queue[k])
             finds == Candidates(found[HandleOf[o]], route, o)
  <2>1. Popped(k) \in Q /\ o \in Included
    BY <1>6, <1>7, <1>26 DEF Harvest, QueueKinds
  <2>2. queue[k] \in Seq(Runtimes) /\ queue[k] # <<>>
    BY <1>4, <1>26 DEF Harvest, Pops, QueueType
  <2>3. o \in Runtimes /\ HandleOf[o] \in Handles
    BY <2>2, ConstantsAssumption
  <2>4. finds \in Seq(IncludedFind)
    BY <2>1, <2>3, FindsIncluded
  <2>5. queue' = [Popped(k) EXCEPT !.validations = @ \o finds]
    BY <1>26 DEF Harvest
  <2> HIDE DEF o, finds
  <2>6. queue' \in Q
    BY <2>1, <2>4, <2>5, AddFinds
  <2> QED
    BY <1>2, <1>26, <2>6 DEF Harvest, store, Walking
<1>27. CASE HarvestTimers
  BY <1>4, <1>26, <1>27 DEF HarvestTimers, WorldType
<1>28. CASE HarvestIo
  BY <1>4, <1>26, <1>28 DEF HarvestIo, WorldType
<1>29. CASE HarvestBlockingQueue
  BY <1>4, <1>26, <1>29 DEF HarvestBlockingQueue, WorldType
<1>30. CASE Finish
  BY <1>2, <1>30 DEF Finish, work, Walking
<1>31. CASE UNCHANGED vars
  BY <1>2, <1>31 DEF vars, Walking
<1> QED
  BY <1>10, <1>11, <1>12, <1>13, <1>14, <1>15, <1>16, <1>17, <1>18, <1>19,
     <1>20, <1>21, <1>22, <1>23, <1>24, <1>25, <1>27, <1>28, <1>29, <1>30, <1>31
  DEF Next, Walk, Prepare, Sweep, Terminated

----------------------------------------------------------------------------
(* A step that finds a record finds it no excluded runtime's task, if it  *)
(* was none before.                                                       *)
LEMMA NoLateExclusionStep ==
    ASSUME TypeOK, ExclusionInv, [Next]_vars, NEW t \in Tasks, Known(t),
           ~ExcludedOwned(rec[t])
    PROVE  ~ExcludedOwned(rec'[t])
<1>1. \E X \in SUBSET Included : OwnersOf(rec'[t]) = OwnersOf(rec[t]) \cup X
  BY StoreStep DEF RecordStep
<1> QED
  BY <1>1, ExclusionIsNotGained

(* The selection's invariant holds of every reachable state: the session  *)
(* starts from included owners, and no step of it leaves them.            *)
THEOREM ExclusionHolds == Spec => []ExclusionInv
<1>1. Init => ExclusionInv
  <2> SUFFICES ASSUME Init PROVE ExclusionInv
    OBVIOUS
  <2>1. WorldOK(world)
    BY ConstantsAssumption DEF Init
  <2>2. world.runtimes \in Seq(Included)
    <3>1. world.runtimes \in Seq(Runtimes)
      BY <2>1 DEF WorldOK, WorldType
    <3>2. \A i \in 1..Len(world.runtimes) : world.runtimes[i] \in Included
      BY <2>1, <3>1 DEF WorldOK, Included, IsExcluded, Owners
    <3> QED
      BY <3>1, <3>2
  <2>3. admitted \subseteq Included
    BY <2>2 DEF Init
  <2>4. queue \in IncludedQueue(Records) /\ scannable \in Seq(Records)
    BY DEF Init, EmptyQueue, IncludedQueue
  <2>5. FrontierIncluded
    BY <2>2, <2>3, <2>4 DEF Init, FrontierIncluded, Walking
  <2>6. \A t \in Tasks : rec[t].sources = {} /\ rec[t].scanned = FALSE
    BY DEF Init, NoRecord
  <2> QED
    BY <2>5, <2>6 DEF ExclusionInv, ExcludedNeverRead, ScannedNeverExcluded
<1>2. TypeOK /\ ExclusionInv /\ [Next]_vars => ExclusionInv'
  <2> SUFFICES ASSUME TypeOK, ExclusionInv, [Next]_vars PROVE ExclusionInv'
    OBVIOUS
  <2>0. world' = world
    BY WorldFixed
  <2>1. FrontierIncluded'
    BY FrontierStep
  <2>2. \A t \in Tasks : RecordStep(t)
    BY StoreStep
  <2>3. \A t \in Tasks : rec'[t].scanned => Known(t)'
    BY <2>2 DEF RecordStep, ExclusionInv, Known
  <2>4. ExcludedNeverRead'
    <3> SUFFICES ASSUME NEW t \in Tasks, NEW s \in rec'[t].sources,
                        s.at \in Runtimes
                 PROVE  HandleOf[s.at] \notin world.excluded
      BY <2>0 DEF ExcludedNeverRead
    <3>1. s \in rec[t].sources \/ s.at \in Tasks \cup Included
      BY <2>2 DEF RecordStep
    <3> QED
      BY <3>1, ConstantsAssumption
      DEF ExclusionInv, ExcludedNeverRead, Included, IsExcluded, Owners
  <2>5. ScannedNeverExcluded'
    <3> SUFFICES ASSUME NEW t \in Tasks, rec'[t].scanned
                 PROVE  ~ExcludedOwned(rec'[t])
      BY <2>0 DEF ScannedNeverExcluded, ExcludedOwned, IsExcluded
    <3>1. Known(t) /\ ~ExcludedOwned(rec[t])
      BY <2>2 DEF RecordStep, ExclusionInv, ScannedNeverExcluded
    <3> QED
      BY <3>1, NoLateExclusionStep
  <2> QED
    BY <2>1, <2>3, <2>4, <2>5 DEF ExclusionInv
<1> QED
  BY <1>1, <1>2, TypeCorrect, PTL DEF Spec

(* "--runtime" is a filter: on every target, nothing in the store was     *)
(* read out of an excluded runtime's list, registries or pool.            *)
THEOREM SelectionIsAFilter == Spec => []ExcludedNeverRead
<1>1. ExclusionInv => ExcludedNeverRead
  BY DEF ExclusionInv
<1> QED
  BY <1>1, ExclusionHolds, PTL

(* Whatever claims arrive later, no storage the sweep searched belongs to *)
(* a task an excluded runtime owns.                                       *)
THEOREM ScansStayInSelection == Spec => []ScannedNeverExcluded
<1>1. ExclusionInv => ScannedNeverExcluded
  BY DEF ExclusionInv
<1> QED
  BY <1>1, ExclusionHolds, PTL

(* The scan's check of a record's owner is never overtaken: once a record *)
(* exists, no further claim makes an excluded runtime its one owner.      *)
THEOREM ExclusionIsNeverLate == Spec => NoLateExclusion
<1>1. TypeOK /\ ExclusionInv /\ [Next]_vars
        => [\A t \in Tasks : /\ Known(t)
                             /\ ~ExcludedOwned(rec[t])
                             => ~ExcludedOwned(rec'[t])]_vars
  BY NoLateExclusionStep
<1> QED
  BY <1>1, TypeCorrect, ExclusionHolds, PTL DEF Spec, NoLateExclusion

-----------------------------------------------------------------------------
(* The sweep's books.                                                      *)

OwnerKinds == {"runtimes", "sets", "timers", "io", "queues"}

Scanned == {t \in Tasks : rec[t].scanned}

Residents == {t \in Tasks : Resident(t, rec[t])}

AtStart == SeqRange(world.runtimes)

(* Whatever is queued, walked or scheduled is admitted, and a find comes  *)
(* from an admitted owner or from storage that was scanned.               *)
FrontierAdmitted ==
    /\ scheduled \subseteq admitted /\ AtStart \subseteq admitted
    /\ SeqRange(roots) \subseteq admitted
    /\ SeqRange(roots) \cap Runtimes \subseteq AtStart
    /\ phase = "enumerate" => SeqRange(todo) \subseteq AtStart
    /\ phase = "probe" => SeqRange(todo) \subseteq LocalSets
    /\ phase = "schedule" => SeqRange(todo) \subseteq SeqRange(roots)
    /\ Walking => walk.owner \in admitted
    /\ \A k \in OwnerKinds : SeqRange(queue[k]) \subseteq admitted
    /\ \A c \in SeqRange(queue.validations) : c.from \in admitted \cup Scanned
    /\ \A p \in foundFrom : p[1] \in admitted \cup Scanned

(* The books of the owners and of the scans. *)
OwnersBooked ==
    /\ IsFiniteSet(scheduled)
    /\ \A k \in {"timers", "io", "queues"} :
         processed[k] + Len(queue[k]) = Cardinality(scheduled \cap Runtimes)
    /\ processed.runtimes + Len(queue.runtimes)
         = Cardinality((scheduled \cap Runtimes) \ AtStart)
    /\ processed.sets + Len(queue.sets) = Cardinality(scheduled \cap LocalSets)

ScansBooked ==
    /\ IsFiniteSet(Residents)
    /\ processed.scans + Len(queue.scans) + Len(scannable) = Cardinality(Residents)
    /\ SeqRange(queue.scans) \cup SeqRange(scannable) \cup Scanned \subseteq Residents


(* The elements of a sequence, as it grows and shrinks. *)
LEMMA RangeTail ==
    ASSUME NEW S, NEW q \in Seq(S), q # <<>>
    PROVE  /\ Head(q) \in SeqRange(q) /\ SeqRange(Tail(q)) \subseteq SeqRange(q)
           /\ SeqRange(q) = SeqRange(Tail(q)) \cup {Head(q)}
           /\ Tail(q) \in Seq(S) /\ Len(Tail(q)) = Len(q) - 1 /\ Len(q) \in Nat \ {0}
           /\ Head(q) \in S
<1>1. PICK r \in Seq(S) : r = Tail(q)
  BY HeadTailProperties
<1>2. /\ Len(q) \in Nat \ {0} /\ Len(r) = Len(q) - 1 /\ DOMAIN q = 1 .. Len(q)
      /\ DOMAIN r = 1 .. (Len(q) - 1) /\ \A i \in 1 .. (Len(q) - 1) : r[i] = q[i + 1]
      /\ q[1] = Head(q) /\ Head(q) \in S
  BY <1>1
<1>3. SeqRange(r) \subseteq SeqRange(q)
  BY <1>2 DEF SeqRange
<1>4. Head(q) \in SeqRange(q)
  BY <1>2 DEF SeqRange
<1>5. ASSUME NEW x \in SeqRange(q), x # Head(q)
      PROVE  x \in SeqRange(r)
  <2>1. PICK i \in 1 .. Len(q) : x = q[i]
    BY <1>2, <1>5 DEF SeqRange
  <2>2. i - 1 \in 1 .. (Len(q) - 1) /\ r[i - 1] = q[i]
    BY <1>2, <1>5, <2>1
  <2> QED BY <1>2, <2>1, <2>2 DEF SeqRange
<1> QED BY <1>1, <1>2, <1>3, <1>4, <1>5

(* An appended element joins the elements. *)
LEMMA RangeAppend ==
    ASSUME NEW S, NEW q \in Seq(S), NEW x \in S
    PROVE  /\ SeqRange(Append(q, x)) = SeqRange(q) \cup {x}
           /\ Append(q, x) \in Seq(S) /\ Len(Append(q, x)) = Len(q) + 1 /\ Len(q) \in Nat
<1>1. PICK r \in Seq(S) : r = Append(q, x)
  BY AppendProperties
<1>2. /\ Len(q) \in Nat /\ Len(r) = Len(q) + 1 /\ DOMAIN q = 1 .. Len(q)
      /\ DOMAIN r = 1 .. (Len(q) + 1) /\ \A i \in 1 .. Len(q) : r[i] = q[i]
      /\ r[Len(q) + 1] = x
  BY <1>1, AppendProperties
<1>3. SeqRange(q) \cup {x} \subseteq SeqRange(r)
  BY <1>2 DEF SeqRange
<1>4. ASSUME NEW y \in SeqRange(r)
      PROVE  y \in SeqRange(q) \cup {x}
  <2>1. PICK i \in 1 .. (Len(q) + 1) : y = r[i]
    BY <1>2, <1>4 DEF SeqRange
  <2>2. i = Len(q) + 1 \/ i \in 1 .. Len(q)
    BY <1>2
  <2> QED BY <1>2, <2>1, <2>2 DEF SeqRange
<1> QED BY <1>1, <1>2, <1>3, <1>4

(* A joined sequence holds the elements of both. *)
LEMMA RangeConcat ==
    ASSUME NEW S, NEW q \in Seq(S), NEW r \in Seq(S)
    PROVE  /\ SeqRange(q \o r) = SeqRange(q) \cup SeqRange(r)
           /\ q \o r \in Seq(S) /\ Len(q \o r) = Len(q) + Len(r)
           /\ Len(q) \in Nat /\ Len(r) \in Nat
<1>1. PICK s \in Seq(S) : s = q \o r
  BY ConcatProperties
<1>2. /\ Len(q) \in Nat /\ Len(r) \in Nat /\ Len(s) = Len(q) + Len(r)
      /\ DOMAIN q = 1 .. Len(q) /\ DOMAIN r = 1 .. Len(r) /\ DOMAIN s = 1 .. (Len(q) + Len(r))
      /\ \A i \in 1 .. Len(q) : s[i] = q[i]
      /\ \A i \in 1 .. Len(r) : s[i + Len(q)] = r[i]
  BY <1>1
<1>3. SeqRange(q) \subseteq SeqRange(s)
  BY <1>2 DEF SeqRange
<1>4. SeqRange(r) \subseteq SeqRange(s)
  BY <1>2 DEF SeqRange
<1>5. ASSUME NEW y \in SeqRange(s)
      PROVE  y \in SeqRange(q) \cup SeqRange(r)
  <2>1. PICK i \in 1 .. (Len(q) + Len(r)) : y = s[i]
    BY <1>2, <1>5 DEF SeqRange
  <2>2. CASE i \in 1 .. Len(q)
    BY <1>2, <2>1, <2>2 DEF SeqRange
  <2>3. CASE i > Len(q)
    <3>1. i - Len(q) \in 1 .. Len(r) /\ s[(i - Len(q)) + Len(q)] = r[i - Len(q)]
      BY <1>2, <2>1, <2>3
    <3>2. (i - Len(q)) + Len(q) = i
      BY <1>2, <2>1
    <3> QED BY <1>2, <2>1, <3>1, <3>2 DEF SeqRange
  <2> QED BY <1>2, <2>1, <2>2, <2>3
<1> QED BY <1>1, <1>2, <1>3, <1>4, <1>5

(* The queue's operations, field by field. *)
LEMMA PoppedFields ==
    ASSUME TypeOK, NEW k \in QueueKinds, Pops(k)
    PROVE  /\ Popped(k) \in QueueType /\ queue[k] # <<>>
           /\ Popped(k)[k] = Tail(queue[k])
           /\ \A j \in QueueKinds \ {k} : Popped(k)[j] = queue[j]
           /\ processed'[k] = processed[k] + 1
           /\ \A j \in QueueKinds \ {k} : processed'[j] = processed[j]
<1>1. Popped(k) \in QueueType /\ queue[k] # <<>>
  BY PoppedType DEF Pops
<1>2. processed' = [processed EXCEPT ![k] = @ + 1] /\ processed \in [QueueKinds -> Nat]
  BY DEF Pops, TypeOK
<1>3. DOMAIN queue = QueueKinds
  BY DEF TypeOK, QueueType, QueueKinds
<1>4. Popped(k) = [queue EXCEPT ![k] = Tail(queue[k])]
  BY DEF Popped
<1>5. Popped(k)[k] = Tail(queue[k]) /\ \A j \in QueueKinds \ {k} : Popped(k)[j] = queue[j]
  BY <1>3, <1>4
<1> QED BY <1>1, <1>2, <1>5

(* Taking what is scannable touches the queue of scans only. *)
LEMMA TakenFields ==
    ASSUME NEW q \in QueueType, NEW more
    PROVE  /\ \A j \in QueueKinds \ {"scans"} : TakeScannable(q, more)[j] = q[j]
           /\ TakeScannable(q, more).scans = q.scans \o scannable \o more
<1>1. DOMAIN q = QueueKinds
  BY DEF QueueType, QueueKinds
<1> QED BY <1>1 DEF TakeScannable, QueueKinds

(* Queueing finds touches the queue of validations only. *)
LEMMA FoundFields ==
    ASSUME NEW q \in QueueType, NEW finds
    PROVE  /\ \A j \in QueueKinds \ {"validations"} :
                 [q EXCEPT !.validations = @ \o finds][j] = q[j]
           /\ [q EXCEPT !.validations = @ \o finds].validations = q.validations \o finds
<1>1. DOMAIN q = QueueKinds
  BY DEF QueueType, QueueKinds
<1> QED BY <1>1 DEF QueueKinds

(* A runtime's work is a harvest of each kind, and a walk of its list if  *)
(* that was not walked before the sweep; a local set's is its walk.       *)
LEMMA TakeRuntime ==
    ASSUME NEW q \in QueueType, NEW o \in Runtimes
    PROVE  /\ Schedule(q, o, TRUE).timers = Append(q.timers, o)
           /\ Schedule(q, o, TRUE).io = Append(q.io, o)
           /\ Schedule(q, o, TRUE).queues = Append(q.queues, o)
           /\ Schedule(q, o, TRUE).runtimes = Append(q.runtimes, o)
           /\ Schedule(q, o, TRUE).sets = q.sets
           /\ Schedule(q, o, TRUE).scans = q.scans
           /\ Schedule(q, o, TRUE).validations = q.validations
           /\ Schedule(q, o, FALSE).timers = Append(q.timers, o)
           /\ Schedule(q, o, FALSE).io = Append(q.io, o)
           /\ Schedule(q, o, FALSE).queues = Append(q.queues, o)
           /\ Schedule(q, o, FALSE).runtimes = q.runtimes
           /\ Schedule(q, o, FALSE).sets = q.sets
           /\ Schedule(q, o, FALSE).scans = q.scans
           /\ Schedule(q, o, FALSE).validations = q.validations
  BY DEF Schedule, QueueType

(* A local set's work is the walk of its list. *)
LEMMA TakeSet ==
    ASSUME NEW q \in QueueType, NEW o, o \notin Runtimes
    PROVE  /\ Schedule(q, o, TRUE).timers = q.timers
           /\ Schedule(q, o, TRUE).io = q.io
           /\ Schedule(q, o, TRUE).queues = q.queues
           /\ Schedule(q, o, TRUE).runtimes = q.runtimes
           /\ Schedule(q, o, TRUE).sets = Append(q.sets, o)
           /\ Schedule(q, o, TRUE).scans = q.scans
           /\ Schedule(q, o, TRUE).validations = q.validations
           /\ Schedule(q, o, FALSE).timers = q.timers
           /\ Schedule(q, o, FALSE).io = q.io
           /\ Schedule(q, o, FALSE).queues = q.queues
           /\ Schedule(q, o, FALSE).runtimes = q.runtimes
           /\ Schedule(q, o, FALSE).sets = Append(q.sets, o)
           /\ Schedule(q, o, FALSE).scans = q.scans
           /\ Schedule(q, o, FALSE).validations = q.validations
  BY DEF Schedule, QueueType

(* What a step does to the owners' work: nothing, one item taken off one  *)
(* of its queues, or one owner scheduled.                                 *)
Stays ==
    /\ scheduled' = scheduled
    /\ \A k \in OwnerKinds : queue'[k] = queue[k] /\ processed'[k] = processed[k]

Takes(k) ==
    /\ scheduled' = scheduled
    /\ queue[k] # <<>> /\ queue'[k] = Tail(queue[k]) /\ processed'[k] = processed[k] + 1
    /\ \A j \in OwnerKinds \ {k} : queue'[j] = queue[j] /\ processed'[j] = processed[j]

Adds(o, e) ==
    /\ o \in Owners /\ ~IsExcluded(o) /\ o \notin scheduled
    /\ scheduled' = scheduled \cup {o}
    /\ \A k \in OwnerKinds : processed'[k] = processed[k]
    /\ o \in Runtimes =>
         /\ queue'.timers = Append(queue.timers, o) /\ queue'.io = Append(queue.io, o)
         /\ queue'.queues = Append(queue.queues, o) /\ queue'.sets = queue.sets
         /\ queue'.runtimes = IF e THEN Append(queue.runtimes, o) ELSE queue.runtimes
    /\ o \notin Runtimes =>
         /\ queue'.timers = queue.timers /\ queue'.io = queue.io
         /\ queue'.queues = queue.queues /\ queue'.runtimes = queue.runtimes
         /\ queue'.sets = Append(queue.sets, o)

(* A find whose cell admits nobody new, or the owner it names. *)
LEMMA FreshStep ==
    ASSUME TypeOK, ValidateFresh, NEW t, t = Head(queue.validations).addr
    PROVE  \/ Stays /\ Admits(t) \subseteq scheduled
           \/ Adds(world.cell[t], TRUE) /\ Admits(t) = {world.cell[t]}
<1> DEFINE c == Head(queue.validations)
           r == Observe(rec[t], SourceOf(c), HeaderKind(t), QueueClaim(c))
           new == {o \in Admits(t) : Schedules(o)}
           more == Scannable(t, r)
           q == TakeScannable(Popped("validations"), more)
<1>1. /\ Pops("validations") /\ scheduled' = scheduled \cup new
      /\ queue' = IF new = {} THEN q ELSE Schedule(q, world.cell[t], TRUE)
  BY DEF ValidateFresh
<1>2. /\ Popped("validations") \in QueueType
      /\ \A k \in OwnerKinds : Popped("validations")[k] = queue[k] /\ processed'[k] = processed[k]
  BY <1>1, PoppedFields DEF QueueKinds, OwnerKinds
<1>3. t \in Tasks /\ more \in Seq(Tasks)
  <2>1. t \in Tasks
    BY <1>1, PoppedCandidate
  <2> QED BY <2>1, ScannableType
<1>4. q \in QueueType /\ \A k \in OwnerKinds : q[k] = queue[k]
  <2>1. q \in QueueType
    BY <1>2, <1>3, TakeScannableType
  <2>2. \A k \in QueueKinds \ {"scans"} : q[k] = Popped("validations")[k]
    BY <1>2, TakenFields
  <2> QED BY <1>2, <2>1, <2>2 DEF QueueKinds, OwnerKinds
<1>5. \A o \in Admits(t) : o \in Owners /\ o = world.cell[t] /\ ~IsExcluded(o)
  BY DEF Admits, CellOwner
<1>6. \A o \in Admits(t) : o \in new \/ o \in scheduled
  BY <1>5 DEF Schedules
<1>7. \A o \in new : o \in Admits(t) /\ o \notin scheduled
  BY DEF Schedules
<1> HIDE DEF q, more, new
<1>8. CASE new = {}
  BY <1>1, <1>2, <1>4, <1>6, <1>8 DEF Stays
<1>9. CASE new # {}
  <2>1. PICK o \in new : TRUE
    BY <1>9
  <2>2. /\ o = world.cell[t] /\ o \in Owners /\ ~IsExcluded(o) /\ o \notin scheduled
        /\ Admits(t) = {o} /\ new = {o}
    BY <1>5, <1>7, <2>1
  <2>3. queue' = Schedule(q, o, TRUE) /\ scheduled' = scheduled \cup {o}
    BY <1>1, <1>9, <2>2
  <2>4. /\ q.timers = queue.timers /\ q.io = queue.io /\ q.queues = queue.queues
        /\ q.runtimes = queue.runtimes /\ q.sets = queue.sets
    BY <1>4 DEF OwnerKinds
  <2>5. /\ o \in Runtimes =>
             /\ queue'.timers = Append(q.timers, o) /\ queue'.io = Append(q.io, o)
             /\ queue'.queues = Append(q.queues, o) /\ queue'.sets = q.sets
             /\ queue'.runtimes = Append(q.runtimes, o)
        /\ o \notin Runtimes =>
             /\ queue'.timers = q.timers /\ queue'.io = q.io
             /\ queue'.queues = q.queues /\ queue'.runtimes = q.runtimes
             /\ queue'.sets = Append(q.sets, o)
    <3>1. CASE o \in Runtimes
      BY <1>4, <2>3, <3>1, TakeRuntime
    <3>2. CASE o \notin Runtimes
      BY <1>4, <2>3, <3>2, TakeSet
    <3> QED BY <3>1, <3>2
  <2>6. Adds(o, TRUE)
    BY <1>2, <2>2, <2>3, <2>4, <2>5 DEF Adds
  <2> QED BY <2>2, <2>6
<1> QED BY <1>8, <1>9

(* Scheduling a root leaves the books alone or adds one owner. *)
LEMMA RootStep ==
    ASSUME TypeOK, ScheduleRoot
    PROVE  \/ Stays /\ ~Schedules(Head(todo))
           \/ Adds(Head(todo), FALSE)
<1>1. CASE ~Schedules(Head(todo))
  BY <1>1 DEF ScheduleRoot, Stays
<1>2. CASE Schedules(Head(todo))
  <2>1. PICK o \in Owners : o = Head(todo)
    BY DEF ScheduleRoot, TypeOK
  <2>2. /\ scheduled' = scheduled \cup {o} /\ queue' = Schedule(queue, o, FALSE)
        /\ processed' = processed
    BY <1>2, <2>1 DEF ScheduleRoot
  <2>3. ~IsExcluded(o) /\ o \notin scheduled /\ queue \in QueueType
    BY <1>2, <2>1 DEF Schedules, TypeOK
  <2>4. /\ o \in Runtimes =>
             /\ queue'.timers = Append(queue.timers, o) /\ queue'.io = Append(queue.io, o)
             /\ queue'.queues = Append(queue.queues, o) /\ queue'.sets = queue.sets
             /\ queue'.runtimes = queue.runtimes
        /\ o \notin Runtimes =>
             /\ queue'.timers = queue.timers /\ queue'.io = queue.io
             /\ queue'.queues = queue.queues /\ queue'.runtimes = queue.runtimes
             /\ queue'.sets = Append(queue.sets, o)
    <3>1. CASE o \in Runtimes
      BY <2>2, <2>3, <3>1, TakeRuntime
    <3>2. CASE o \notin Runtimes
      BY <2>2, <2>3, <3>2, TakeSet
    <3> QED BY <3>1, <3>2
  <2>5. Adds(o, FALSE)
    BY <2>2, <2>3, <2>4 DEF Adds
  <2> QED BY <2>1, <2>5
<1> QED BY <1>1, <1>2

(* A step that pops an item of another kind leaves the owners' work alone. *)
LEMMA PopStays ==
    ASSUME TypeOK, NEW k \in {"validations", "scans"}, Pops(k), NEW more, NEW finds,
           queue' = TakeScannable(Popped(k), more)
             \/ queue' = [Popped(k) EXCEPT !.validations = @ \o finds]
             \/ queue' = Popped(k),
           scheduled' = scheduled
    PROVE  Stays
<1>1. k \in QueueKinds /\ OwnerKinds \subseteq QueueKinds \ {"validations", "scans"}
  BY DEF QueueKinds, OwnerKinds
<1>2. /\ Popped(k) \in QueueType
      /\ \A j \in OwnerKinds : Popped(k)[j] = queue[j] /\ processed'[j] = processed[j]
  BY <1>1, PoppedFields
<1>3. PICK q \in QueueType : q = Popped(k)
  BY <1>2
<1>4. \A j \in OwnerKinds : TakeScannable(q, more)[j] = q[j]
  BY <1>1, TakenFields
<1>5. \A j \in OwnerKinds : [q EXCEPT !.validations = @ \o finds][j] = q[j]
  BY <1>1, FoundFields
<1> QED BY <1>2, <1>3, <1>4, <1>5 DEF Stays

(* A harvest takes one item of its kind. *)
LEMMA HarvestTakes ==
    ASSUME TypeOK, NEW k \in {"timers", "io", "queues"}, NEW found, NEW route,
           Harvest(k, found, route)
    PROVE  Takes(k)
<1>1. k \in QueueKinds /\ OwnerKinds \subseteq QueueKinds \ {"validations", "scans"} /\ k \in OwnerKinds
  BY DEF QueueKinds, OwnerKinds
<1> DEFINE finds == Candidates(found[HandleOf[Head(queue[k])]], route, Head(queue[k]))
<1>2. Pops(k) /\ scheduled' = scheduled /\ queue' = [Popped(k) EXCEPT !.validations = @ \o finds]
  BY DEF Harvest
<1>3. /\ Popped(k) \in QueueType /\ queue[k] # <<>> /\ Popped(k)[k] = Tail(queue[k])
      /\ processed'[k] = processed[k] + 1
      /\ \A j \in OwnerKinds \ {k} : Popped(k)[j] = queue[j] /\ processed'[j] = processed[j]
  BY <1>1, <1>2, PoppedFields
<1>4. PICK q \in QueueType : q = Popped(k)
  BY <1>3
<1> HIDE DEF finds
<1>5. \A j \in OwnerKinds : [q EXCEPT !.validations = @ \o finds][j] = q[j]
  <2>1. \A j \in QueueKinds \ {"validations"} : [q EXCEPT !.validations = @ \o finds][j] = q[j]
    BY FoundFields
  <2> QED BY <1>1, <2>1
<1>6. \A j \in OwnerKinds : queue'[j] = q[j]
  BY <1>2, <1>4, <1>5
<1>7. \A j \in OwnerKinds \ {k} : queue'[j] = queue[j] /\ processed'[j] = processed[j]
  BY <1>3, <1>4, <1>6
<1>8. queue'[k] = Tail(queue[k])
  BY <1>1, <1>3, <1>4, <1>6
<1> QED BY <1>2, <1>3, <1>7, <1>8 DEF Takes

(* Every step does one of these to the owners' work. *)
LEMMA OwnersStep ==
    ASSUME TypeOK, [Next]_vars
    PROVE  \/ Stays
           \/ EnumerateRuntime /\ Takes("runtimes")
           \/ EnumerateLocalSet /\ Takes("sets")
           \/ HarvestTimers /\ Takes("timers")
           \/ HarvestIo /\ Takes("io")
           \/ HarvestBlockingQueue /\ Takes("queues")
           \/ ValidateFresh /\ \E t : /\ t = Head(queue.validations).addr
                                      /\ Adds(world.cell[t], TRUE)
                                      /\ Admits(t) = {world.cell[t]}
           \/ ScheduleRoot /\ Adds(Head(todo), FALSE)
<1>0. queue \in QueueType /\ OwnerKinds \subseteq QueueKinds \ {"validations", "scans"}
  BY DEF TypeOK, QueueKinds, OwnerKinds
<1>1. CASE scheduled' = scheduled /\ queue' = queue /\ processed' = processed
  BY <1>1 DEF Stays
<1>2. ASSUME scheduled' = scheduled, queue' = TakeScannable(queue, <<>>), processed' = processed
      PROVE  Stays
  BY <1>0, <1>2, TakenFields DEF Stays
<1>3. CASE ValidateKnown
  BY <1>3, PopStays DEF ValidateKnown
<1>4. CASE ValidateFails
  BY <1>4, PopStays DEF ValidateFails
<1>5. CASE ScanTask
  BY <1>5, PopStays DEF ScanTask
<1>6. CASE EnumerateRuntime
  <2>1. "runtimes" \in QueueKinds /\ "runtimes" \in OwnerKinds
    BY DEF QueueKinds, OwnerKinds
  <2> QED BY <1>0, <1>6, <2>1, PoppedFields DEF EnumerateRuntime, Takes
<1>7. CASE EnumerateLocalSet
  <2>1. "sets" \in QueueKinds /\ "sets" \in OwnerKinds
    BY DEF QueueKinds, OwnerKinds
  <2> QED BY <1>0, <1>7, <2>1, PoppedFields DEF EnumerateLocalSet, Takes
<1>8. CASE HarvestTimers \/ HarvestIo \/ HarvestBlockingQueue
  BY <1>8, HarvestTakes DEF HarvestTimers, HarvestIo, HarvestBlockingQueue
<1>9. CASE ValidateFresh
  BY <1>9, FreshStep
<1>10. CASE ScheduleRoot
  BY <1>10, RootStep
<1>11. CASE EndWalk
  BY <1>1, <1>2, <1>11 DEF EndWalk
<1>12. CASE StartSweep
  BY <1>2, <1>12 DEF StartSweep
<1> QED
  BY <1>1, <1>3, <1>4, <1>5, <1>6, <1>7, <1>8, <1>9, <1>10, <1>11, <1>12
  DEF Next, Walk, Prepare, Sweep, Terminated, vars, work, WalkNode, WalkFails, NextShard,
      EnumerateRoot, EndEnumerate, ProbeTls, EndProbe, Finish

-----------------------------------------------------------------------------
(* What a step does to the store.                                          *)

(* A record takes the kind its source shows, and from its birth the one    *)
(* its header shows.                                                       *)
Kinded(t, s) ==
    \/ rec'[t].kinds = rec[t].kinds \cup SourceKind(s) \cup HeaderKind(t)
    \/ rec[t].sources # {} /\ rec'[t].kinds = rec[t].kinds \cup SourceKind(s)

(* The record at t is observed along s, with the claims C. *)
Files(t, s, C) ==
    /\ t \in Tasks /\ s \in Source
    /\ \A u \in Tasks \ {t} : rec'[u] = rec[u]
    /\ rec'[t].sources = IF Omits(rec[t], s) THEN rec[t].sources ELSE rec[t].sources \cup {s}
    /\ rec'[t].claims = rec[t].claims \cup C
    /\ rec'[t].scanned = rec[t].scanned
    /\ rec'[t].inScope = rec[t].inScope
    /\ Kinded(t, s)

(* The record at t is marked scanned. *)
Marks(t) ==
    /\ t \in Tasks
    /\ \A u \in Tasks \ {t} : rec'[u] = rec[u]
    /\ rec'[t].sources = rec[t].sources /\ rec'[t].claims = rec[t].claims
    /\ rec'[t].scanned = TRUE /\ rec'[t].inScope = rec[t].inScope
    /\ rec'[t].kinds = rec[t].kinds

(* The records keep what they hold, but for their place in the scope. *)
Rescopes ==
    \A t \in Tasks : /\ rec'[t].sources = rec[t].sources /\ rec'[t].claims = rec[t].claims
                     /\ rec'[t].scanned = rec[t].scanned /\ rec'[t].kinds = rec[t].kinds

ListSource == [route |-> "list", at |-> walk.owner, nth |-> 0]

(* The walk files the node it reads. *)
LEMMA WalkNodeFiles ==
    ASSUME TypeOK, WalkNode
    PROVE  Files(walk.at, ListSource, ListClaim(walk.owner, walk.at))
<1>1. PICK t \in Tasks : t = walk.at
  BY DEF WalkNode, NodeReads
<1>2. PICK o \in Owners : o = walk.owner
  BY DEF WalkNode, TypeOK, WalkState, Walking
<1>3. PICK s \in Source : s = ListSource /\ s = [route |-> "list", at |-> o, nth |-> 0]
  BY <1>2 DEF Source, Routes, Nodes, ListSource
<1>4. rec[t] \in Record /\ rec \in [Tasks -> Record] /\ rec' = [rec EXCEPT ![t] = ObserveListed(o, t)]
  BY <1>1, <1>2 DEF TypeOK, WalkNode
<1>5. PICK n \in Record : n = Observe(rec[t], s, HeaderKind(t), ListClaim(o, t))
  BY <1>4, ObserveType, HeaderKindType, ListClaimType
<1>6. /\ n.sources = IF Omits(rec[t], s) THEN rec[t].sources ELSE rec[t].sources \cup {s}
      /\ n.claims = rec[t].claims \cup ListClaim(o, t) /\ n.scanned = rec[t].scanned
      /\ n.inScope = rec[t].inScope /\ n.kinds = rec[t].kinds \cup SourceKind(s) \cup HeaderKind(t)
  BY <1>4, <1>5 DEF Observe, Record
<1>7. ObserveListed(o, t) = [n EXCEPT !.mismatches = @ \cup ListMismatch(o, t)]
  BY <1>3, <1>5 DEF ObserveListed
<1>8. /\ rec'[t].sources = n.sources /\ rec'[t].claims = n.claims
      /\ rec'[t].scanned = n.scanned /\ rec'[t].inScope = n.inScope /\ rec'[t].kinds = n.kinds
  BY <1>4, <1>7 DEF Record
<1>9. \A u \in Tasks \ {t} : rec'[u] = rec[u]
  BY <1>4
<1> QED BY <1>1, <1>2, <1>3, <1>6, <1>8, <1>9 DEF Files, Kinded

(* A validated find is filed where it points. *)
LEMMA KnownFiles ==
    ASSUME TypeOK, ValidateKnown, NEW c, c = Head(queue.validations)
    PROVE  Files(c.addr, SourceOf(c), QueueClaim(c))
<1>1. c.addr \in Tasks /\ SourceOf(c) \in Source /\ QueueClaim(c) \in SUBSET Claim
  BY PoppedCandidate DEF ValidateKnown
<1>2. PICK t \in Tasks : t = c.addr
  BY <1>1
<1>3. /\ rec \in [Tasks -> Record] /\ rec[t] \in Record
      /\ rec' = [rec EXCEPT ![t] = Observe(rec[t], SourceOf(c), {}, QueueClaim(c))]
  BY <1>2 DEF TypeOK, ValidateKnown
<1>4. PICK n : n = Observe(rec[t], SourceOf(c), {}, QueueClaim(c))
  OBVIOUS
<1>5. /\ n.sources = IF Omits(rec[t], SourceOf(c)) THEN rec[t].sources
                     ELSE rec[t].sources \cup {SourceOf(c)}
      /\ n.claims = rec[t].claims \cup QueueClaim(c) /\ n.scanned = rec[t].scanned
      /\ n.inScope = rec[t].inScope /\ n.kinds = rec[t].kinds \cup SourceKind(SourceOf(c))
  BY <1>3, <1>4 DEF Observe, Record
<1>6. rec'[t] = n /\ \A u \in Tasks \ {t} : rec'[u] = rec[u]
  BY <1>3, <1>4
<1>7. rec[t].sources # {}
  BY <1>2 DEF ValidateKnown, Known
<1> QED BY <1>1, <1>2, <1>5, <1>6, <1>7 DEF Files, Kinded

(* A decoded find brings its cell's claim too. *)
LEMMA FreshFiles ==
    ASSUME TypeOK, ValidateFresh, NEW c, c = Head(queue.validations)
    PROVE  Files(c.addr, SourceOf(c), QueueClaim(c) \cup CellClaim(c.addr))
<1>1. c.addr \in Tasks /\ SourceOf(c) \in Source /\ QueueClaim(c) \in SUBSET Claim
  BY PoppedCandidate DEF ValidateFresh
<1>2. PICK t \in Tasks : t = c.addr
  BY <1>1
<1>3. rec \in [Tasks -> Record] /\ rec[t] \in Record
  BY <1>2 DEF TypeOK
<1>4. PICK n \in Record : n = Observe(rec[t], SourceOf(c), HeaderKind(t), QueueClaim(c))
  BY <1>1, <1>3, ObserveType, HeaderKindType
<1>5. rec' = [rec EXCEPT ![t] = [n EXCEPT !.claims = @ \cup CellClaim(t),
                                          !.mismatches = @ \cup CellMismatch(t)]]
  BY <1>2, <1>4 DEF ValidateFresh
<1>6. /\ n.sources = IF Omits(rec[t], SourceOf(c)) THEN rec[t].sources
                     ELSE rec[t].sources \cup {SourceOf(c)}
      /\ n.claims = rec[t].claims \cup QueueClaim(c) /\ n.scanned = rec[t].scanned
      /\ n.inScope = rec[t].inScope
      /\ n.kinds = rec[t].kinds \cup SourceKind(SourceOf(c)) \cup HeaderKind(t)
  BY <1>3, <1>4 DEF Observe, Record
<1>7. /\ rec'[t].sources = n.sources /\ rec'[t].claims = n.claims \cup CellClaim(t)
      /\ rec'[t].scanned = n.scanned /\ rec'[t].inScope = n.inScope /\ rec'[t].kinds = n.kinds
  BY <1>3, <1>5 DEF Record
<1>8. \A u \in Tasks \ {t} : rec'[u] = rec[u]
  BY <1>3, <1>5
<1> QED BY <1>1, <1>2, <1>6, <1>7, <1>8 DEF Files, Kinded

(* A scan marks its task, unless an excluded runtime owns it. *)
LEMMA ScanMarks ==
    ASSUME TypeOK, ScanTask
    PROVE  /\ ~WalkNode /\ ~ValidateKnown /\ ~ValidateFresh /\ ~Finish
           /\ \/ rec' = rec
              \/ Marks(Head(queue.scans)) /\ ~ExcludedOwned(rec[Head(queue.scans)])
<1>1. ~WalkNode /\ ~ValidateKnown /\ ~ValidateFresh /\ ~Finish
  <2>1. "scans" \in QueueKinds /\ "scans" # "validations"
    BY DEF QueueKinds
  <2>2. processed'.scans = processed.scans + 1 /\ processed.scans \in Nat
    BY <2>1, PoppedFields DEF ScanTask, TypeOK
  <2>3. ASSUME ValidateKnown \/ ValidateFresh PROVE processed'.scans = processed.scans
    BY <2>1, <2>3, PoppedFields DEF ValidateKnown, ValidateFresh, QueueKinds
  <2> QED BY <2>2, <2>3 DEF WalkNode, Finish, work
<1>2. PICK t \in Tasks : t = Head(queue.scans)
  BY DEF ScanTask, Pops, TypeOK, QueueType
<1>3. /\ rec \in [Tasks -> Record] /\ rec[t] \in Record
      /\ \/ rec' = rec
         \/ /\ ~ExcludedOwned(rec[t])
            /\ rec' = [rec EXCEPT ![t] = [rec[t] EXCEPT !.scanned = TRUE]]
  BY <1>2 DEF ScanTask, TypeOK
<1>4. ASSUME rec' = [rec EXCEPT ![t] = [rec[t] EXCEPT !.scanned = TRUE]]
      PROVE  Marks(t)
  BY <1>3, <1>4 DEF Marks, Record
<1> QED BY <1>1, <1>2, <1>3, <1>4

(* The end of the sweep changes only who is in the scope. *)
LEMMA FinishRescopes ==
    ASSUME TypeOK, Finish
    PROVE  Rescopes
<1>1. ASSUME NEW t \in Tasks
      PROVE  /\ rec'[t].sources = rec[t].sources /\ rec'[t].claims = rec[t].claims
             /\ rec'[t].scanned = rec[t].scanned /\ rec'[t].kinds = rec[t].kinds
  <2>1. rec[t] \in Record
    BY DEF TypeOK
  <2>2. PICK b : b = (t \in Scope)
    OBVIOUS
  <2>3. rec'[t] = rec[t] \/ rec'[t] = [rec[t] EXCEPT !.inScope = b]
    BY <2>2 DEF Finish
  <2> QED BY <2>1, <2>3 DEF Record
<1> QED BY <1>1 DEF Rescopes

(* Every step does one of these to the store. *)
LEMMA RecordMoves ==
    ASSUME TypeOK, [Next]_vars
    PROVE  \/ rec' = rec /\ ~WalkNode /\ ~ValidateKnown /\ ~ValidateFresh /\ ~Finish
           \/ WalkNode /\ Files(walk.at, ListSource, ListClaim(walk.owner, walk.at))
           \/ ValidateKnown /\ \E c : c = Head(queue.validations)
                                      /\ Files(c.addr, SourceOf(c), QueueClaim(c))
           \/ ValidateFresh /\ \E c : c = Head(queue.validations)
                                 /\ Files(c.addr, SourceOf(c), QueueClaim(c) \cup CellClaim(c.addr))
           \/ ScanTask /\ Marks(Head(queue.scans)) /\ ~ExcludedOwned(rec[Head(queue.scans)])
           \/ Finish /\ Rescopes
<1>1. CASE WalkNode
  BY <1>1, WalkNodeFiles
<1>2. CASE ValidateKnown
  BY <1>2, KnownFiles
<1>3. CASE ValidateFresh
  BY <1>3, FreshFiles
<1>4. CASE ScanTask
  BY <1>4, ScanMarks
<1>5. CASE Finish
  BY <1>5, FinishRescopes
<1> QED
  BY <1>1, <1>2, <1>3, <1>4, <1>5
  DEF Next, Walk, Prepare, Sweep, Terminated, vars, store, WalkFails, NextShard,
      EndWalk, EnumerateRoot, EndEnumerate, ProbeTls, EndProbe, ScheduleRoot,
      StartSweep, ValidateFails, EnumerateRuntime, EnumerateLocalSet, ScanTask,
      Harvest, HarvestTimers, HarvestIo, HarvestBlockingQueue

-----------------------------------------------------------------------------
(* What a step does to the finds.                                          *)

(* Where a harvest looks, and what it finds there; what a scan finds. *)
HarvestKinds == {"timers", "io", "queues"}

Registry(k) ==
    CASE k = "timers" -> world.timers [] k = "io" -> world.io [] k = "queues" -> world.pool

RouteOf(k) == CASE k = "timers" -> "timers" [] k = "io" -> "io" [] k = "queues" -> "queue"

FoundBy(k, o) == Candidates(Registry(k)[HandleOf[o]], RouteOf(k), o)

FoundIn(t) == Candidates(world.refs[t], "scan", t)

(* Finds of one origin are queued: of a task's storage just scanned, or of *)
(* the head of one of the queues of harvests.                              *)
Finds(from, finds) ==
    /\ foundFrom' = foundFrom
    /\ finds \in Seq(Candidate) /\ \A c \in SeqRange(finds) : c.from = from
    /\ queue'.validations = queue.validations \o finds

(* A harvest queues its registry's or its pool's finds. *)
LEMMA HarvestFinds ==
    ASSUME TypeOK, NEW k \in HarvestKinds, Harvest(k, Registry(k), RouteOf(k))
    PROVE  Finds(Head(queue[k]), FoundBy(k, Head(queue[k]))) /\ queue[k] # <<>>
<1>0. PICK found \in [Handles -> Seq(Tasks)], route \in {"timers", "io", "queue"} :
        found = Registry(k) /\ route = RouteOf(k)
  <2>1. /\ world.timers \in [Handles -> Seq(Tasks)] /\ world.io \in [Handles -> Seq(Tasks)]
        /\ world.pool \in [Handles -> Seq(Tasks)]
    BY DEF TypeOK, WorldType
  <2>2. Registry(k) \in [Handles -> Seq(Tasks)]
    BY <2>1 DEF HarvestKinds, Registry
  <2>3. RouteOf(k) \in {"timers", "io", "queue"}
    BY DEF HarvestKinds, RouteOf
  <2> QED BY <2>2, <2>3
<1>1. k \in QueueKinds /\ queue[k] # <<>> /\ queue[k] \in Seq(Runtimes)
  BY DEF QueueKinds, Harvest, Pops, TypeOK, QueueType, HarvestKinds
<1>2. PICK o \in Runtimes : o = Head(queue[k])
  BY <1>1
<1>3. HandleOf[o] \in Handles
  BY ConstantsAssumption
<1>4. PICK list \in Seq(Tasks) : list = found[HandleOf[o]]
  BY <1>3
<1>5. PICK finds \in Seq(Candidate) : finds = Candidates(list, route, o)
  BY CandidatesType
<1>6. PICK q \in QueueType : q = Popped(k)
  BY <1>1, PoppedType
<1>7. q.validations = queue.validations
  <2>1. Pops(k)
    BY DEF Harvest
  <2>2. "validations" \in QueueKinds \ {k}
    BY DEF QueueKinds, HarvestKinds
  <2> QED BY <1>1, <1>6, <2>1, <2>2, PoppedFields
<1>8. queue' = [q EXCEPT !.validations = @ \o finds] /\ foundFrom' = foundFrom
  BY <1>0, <1>2, <1>4, <1>5, <1>6 DEF Harvest
<1>9. queue'.validations = queue.validations \o finds
  BY <1>7, <1>8, FoundFields
<1>10. \A c \in SeqRange(finds) : c.from = o
  BY <1>5 DEF SeqRange, Candidates
<1>11. finds = FoundBy(k, o)
  BY <1>0, <1>4, <1>5 DEF FoundBy
<1> QED BY <1>1, <1>2, <1>8, <1>9, <1>10, <1>11 DEF Finds

(* A scan queues its storage's finds. *)
LEMMA ScanFinds ==
    ASSUME TypeOK, ScanTask
    PROVE  \/ queue'.validations = queue.validations /\ foundFrom' = foundFrom /\ rec' = rec
           \/ /\ Finds(Head(queue.scans), FoundIn(Head(queue.scans)))
              /\ ~ExcludedOwned(rec[Head(queue.scans)])
              /\ rec' = [rec EXCEPT ![Head(queue.scans)] =
                           [rec[Head(queue.scans)] EXCEPT !.scanned = TRUE]]
<1>1. "scans" \in QueueKinds /\ queue.scans # <<>> /\ queue.scans \in Seq(Tasks) /\ Pops("scans")
  BY DEF QueueKinds, ScanTask, Pops, TypeOK, QueueType
<1>2. PICK t \in Tasks : t = Head(queue.scans)
  BY <1>1
<1>3. PICK list \in Seq(Tasks) : list = world.refs[t]
  BY DEF TypeOK, WorldType
<1>4. PICK finds \in Seq(Candidate) : finds = Candidates(list, "scan", t)
  BY CandidatesType
<1>5. PICK q \in QueueType : q = Popped("scans")
  BY <1>1, PoppedType
<1>6. q.validations = queue.validations
  BY <1>1, <1>5, PoppedFields DEF QueueKinds
<1>7. /\ foundFrom' = foundFrom
      /\ \/ queue' = q /\ rec' = rec
         \/ /\ ~ExcludedOwned(rec[t]) /\ queue' = [q EXCEPT !.validations = @ \o finds]
            /\ rec' = [rec EXCEPT ![t] = [rec[t] EXCEPT !.scanned = TRUE]]
  BY <1>2, <1>3, <1>4, <1>5 DEF ScanTask
<1>8. [q EXCEPT !.validations = @ \o finds].validations = queue.validations \o finds
  BY <1>6, FoundFields
<1>9. CASE queue' = q /\ rec' = rec
  BY <1>6, <1>7, <1>9
<1>10. CASE queue' = [q EXCEPT !.validations = @ \o finds] /\ ~ExcludedOwned(rec[t])
            /\ rec' = [rec EXCEPT ![t] = [rec[t] EXCEPT !.scanned = TRUE]]
  <2>1. finds = FoundIn(t) /\ \A c \in SeqRange(finds) : c.from = t
    BY <1>3, <1>4 DEF FoundIn, SeqRange, Candidates
  <2>2. Finds(t, FoundIn(t))
    BY <1>7, <1>8, <1>10, <2>1 DEF Finds
  <2> QED BY <1>2, <1>10, <2>2
<1> QED BY <1>7, <1>9, <1>10

(* A validation takes the first find, and files where it came from. *)
ValidateTakes ==
    /\ queue.validations # <<>> /\ queue'.validations = Tail(queue.validations)
    /\ \/ ValidateFails /\ foundFrom' = foundFrom /\ ~ValidateKnown /\ ~ValidateFresh
       \/ /\ ValidateKnown \/ ValidateFresh
          /\ \E c : /\ c = Head(queue.validations) /\ c \in Candidate
                    /\ foundFrom' = foundFrom \cup {<<c.from, c.addr>>}

(* Every outcome of a validation takes its candidate and marks or files it. *)
LEMMA ValidationTakes ==
    ASSUME TypeOK, ValidateKnown \/ ValidateFresh \/ ValidateFails
    PROVE  ValidateTakes
<1>1. "validations" \in QueueKinds /\ queue.validations # <<>> /\ Pops("validations")
  BY DEF QueueKinds, ValidateKnown, ValidateFresh, ValidateFails, Pops
<1>2. PICK c : c = Head(queue.validations)
  OBVIOUS
<1>3. c \in Candidate /\ c.addr \in Tasks
  BY <1>1, <1>2, PoppedCandidate
<1>4. PICK q \in QueueType : q = Popped("validations")
  BY <1>1, PoppedType
<1>5. q.validations = Tail(queue.validations)
  BY <1>1, <1>4, PoppedFields
<1>6. \A more : TakeScannable(q, more).validations = q.validations
  BY TakenFields DEF QueueKinds
<1>7. queue'.validations = q.validations
  <2>1. CASE ValidateKnown
    BY <1>4, <1>6, <2>1 DEF ValidateKnown
  <2>2. CASE ValidateFails
    BY <1>4, <1>6, <2>2 DEF ValidateFails
  <2>3. CASE ValidateFresh
    <3>1. PICK more \in Seq(Tasks) : /\ queue' = TakeScannable(q, more)
                                        \/ queue' = Schedule(TakeScannable(q, more), world.cell[c.addr], TRUE)
      <4> DEFINE r == Observe(rec[c.addr], SourceOf(c), HeaderKind(c.addr), QueueClaim(c))
      <4>1. Scannable(c.addr, r) \in Seq(Tasks)
        BY <1>3, ScannableType
      <4>2. \/ queue' = TakeScannable(q, Scannable(c.addr, r))
            \/ queue' = Schedule(TakeScannable(q, Scannable(c.addr, r)), world.cell[c.addr], TRUE)
        BY <1>2, <1>4, <2>3 DEF ValidateFresh
      <4> QED BY <4>1, <4>2
    <3>2. PICK p \in QueueType : p = TakeScannable(q, more)
      BY TakeScannableType
    <3>3. Schedule(p, world.cell[c.addr], TRUE).validations = p.validations
      BY TakeRuntime, TakeSet
    <3> QED BY <1>6, <3>1, <3>2, <3>3
  <2> QED BY <2>1, <2>2, <2>3
<1>8. CASE ValidateKnown \/ ValidateFresh
  <2>1. foundFrom' = foundFrom \cup {<<c.from, c.addr>>}
    BY <1>2, <1>8 DEF ValidateKnown, ValidateFresh, Filed
  <2> QED BY <1>1, <1>2, <1>3, <1>5, <1>7, <1>8, <2>1 DEF ValidateTakes
<1>9. CASE ~ValidateKnown /\ ~ValidateFresh
  BY <1>1, <1>5, <1>7, <1>9 DEF ValidateTakes, ValidateFails
<1> QED BY <1>8, <1>9

(* Every step does one of these to the finds. *)
LEMMA FindsMoves ==
    ASSUME TypeOK, [Next]_vars
    PROVE  \/ /\ queue'.validations = queue.validations /\ foundFrom' = foundFrom
              /\ ~ValidateKnown /\ ~ValidateFresh
           \/ ValidateTakes
           \/ /\ ScanTask /\ Finds(Head(queue.scans), FoundIn(Head(queue.scans)))
              /\ ~ExcludedOwned(rec[Head(queue.scans)])
              /\ rec' = [rec EXCEPT ![Head(queue.scans)] =
                           [rec[Head(queue.scans)] EXCEPT !.scanned = TRUE]]
           \/ \E k \in HarvestKinds : /\ queue[k] # <<>> /\ Takes(k)
                                     /\ Finds(Head(queue[k]), FoundBy(k, Head(queue[k])))
<1>0. queue \in QueueType
  BY DEF TypeOK
<1>1. CASE ValidateKnown \/ ValidateFresh \/ ValidateFails
  BY <1>1, ValidationTakes
<1> SUFFICES ASSUME ~ValidateKnown, ~ValidateFresh, ~ValidateFails
             PROVE  \/ queue'.validations = queue.validations /\ foundFrom' = foundFrom
                    \/ /\ ScanTask /\ Finds(Head(queue.scans), FoundIn(Head(queue.scans)))
                       /\ ~ExcludedOwned(rec[Head(queue.scans)])
                       /\ rec' = [rec EXCEPT ![Head(queue.scans)] =
                                    [rec[Head(queue.scans)] EXCEPT !.scanned = TRUE]]
                    \/ \E k \in HarvestKinds : /\ queue[k] # <<>> /\ Takes(k)
                                     /\ Finds(Head(queue[k]), FoundBy(k, Head(queue[k])))
  BY <1>1
<1>2. CASE ScanTask
  BY <1>2, ScanFinds
<1>3. CASE HarvestTimers \/ HarvestIo \/ HarvestBlockingQueue
  <2>1. PICK k \in HarvestKinds : Harvest(k, Registry(k), RouteOf(k))
    BY <1>3 DEF HarvestTimers, HarvestIo, HarvestBlockingQueue, HarvestKinds, Registry, RouteOf
  <2> QED BY <2>1, HarvestFinds, HarvestTakes DEF HarvestKinds
<1>4. CASE queue' = queue /\ foundFrom' = foundFrom
  BY <1>4
<1>5. ASSUME queue' = TakeScannable(queue, <<>>), foundFrom' = foundFrom
      PROVE  queue'.validations = queue.validations
  BY <1>0, <1>5, TakenFields DEF QueueKinds
<1>6. CASE EndWalk
  BY <1>4, <1>5, <1>6 DEF EndWalk
<1>7. CASE StartSweep
  BY <1>5, <1>7 DEF StartSweep
<1>8. CASE ScheduleRoot
  <2>1. Schedule(queue, Head(todo), FALSE).validations = queue.validations
    BY <1>0, TakeRuntime, TakeSet
  <2> QED BY <1>8, <2>1 DEF ScheduleRoot
<1>9. CASE EnumerateRuntime
  <2>1. "runtimes" \in QueueKinds /\ "validations" \in QueueKinds \ {"runtimes"}
    BY DEF QueueKinds
  <2> QED BY <1>9, <2>1, PoppedFields DEF EnumerateRuntime
<1>10. CASE EnumerateLocalSet
  <2>1. "sets" \in QueueKinds /\ "validations" \in QueueKinds \ {"sets"}
    BY DEF QueueKinds
  <2> QED BY <1>10, <2>1, PoppedFields DEF EnumerateLocalSet
<1> QED
  BY <1>2, <1>3, <1>4, <1>6, <1>7, <1>8, <1>9, <1>10
  DEF Next, Walk, Prepare, Sweep, Terminated, vars, work, WalkNode, WalkFails, NextShard,
      EnumerateRoot, EndEnumerate, ProbeTls, EndProbe, Finish

-----------------------------------------------------------------------------
(* Whatever the session is about to read was admitted.                     *)

(* Scans and admissions are for good, and the roots threads reach stay.  *)
LEMMA NothingLeaves ==
    ASSUME TypeOK, [Next]_vars
    PROVE  /\ Scanned \subseteq Scanned' /\ admitted \subseteq admitted' /\ AtStart' = AtStart
           /\ \A t \in Tasks : rec[t].sources \subseteq rec'[t].sources
           /\ \A t \in Tasks : rec[t].claims \subseteq rec'[t].claims
<1>1. \A t \in Tasks : (rec[t].scanned => rec'[t].scanned)
                       /\ rec[t].sources \subseteq rec'[t].sources
                       /\ rec[t].claims \subseteq rec'[t].claims
  BY RecordMoves DEF Files, Marks, Rescopes
<1>2. admitted \subseteq admitted'
  BY DEF Next, Walk, Prepare, Sweep, Terminated, vars, WalkNode, WalkFails,
         NextShard, EndWalk, EnumerateRoot, EndEnumerate, ProbeTls, EndProbe,
         ScheduleRoot, StartSweep, ValidateKnown, ValidateFresh, ValidateFails,
         EnumerateRuntime, EnumerateLocalSet, ScanTask, Harvest,
         HarvestTimers, HarvestIo, HarvestBlockingQueue, Finish
<1>3. AtStart' = AtStart
  BY WorldFixed DEF AtStart
<1> QED BY <1>1, <1>2, <1>3 DEF Scanned

(* The owners' queues hold admitted owners. *)
LEMMA QueuesAdmitted ==
    ASSUME TypeOK, FrontierAdmitted, [Next]_vars
    PROVE  /\ scheduled' \subseteq admitted'
           /\ \A k \in OwnerKinds : SeqRange(queue'[k]) \subseteq admitted'
<1>0. admitted \subseteq admitted'
  BY NothingLeaves
<1>1. \A k \in OwnerKinds : queue[k] \in Seq(Owners) /\ SeqRange(queue[k]) \subseteq admitted
  BY DEF FrontierAdmitted, TypeOK, QueueType, OwnerKinds, Owners
<1>2. scheduled \subseteq admitted
  BY DEF FrontierAdmitted
<1>3. CASE Stays
  BY <1>0, <1>1, <1>2, <1>3 DEF Stays
<1>4. ASSUME NEW k \in OwnerKinds, Takes(k)
      PROVE  /\ scheduled' \subseteq admitted'
             /\ \A j \in OwnerKinds : SeqRange(queue'[j]) \subseteq admitted'
  <2>1. SeqRange(queue'[k]) \subseteq SeqRange(queue[k])
    BY <1>1, <1>4, RangeTail DEF Takes
  <2> QED BY <1>0, <1>1, <1>2, <1>4, <2>1 DEF Takes
<1>5. ASSUME NEW o \in admitted', NEW e \in BOOLEAN, Adds(o, e)
      PROVE  /\ scheduled' \subseteq admitted'
             /\ \A j \in OwnerKinds : SeqRange(queue'[j]) \subseteq admitted'
  <2>1. \A k \in OwnerKinds : SeqRange(Append(queue[k], o)) = SeqRange(queue[k]) \cup {o}
    BY <1>1, <1>5, RangeAppend DEF Adds
  <2>2. \A k \in OwnerKinds : queue'[k] = queue[k] \/ queue'[k] = Append(queue[k], o)
    BY <1>5 DEF Adds, OwnerKinds
  <2> QED BY <1>0, <1>1, <1>2, <1>5, <2>1, <2>2 DEF Adds
<1>6. CASE \E k \in OwnerKinds : Takes(k)
  BY <1>4, <1>6
<1>7. ASSUME ValidateFresh, NEW t, t = Head(queue.validations).addr,
             Adds(world.cell[t], TRUE), Admits(t) = {world.cell[t]}
      PROVE  /\ scheduled' \subseteq admitted'
             /\ \A j \in OwnerKinds : SeqRange(queue'[j]) \subseteq admitted'
  <2>1. admitted' = admitted \cup Admits(t)
    BY <1>7 DEF ValidateFresh
  <2> QED BY <1>5, <1>7, <2>1
<1>8. CASE ScheduleRoot /\ Adds(Head(todo), FALSE)
  <2>1. todo \in Seq(Owners) /\ todo # <<>> /\ SeqRange(todo) \subseteq SeqRange(roots)
    BY <1>8 DEF ScheduleRoot, TypeOK, FrontierAdmitted
  <2>2. Head(todo) \in SeqRange(todo)
    BY <2>1, RangeTail
  <2>3. Head(todo) \in admitted'
    BY <1>0, <2>1, <2>2 DEF FrontierAdmitted
  <2> QED BY <1>5, <1>8, <2>3
<1> QED BY <1>3, <1>6, <1>7, <1>8, OwnersStep DEF OwnerKinds

(* A find comes from an admitted owner or from scanned storage. *)
LEMMA FindsAdmitted ==
    ASSUME TypeOK, FrontierAdmitted, [Next]_vars
    PROVE  /\ \A c \in SeqRange(queue'.validations) : c.from \in admitted' \cup Scanned'
           /\ \A p \in foundFrom' : p[1] \in admitted' \cup Scanned'
<1>0. admitted \subseteq admitted' /\ Scanned \subseteq Scanned'
  BY NothingLeaves
<1>1. queue.validations \in Seq(Candidate)
  BY DEF TypeOK, QueueType
<1>2. /\ \A c \in SeqRange(queue.validations) : c.from \in admitted' \cup Scanned'
      /\ \A p \in foundFrom : p[1] \in admitted' \cup Scanned'
  BY <1>0 DEF FrontierAdmitted
<1>3. CASE ValidateTakes
  <2>1. /\ Head(queue.validations) \in SeqRange(queue.validations)
        /\ SeqRange(queue'.validations) \subseteq SeqRange(queue.validations)
    BY <1>1, <1>3, RangeTail DEF ValidateTakes
  <2> QED BY <1>2, <1>3, <2>1 DEF ValidateTakes
<1>4. ASSUME NEW n, n \in admitted' \cup Scanned', NEW finds, Finds(n, finds)
      PROVE  /\ \A c \in SeqRange(queue'.validations) : c.from \in admitted' \cup Scanned'
             /\ \A p \in foundFrom' : p[1] \in admitted' \cup Scanned'
  <2>1. SeqRange(queue'.validations) = SeqRange(queue.validations) \cup SeqRange(finds)
    BY <1>1, <1>4, RangeConcat DEF Finds
  <2> QED BY <1>2, <1>4, <2>1 DEF Finds
<1>5. ASSUME ScanTask,
             rec' = [rec EXCEPT ![Head(queue.scans)] =
                           [rec[Head(queue.scans)] EXCEPT !.scanned = TRUE]]
      PROVE  Head(queue.scans) \in Scanned'
  <2>1. PICK t \in Tasks : t = Head(queue.scans)
    BY <1>5 DEF ScanTask, Pops, TypeOK, QueueType
  <2>2. rec \in [Tasks -> Record] /\ rec[t] \in Record
    BY DEF TypeOK
  <2>3. rec'[t] = [rec[t] EXCEPT !.scanned = TRUE]
    BY <1>5, <2>1, <2>2
  <2>4. rec'[t].scanned
    BY <2>2, <2>3 DEF Record
  <2> QED BY <2>1, <2>4 DEF Scanned
<1>6. ASSUME NEW k \in HarvestKinds, queue[k] # <<>>
      PROVE  Head(queue[k]) \in admitted'
  <2>1. queue[k] \in Seq(Runtimes) /\ k \in OwnerKinds
    BY DEF TypeOK, QueueType, OwnerKinds, HarvestKinds
  <2> QED BY <1>0, <1>6, <2>1, RangeTail DEF FrontierAdmitted
<1> QED BY <1>2, <1>3, <1>4, <1>5, <1>6, FindsMoves

(* What the phases have yet to take are roots, and roots are admitted. *)
LEMMA RootsAdmitted ==
    ASSUME TypeOK, FrontierAdmitted, [Next]_vars
    PROVE  /\ SeqRange(roots') \subseteq admitted'
           /\ SeqRange(roots') \cap Runtimes \subseteq AtStart
           /\ phase' = "enumerate" => SeqRange(todo') \subseteq AtStart
           /\ phase' = "probe" => SeqRange(todo') \subseteq LocalSets
           /\ phase' = "schedule" => SeqRange(todo') \subseteq SeqRange(roots')
           /\ Walking' => walk'.owner \in admitted'
<1>0. admitted \subseteq admitted' /\ AtStart \subseteq admitted
  BY NothingLeaves DEF FrontierAdmitted
<1>1. todo \in Seq(Owners) /\ roots \in Seq(Owners)
  BY DEF TypeOK
<1>2. todo # <<>> => /\ Head(todo) \in SeqRange(todo) /\ SeqRange(Tail(todo)) \subseteq SeqRange(todo)
                     /\ Head(todo) \in Owners
  BY <1>1, RangeTail
<1>3. CASE EnumerateRoot
  BY <1>0, <1>2, <1>3 DEF EnumerateRoot, FrontierAdmitted, StartWalk, WalkFrom
<1>4. CASE EndEnumerate
  <2>1. world.tls \in Seq(LocalSets)
    BY DEF TypeOK, WorldType
  <2>2. SeqRange(world.tls) \subseteq LocalSets
    BY <2>1 DEF SeqRange
  <2> QED BY <1>0, <1>4, <2>2 DEF EndEnumerate, FrontierAdmitted, Walking
<1>5. CASE ProbeTls
  <2>1. PICK l \in LocalSets : l = Head(todo)
    BY <1>2, <1>5 DEF ProbeTls, FrontierAdmitted
  <2>2. /\ SeqRange(Append(roots, l)) = SeqRange(roots) \cup {l} /\ l \notin Runtimes
    BY <1>1, RangeAppend, ConstantsAssumption DEF Owners
  <2>3. SeqRange(todo') \subseteq SeqRange(todo) /\ walk' = walk /\ phase' = phase /\ phase = "probe"
    BY <1>2, <1>5 DEF ProbeTls
  <2>4. \/ roots' = roots
        \/ roots' = Append(roots, l) /\ l \in admitted'
    BY <1>5, <2>1 DEF ProbeTls
  <2> QED BY <1>0, <2>2, <2>3, <2>4 DEF FrontierAdmitted, Walking
<1>6. CASE EndProbe
  BY <1>0, <1>6 DEF EndProbe, FrontierAdmitted, Walking
<1>7. CASE ScheduleRoot
  BY <1>0, <1>2, <1>7 DEF ScheduleRoot, FrontierAdmitted, Walking
<1>8. CASE StartSweep
  BY <1>0, <1>8 DEF StartSweep, FrontierAdmitted, Walking
<1>9. CASE EnumerateRuntime
  <2>1. "runtimes" \in OwnerKinds /\ queue.runtimes \in Seq(Runtimes) /\ queue.runtimes # <<>>
    BY <1>9 DEF EnumerateRuntime, Pops, TypeOK, QueueType, OwnerKinds
  <2>2. Head(queue.runtimes) \in admitted
    BY <2>1, RangeTail DEF FrontierAdmitted
  <2> QED BY <1>0, <1>9, <2>2 DEF EnumerateRuntime, FrontierAdmitted, StartWalk, WalkFrom, Pops
<1>10. CASE EnumerateLocalSet
  <2>1. "sets" \in OwnerKinds /\ queue.sets \in Seq(LocalSets) /\ queue.sets # <<>>
    BY <1>10 DEF EnumerateLocalSet, Pops, TypeOK, QueueType, OwnerKinds
  <2>2. Head(queue.sets) \in admitted
    BY <2>1, RangeTail DEF FrontierAdmitted
  <2> QED BY <1>0, <1>10, <2>2 DEF EnumerateLocalSet, FrontierAdmitted, StartWalk, WalkFrom, Pops
<1>11. CASE Finish
  BY <1>0, <1>11 DEF Finish, FrontierAdmitted, Walking
<1>12. CASE Walk
  <2>1. walk \in WalkState
    BY DEF TypeOK
  <2>2. Walking' => walk'.owner = walk.owner /\ Walking
    BY <1>12, <2>1 DEF Walk, WalkNode, WalkFails, NextShard, EndWalk, Walking, WalkState
  <2>3. phase' = phase /\ todo' = todo /\ roots' = roots
    BY <1>12 DEF Walk, WalkNode, WalkFails, NextShard, EndWalk
  <2> QED BY <1>0, <2>2, <2>3 DEF FrontierAdmitted
<1>13. CASE phase' = phase /\ todo' = todo /\ roots' = roots /\ walk' = walk
  BY <1>0, <1>13 DEF FrontierAdmitted, Walking
<1> QED
  BY <1>3, <1>4, <1>5, <1>6, <1>7, <1>8, <1>9, <1>10, <1>11, <1>12, <1>13
  DEF Next, Prepare, Sweep, Terminated, vars, ValidateKnown, ValidateFresh,
      ValidateFails, ScanTask, Harvest, HarvestTimers, HarvestIo, HarvestBlockingQueue

(* The frontier stays admitted. *)
LEMMA FrontierAdmittedStep ==
    ASSUME TypeOK, FrontierAdmitted, [Next]_vars
    PROVE  FrontierAdmitted'
<1>1. AtStart' = AtStart /\ AtStart \subseteq admitted'
  BY NothingLeaves DEF FrontierAdmitted
<1> QED BY <1>1, RootsAdmitted, QueuesAdmitted, FindsAdmitted DEF FrontierAdmitted

-----------------------------------------------------------------------------
(* The owners' books.                                                      *)

(* One owner more in a set of owners. *)
LEMMA OneMore ==
    ASSUME NEW S, NEW T, NEW o, IsFiniteSet(S), o \notin S
    PROVE  /\ o \in T => Cardinality((S \cup {o}) \cap T) = Cardinality(S \cap T) + 1
           /\ o \notin T => Cardinality((S \cup {o}) \cap T) = Cardinality(S \cap T)
           /\ IsFiniteSet(S \cup {o}) /\ Cardinality(S \cap T) \in Nat
<1>1. IsFiniteSet(S \cap T) /\ IsFiniteSet(S \cup {o})
  BY FS_Intersection, FS_AddElement
<1>2. CASE o \in T
  <2>1. (S \cup {o}) \cap T = (S \cap T) \cup {o} /\ o \notin S \cap T
    BY <1>2
  <2>2. Cardinality((S \cap T) \cup {o}) = Cardinality(S \cap T) + 1
    BY <1>1, <2>1, FS_AddElement
  <2> QED BY <1>1, <1>2, <2>1, <2>2, FS_CardinalityType
<1>3. CASE o \notin T
  <2>1. (S \cup {o}) \cap T = S \cap T
    BY <1>3
  <2> QED BY <1>1, <1>3, <2>1, FS_CardinalityType
<1> QED BY <1>2, <1>3

(* What was taken and what is queued add up, owner by owner. *)
LEMMA OwnersBookedStep ==
    ASSUME TypeOK, FrontierAdmitted, OwnersBooked, [Next]_vars
    PROVE  OwnersBooked'
<1> DEFINE H == {"timers", "io", "queues"}
<1>0. AtStart' = AtStart
  BY NothingLeaves
<1>1. /\ \A k \in OwnerKinds : /\ queue[k] \in Seq(Owners) /\ Len(queue[k]) \in Nat
                               /\ processed[k] \in Nat
      /\ H \subseteq OwnerKinds /\ "runtimes" \in OwnerKinds \ H /\ "sets" \in OwnerKinds \ H
      /\ "runtimes" \in OwnerKinds /\ "sets" \in OwnerKinds
  <2>1. \A k \in OwnerKinds : queue[k] \in Seq(Owners)
    BY DEF TypeOK, QueueType, OwnerKinds, Owners
  <2>2. \A k \in OwnerKinds : Len(queue[k]) \in Nat
    BY <2>1, LenProperties
  <2>3. processed \in [QueueKinds -> Nat] /\ OwnerKinds \subseteq QueueKinds
    BY DEF TypeOK, QueueKinds, OwnerKinds
  <2>4. \A k \in OwnerKinds : processed[k] \in Nat
    BY <2>3
  <2> QED BY <2>1, <2>2, <2>4 DEF OwnerKinds
<1>2. ASSUME scheduled' = scheduled,
             \A k \in OwnerKinds : processed'[k] + Len(queue'[k]) = processed[k] + Len(queue[k])
      PROVE  OwnersBooked'
  BY <1>0, <1>1, <1>2 DEF OwnersBooked
<1>3. CASE Stays
  BY <1>2, <1>3 DEF Stays
<1>4. ASSUME NEW k \in OwnerKinds, Takes(k)
      PROVE  OwnersBooked'
  <2>1. Len(queue'[k]) = Len(queue[k]) - 1 /\ processed'[k] = processed[k] + 1
    BY <1>1, <1>4, RangeTail DEF Takes
  <2>2. processed'[k] + Len(queue'[k]) = processed[k] + Len(queue[k])
    <3>1. PICK n \in Nat, m \in Nat : n = processed[k] /\ m = Len(queue[k])
      BY <1>1
    <3> QED BY <2>1, <3>1
  <2>3. \A j \in OwnerKinds : processed'[j] + Len(queue'[j]) = processed[j] + Len(queue[j])
    BY <1>4, <2>2 DEF Takes
  <2> QED BY <1>2, <1>4, <2>3 DEF Takes
<1>5. ASSUME NEW o, NEW e \in BOOLEAN, Adds(o, e),
             o \in Runtimes => (e <=> o \notin AtStart)
      PROVE  OwnersBooked'
  <2>1. /\ scheduled' = scheduled \cup {o} /\ o \notin scheduled /\ o \in Owners
        /\ \A k \in OwnerKinds : processed'[k] = processed[k]
        /\ IsFiniteSet(scheduled)
    BY <1>5 DEF Adds, OwnersBooked
  <2>2. \A k \in OwnerKinds : Len(Append(queue[k], o)) = Len(queue[k]) + 1
    BY <1>1, <2>1, RangeAppend
  <2>3. /\ (scheduled \cap Runtimes) \ AtStart = scheduled \cap (Runtimes \ AtStart)
        /\ (scheduled' \cap Runtimes) \ AtStart = (scheduled \cup {o}) \cap (Runtimes \ AtStart)
    BY <2>1
  <2>4. CASE o \in Runtimes
    <3>1. /\ \A k \in H : queue'[k] = Append(queue[k], o)
          /\ queue'.sets = queue.sets
          /\ queue'.runtimes = IF e THEN Append(queue.runtimes, o) ELSE queue.runtimes
      BY <1>5, <2>4 DEF Adds
    <3>2. /\ Cardinality(scheduled' \cap Runtimes) = Cardinality(scheduled \cap Runtimes) + 1
          /\ Cardinality(scheduled \cap Runtimes) \in Nat /\ IsFiniteSet(scheduled')
      BY <2>1, <2>4, OneMore
    <3>3. o \notin LocalSets /\ Cardinality(scheduled' \cap LocalSets) = Cardinality(scheduled \cap LocalSets)
      BY <2>1, <2>4, OneMore, ConstantsAssumption
    <3>4. /\ e => Cardinality((scheduled' \cap Runtimes) \ AtStart) = Cardinality((scheduled \cap Runtimes) \ AtStart) + 1
          /\ ~e => Cardinality((scheduled' \cap Runtimes) \ AtStart) = Cardinality((scheduled \cap Runtimes) \ AtStart)
          /\ Cardinality((scheduled \cap Runtimes) \ AtStart) \in Nat
      <4>1. PICK T : T = Runtimes \ AtStart
        OBVIOUS
      <4>2. (e => o \in T) /\ (~e => o \notin T)
        BY <1>5, <2>4, <4>1
      <4>3. /\ o \in T => Cardinality((scheduled \cup {o}) \cap T) = Cardinality(scheduled \cap T) + 1
            /\ o \notin T => Cardinality((scheduled \cup {o}) \cap T) = Cardinality(scheduled \cap T)
            /\ Cardinality(scheduled \cap T) \in Nat
        BY <2>1, OneMore
      <4> QED BY <2>3, <4>1, <4>2, <4>3
    <3>5. ASSUME NEW k \in H
          PROVE  processed'[k] + Len(queue'[k]) = Cardinality(scheduled' \cap Runtimes)
      <4>1. PICK n \in Nat, m \in Nat : n = processed[k] /\ m = Len(queue[k])
        BY <1>1
      <4>2. n + m = Cardinality(scheduled \cap Runtimes)
        BY <4>1 DEF OwnersBooked
      <4>3. processed'[k] = n /\ Len(queue'[k]) = m + 1
        BY <1>1, <2>1, <2>2, <3>1, <4>1
      <4> QED BY <3>2, <4>2, <4>3
    <3>6. processed'.sets + Len(queue'.sets) = Cardinality(scheduled' \cap LocalSets)
      BY <1>1, <2>1, <3>1, <3>3 DEF OwnersBooked
    <3>7. processed'.runtimes + Len(queue'.runtimes) = Cardinality((scheduled' \cap Runtimes) \ AtStart)
      <4>0. PICK n \in Nat, m \in Nat : n = processed.runtimes /\ m = Len(queue.runtimes)
        BY <1>1
      <4>1. CASE e
        <5>1. n + m = Cardinality((scheduled \cap Runtimes) \ AtStart)
          BY <4>0 DEF OwnersBooked
        <5>2. processed'.runtimes = n /\ Len(queue'.runtimes) = m + 1
          BY <1>1, <2>1, <2>2, <3>1, <4>0, <4>1
        <5> QED BY <3>4, <4>1, <5>1, <5>2
      <4>2. CASE ~e
        BY <1>1, <2>1, <2>2, <3>1, <3>4, <4>2 DEF OwnersBooked
      <4> QED BY <4>1, <4>2
    <3> QED BY <1>0, <3>2, <3>5, <3>6, <3>7 DEF OwnersBooked
  <2>5. CASE o \notin Runtimes
    <3>1. /\ \A k \in H : queue'[k] = queue[k]
          /\ queue'.runtimes = queue.runtimes
          /\ queue'.sets = Append(queue.sets, o)
      BY <1>5, <2>5 DEF Adds
    <3>2. /\ Cardinality(scheduled' \cap Runtimes) = Cardinality(scheduled \cap Runtimes)
          /\ IsFiniteSet(scheduled')
      BY <2>1, <2>5, OneMore
    <3>3. /\ o \in LocalSets /\ Cardinality(scheduled \cap LocalSets) \in Nat
          /\ Cardinality(scheduled' \cap LocalSets) = Cardinality(scheduled \cap LocalSets) + 1
      BY <2>1, <2>5, OneMore DEF Owners
    <3>4. Cardinality((scheduled' \cap Runtimes) \ AtStart) = Cardinality((scheduled \cap Runtimes) \ AtStart)
      BY <2>1, <2>3, <2>5, OneMore
    <3>5. PICK n \in Nat, m \in Nat : n = processed.sets /\ m = Len(queue.sets)
      BY <1>1
    <3>6. n + m = Cardinality(scheduled \cap LocalSets)
      BY <3>5 DEF OwnersBooked
    <3>7. processed'.sets = n /\ Len(queue'.sets) = m + 1
      BY <1>1, <2>1, <2>2, <3>1, <3>5
    <3>8. processed'.sets + Len(queue'.sets) = Cardinality(scheduled' \cap LocalSets)
      BY <3>3, <3>6, <3>7
    <3>9. \A k \in H : processed'[k] + Len(queue'[k]) = Cardinality(scheduled' \cap Runtimes)
      BY <1>1, <2>1, <3>1, <3>2 DEF OwnersBooked
    <3>10. processed'.runtimes + Len(queue'.runtimes) = Cardinality((scheduled' \cap Runtimes) \ AtStart)
      BY <1>1, <2>1, <3>1, <3>4 DEF OwnersBooked
    <3> QED BY <1>0, <3>2, <3>8, <3>9, <3>10 DEF OwnersBooked
  <2> QED BY <2>4, <2>5
<1>6. CASE \E k \in OwnerKinds : Takes(k)
  BY <1>4, <1>6
<1>7. ASSUME ValidateFresh, NEW t, Adds(world.cell[t], TRUE), Admits(t) = {world.cell[t]}
      PROVE  OwnersBooked'
  <2>1. world.cell[t] \notin admitted
    BY <1>7 DEF Admits, IsAdmitted
  <2>2. world.cell[t] \notin AtStart
    BY <2>1 DEF FrontierAdmitted
  <2> QED BY <1>5, <1>7, <2>2
<1>8. CASE ScheduleRoot /\ Adds(Head(todo), FALSE)
  <2>1. todo \in Seq(Owners) /\ todo # <<>> /\ SeqRange(todo) \subseteq SeqRange(roots)
    BY <1>8 DEF ScheduleRoot, TypeOK, FrontierAdmitted
  <2>2. Head(todo) \in Runtimes => Head(todo) \in AtStart
    BY <2>1, RangeTail DEF FrontierAdmitted
  <2> QED BY <1>5, <1>8, <2>2
<1> QED BY <1>3, <1>6, <1>7, <1>8, OwnersStep DEF OwnerKinds

-----------------------------------------------------------------------------
(* The scans' books.                                                       *)

(* The scans pending: queued, or waiting to be taken to the queue. *)
ScansLeft == Len(queue.scans) + Len(scannable)

ScansDue == SeqRange(queue.scans) \cup SeqRange(scannable)

ScansStay ==
    ScansLeft' = ScansLeft /\ ScansDue' = ScansDue /\ processed'.scans = processed.scans

ScansGain(t) ==
    /\ ScansLeft' = ScansLeft + Len(Scannable(t, rec'[t]))
    /\ ScansDue' = ScansDue \cup SeqRange(Scannable(t, rec'[t]))
    /\ processed'.scans = processed.scans

ScansTake ==
    /\ queue.scans # <<>> /\ ScansLeft' = ScansLeft - 1
    /\ ScansDue = ScansDue' \cup {Head(queue.scans)} /\ processed'.scans = processed.scans + 1

(* Taking what became scannable to the queue loses none of it. *)
LEMMA TakingKeeps ==
    ASSUME TypeOK, NEW q \in QueueType, q.scans = queue.scans, NEW more \in Seq(Tasks),
           queue'.scans = TakeScannable(q, more).scans, scannable' = <<>>
    PROVE  /\ ScansLeft' = ScansLeft + Len(more)
           /\ ScansDue' = ScansDue \cup SeqRange(more)
<1>1. queue'.scans = q.scans \o scannable \o more
  BY TakenFields
<1>2. PICK a \in Seq(Tasks), b \in Seq(Tasks) : a = queue.scans /\ b = scannable
  BY DEF TypeOK, QueueType
<1>3. PICK ab \in Seq(Tasks) : ab = a \o b /\ Len(ab) = Len(a) + Len(b) /\ SeqRange(ab) = SeqRange(a) \cup SeqRange(b)
  BY RangeConcat
<1>4. /\ Len(ab \o more) = Len(ab) + Len(more) /\ SeqRange(ab \o more) = SeqRange(ab) \cup SeqRange(more)
      /\ Len(ab) \in Nat /\ Len(more) \in Nat /\ Len(a) \in Nat /\ Len(b) \in Nat
  BY RangeConcat
<1>5. queue'.scans = ab \o more
  BY <1>1, <1>2, <1>3
<1>6. Len(scannable') = 0 /\ SeqRange(scannable') = {}
  BY DEF SeqRange
<1>7. ScansLeft' = ScansLeft + Len(more)
  BY <1>2, <1>3, <1>4, <1>5, <1>6 DEF ScansLeft
<1>8. ScansDue' = ScansDue \cup SeqRange(more)
  BY <1>2, <1>3, <1>4, <1>5, <1>6 DEF ScansDue
<1> QED BY <1>7, <1>8

(* Whether a record's storage becomes due depends on its sources alone. *)
LEMMA SameScannable ==
    ASSUME NEW t, NEW r, NEW n, r.sources = n.sources, r.scanned = n.scanned
    PROVE  Scannable(t, r) = Scannable(t, n)
<1>1. Resident(t, r) <=> Resident(t, n)
  BY DEF Resident
<1> QED BY <1>1 DEF Scannable

(* A task filed along any route is due for a scan when that makes it      *)
(* resident.                                                              *)
LEMMA WalkGains ==
    ASSUME TypeOK, WalkNode
    PROVE  ScansGain(walk.at)
<1>1. PICK t \in Tasks : t = walk.at
  BY DEF WalkNode, NodeReads
<1>2. rec \in [Tasks -> Record] /\ rec' = [rec EXCEPT ![t] = ObserveListed(walk.owner, t)]
  BY <1>1 DEF TypeOK, WalkNode
<1>3. rec'[t] = ObserveListed(walk.owner, t)
  BY <1>2
<1>4. scannable' = scannable \o Scannable(t, rec'[t]) /\ queue' = queue /\ processed' = processed
  BY <1>1, <1>3 DEF WalkNode, work
<1>5. PICK m \in Seq(Tasks) : m = Scannable(t, rec'[t])
  BY ScannableType
<1>6. PICK b \in Seq(Tasks) : b = scannable
  BY DEF TypeOK
<1>7. /\ Len(b \o m) = Len(b) + Len(m) /\ SeqRange(b \o m) = SeqRange(b) \cup SeqRange(m)
      /\ Len(b) \in Nat /\ Len(m) \in Nat
  BY RangeConcat
<1>8. PICK n \in Nat : n = Len(queue.scans)
  BY DEF TypeOK, QueueType
<1>9. ScansLeft' = ScansLeft + Len(m)
  <2>1. Len(scannable') = Len(b) + Len(m)
    BY <1>4, <1>5, <1>6, <1>7
  <2>2. ScansLeft' = n + (Len(b) + Len(m)) /\ ScansLeft = n + Len(b)
    BY <1>4, <1>6, <1>8, <2>1 DEF ScansLeft
  <2>3. PICK x \in Nat, y \in Nat : x = Len(b) /\ y = Len(m)
    BY <1>7
  <2>4. n + (x + y) = (n + x) + y
    OBVIOUS
  <2>5. ScansLeft' = n + (x + y) /\ ScansLeft = n + x
    BY <2>2, <2>3
  <2>6. ScansLeft' = ScansLeft + y
    BY <2>4, <2>5
  <2> QED BY <2>3, <2>6
<1>10. ScansDue' = ScansDue \cup SeqRange(m)
  BY <1>4, <1>5, <1>6, <1>7 DEF ScansDue
<1> QED BY <1>1, <1>4, <1>5, <1>9, <1>10 DEF ScansGain

(* A candidate already on record makes at most one scan. *)
LEMMA KnownGains ==
    ASSUME TypeOK, ValidateKnown, NEW t, t = Head(queue.validations).addr
    PROVE  ScansGain(t)
<1>1. PICK c : c = Head(queue.validations)
  OBVIOUS
<1>2. /\ "validations" \in QueueKinds /\ "scans" \in QueueKinds \ {"validations"}
      /\ Pops("validations")
  BY DEF QueueKinds, ValidateKnown
<1>3. t \in Tasks
  BY <1>1, <1>2, PoppedCandidate
<1>4. /\ rec \in [Tasks -> Record]
      /\ rec' = [rec EXCEPT ![t] = Observe(rec[t], SourceOf(c), {}, QueueClaim(c))]
  BY <1>1 DEF TypeOK, ValidateKnown
<1>5. rec'[t] = Observe(rec[t], SourceOf(c), {}, QueueClaim(c))
  BY <1>3, <1>4
<1>6. PICK m \in Seq(Tasks) : m = Scannable(t, rec'[t])
  BY <1>3, ScannableType
<1>7. PICK q \in QueueType : q = Popped("validations")
  BY <1>2, PoppedType DEF Pops
<1>8. q.scans = queue.scans /\ processed'.scans = processed.scans
  BY <1>2, <1>7, PoppedFields
<1>9. queue' = TakeScannable(q, m) /\ scannable' = <<>>
  BY <1>1, <1>5, <1>6, <1>7 DEF ValidateKnown
<1>10. ScansLeft' = ScansLeft + Len(m) /\ ScansDue' = ScansDue \cup SeqRange(m)
  BY <1>8, <1>9, TakingKeeps
<1> QED BY <1>6, <1>8, <1>10 DEF ScansGain

(* A candidate read for the first time makes at most one scan. *)
LEMMA FreshGains ==
    ASSUME TypeOK, ValidateFresh, NEW t, t = Head(queue.validations).addr
    PROVE  ScansGain(t)
<1>1. PICK c : c = Head(queue.validations)
  OBVIOUS
<1>2. /\ "validations" \in QueueKinds /\ "scans" \in QueueKinds \ {"validations"}
      /\ Pops("validations")
  BY DEF QueueKinds, ValidateFresh
<1>3. t \in Tasks /\ rec[t] \in Record
  BY <1>1, <1>2, PoppedCandidate DEF TypeOK
<1>4. PICK n : n = Observe(rec[t], SourceOf(c), HeaderKind(t), QueueClaim(c))
  OBVIOUS
<1>5. /\ n.sources = IF Omits(rec[t], SourceOf(c)) THEN rec[t].sources
                     ELSE rec[t].sources \cup {SourceOf(c)}
      /\ n.scanned = rec[t].scanned
  BY <1>3, <1>4 DEF Observe, Record
<1>6. rec'[t].sources = n.sources /\ rec'[t].scanned = n.scanned
  BY <1>1, <1>5, FreshFiles DEF Files
<1>7. PICK m \in Seq(Tasks) : m = Scannable(t, n)
  BY <1>3, ScannableType
<1>8. m = Scannable(t, rec'[t])
  BY <1>6, <1>7, SameScannable
<1>9. PICK q \in QueueType : q = Popped("validations")
  BY <1>2, PoppedType DEF Pops
<1>10. q.scans = queue.scans /\ processed'.scans = processed.scans
  BY <1>2, <1>9, PoppedFields
<1>11. PICK p \in QueueType : p = TakeScannable(q, m)
  BY TakeScannableType
<1>12. scannable' = <<>> /\ (queue' = p \/ queue' = Schedule(p, world.cell[t], TRUE))
  BY <1>1, <1>4, <1>7, <1>9, <1>11 DEF ValidateFresh
<1>13. queue'.scans = p.scans
  <2>1. Schedule(p, world.cell[t], TRUE).scans = p.scans
    BY TakeRuntime, TakeSet
  <2> QED BY <1>12, <2>1
<1>14. ScansLeft' = ScansLeft + Len(m) /\ ScansDue' = ScansDue \cup SeqRange(m)
  BY <1>10, <1>11, <1>12, <1>13, TakingKeeps
<1> QED BY <1>8, <1>10, <1>14 DEF ScansGain

(* A scan is taken from the head of its queue. *)
LEMMA ScanTakes ==
    ASSUME TypeOK, ScanTask
    PROVE  ScansTake
<1>1. "scans" \in QueueKinds /\ Pops("scans") /\ scannable' = scannable
  BY DEF QueueKinds, ScanTask
<1>2. PICK q \in QueueType : q = Popped("scans")
  BY <1>1, PoppedType DEF Pops
<1>3. queue.scans # <<>> /\ q.scans = Tail(queue.scans) /\ processed'.scans = processed.scans + 1
  BY <1>1, <1>2, PoppedFields
<1>4. queue' = q \/ \E finds : queue' = [q EXCEPT !.validations = @ \o finds]
  BY <1>2 DEF ScanTask
<1>5. queue'.scans = q.scans
  <2>1. \A finds : [q EXCEPT !.validations = @ \o finds].scans = q.scans
    BY FoundFields DEF QueueKinds
  <2> QED BY <1>4, <2>1
<1>6. PICK a \in Seq(Tasks) : a = queue.scans
  BY DEF TypeOK, QueueType
<1>7. /\ SeqRange(a) = SeqRange(Tail(a)) \cup {Head(a)}
      /\ Len(Tail(a)) = Len(a) - 1 /\ Len(a) \in Nat
  BY <1>3, <1>6, RangeTail
<1>8. PICK n \in Nat : n = Len(scannable)
  BY DEF TypeOK
<1>9. ScansLeft' = ScansLeft - 1
  BY <1>1, <1>3, <1>5, <1>6, <1>7, <1>8 DEF ScansLeft
<1>10. ScansDue = ScansDue' \cup {Head(queue.scans)}
  BY <1>1, <1>3, <1>5, <1>6, <1>7 DEF ScansDue
<1> QED BY <1>3, <1>9, <1>10 DEF ScansTake

(* Every step does one of these to the scans. *)
LEMMA ScansMoves ==
    ASSUME TypeOK, [Next]_vars
    PROVE  \/ ScansStay /\ (rec' = rec \/ Rescopes)
           \/ \E t \in Tasks, s \in Source : \E C : Files(t, s, C) /\ ScansGain(t)
           \/ ScanTask /\ ScansTake /\ (rec' = rec \/ Marks(Head(queue.scans)))
<1>0. queue \in QueueType
  BY DEF TypeOK
<1>1. CASE WalkNode
  BY <1>1, WalkNodeFiles, WalkGains DEF Files
<1>2. CASE ValidateKnown
  <2>1. PICK c, t : c = Head(queue.validations) /\ t = c.addr
    OBVIOUS
  <2>2. Files(t, SourceOf(c), QueueClaim(c)) /\ ScansGain(t)
    BY <1>2, <2>1, KnownFiles, KnownGains
  <2> QED BY <2>2 DEF Files
<1>3. CASE ValidateFresh
  <2>1. PICK c, t : c = Head(queue.validations) /\ t = c.addr
    OBVIOUS
  <2>2. Files(t, SourceOf(c), QueueClaim(c) \cup CellClaim(t)) /\ ScansGain(t)
    BY <1>3, <2>1, FreshFiles, FreshGains
  <2> QED BY <2>2 DEF Files
<1>4. CASE ScanTask
  <2>1. ScansTake
    BY <1>4, ScanTakes
  <2> QED BY <1>4, <2>1, ScanMarks
<1>5. CASE Finish
  <2>1. ScansStay
    BY <1>5 DEF Finish, work, ScansStay, ScansLeft, ScansDue
  <2>2. Rescopes
    BY <1>5, FinishRescopes
  <2> QED BY <2>1, <2>2
<1>6. CASE queue' = queue /\ processed' = processed /\ rec' = rec /\ scannable' = scannable
  BY <1>6 DEF ScansStay, ScansLeft, ScansDue
<1>7. ASSUME queue' = TakeScannable(queue, <<>>), scannable' = <<>>, processed' = processed
      PROVE  ScansStay
  <2>1. <<>> \in Seq(Tasks) /\ Len(<<>>) = 0 /\ SeqRange(<<>>) = {}
    BY DEF SeqRange
  <2>2. ScansLeft' = ScansLeft + 0 /\ ScansDue' = ScansDue \cup {}
    BY <1>0, <1>7, <2>1, TakingKeeps
  <2>3. ScansLeft \in Nat
    BY DEF ScansLeft, TypeOK, QueueType
  <2> QED BY <1>7, <2>2, <2>3 DEF ScansStay
<1>8. CASE EndWalk
  BY <1>6, <1>7, <1>8 DEF EndWalk
<1>9. CASE StartSweep
  BY <1>7, <1>9 DEF StartSweep
<1>10. CASE ScheduleRoot
  <2>1. queue'.scans = queue.scans
    <3>1. Schedule(queue, Head(todo), FALSE).scans = queue.scans
      BY <1>0, TakeRuntime, TakeSet
    <3> QED BY <1>10, <3>1 DEF ScheduleRoot
  <2> QED BY <1>10, <2>1 DEF ScheduleRoot, store, ScansStay, ScansLeft, ScansDue
<1>11. CASE ValidateFails
  <2>1. "validations" \in QueueKinds /\ "scans" \in QueueKinds \ {"validations"} /\ Pops("validations")
    BY <1>11 DEF QueueKinds, ValidateFails
  <2>2. PICK q \in QueueType : q = Popped("validations")
    BY <2>1, PoppedType DEF Pops
  <2>3. q.scans = queue.scans /\ processed'.scans = processed.scans
    BY <2>1, <2>2, PoppedFields
  <2>4. <<>> \in Seq(Tasks) /\ Len(<<>>) = 0 /\ SeqRange(<<>>) = {}
    BY DEF SeqRange
  <2>5. queue' = TakeScannable(q, <<>>) /\ scannable' = <<>> /\ rec' = rec
    BY <1>11, <2>2 DEF ValidateFails
  <2>6. ScansLeft' = ScansLeft + 0 /\ ScansDue' = ScansDue \cup {}
    BY <2>3, <2>4, <2>5, TakingKeeps
  <2>7. ScansLeft \in Nat
    BY DEF ScansLeft, TypeOK, QueueType
  <2> QED BY <2>3, <2>5, <2>6, <2>7 DEF ScansStay
<1>12. ASSUME NEW k \in OwnerKinds, Pops(k), rec' = rec, scannable' = scannable,
              queue' = Popped(k) \/ \E finds : queue' = [Popped(k) EXCEPT !.validations = @ \o finds]
       PROVE  ScansStay
  <2>1. k \in QueueKinds /\ "scans" \in QueueKinds \ {k}
    BY DEF QueueKinds, OwnerKinds
  <2>2. PICK q \in QueueType : q = Popped(k)
    BY <1>12, <2>1, PoppedType DEF Pops
  <2>3. q.scans = queue.scans /\ processed'.scans = processed.scans
    BY <1>12, <2>1, <2>2, PoppedFields
  <2>4. \A finds : [q EXCEPT !.validations = @ \o finds].scans = q.scans
    BY FoundFields DEF QueueKinds
  <2>5. queue'.scans = queue.scans
    BY <1>12, <2>2, <2>3, <2>4
  <2> QED BY <1>12, <2>3, <2>5 DEF ScansStay, ScansLeft, ScansDue
<1>13. CASE EnumerateRuntime
  BY <1>12, <1>13 DEF EnumerateRuntime, OwnerKinds, store
<1>14. CASE EnumerateLocalSet
  BY <1>12, <1>14 DEF EnumerateLocalSet, OwnerKinds, store
<1>15. CASE HarvestTimers \/ HarvestIo \/ HarvestBlockingQueue
  <2>1. PICK k, found, route : k \in {"timers", "io", "queues"} /\ Harvest(k, found, route)
    BY <1>15 DEF HarvestTimers, HarvestIo, HarvestBlockingQueue
  <2>2. k \in OwnerKinds
    BY <2>1 DEF OwnerKinds
  <2>3. /\ Pops(k) /\ rec' = rec /\ scannable' = scannable
        /\ \E finds : queue' = [Popped(k) EXCEPT !.validations = @ \o finds]
    BY <2>1 DEF Harvest, store
  <2> QED BY <1>12, <2>2, <2>3
<1> QED
  BY <1>1, <1>2, <1>3, <1>4, <1>5, <1>6, <1>8, <1>9, <1>10, <1>11, <1>13, <1>14, <1>15
  DEF Next, Walk, Prepare, Sweep, Terminated, vars, work, store, WalkFails, NextShard,
      EnumerateRoot, EndEnumerate, ProbeTls, EndProbe

(* The counts are numbers. *)
LEMMA CountsAreNumbers ==
    /\ TypeOK => /\ processed.scans \in Nat /\ Len(queue.scans) \in Nat
                 /\ Len(scannable) \in Nat
    /\ TypeOK' => /\ processed'.scans \in Nat /\ Len(queue'.scans) \in Nat
                  /\ Len(scannable') \in Nat
<1>1. ASSUME TypeOK
      PROVE  processed.scans \in Nat /\ Len(queue.scans) \in Nat /\ Len(scannable) \in Nat
  <2>1. "scans" \in QueueKinds /\ processed \in [QueueKinds -> Nat]
    BY <1>1 DEF TypeOK, QueueKinds
  <2>2. queue.scans \in Seq(Tasks) /\ scannable \in Seq(Tasks)
    BY <1>1 DEF TypeOK, QueueType
  <2> QED BY <2>1, <2>2, LenProperties
<1>2. ASSUME TypeOK'
      PROVE  processed'.scans \in Nat /\ Len(queue'.scans) \in Nat /\ Len(scannable') \in Nat
  <2>1. "scans" \in QueueKinds /\ processed' \in [QueueKinds -> Nat]
    BY <1>2 DEF TypeOK, QueueKinds
  <2>2. queue'.scans \in Seq(Tasks) /\ scannable' \in Seq(Tasks)
    BY <1>2 DEF TypeOK, QueueType
  <2> QED BY <2>1, <2>2, LenProperties
<1> QED BY <1>1, <1>2

(* The records' residence follows their sources. *)
LEMMA ResidentsKept ==
    ASSUME world' = world, \A t \in Tasks : rec'[t].sources = rec[t].sources
    PROVE  Residents' = Residents
  BY DEF Residents, Resident

(* What was scanned, what is queued and what waits add up to the records  *)
(* that are resident, each once.                                          *)
LEMMA ScansBookedStep ==
    ASSUME TypeOK, TypeOK', ScansBooked, [Next]_vars
    PROVE  ScansBooked'
<1>0. world' = world
  BY WorldFixed
<1>1. /\ IsFiniteSet(Residents) /\ processed.scans + ScansLeft = Cardinality(Residents)
      /\ ScansDue \cup Scanned \subseteq Residents
      /\ processed.scans \in Nat /\ ScansLeft \in Nat /\ Cardinality(Residents) \in Nat
  <2>1. PICK n \in Nat, a \in Nat, b \in Nat : n = processed.scans /\ a = Len(queue.scans) /\ b = Len(scannable)
    BY CountsAreNumbers
  <2>2. (n + a) + b = Cardinality(Residents) /\ IsFiniteSet(Residents)
    BY <2>1 DEF ScansBooked
  <2>3. n + (a + b) = (n + a) + b
    BY <2>1
  <2>4. ScansLeft = a + b
    BY <2>1 DEF ScansLeft
  <2>5. ScansDue \cup Scanned \subseteq Residents
    BY DEF ScansBooked, ScansDue
  <2> QED BY <2>1, <2>2, <2>3, <2>4, <2>5, FS_CardinalityType
<1>2. ASSUME IsFiniteSet(Residents'), processed'.scans + ScansLeft' = Cardinality(Residents'),
             ScansDue' \cup Scanned' \subseteq Residents'
      PROVE  ScansBooked'
  <2>1. PICK n \in Nat, a \in Nat, b \in Nat : n = processed'.scans /\ a = Len(queue'.scans) /\ b = Len(scannable')
    BY CountsAreNumbers
  <2>2. n + (a + b) = Cardinality(Residents')
    BY <1>2, <2>1 DEF ScansLeft
  <2>3. n + (a + b) = (n + a) + b
    BY <2>1
  <2> QED BY <1>2, <2>1, <2>2, <2>3 DEF ScansBooked, ScansDue
<1>4. CASE ScansStay /\ (rec' = rec \/ Rescopes)
  <2>1. Residents' = Residents /\ Scanned' = Scanned
    BY <1>0, <1>4, ResidentsKept DEF Rescopes, Scanned
  <2> QED BY <1>1, <1>2, <1>4, <2>1 DEF ScansStay
<1>5. CASE ScansTake /\ (rec' = rec \/ Marks(Head(queue.scans)))
  <2>1. Residents' = Residents /\ Scanned' \subseteq Scanned \cup {Head(queue.scans)}
    BY <1>0, <1>5, ResidentsKept DEF Marks, Scanned
  <2>2. processed'.scans + ScansLeft' = Cardinality(Residents)
    <3>1. PICK n \in Nat, m \in Nat : n = processed.scans /\ m = ScansLeft
      BY <1>1
    <3>2. processed'.scans = n + 1 /\ ScansLeft' = m - 1 /\ n + m = Cardinality(Residents)
      BY <1>1, <1>5, <3>1 DEF ScansTake
    <3> QED BY <3>1, <3>2
  <2> QED BY <1>1, <1>2, <1>5, <2>1, <2>2 DEF ScansTake
<1>6. ASSUME NEW t \in Tasks, NEW s \in Source, NEW C, Files(t, s, C), ScansGain(t)
      PROVE  ScansBooked'
  <2>1. /\ \A u \in Tasks \ {t} : rec'[u] = rec[u]
        /\ rec[t].sources \subseteq rec'[t].sources /\ rec'[t].scanned = rec[t].scanned
    BY <1>6 DEF Files
  <2>2. Scanned' = Scanned
    BY <2>1 DEF Scanned
  <2>3. Resident(t, rec[t]) => Resident(t, rec'[t])
    BY <2>1 DEF Resident
  <2>4. \A u \in Tasks : u \in Residents' <=> (u \in Residents \/ (u = t /\ Resident(t, rec'[t])))
    <3>1. ASSUME NEW u \in Tasks \ {t} PROVE u \in Residents' <=> u \in Residents
      BY <1>0, <2>1 DEF Residents, Resident
    <3>2. t \in Residents' <=> Resident(t, rec'[t])
      BY <1>0 DEF Residents, Resident
    <3>3. t \in Residents <=> Resident(t, rec[t])
      BY DEF Residents
    <3> QED BY <2>3, <3>1, <3>2, <3>3
  <2>5. Residents \subseteq Tasks /\ Residents' \subseteq Tasks
    BY DEF Residents
  <2>6. CASE Resident(t, rec[t]) \/ ~Resident(t, rec'[t])
    <3>1. Residents' = Residents
      <4>1. Resident(t, rec[t]) => t \in Residents
        BY DEF Residents
      <4> QED BY <2>4, <2>5, <2>6, <4>1
    <3>2. Scannable(t, rec'[t]) = <<>>
      BY <2>6 DEF Scannable
    <3>3. Len(<<>>) = 0 /\ SeqRange(<<>>) = {}
      BY DEF SeqRange
    <3>4. ScansLeft' = ScansLeft + 0 /\ ScansDue' = ScansDue /\ processed'.scans = processed.scans
      BY <1>6, <3>2, <3>3 DEF ScansGain
    <3> QED BY <1>1, <1>2, <2>2, <3>1, <3>4
  <2>7. CASE ~Resident(t, rec[t]) /\ Resident(t, rec'[t])
    <3>1. t \notin Residents
      BY <2>7 DEF Residents
    <3>2. ~rec[t].scanned
      BY <1>1, <3>1 DEF Scanned
    <3>3. Scannable(t, rec'[t]) = <<t>>
      BY <2>1, <2>7, <3>2 DEF Scannable
    <3>4. Len(<<t>>) = 1 /\ SeqRange(<<t>>) = {t}
      BY DEF SeqRange
    <3>5. ScansLeft' = ScansLeft + 1 /\ ScansDue' = ScansDue \cup {t} /\ processed'.scans = processed.scans
      BY <1>6, <3>3, <3>4 DEF ScansGain
    <3>6. Residents' = Residents \cup {t}
      BY <2>4, <2>5, <2>7
    <3>7. IsFiniteSet(Residents') /\ Cardinality(Residents') = Cardinality(Residents) + 1
      BY <1>1, <3>1, <3>6, FS_AddElement
    <3>8. processed'.scans + ScansLeft' = Cardinality(Residents')
      BY <1>1, <3>5, <3>7
    <3> QED BY <1>1, <1>2, <2>2, <3>5, <3>6, <3>7, <3>8
  <2> QED BY <2>6, <2>7
<1> QED BY <1>4, <1>5, <1>6, ScansMoves

(* The inductive invariant of the books. *)
BooksInv == FrontierAdmitted /\ OwnersBooked /\ ScansBooked

(* Before the session begins there is nothing to book. *)
LEMMA BooksInit ==
    ASSUME Init
    PROVE  BooksInv
<1>1. WorldOK(world) /\ world.runtimes \in Seq(Runtimes)
  BY ConstantsAssumption DEF Init, WorldOK, WorldType
<1>2. /\ SeqRange(<<>>) = {} /\ Len(<<>>) = 0
      /\ \A k \in OwnerKinds : queue[k] = <<>> /\ processed[k] = 0
      /\ queue.validations = <<>> /\ queue.scans = <<>> /\ processed.scans = 0
  BY DEF Init, EmptyQueue, OwnerKinds, QueueKinds, SeqRange
<1>3. IsFiniteSet({}) /\ Cardinality({}) = 0
  BY FS_EmptySet
<1>4. FrontierAdmitted
  BY <1>1, <1>2 DEF Init, FrontierAdmitted, AtStart, SeqRange, Walking
<1>5. scheduled = {} /\ scheduled \cap Runtimes = {} /\ scheduled \cap LocalSets = {}
      /\ (scheduled \cap Runtimes) \ AtStart = {}
  BY DEF Init
<1>6. OwnersBooked
  BY <1>2, <1>3, <1>5 DEF OwnersBooked, OwnerKinds
<1>7. Residents = {} /\ Scanned = {}
  <2>1. \A t \in Tasks : rec[t].sources = {} /\ rec[t].scanned = FALSE
    BY DEF Init, NoRecord
  <2> QED BY <2>1 DEF Residents, Resident, Scanned
<1>8. ScansBooked
  BY <1>2, <1>3, <1>7 DEF ScansBooked, Init
<1> QED BY <1>4, <1>6, <1>8 DEF BooksInv

(* The books balance in every state of every session: what was popped and *)
(* what is queued of each kind add up to the owners scheduled and to the  *)
(* records resident.                                                      *)
THEOREM BooksHold == Spec => []BooksInv
<1>1. TypeOK /\ TypeOK' /\ BooksInv /\ [Next]_vars => BooksInv'
  BY FrontierAdmittedStep, OwnersBookedStep, ScansBookedStep DEF BooksInv
<1> QED BY <1>1, BooksInit, TypeCorrect, PTL DEF Spec

(* No owner's walk or harvest and no record's scan is queued twice or     *)
(* lost, whatever the order in which the routes meet the tasks.           *)
THEOREM NoWorkTwiceOrLost == Spec => []WorkAccounting
<1>1. BooksInv => WorkAccounting
  BY DEF BooksInv, OwnersBooked, ScansBooked, WorkAccounting, AtStart, SeqRange, Residents
<1> QED BY <1>1, BooksHold, PTL

-----------------------------------------------------------------------------
(* The scope.                                                              *)

(* A set the scope's walk could end in. *)
ClosedScope(S) == ScopeRoots \subseteq S /\ \A n \in S : LeadsTo(n) \subseteq S

(* Whatever holds the roots and what its members lead to holds every      *)
(* record and every admitted owner: the session reached them from there.  *)
ScopeInv ==
    /\ \A t \in Tasks : rec[t].sources = {} => rec[t].claims = {}
    /\ \A t \in Tasks : rec[t].inScope
    /\ \A S \in SUBSET Nodes : ClosedScope(S) => Records \cup admitted \subseteq S
    /\ phase = "done" => admitted \subseteq reached

(* A filed record exists. *)
LEMMA FilesKnows ==
    ASSUME TypeOK, NEW t, NEW s, NEW C, Files(t, s, C)
    PROVE  rec'[t].sources # {} /\ t \in Tasks /\ (Lists(s) => s \in rec'[t].sources)
<1>1. Lists(s) => s \in rec'[t].sources
  BY DEF Files, Omits
<1>2. ASSUME Omits(rec[t], s), rec[t].sources = {} PROVE FALSE
  <2>1. References(rec[t]) = {}
    BY <1>2 DEF References
  <2>2. Cardinality(References(rec[t])) = 0
    BY <2>1, FS_EmptySet
  <2> QED BY <1>2, <2>2, ConstantsAssumption DEF Omits
<1> QED BY <1>1, <1>2 DEF Files

(* What a node leads to it leads to for good. *)
LEMMA LeadsToGrows ==
    ASSUME TypeOK, ExclusionInv, FrontierAdmitted, ScopeInv, [Next]_vars, NEW n \in Nodes
    PROVE  LeadsTo(n) \subseteq LeadsTo(n)'
<1>0. world' = world /\ \A o : IsExcluded(o)' <=> IsExcluded(o)
  BY WorldFixed DEF IsExcluded
<1>1. /\ \A t \in Tasks : rec[t].sources \subseteq rec'[t].sources
      /\ \A t \in Tasks : rec[t].claims \subseteq rec'[t].claims
  BY NothingLeaves
<1>2. foundFrom \subseteq foundFrom'
  BY FindsMoves DEF ValidateTakes, Finds
<1>3. CASE n \in Owners
  BY <1>1, <1>2, <1>3 DEF LeadsTo
<1>4. CASE n \notin Owners
  <2>1. n \in Tasks
    BY <1>4 DEF Nodes
  <2>2. CASE ~Known(n)
    <3>1. rec[n].claims = {}
      BY <2>1, <2>2 DEF ScopeInv, Known
    <3>2. n \notin admitted /\ n \notin Scanned
      BY <1>4, <2>1, <2>2 DEF TypeOK, Scanned, ExclusionInv
    <3>3. \A t : <<n, t>> \notin foundFrom
      BY <3>2 DEF FrontierAdmitted
    <3> QED BY <1>4, <3>1, <3>3 DEF LeadsTo
  <2>3. CASE Known(n)
    <3>1. ~ExcludedOwned(rec[n]) => ~ExcludedOwned(rec'[n])
      BY <2>1, <2>3, NoLateExclusionStep
    <3>2. ExcludedOwned(rec'[n]) <=> ExcludedOwned(rec[n])'
      BY <1>0 DEF ExcludedOwned, OwnersOf
    <3> QED BY <1>0, <1>1, <1>2, <1>4, <2>1, <3>1, <3>2 DEF LeadsTo
  <2> QED BY <2>2, <2>3
<1> QED BY <1>3, <1>4

(* The roots of the scope stay roots. *)
LEMMA ScopeRootsGrow ==
    ASSUME TypeOK, [Next]_vars
    PROVE  ScopeRoots \subseteq ScopeRoots'
<1>0. world' = world /\ \A o : IsExcluded(o)' <=> IsExcluded(o)
  BY WorldFixed DEF IsExcluded
<1>1. ScopeRoots = {o \in Owners : ~IsExcluded(o)} \cap SeqRange(roots)
  BY DEF ScopeRoots, SeqRange
<1>2. ScopeRoots' = {o \in Owners : ~IsExcluded(o)} \cap SeqRange(roots')
  BY <1>0 DEF ScopeRoots, SeqRange
<1>3. SeqRange(roots) \subseteq SeqRange(roots')
  <2>1. CASE roots' = roots
    BY <2>1
  <2>2. CASE ProbeTls
    <3>1. todo \in Seq(Owners) /\ todo # <<>> /\ roots \in Seq(Owners)
      BY <2>2 DEF ProbeTls, TypeOK
    <3>2. roots' = roots \/ roots' = Append(roots, Head(todo))
      BY <2>2 DEF ProbeTls
    <3>3. Head(todo) \in Owners
      BY <3>1
    <3>4. SeqRange(Append(roots, Head(todo))) = SeqRange(roots) \cup {Head(todo)}
      BY <3>1, <3>3, RangeAppend
    <3> QED BY <3>2, <3>4
  <2> QED
    BY <2>1, <2>2
    DEF Next, Walk, Prepare, Sweep, Terminated, vars, WalkNode, WalkFails,
         NextShard, EndWalk, EnumerateRoot, EndEnumerate, EndProbe,
         ScheduleRoot, StartSweep, ValidateKnown, ValidateFresh, ValidateFails,
         EnumerateRuntime, EnumerateLocalSet, ScanTask, Harvest,
         HarvestTimers, HarvestIo, HarvestBlockingQueue, Finish
<1> QED BY <1>1, <1>2, <1>3

(* A set closed after a step was closed before it. *)
LEMMA ClosedBefore ==
    ASSUME TypeOK, ExclusionInv, FrontierAdmitted, ScopeInv, [Next]_vars,
           NEW S \in SUBSET Nodes, ClosedScope(S)'
    PROVE  /\ Records \cup admitted \subseteq S
           /\ \A n \in S : LeadsTo(n)' \subseteq S
           /\ ScopeRoots' \subseteq S
<1>1. \A n \in S : LeadsTo(n)' \subseteq S
  BY DEF ClosedScope
<1>2. ScopeRoots' \subseteq S
  BY DEF ClosedScope
<1>3. \A n \in S : LeadsTo(n) \subseteq S
  <2> SUFFICES ASSUME NEW n \in S PROVE LeadsTo(n) \subseteq S
    OBVIOUS
  <2>1. LeadsTo(n) \subseteq LeadsTo(n)'
    BY LeadsToGrows
  <2> QED BY <1>1, <2>1
<1>4. ScopeRoots \subseteq S
  BY <1>2, ScopeRootsGrow
<1>5. ClosedScope(S)
  BY <1>3, <1>4 DEF ClosedScope
<1> QED BY <1>1, <1>2, <1>5 DEF ScopeInv

(* A new record is led to from where it was found. *)
LEMMA RecordsLedTo ==
    ASSUME TypeOK, ExclusionInv, ExclusionInv', FrontierAdmitted, ScopeInv, [Next]_vars,
           NEW S \in SUBSET Nodes, ClosedScope(S)'
    PROVE  Records' \subseteq S
<1>0. Records \subseteq S /\ admitted \subseteq S /\ \A n \in S : LeadsTo(n)' \subseteq S
  BY ClosedBefore
<1>1. admitted \subseteq Owners /\ Tasks \cap Owners = {}
  BY ConstantsAssumption DEF TypeOK
<1>2. CASE \A t \in Tasks : rec'[t].sources = rec[t].sources
  BY <1>0, <1>2 DEF Records, Known
<1>3. ASSUME NEW t, NEW s, NEW C, Files(t, s, C), t \in S
      PROVE  Records' \subseteq S
  BY <1>0, <1>3 DEF Files, Records, Known
<1>4. CASE WalkNode
  <2>1. PICK t, o, s : t = walk.at /\ o = walk.owner /\ s = [route |-> "list", at |-> o, nth |-> 0]
    OBVIOUS
  <2>2. Files(t, s, ListClaim(o, t))
    BY <1>4, <2>1, WalkNodeFiles DEF ListSource
  <2>3. s \in rec'[t].sources /\ t \in Tasks /\ Lists(s) /\ s.at = o
    BY <2>1, <2>2, FilesKnows DEF Lists
  <2>4. o \in admitted
    BY <1>4, <2>1 DEF WalkNode, FrontierAdmitted
  <2>5. t \in LeadsTo(o)'
    BY <1>1, <2>3, <2>4 DEF LeadsTo
  <2>6. t \in S
    BY <1>0, <2>4, <2>5
  <2> QED BY <1>3, <2>2, <2>6
<1>5. CASE ValidateKnown \/ ValidateFresh
  <2>1. PICK c, t : c = Head(queue.validations) /\ t = c.addr
    OBVIOUS
  <2>2. \E s, C : Files(t, s, C)
    BY <1>5, <2>1, KnownFiles, FreshFiles
  <2>3. ValidateTakes
    BY <1>5, ValidationTakes
  <2>4. <<c.from, t>> \in foundFrom' /\ t \in Tasks
    BY <1>5, <2>1, <2>2, <2>3 DEF ValidateTakes, Files
  <2>5. c.from \in admitted \cup Scanned
    <3>1. queue.validations \in Seq(Candidate) /\ queue.validations # <<>>
      BY <2>3 DEF ValidateTakes, TypeOK, QueueType
    <3>2. c \in SeqRange(queue.validations)
      BY <2>1, <3>1, RangeTail
    <3> QED BY <3>2 DEF FrontierAdmitted
  <2>6. PICK n : n = c.from
    OBVIOUS
  <2>7. CASE n \in admitted
    <3>1. t \in LeadsTo(n)'
      BY <1>1, <2>4, <2>6, <2>7 DEF LeadsTo
    <3>2. t \in S
      BY <1>0, <2>7, <3>1
    <3> QED BY <1>3, <2>2, <3>2
  <2>8. CASE n \in Scanned
    <3>1. n \in Tasks /\ n \in Records
      BY <2>8 DEF Scanned, ExclusionInv, Records
    <3>2. rec'[n].scanned
      BY <2>8, <3>1, NothingLeaves DEF Scanned
    <3>3. ~ExcludedOwned(rec[n])'
      BY <3>1, <3>2 DEF ExclusionInv, ScannedNeverExcluded
    <3>4. t \in LeadsTo(n)'
      BY <1>1, <2>4, <2>6, <3>1, <3>3 DEF LeadsTo
    <3>5. t \in S
      BY <1>0, <3>1, <3>4
    <3> QED BY <1>3, <2>2, <3>5
  <2> QED BY <2>5, <2>6, <2>7, <2>8
<1>6. CASE ~WalkNode /\ ~ValidateKnown /\ ~ValidateFresh
  BY <1>2, <1>6, RecordMoves DEF Marks, Rescopes
<1> QED BY <1>4, <1>5, <1>6

(* An owner is admitted as a root, or from a record that leads to it. *)
LEMMA AdmittedLedTo ==
    ASSUME TypeOK, ExclusionInv, ExclusionInv', FrontierAdmitted, ScopeInv, [Next]_vars,
           NEW S \in SUBSET Nodes, ClosedScope(S)'
    PROVE  admitted' \subseteq S
<1>0. /\ admitted \subseteq S /\ ScopeRoots' \subseteq S /\ Records' \subseteq S
      /\ \A n \in S : LeadsTo(n)' \subseteq S
  BY ClosedBefore, RecordsLedTo
<1>1. world' = world /\ \A o : IsExcluded(o)' <=> IsExcluded(o)
  BY WorldFixed DEF IsExcluded
<1>2. CASE admitted' = admitted
  BY <1>0, <1>2
<1>3. CASE ProbeTls
  <2>1. PICK l \in LocalSets : l = Head(todo)
    BY <1>3, RangeTail DEF ProbeTls, TypeOK, FrontierAdmitted
  <2>2. \/ admitted' = admitted
        \/ admitted' = admitted \cup {l} /\ roots' = Append(roots, l)
    BY <1>3, <2>1 DEF ProbeTls
  <2>3. ASSUME roots' = Append(roots, l) PROVE l \in ScopeRoots'
    <3>1. roots \in Seq(Owners) /\ l \in Owners /\ ~IsExcluded(l)
      BY ConstantsAssumption DEF TypeOK, Owners, IsExcluded
    <3>2. l \in SeqRange(roots')
      BY <2>3, <3>1, RangeAppend
    <3> QED BY <1>1, <3>1, <3>2 DEF ScopeRoots, SeqRange
  <2> QED BY <1>0, <2>2, <2>3
<1>4. CASE ValidateFresh
  <2>1. PICK c, t : c = Head(queue.validations) /\ t = c.addr
    OBVIOUS
  <2>2. Files(t, SourceOf(c), QueueClaim(c) \cup CellClaim(t))
    BY <1>4, <2>1, FreshFiles
  <2>3. t \in Records' /\ t \in Tasks /\ CellClaim(t) \subseteq rec'[t].claims
    BY <2>2, FilesKnows DEF Files, Records, Known
  <2>4. admitted' = admitted \cup Admits(t)
    BY <1>4, <2>1 DEF ValidateFresh
  <2>5. ASSUME NEW o \in Admits(t) PROVE o \in S
    <3>1. o \in Owners /\ ~IsExcluded(o) /\ [owner |-> o, evidence |-> "cell"] \in CellClaim(t)
      BY DEF Admits, CellOwner, CellClaim
    <3>2. o \in OwnersOf(rec'[t])
      BY <2>3, <3>1 DEF OwnersOf
    <3>3. ~ExcludedOwned(rec[t])'
      BY <1>1, <3>1, <3>2 DEF ExcludedOwned, OwnersOf
    <3>4. o \in LeadsTo(t)'
      BY <1>1, <2>3, <3>1, <3>3, ConstantsAssumption DEF LeadsTo
    <3> QED BY <1>0, <2>3, <3>4
  <2> QED BY <1>0, <2>4, <2>5
<1> QED
  BY <1>2, <1>3, <1>4
  DEF Next, Walk, Prepare, Sweep, Terminated, vars, WalkNode, WalkFails,
      NextShard, EndWalk, EnumerateRoot, EndEnumerate, EndProbe,
      ScheduleRoot, StartSweep, ValidateKnown, ValidateFails,
      EnumerateRuntime, EnumerateLocalSet, ScanTask, Harvest,
      HarvestTimers, HarvestIo, HarvestBlockingQueue, Finish

(* The scope's walk, at the end of the sweep, ends in a set that holds    *)
(* every record and every admitted owner.                                 *)
LEMMA ScopeHoldsAll ==
    ASSUME ScopeInv, TypeOK
    PROVE  Records \cup admitted \subseteq Scope
<1>1. Records \cup admitted \subseteq Nodes
  BY DEF Records, TypeOK, Nodes
<1>2. Scope = {n \in Nodes : \A S \in SUBSET Nodes : ClosedScope(S) => n \in S}
  <2>1. PICK next : next = [n \in Nodes |-> LeadsTo(n)]
    OBVIOUS
  <2>2. Scope = {n \in Nodes : \A S \in {S \in SUBSET Nodes : /\ ScopeRoots \subseteq S
                                        /\ \A m \in S : next[m] \subseteq S} : n \in S}
    BY <2>1 DEF Scope
  <2>3. \A S \in SUBSET Nodes :
          (ScopeRoots \subseteq S /\ \A m \in S : next[m] \subseteq S) <=> ClosedScope(S)
    BY <2>1 DEF ClosedScope
  <2> QED BY <2>2, <2>3
<1> QED BY <1>1, <1>2 DEF ScopeInv

(* No step leaves the scope behind. *)
LEMMA ScopeStep ==
    ASSUME TypeOK, ExclusionInv, ExclusionInv', FrontierAdmitted, ScopeInv, [Next]_vars
    PROVE  ScopeInv'
<1>1. \A S \in SUBSET Nodes : ClosedScope(S)' => Records' \cup admitted' \subseteq S
  BY RecordsLedTo, AdmittedLedTo
<1>2. ASSUME NEW t \in Tasks PROVE rec'[t].sources = {} => rec'[t].claims = {}
  <2>1. ASSUME NEW u, NEW s, NEW C, Files(u, s, C)
        PROVE  rec'[t].sources = {} => rec'[t].claims = {}
    BY <2>1, FilesKnows DEF Files, ScopeInv
  <2>2. CASE rec'[t].sources = rec[t].sources /\ rec'[t].claims = rec[t].claims
    BY <2>2 DEF ScopeInv
  <2> QED BY <2>1, <2>2, RecordMoves DEF Marks, Rescopes
<1>3. ASSUME NEW t \in Tasks PROVE rec'[t].inScope
  <2>1. rec[t].inScope
    BY DEF ScopeInv
  <2>2. CASE Finish
    <3>1. rec[t] \in Record
      BY DEF TypeOK
    <3>2. PICK b : b = (t \in Scope)
      OBVIOUS
    <3>3. rec'[t] = IF Known(t) THEN [rec[t] EXCEPT !.inScope = b] ELSE rec[t]
      BY <2>2, <3>2 DEF Finish
    <3>4. Known(t) => t \in Scope
      BY ScopeHoldsAll DEF Records
    <3>5. [rec[t] EXCEPT !.inScope = b].inScope = b
      BY <3>1 DEF Record
    <3> QED BY <2>1, <3>2, <3>3, <3>4, <3>5
  <2>3. CASE ~Finish
    BY <2>1, <2>3, RecordMoves DEF Files, Marks
  <2> QED BY <2>2, <2>3
<1>4. phase' = "done" => admitted' \subseteq reached'
  <2>1. CASE Finish
    BY <2>1, ScopeHoldsAll DEF Finish, TypeOK
  <2>2. CASE ~Finish /\ phase' = "done"
    <3>1. phase = "done"
      BY <2>2
      DEF Next, Walk, Prepare, Sweep, Terminated, vars, WalkNode, WalkFails,
          NextShard, EndWalk, EnumerateRoot, EndEnumerate, EndProbe, ProbeTls,
          ScheduleRoot, StartSweep, ValidateKnown, ValidateFresh, ValidateFails,
          EnumerateRuntime, EnumerateLocalSet, ScanTask, Harvest,
          HarvestTimers, HarvestIo, HarvestBlockingQueue
    <3>2. admitted' = admitted /\ reached' = reached
      BY <2>2, <3>1
      DEF Next, Walk, Prepare, Sweep, Terminated, vars, WalkNode, WalkFails,
          NextShard, EndWalk, EnumerateRoot, EndEnumerate, EndProbe, ProbeTls,
          ScheduleRoot, StartSweep, ValidateKnown, ValidateFresh, ValidateFails,
          EnumerateRuntime, EnumerateLocalSet, ScanTask, Harvest, Pops,
          HarvestTimers, HarvestIo, HarvestBlockingQueue
    <3> QED BY <3>1, <3>2 DEF ScopeInv
  <2> QED BY <2>1, <2>2
<1> QED BY <1>1, <1>2, <1>3, <1>4 DEF ScopeInv

(* The session starts from the roots. *)
LEMMA ScopeInit ==
    ASSUME Init
    PROVE  ScopeInv
<1>1. WorldOK(world) /\ world.runtimes \in Seq(Runtimes)
  BY ConstantsAssumption DEF Init, WorldOK, WorldType
<1>2. \A t \in Tasks : rec[t].sources = {} /\ rec[t].claims = {} /\ rec[t].inScope
  BY DEF Init, NoRecord
<1>3. Records = {}
  BY <1>2 DEF Records, Known
<1>4. admitted \subseteq ScopeRoots
  BY <1>1 DEF Init, ScopeRoots, WorldOK, IsExcluded, Owners
<1> QED BY <1>2, <1>3, <1>4 DEF ScopeInv, ClosedScope, Init

(* On every target, whatever is closed under the scope's rule holds what  *)
(* the session found: apply_scope never removes anything.                 *)
THEOREM ScopeHolds == Spec => []ScopeInv
<1>1. TypeOK /\ ExclusionInv /\ ExclusionInv' /\ BooksInv /\ ScopeInv /\ [Next]_vars => ScopeInv'
  BY ScopeStep DEF BooksInv
<1> QED BY <1>1, ScopeInit, TypeCorrect, ExclusionHolds, BooksHold, PTL DEF Spec

(* The report "reached only through tasks of an excluded runtime" cannot  *)
(* appear: every record stays in scope and every admitted owner is kept.  *)
THEOREM ScopeNeverRemoves == Spec => []ScopeIsTotal
<1>1. ScopeInv => ScopeIsTotal
  BY DEF ScopeInv, ScopeIsTotal, Kept
<1> QED BY <1>1, ScopeHolds, PTL

-----------------------------------------------------------------------------
(* The damage.                                                             *)

(* The links of an owner's lists: its heads, by their place, and the      *)
(* links in the nodes.                                                    *)
Link == ({0} \X Nat) \cup ({1} \X Tasks)

Target(o, l) == IF l[1] = 0 THEN world.shards[Home(o)][l[2]] ELSE world.next[l[2]]

(* The links of the first h heads and of the nodes of V. *)
LinksOf(h, V) == {l \in Link : IF l[1] = 0 THEN l[2] \in 1 .. h ELSE l[2] \in V}

AllLinks(o) == LinksOf(Len(world.shards[Home(o)]), Linked(o))

WalkErr(o, E) == [what |-> "walk", at |-> o] \in E

(* An owner's links lead out of mapped memory, to a node that does not    *)
(* read, or twice to one node.                                            *)
Bent(o) ==
    \E l \in AllLinks(o) :
        \/ Target(o, l) \in {Wild, Broken}
        \/ /\ Target(o, l) \in Tasks
           /\ \E m \in AllLinks(o) : m # l /\ Target(o, m) = Target(o, l)

(* What a walk that followed the links C and met the nodes V, and is at   *)
(* "at" with the errors E, has seen: each link but the one it is at leads *)
(* to a node met or out of the list, and what is wrong was reported.      *)
Shape(o, C, V, at, E) ==
    /\ \A l \in C : Target(o, l) \in Tasks => Target(o, l) \in V \cup {at}
    /\ \A l \in C : Target(o, l) \in {Wild, Broken} => Target(o, l) = at \/ WalkErr(o, E)
    /\ \A l, m \in C :
         (l # m /\ Target(o, l) = Target(o, m) /\ Target(o, l) \in Tasks)
           => WalkErr(o, E) \/ (Target(o, l) = at /\ at \in V)
    /\ at = Null => \A t \in V : \E l \in C : Target(o, l) = t
    /\ at # Null => \E last \in C :
         /\ Target(o, last) = at
         /\ \A t \in V : \E l \in C : l # last /\ Target(o, l) = t
    /\ V \cup ({at} \cap Tasks) \subseteq Linked(o)

(* The walk has taken h heads, has the heads R left, and has seen this. *)
SeenAt(o, h, R, V, at, E) ==
    /\ IsFiniteSet(V)
    /\ h + Len(R) = Len(world.shards[Home(o)])
    /\ \A i \in 1 .. Len(R) : R[i] = world.shards[Home(o)][h + i]
    /\ Shape(o, LinksOf(h, V), V, at, E)

(* The walk of o's lists filed t. *)
ListedIn(o, t) == [route |-> "list", at |-> o, nth |-> 0] \in rec[t].sources

WalkSeen ==
    Walking =>
        /\ \A t \in walk.visited : world.next[t] # Broken => ListedIn(walk.owner, t)
        /\ \E h \in Nat :
             SeenAt(walk.owner, h, walk.shards, walk.visited, walk.at, errors)

(* One link more: a head's, or a node's. *)
LEMMA HeadLink ==
    ASSUME NEW h \in Nat, NEW V \in SUBSET Tasks, NEW o
    PROVE  /\ LinksOf(h + 1, V) = LinksOf(h, V) \cup {<<0, h + 1>>}
           /\ <<0, h + 1>> \notin LinksOf(h, V)
           /\ Target(o, <<0, h + 1>>) = world.shards[Home(o)][h + 1]
<1>1. \A i : i \in 1 .. (h + 1) <=> (i \in 1 .. h \/ i = h + 1)
  OBVIOUS
<1>2. h + 1 \in Nat /\ h + 1 \notin 1 .. h
  OBVIOUS
<1>3. ASSUME NEW l PROVE l \in LinksOf(h + 1, V) <=> l \in LinksOf(h, V) \cup {<<0, h + 1>>}
  <2>1. CASE l \in Link /\ l[1] = 0
    <3>1. l = <<0, l[2]>>
      BY <2>1 DEF Link
    <3> QED BY <1>1, <2>1, <3>1 DEF LinksOf
  <2>2. CASE l \in Link /\ l[1] # 0
    BY <2>2 DEF LinksOf
  <2>3. CASE l \notin Link
    <3>1. <<0, h + 1>> \in Link
      BY <1>2 DEF Link
    <3> QED BY <2>3, <3>1 DEF LinksOf
  <2> QED BY <2>1, <2>2, <2>3
<1>4. <<0, h + 1>> \notin LinksOf(h, V)
  BY <1>2 DEF LinksOf
<1> QED BY <1>3, <1>4 DEF Target

(* A visited node adds its own link to those a walk has followed. *)
LEMMA NodeLink ==
    ASSUME NEW h \in Nat, NEW V \in SUBSET Tasks, NEW t \in Tasks, NEW o
    PROVE  /\ LinksOf(h, V \cup {t}) = LinksOf(h, V) \cup {<<1, t>>}
           /\ t \notin V => <<1, t>> \notin LinksOf(h, V)
           /\ Target(o, <<1, t>>) = world.next[t]
<1>1. ASSUME NEW l PROVE l \in LinksOf(h, V \cup {t}) <=> l \in LinksOf(h, V) \cup {<<1, t>>}
  <2>1. CASE l \in Link /\ l[1] = 1
    <3>1. l = <<1, l[2]>>
      BY <2>1 DEF Link
    <3> QED BY <2>1, <3>1 DEF LinksOf
  <2>2. CASE l \in Link /\ l[1] # 1
    BY <2>2 DEF LinksOf, Link
  <2>3. CASE l \notin Link
    <3>1. <<1, t>> \in Link
      BY DEF Link
    <3> QED BY <2>3, <3>1 DEF LinksOf
  <2> QED BY <2>1, <2>2, <2>3
<1>2. t \notin V => <<1, t>> \notin LinksOf(h, V)
  BY DEF LinksOf
<1> QED BY <1>1, <1>2 DEF Target

(* A walk that has begun has followed nothing. *)
LEMMA NoLinks ==
    LinksOf(0, {}) = {}
  BY DEF LinksOf, Link

(* The tasks linked are closed under the links. *)
LEMMA LinkedClosed ==
    ASSUME NEW o
    PROVE  /\ Heads(o) \cap Tasks \subseteq Linked(o)
           /\ \A u \in Linked(o) : world.next[u] \in Tasks => world.next[u] \in Linked(o)
           /\ Linked(o) \subseteq Tasks
           /\ \A S \in SUBSET Tasks :
                (/\ Heads(o) \cap Tasks \subseteq S
                 /\ \A u \in S : world.next[u] \in Tasks => world.next[u] \in S)
                => Linked(o) \subseteq S
  BY DEF Linked

(* Reading a node: its link is followed. *)
LEMMA ShapeReads ==
    ASSUME NEW o, NEW C, NEW V \in SUBSET Tasks, NEW t \in Tasks \ V, NEW E, NEW n, n \notin C,
           Shape(o, C, V, t, E), Target(o, n) = world.next[t]
    PROVE  Shape(o, C \cup {n}, V \cup {t}, world.next[t], E)
<1> DEFINE D == C \cup {n}
           W == V \cup {t}
<1>0. t # Null /\ t \notin {Wild, Broken}
  BY ConstantsAssumption DEF Nodes, Markers
<1>1. PICK a : a = world.next[t]
  OBVIOUS
<1>2. \A l \in D : Target(o, l) \in Tasks => Target(o, l) \in W \cup {a}
  BY <1>1 DEF Shape
<1>3. \A l \in D : Target(o, l) \in {Wild, Broken} => Target(o, l) = a \/ WalkErr(o, E)
  BY <1>0, <1>1 DEF Shape
<1>4. ASSUME NEW l \in D, NEW m \in D, l # m, Target(o, l) = Target(o, m), Target(o, l) \in Tasks
      PROVE  WalkErr(o, E) \/ (Target(o, l) = a /\ a \in W)
  <2>1. CASE l \in C /\ m \in C
    BY <1>4, <2>1 DEF Shape
  <2>2. CASE l = n \/ m = n
    BY <1>1, <1>4, <2>2 DEF Shape
  <2> QED BY <2>1, <2>2
<1>5. PICK last \in C : /\ Target(o, last) = t
                        /\ \A u \in V : \E l \in C : l # last /\ Target(o, l) = u
  BY <1>0 DEF Shape
<1>6. \A u \in W : \E l \in C : Target(o, l) = u
  BY <1>5
<1>7. \A u \in W : \E l \in D : Target(o, l) = u
  BY <1>6
<1>8. \A u \in W : \E l \in D : l # n /\ Target(o, l) = u
  BY <1>6
<1>9. t \in Linked(o) /\ V \subseteq Linked(o)
  BY DEF Shape
<1>10. W \cup ({a} \cap Tasks) \subseteq Linked(o)
  BY <1>1, <1>9, LinkedClosed
<1>11. n \in D /\ Target(o, n) = a
  BY <1>1
<1> HIDE DEF D, W
<1>12. Shape(o, D, W, a, E)
  BY <1>2, <1>3, <1>4, <1>7, <1>8, <1>10, <1>11 DEF Shape
<1> QED BY <1>1, <1>12 DEF D, W

(* Taking the next head: its link is followed. *)
LEMMA ShapeTakes ==
    ASSUME NEW o, NEW C, NEW V \in SUBSET Tasks, NEW E, NEW n, n \notin C, NEW a,
           Shape(o, C, V, Null, E), Target(o, n) = a, {a} \cap Tasks \subseteq Linked(o)
    PROVE  Shape(o, C \cup {n}, V, a, E)
<1> DEFINE D == C \cup {n}
<1>0. Null \notin Tasks /\ Null \notin {Wild, Broken}
  BY ConstantsAssumption DEF Nodes, Markers, Null, Wild, Broken
<1>1. \A l \in D : Target(o, l) \in Tasks => Target(o, l) \in V \cup {a}
  BY <1>0 DEF Shape
<1>2. \A l \in D : Target(o, l) \in {Wild, Broken} => Target(o, l) = a \/ WalkErr(o, E)
  BY <1>0 DEF Shape
<1>3. ASSUME NEW l \in D, NEW m \in D, l # m, Target(o, l) = Target(o, m), Target(o, l) \in Tasks
      PROVE  WalkErr(o, E) \/ (Target(o, l) = a /\ a \in V)
  <2>1. CASE l \in C /\ m \in C
    BY <1>0, <1>3, <2>1 DEF Shape
  <2>2. CASE l = n \/ m = n
    BY <1>0, <1>3, <2>2 DEF Shape
  <2> QED BY <2>1, <2>2
<1>4. \A u \in V : \E l \in C : Target(o, l) = u
  BY DEF Shape
<1>5. V \cup ({a} \cap Tasks) \subseteq Linked(o)
  BY DEF Shape
<1>6. \A u \in V : \E l \in D : l # n /\ Target(o, l) = u
  BY <1>4
<1>7. n \in D /\ Target(o, n) = a
  OBVIOUS
<1> HIDE DEF D
<1>8. Shape(o, D, V, a, E)
  BY <1>1, <1>2, <1>3, <1>5, <1>6, <1>7 DEF Shape
<1> QED BY <1>8 DEF D

(* A node that fails is met all the same, and reported. *)
LEMMA ShapeFails ==
    ASSUME NEW o, NEW C, NEW D, NEW V \in SUBSET Tasks, NEW E, NEW F, NEW a, a # Null,
           Shape(o, C, V, a, E), WalkErr(o, F), C \subseteq D,
           \A l \in D \ C : Target(o, l) = Broken
    PROVE  Shape(o, D, V \cup ({a} \cap Tasks), Null, F)
<1> DEFINE W == V \cup ({a} \cap Tasks)
<1>0. Null \notin Tasks /\ Broken \notin Tasks
  BY ConstantsAssumption DEF Nodes, Markers
<1>1. \A l \in D : Target(o, l) \in Tasks => Target(o, l) \in W \cup {Null}
  BY <1>0 DEF Shape
<1>2. PICK last \in C : /\ Target(o, last) = a
                        /\ \A u \in V : \E l \in C : l # last /\ Target(o, l) = u
  BY DEF Shape
<1>3. \A u \in W : \E l \in D : Target(o, l) = u
  BY <1>2
<1>4. W \cup ({Null} \cap Tasks) \subseteq Linked(o)
  BY <1>0 DEF Shape
<1> HIDE DEF W
<1>5. Shape(o, D, W, Null, F)
  BY <1>1, <1>3, <1>4 DEF Shape
<1> QED BY <1>5 DEF W

(* What a walk has seen of the target depends on the target. *)
LEMMA SeenTransfer ==
    ASSUME world' = world, NEW o, NEW h, NEW R, NEW V, NEW at, NEW E,
           walk'.owner = o, walk'.shards = R, walk'.visited = V, walk'.at = at, errors' = E,
           SeenAt(o, h, R, V, at, E)
    PROVE  SeenAt(walk.owner, h, walk.shards, walk.visited, walk.at, errors)'
  BY DEF SeenAt, Shape, LinksOf, Target, Linked, Heads, WalkErr

(* More reports take nothing from what was seen. *)
LEMMA ShapeMore ==
    ASSUME NEW o, NEW C, NEW V, NEW a, NEW E, NEW F, E \subseteq F, Shape(o, C, V, a, E)
    PROVE  Shape(o, C, V, a, F)
<1>1. WalkErr(o, E) => WalkErr(o, F)
  BY DEF WalkErr
<1> QED BY <1>1 DEF Shape

(* A report is for good. *)
LEMMA ErrorsGrow ==
    ASSUME [Next]_vars
    PROVE  errors \subseteq errors'
  BY DEF Next, Walk, Prepare, Sweep, Terminated, vars, WalkNode, WalkFails,
         NextShard, EndWalk, EnumerateRoot, EndEnumerate, ProbeTls, EndProbe,
         ScheduleRoot, StartSweep, ValidateKnown, ValidateFresh, ValidateFails,
         EnumerateRuntime, EnumerateLocalSet, ScanTask, Harvest, StartWalk,
         HarvestTimers, HarvestIo, HarvestBlockingQueue, Finish

(* The walk under way, in its parts. *)
LEMMA WalkParts ==
    ASSUME TypeOK, Walking
    PROVE  /\ walk \in [owner : Owners, shards : Seq(Tasks \cup {Null, Wild}),
                        at : Tasks \cup {Null, Wild}, visited : SUBSET Tasks]
           /\ walk.owner \in Owners /\ walk.shards \in Seq(Tasks \cup {Null, Wild})
           /\ walk.at \in Tasks \cup {Null, Wild} /\ walk.visited \in SUBSET Tasks
           /\ Home(walk.owner) \in Homes
           /\ world.shards[Home(walk.owner)] \in Seq(Tasks \cup {Null, Wild})
<1>1. walk \in [owner : Owners, shards : Seq(Tasks \cup {Null, Wild}),
                at : Tasks \cup {Null, Wild}, visited : SUBSET Tasks]
  BY DEF TypeOK, WalkState, Walking
<1>2. walk.owner \in Owners /\ walk.shards \in Seq(Tasks \cup {Null, Wild})
      /\ walk.at \in Tasks \cup {Null, Wild} /\ walk.visited \in SUBSET Tasks
  BY <1>1
<1>3. Home(walk.owner) \in Homes
  BY <1>2, ConstantsAssumption DEF Home, Homes, Owners
<1>4. world.shards[Home(walk.owner)] \in Seq(Tasks \cup {Null, Wild})
  BY <1>3 DEF TypeOK, WorldType
<1> QED BY <1>1, <1>2, <1>3, <1>4

(* A walk reads a node. *)
LEMMA SeenReads ==
    ASSUME TypeOK, WalkSeen, WalkNode, [Next]_vars
    PROVE  WalkSeen'
<1>0. Walking /\ world' = world /\ \A t \in Tasks : rec[t].sources \subseteq rec'[t].sources
  BY WorldFixed, NothingLeaves DEF WalkNode
<1>1. PICK o, R, E : o = walk.owner /\ R = walk.shards /\ E = errors
  OBVIOUS
<1>2. PICK V \in SUBSET Tasks : V = walk.visited
  BY <1>0, WalkParts
<1>3. PICK t \in Tasks \ V : t = walk.at
  BY <1>2 DEF WalkNode, NodeReads
<1>4. PICK h \in Nat : SeenAt(o, h, R, V, t, E)
  BY <1>0, <1>1, <1>2, <1>3 DEF WalkSeen
<1>5. /\ walk'.owner = o /\ walk'.shards = R /\ walk'.visited = V \cup {t}
      /\ walk'.at = world.next[t] /\ errors' = E
  BY <1>0, <1>1, <1>2, <1>3, WalkParts DEF WalkNode
<1>6. Shape(o, LinksOf(h, V), V, t, E) /\ IsFiniteSet(V)
  BY <1>4 DEF SeenAt
<1>7. /\ LinksOf(h, V \cup {t}) = LinksOf(h, V) \cup {<<1, t>>}
      /\ <<1, t>> \notin LinksOf(h, V) /\ Target(o, <<1, t>>) = world.next[t]
  BY NodeLink
<1>8. Shape(o, LinksOf(h, V \cup {t}), V \cup {t}, world.next[t], E)
  <2>1. PICK C, l : C = LinksOf(h, V) /\ l = <<1, t>>
    OBVIOUS
  <2>2. Shape(o, C, V, t, E) /\ l \notin C /\ Target(o, l) = world.next[t]
    BY <1>6, <1>7, <2>1
  <2>3. Shape(o, C \cup {l}, V \cup {t}, world.next[t], E)
    BY <2>2, ShapeReads
  <2> QED BY <1>7, <2>1, <2>3
<1>9. IsFiniteSet(V \cup {t})
  BY <1>6, FS_AddElement
<1>10. PICK W, a : W = V \cup {t} /\ a = world.next[t]
  OBVIOUS
<1>11. SeenAt(o, h, R, W, a, E)
  BY <1>4, <1>8, <1>9, <1>10 DEF SeenAt
<1>12. SeenAt(walk.owner, h, walk.shards, walk.visited, walk.at, errors)'
  BY <1>0, <1>5, <1>10, <1>11, SeenTransfer
<1>13. ListedIn(o, t)'
  BY <1>1, <1>3, WalkNodeFiles, FilesKnows DEF ListedIn, ListSource, Lists
<1>14. \A u \in V : world.next[u] # Broken => ListedIn(o, u)
  BY <1>0, <1>1, <1>2 DEF WalkSeen
<1>15. \A u \in V \cup {t} : world'.next[u] # Broken => ListedIn(o, u)'
  BY <1>0, <1>13, <1>14 DEF ListedIn
<1> QED BY <1>5, <1>12, <1>15 DEF WalkSeen, ListedIn

(* A walk meets a node that fails. *)
LEMMA SeenFails ==
    ASSUME TypeOK, WalkSeen, WalkFails, [Next]_vars
    PROVE  WalkSeen'
<1>0. Walking /\ world' = world /\ rec' = rec
  BY WorldFixed DEF WalkFails, store
<1>1. PICK o, R, E, F : o = walk.owner /\ R = walk.shards /\ E = errors /\ F = errors'
  OBVIOUS
<1>2. PICK V \in SUBSET Tasks : V = walk.visited
  BY <1>0, WalkParts
<1>3. PICK a \in Tasks \cup {Null, Wild} : a = walk.at
  BY <1>0, WalkParts
<1>4. PICK h \in Nat : SeenAt(o, h, R, V, a, E)
  BY <1>0, <1>1, <1>2, <1>3 DEF WalkSeen
<1>5. PICK W \in SUBSET Tasks : W = V \cup ({a} \cap Tasks)
  OBVIOUS
<1>6. /\ walk'.owner = o /\ walk'.shards = R /\ walk'.visited = W
      /\ walk'.at = Null /\ errors' = F /\ WalkErr(o, F)
  BY <1>0, <1>1, <1>2, <1>3, <1>5, WalkParts DEF WalkFails, WalkErr
<1>7. a # Null /\ (a \in Tasks /\ a \notin V => world.next[a] = Broken)
  BY <1>2, <1>3 DEF WalkFails, NodeReads
<1>8. Shape(o, LinksOf(h, V), V, a, E) /\ IsFiniteSet(V)
  BY <1>4 DEF SeenAt
<1>9. /\ LinksOf(h, V) \subseteq LinksOf(h, W)
      /\ \A l \in LinksOf(h, W) \ LinksOf(h, V) : Target(o, l) = Broken
  <2>1. CASE W = V
    BY <2>1
  <2>2. CASE W # V
    <3>1. a \in Tasks /\ a \notin V /\ W = V \cup {a}
      BY <1>5, <2>2
    <3>2. LinksOf(h, W) = LinksOf(h, V) \cup {<<1, a>>} /\ Target(o, <<1, a>>) = world.next[a]
      BY <3>1, NodeLink
    <3> QED BY <1>7, <3>1, <3>2
  <2> QED BY <2>1, <2>2
<1>10. Shape(o, LinksOf(h, W), W, Null, F)
  <2>1. PICK C, D : C = LinksOf(h, V) /\ D = LinksOf(h, W)
    OBVIOUS
  <2>2. Shape(o, C, V, a, E) /\ C \subseteq D /\ \A l \in D \ C : Target(o, l) = Broken
    BY <1>8, <1>9, <2>1
  <2>3. Shape(o, D, W, Null, F)
    BY <1>5, <1>6, <1>7, <2>2, ShapeFails
  <2> QED BY <2>1, <2>3
<1>11. IsFiniteSet(W)
  <2>1. IsFiniteSet(V \cup {a})
    BY <1>8, FS_AddElement
  <2> QED BY <1>5, <2>1, FS_Subset
<1>12. SeenAt(o, h, R, W, Null, F)
  BY <1>4, <1>10, <1>11 DEF SeenAt
<1>13. SeenAt(walk.owner, h, walk.shards, walk.visited, walk.at, errors)'
  BY <1>0, <1>6, <1>12, SeenTransfer
<1>14. \A u \in W : world'.next[u] # Broken => ListedIn(o, u)'
  BY <1>0, <1>1, <1>2, <1>5, <1>7 DEF WalkSeen, ListedIn
<1> QED BY <1>6, <1>13, <1>14 DEF WalkSeen, ListedIn

(* A walk takes the next head. *)
LEMMA SeenTakes ==
    ASSUME TypeOK, WalkSeen, NextShard, [Next]_vars
    PROVE  WalkSeen'
<1>1. Walking /\ world' = world /\ rec' = rec
  BY WorldFixed DEF NextShard, store
<1>2. PICK o \in Owners : o = walk.owner
  BY <1>1, WalkParts
<1>3. PICK E : E = errors
  OBVIOUS
<1>4. PICK V \in SUBSET Tasks : V = walk.visited
  BY <1>1, WalkParts
<1>5. PICK R \in Seq(Tasks \cup {Null, Wild}) : R = walk.shards
  BY <1>1, WalkParts
<1>6. R # <<>> /\ walk.at = Null
  BY <1>5 DEF NextShard
<1>7. PICK h \in Nat : SeenAt(o, h, R, V, Null, E)
  BY <1>1, <1>2, <1>3, <1>4, <1>5, <1>6 DEF WalkSeen
<1>8. PICK Q \in Seq(Tasks \cup {Null, Wild}) : Q = Tail(R)
  BY <1>6, HeadTailProperties
<1>9. PICK a : a = Head(R)
  OBVIOUS
<1>10. /\ walk'.owner = o /\ walk'.shards = Q /\ walk'.visited = V
      /\ walk'.at = a /\ errors' = E
  BY <1>1, <1>2, <1>3, <1>4, <1>5, <1>8, <1>9, WalkParts DEF NextShard
<1>11. /\ Len(R) \in Nat \ {0} /\ Len(Q) = Len(R) - 1 /\ a = R[1]
      /\ \A i \in 1 .. Len(Q) : Q[i] = R[i + 1]
  BY <1>6, <1>8, <1>9
<1>12. PICK L : L = world.shards[Home(o)]
  OBVIOUS
<1>13. /\ h + Len(R) = Len(L) /\ \A i \in 1 .. Len(R) : R[i] = L[h + i]
       /\ Shape(o, LinksOf(h, V), V, Null, E) /\ IsFiniteSet(V)
  BY <1>7, <1>12 DEF SeenAt
<1>14. /\ (h + 1) + Len(Q) = Len(L) /\ a = L[h + 1]
  BY <1>11, <1>13
<1>15. ASSUME NEW i \in 1 .. Len(Q) PROVE Q[i] = L[(h + 1) + i]
  <2>1. i + 1 \in 1 .. Len(R) /\ h + (i + 1) = (h + 1) + i
    BY <1>11
  <2> QED BY <1>11, <1>13, <2>1
<1>16. /\ LinksOf(h + 1, V) = LinksOf(h, V) \cup {<<0, h + 1>>}
       /\ <<0, h + 1>> \notin LinksOf(h, V) /\ Target(o, <<0, h + 1>>) = a
  BY <1>12, <1>14, HeadLink
<1>17. {a} \cap Tasks \subseteq Linked(o)
  <2>1. L \in Seq(Tasks \cup {Null, Wild})
    BY <1>1, <1>2, <1>3, <1>12, WalkParts
  <2>2. h + 1 \in DOMAIN L
    BY <1>11, <1>13, <2>1
  <2>3. a \in Heads(o)
    BY <1>12, <1>14, <2>2 DEF Heads
  <2> QED BY <2>3, LinkedClosed
<1>18. PICK g \in Nat : g = h + 1
  OBVIOUS
<1>19. PICK C, n : C = LinksOf(h, V) /\ n = <<0, h + 1>>
  OBVIOUS
<1>20. LinksOf(g, V) = C \cup {n} /\ n \notin C /\ Target(o, n) = a /\ Shape(o, C, V, Null, E)
  BY <1>13, <1>16, <1>19, <1>18
<1>21. Shape(o, LinksOf(g, V), V, a, E)
  <2>1. Shape(o, C \cup {n}, V, a, E)
    BY <1>17, <1>20, ShapeTakes
  <2> QED BY <1>20, <2>1
<1>22. SeenAt(o, g, Q, V, a, E)
  BY <1>12, <1>13, <1>14, <1>15, <1>21, <1>18 DEF SeenAt
<1>23. SeenAt(walk.owner, g, walk.shards, walk.visited, walk.at, errors)'
  BY <1>1, <1>10, <1>22, SeenTransfer
<1>24. \A u \in V : world'.next[u] # Broken => ListedIn(o, u)'
  BY <1>1, <1>2, <1>4 DEF WalkSeen, ListedIn
<1> QED BY <1>10, <1>23, <1>24 DEF WalkSeen, ListedIn

(* A walk starts with nothing seen. *)
LEMMA SeenStarts ==
    ASSUME TypeOK, NEW o \in Owners, StartWalk(o), world' = world
    PROVE  WalkSeen'
<1>1. PICK L \in Seq(Tasks \cup {Null, Wild}) : L = world.shards[Home(o)]
  <2>1. Home(o) \in Homes
    BY ConstantsAssumption DEF Home, Homes, Owners
  <2> QED BY <2>1 DEF TypeOK, WorldType
<1>2. walk'.owner = o /\ walk'.shards = L /\ walk'.visited = {} /\ walk'.at = Null
  BY <1>1 DEF StartWalk, WalkFrom
<1>3. PICK E : E = errors'
  OBVIOUS
<1>4. Shape(o, {}, {}, Null, E)
  <2>1. Null \notin Tasks
    BY ConstantsAssumption DEF Nodes, Markers
  <2> QED BY <2>1 DEF Shape
<1>5. Shape(o, LinksOf(0, {}), {}, Null, E)
  BY <1>4, NoLinks
<1>6. Len(L) \in Nat /\ 0 + Len(L) = Len(L) /\ \A i \in 1 .. Len(L) : L[i] = L[0 + i]
  BY LenProperties
<1>7. SeenAt(o, 0, L, {}, Null, E)
  BY <1>1, <1>5, <1>6, FS_EmptySet DEF SeenAt
<1>8. SeenAt(walk.owner, 0, walk.shards, walk.visited, walk.at, errors)'
  BY <1>2, <1>3, <1>7, SeenTransfer
<1> QED BY <1>2, <1>8 DEF WalkSeen

(* What a walk has seen it keeps. *)
LEMMA SeenKept ==
    ASSUME TypeOK, WalkSeen, walk' = walk, [Next]_vars
    PROVE  WalkSeen'
<1>0. /\ world' = world /\ errors \subseteq errors'
      /\ \A t \in Tasks : rec[t].sources \subseteq rec'[t].sources
  BY WorldFixed, NothingLeaves, ErrorsGrow
<1>1. CASE Walking
  <2>1. PICK o, R, V, a, E, F : /\ o = walk.owner /\ R = walk.shards /\ V = walk.visited
                                /\ a = walk.at /\ E = errors /\ F = errors'
    OBVIOUS
  <2>2. PICK h \in Nat : SeenAt(o, h, R, V, a, E)
    BY <1>1, <2>1 DEF WalkSeen
  <2>3. SeenAt(o, h, R, V, a, F)
    <3>1. Shape(o, LinksOf(h, V), V, a, E) /\ E \subseteq F
      BY <1>0, <2>1, <2>2 DEF SeenAt
    <3>2. Shape(o, LinksOf(h, V), V, a, F)
      BY <3>1, ShapeMore
    <3> QED BY <2>2, <3>2 DEF SeenAt
  <2>4. SeenAt(walk.owner, h, walk.shards, walk.visited, walk.at, errors)'
    BY <1>0, <2>1, <2>3, SeenTransfer
  <2>5. \A u \in V : world'.next[u] # Broken => ListedIn(o, u)'
    BY <1>0, <1>1, <2>1, WalkParts DEF WalkSeen, ListedIn
  <2> QED BY <2>1, <2>4, <2>5 DEF WalkSeen, ListedIn
<1>2. CASE ~Walking
  BY <1>2 DEF WalkSeen, Walking
<1> QED BY <1>1, <1>2

(* Every step keeps what the walk under way has seen. *)
LEMMA WalkSeenStep ==
    ASSUME TypeOK, WalkSeen, [Next]_vars
    PROVE  WalkSeen'
<1>0. world' = world
  BY WorldFixed
<1>1. CASE EndWalk
  BY <1>1 DEF EndWalk, WalkSeen, Walking
<1>2. CASE EnumerateRoot
  <2>1. Head(todo) \in Owners
    BY <1>2, RangeTail DEF EnumerateRoot, TypeOK
  <2> QED BY <1>0, <1>2, <2>1, SeenStarts DEF EnumerateRoot
<1>3. CASE EnumerateRuntime
  <2>1. Head(queue.runtimes) \in Owners
    BY <1>3, RangeTail DEF EnumerateRuntime, Pops, TypeOK, QueueType, Owners
  <2> QED BY <1>0, <1>3, <2>1, SeenStarts DEF EnumerateRuntime
<1>4. CASE EnumerateLocalSet
  <2>1. Head(queue.sets) \in Owners
    BY <1>4, RangeTail DEF EnumerateLocalSet, Pops, TypeOK, QueueType, Owners
  <2> QED BY <1>0, <1>4, <2>1, SeenStarts DEF EnumerateLocalSet
<1>5. CASE walk' = walk
  BY <1>5, SeenKept
<1> QED
  BY <1>1, <1>2, <1>3, <1>4, <1>5, SeenReads, SeenFails, SeenTakes
  DEF Next, Walk, Prepare, Sweep, Terminated, vars, EndEnumerate, ProbeTls, EndProbe,
      ScheduleRoot, StartSweep, ValidateKnown, ValidateFresh, ValidateFails,
      ScanTask, Harvest, HarvestTimers, HarvestIo, HarvestBlockingQueue, Finish

-----------------------------------------------------------------------------

(* An owner's lists were read to their ends: every task linked that reads *)
(* is filed, and what is wrong was reported.                              *)
Complete(o) ==
    /\ IsFiniteSet(Linked(o))
    /\ \A t \in Linked(o) : world.next[t] # Broken => ListedIn(o, t)
    /\ Bent(o) => WalkErr(o, errors)

(* A walk that ends has read all the links of its owner's lists. *)
LEMMA WalkCompletes ==
    ASSUME TypeOK, WalkSeen, EndWalk
    PROVE  Complete(walk.owner)
<1>0. Walking /\ walk.at = Null /\ walk.shards = <<>>
  BY DEF EndWalk
<1>1. PICK o, E : o = walk.owner /\ E = errors
  OBVIOUS
<1>2. PICK V \in SUBSET Tasks : V = walk.visited
  BY <1>0, WalkParts
<1>3. PICK h \in Nat : SeenAt(o, h, <<>>, V, Null, E)
  BY <1>0, <1>1, <1>2 DEF WalkSeen
<1>4. PICK L \in Seq(Tasks \cup {Null, Wild}) : L = world.shards[Home(o)]
  BY <1>0, <1>1, WalkParts
<1>5. h = Len(L) /\ IsFiniteSet(V) /\ Shape(o, LinksOf(h, V), V, Null, E)
  BY <1>3, <1>4 DEF SeenAt
<1>6. Null \notin Tasks /\ Null \notin {Wild, Broken}
  BY ConstantsAssumption DEF Nodes, Markers, Null, Wild, Broken
<1>7. Heads(o) \cap Tasks \subseteq V
  <2> SUFFICES ASSUME NEW i \in DOMAIN L, L[i] \in Tasks PROVE L[i] \in V
    BY <1>4 DEF Heads
  <2>1. i \in 1 .. h /\ i \in Nat
    BY <1>4, <1>5
  <2>2. <<0, i>> \in LinksOf(h, V) /\ Target(o, <<0, i>>) = L[i]
    BY <1>4, <2>1 DEF LinksOf, Link, Target
  <2> QED BY <1>5, <1>6, <2>2 DEF Shape
<1>8. ASSUME NEW u \in V, world.next[u] \in Tasks PROVE world.next[u] \in V
  <2>1. <<1, u>> \in LinksOf(h, V) /\ Target(o, <<1, u>>) = world.next[u]
    BY DEF LinksOf, Link, Target
  <2> QED BY <1>5, <1>6, <1>8, <2>1 DEF Shape
<1>9. V = Linked(o)
  <2>1. Linked(o) \subseteq V
    BY <1>7, <1>8, LinkedClosed
  <2>2. V \subseteq Linked(o)
    BY <1>5 DEF Shape
  <2> QED BY <2>1, <2>2
<1>10. AllLinks(o) = LinksOf(h, V)
  BY <1>4, <1>5, <1>9 DEF AllLinks
<1>11. Bent(o) => WalkErr(o, E)
  <2> SUFFICES ASSUME NEW l \in LinksOf(h, V),
                 \/ Target(o, l) \in {Wild, Broken}
                 \/ /\ Target(o, l) \in Tasks
                    /\ \E m \in LinksOf(h, V) : m # l /\ Target(o, m) = Target(o, l)
               PROVE  WalkErr(o, E)
    BY <1>10 DEF Bent
  <2> QED BY <1>5, <1>6 DEF Shape
<1>12. \A t \in V : world.next[t] # Broken => ListedIn(o, t)
  BY <1>0, <1>1, <1>2 DEF WalkSeen
<1> QED BY <1>1, <1>5, <1>9, <1>11, <1>12 DEF Complete

(* A walk fails only where the links are bent. *)
LEMMA FailureIsBent ==
    ASSUME TypeOK, WalkSeen, WalkFails
    PROVE  Bent(walk.owner)
<1>0. Walking /\ walk.at # Null
  BY DEF WalkFails
<1>1. PICK o, E, R : o = walk.owner /\ E = errors /\ R = walk.shards
  OBVIOUS
<1>2. PICK V \in SUBSET Tasks : V = walk.visited
  BY <1>0, WalkParts
<1>3. PICK a \in Tasks \cup {Null, Wild} : a = walk.at
  BY <1>0, WalkParts
<1>4. PICK h \in Nat : SeenAt(o, h, R, V, a, E)
  BY <1>0, <1>1, <1>2, <1>3 DEF WalkSeen
<1>5. PICK L \in Seq(Tasks \cup {Null, Wild}) : L = world.shards[Home(o)]
  BY <1>0, <1>1, WalkParts
<1>6. h + Len(R) = Len(L) /\ Shape(o, LinksOf(h, V), V, a, E) /\ Len(R) \in Nat /\ Len(L) \in Nat
  BY <1>0, <1>1, <1>4, <1>5, WalkParts DEF SeenAt
<1>7. V \subseteq Linked(o) /\ (a \in Tasks => a \in Linked(o))
  BY <1>6 DEF Shape
<1>8. LinksOf(h, V) \subseteq AllLinks(o)
  <2>1. \A i : i \in 1 .. h => i \in 1 .. Len(L)
    BY <1>6
  <2> QED BY <1>5, <1>7, <2>1 DEF AllLinks, LinksOf
<1>9. PICK last \in LinksOf(h, V) : /\ Target(o, last) = a
                                    /\ \A u \in V : \E l \in LinksOf(h, V) : l # last /\ Target(o, l) = u
  BY <1>0, <1>3, <1>6 DEF Shape
<1>10. \/ a = Wild
       \/ a \in V
       \/ a \in Tasks /\ world.next[a] = Broken
  BY <1>0, <1>2, <1>3 DEF WalkFails, NodeReads
<1>11. CASE a = Wild
  BY <1>1, <1>8, <1>9, <1>11 DEF Bent
<1>12. CASE a \in V
  BY <1>1, <1>8, <1>9, <1>12 DEF Bent
<1>13. CASE a \in Tasks /\ world.next[a] = Broken
  <2>1. <<1, a>> \in AllLinks(o) /\ Target(o, <<1, a>>) = Broken
    BY <1>7, <1>13 DEF AllLinks, LinksOf, Link, Target
  <2> QED BY <1>1, <2>1 DEF Bent
<1> QED BY <1>10, <1>11, <1>12, <1>13

(* What is linked and what is bent are facts of the target. *)
LEMMA DamageFixed ==
    ASSUME world' = world, NEW o
    PROVE  /\ Linked(o)' = Linked(o)
           /\ Bent(o)' <=> Bent(o)
<1>1. Linked(o)' = Linked(o)
  BY DEF Linked, Heads
<1>2. AllLinks(o)' = AllLinks(o)
  BY <1>1 DEF AllLinks, LinksOf
<1>3. \A l : Target(o, l)' = Target(o, l)
  BY DEF Target
<1>4. Bent(o)' <=> Bent(o)
  BY <1>2, <1>3 DEF Bent
<1> QED BY <1>1, <1>4

(* A list read to its end stays so. *)
LEMMA CompleteStays ==
    ASSUME TypeOK, [Next]_vars, NEW o, Complete(o)
    PROVE  Complete(o)'
<1>0. /\ world' = world /\ errors \subseteq errors'
      /\ \A t \in Tasks : rec[t].sources \subseteq rec'[t].sources
  BY WorldFixed, NothingLeaves, ErrorsGrow
<1>1. Linked(o)' = Linked(o) /\ (Bent(o)' <=> Bent(o)) /\ Linked(o) \subseteq Tasks
  BY <1>0, DamageFixed, LinkedClosed
<1>2. Bent(o)' => WalkErr(o, errors)'
  BY <1>0, <1>1 DEF Complete, WalkErr
<1>3. \A t \in Linked(o) : world'.next[t] # Broken => ListedIn(o, t)'
  BY <1>0, <1>1 DEF Complete, ListedIn
<1>4. IsFiniteSet(Linked(o)')
  BY <1>1 DEF Complete
<1> QED BY <1>1, <1>2, <1>3, <1>4 DEF Complete

(* Only a walk that fails reports a walk. *)
LEMMA WalkErrorsFrom ==
    ASSUME [Next]_vars, NEW o, WalkErr(o, errors')
    PROVE  WalkErr(o, errors) \/ (WalkFails /\ o = walk.owner)
<1>1. CASE errors' = errors
  BY <1>1
<1>2. CASE WalkFails
  BY <1>2 DEF WalkFails, WalkErr
<1>3. ASSUME NEW w \in {"unbound", "set", "decode", "home"}, NEW a,
             errors' = errors \cup {[what |-> w, at |-> a]}
      PROVE  WalkErr(o, errors)
  <2>1. [what |-> "walk", at |-> o] # [what |-> w, at |-> a]
    <3>1. [what |-> "walk", at |-> o].what = "walk" /\ [what |-> w, at |-> a].what = w
      OBVIOUS
    <3> QED BY <3>1
  <2> QED BY <1>3, <2>1 DEF WalkErr
<1>4. CASE \E w \in {"unbound", "set", "decode", "home"} : \E a :
             errors' = errors \cup {[what |-> w, at |-> a]}
  BY <1>3, <1>4
<1>5. ASSUME NEW a, StartWalk(a)
      PROVE  WalkErr(o, errors)
  <2>1. errors' = errors \/ errors' = errors \cup {[what |-> "unbound", at |-> a]}
    BY <1>5 DEF StartWalk
  <2> QED BY <1>1, <1>3, <2>1
<1>6. CASE EnumerateRoot
  BY <1>5, <1>6 DEF EnumerateRoot
<1>7. CASE EnumerateRuntime
  BY <1>5, <1>7 DEF EnumerateRuntime
<1>8. CASE EnumerateLocalSet
  BY <1>5, <1>8 DEF EnumerateLocalSet
<1>9. CASE ProbeTls
  <2>1. errors' = errors \/ errors' = errors \cup {[what |-> "set", at |-> Head(todo)]}
    BY <1>9 DEF ProbeTls
  <2> QED BY <1>1, <1>3, <2>1
<1>10. CASE ValidateFresh
  <2>1. errors' = errors \/ errors' = errors \cup {[what |-> "home", at |-> Head(queue.validations).addr]}
    BY <1>10 DEF ValidateFresh
  <2> QED BY <1>1, <1>3, <2>1
<1>11. CASE ValidateFails
  <2>1. errors' = errors \cup {[what |-> "decode", at |-> Head(queue.validations).addr]}
    BY <1>11 DEF ValidateFails
  <2> QED BY <1>3, <2>1
<1> QED
  BY <1>1, <1>2, <1>6, <1>7, <1>8, <1>9, <1>10, <1>11
  DEF Next, Walk, Prepare, Sweep, Terminated, vars, WalkNode,
      NextShard, EndWalk, EndEnumerate, EndProbe, ScheduleRoot, StartSweep, ValidateKnown,
      ScanTask, Harvest, HarvestTimers, HarvestIo, HarvestBlockingQueue, Finish

(* An owner's lists are yet to be walked. *)
Pending(o) ==
    \/ phase = "enumerate" /\ o \in SeqRange(todo)
    \/ phase = "probe" /\ o \in LocalSets /\ o \in SeqRange(roots)
    \/ phase = "schedule" /\ o \in LocalSets /\ o \in SeqRange(todo)
    \/ o \in SeqRange(queue.runtimes) \cup SeqRange(queue.sets)

(* How an owner's lists stand. *)
Covered(o) == Pending(o) \/ (Walking /\ walk.owner = o) \/ Complete(o)

(* What the phases have scheduled. *)
PhasesInv ==
    /\ phase = "schedule" => scheduled \cap LocalSets \subseteq SeqRange(queue.sets)
    /\ phase \in {"enumerate", "probe"} => scheduled = {}
    /\ phase = "done" => ~Walking /\ (capped \/ NothingQueued)

(* Each admitted owner's lists wait, are being walked or were read to the *)
(* end, and what was reported is so.                                      *)
DamageInv ==
    /\ WalkSeen
    /\ \A o \in Owners : WalkErr(o, errors) => Bent(o)
    /\ \A o \in admitted : Covered(o)
    /\ PhasesInv

(* The phases keep their schedule. *)
LEMMA PhasesStep ==
    ASSUME TypeOK, PhasesInv, [Next]_vars
    PROVE  PhasesInv'
<1>1. CASE Finish
  <2>1. phase' = "done" /\ walk' = walk /\ ~Walking /\ queue' = queue
        /\ capped' = (AtLimit /\ ~NothingQueued) /\ (AtLimit \/ NothingQueued)
    BY <1>1 DEF Finish, work
  <2>2. NothingQueued' <=> NothingQueued
    BY <2>1 DEF NothingQueued
  <2>3. ~Walking'
    BY <2>1 DEF Walking
  <2>4. capped' \/ NothingQueued'
    BY <2>1, <2>2
  <2> QED BY <2>1, <2>3, <2>4 DEF PhasesInv
<1>2. CASE ScheduleRoot
  <2>0. phase' = "schedule" /\ phase = "schedule"
    BY <1>2 DEF ScheduleRoot
  <2>1. scheduled \cap LocalSets \subseteq SeqRange(queue.sets)
    BY <2>0 DEF PhasesInv
  <2>2. CASE Stays
    <3>1. queue'.sets = queue.sets /\ scheduled' = scheduled
      BY <2>2 DEF Stays, OwnerKinds
    <3> QED BY <2>0, <2>1, <3>1 DEF PhasesInv
  <2>3. ASSUME NEW o, Adds(o, FALSE) PROVE PhasesInv'
    <3>1. queue.sets \in Seq(LocalSets) /\ o \in Owners /\ scheduled' = scheduled \cup {o}
      BY <2>3 DEF Adds, TypeOK, QueueType
    <3>2. CASE o \in Runtimes
      <4>1. queue'.sets = queue.sets /\ o \notin LocalSets
        BY <2>3, <3>2, ConstantsAssumption DEF Adds
      <4> QED BY <2>0, <2>1, <3>1, <4>1 DEF PhasesInv
    <3>3. CASE o \notin Runtimes
      <4>1. queue'.sets = Append(queue.sets, o) /\ o \in LocalSets
        BY <2>3, <3>1, <3>3 DEF Adds, Owners
      <4>2. SeqRange(queue'.sets) = SeqRange(queue.sets) \cup {o}
        BY <3>1, <4>1, RangeAppend
      <4> QED BY <2>0, <2>1, <3>1, <4>2 DEF PhasesInv
    <3> QED BY <3>2, <3>3
  <2> QED BY <1>2, <2>2, <2>3, RootStep
<1>3. CASE phase' = "sweep"
  BY <1>3 DEF PhasesInv
<1>4. CASE phase' = phase /\ scheduled' = scheduled /\ walk' = walk /\ capped' = capped
           /\ queue' = queue
  BY <1>4 DEF PhasesInv, Walking, NothingQueued
<1>5. CASE phase = "done" /\ [Walk \/ Terminated]_vars
  BY <1>4, <1>5 DEF PhasesInv, Walk, WalkNode, WalkFails, NextShard, EndWalk, Terminated, vars
<1>6. CASE Walk /\ phase # "done" /\ phase # "sweep"
  <2>1. phase' = phase /\ scheduled' = scheduled /\ queue' = queue
    BY <1>6 DEF Walk, WalkNode, WalkFails, NextShard, EndWalk, work
  <2> QED BY <1>6, <2>1 DEF PhasesInv
<1>7. CASE EnumerateRoot
  <2>1. phase' = phase /\ phase = "enumerate" /\ scheduled' = scheduled /\ queue' = queue
    BY <1>7 DEF EnumerateRoot, work
  <2> QED BY <2>1 DEF PhasesInv
<1>8. CASE EndEnumerate \/ EndProbe \/ ProbeTls
  <2>1. /\ phase \in {"enumerate", "probe"} /\ scheduled' = scheduled
        /\ phase' \in {"enumerate", "probe", "schedule"}
    BY <1>8 DEF EndEnumerate, EndProbe, ProbeTls, work
  <2> QED BY <2>1 DEF PhasesInv
<1>9. CASE Walk /\ phase = "sweep"
  BY <1>3, <1>9 DEF Walk, WalkNode, WalkFails, NextShard, EndWalk
<1>10. CASE StartSweep \/ Sweep
  BY <1>3, <1>10 DEF StartSweep, Sweep, Pops, ValidateKnown, ValidateFresh, ValidateFails,
          EnumerateRuntime, EnumerateLocalSet, ScanTask, Harvest,
          HarvestTimers, HarvestIo, HarvestBlockingQueue
<1> QED
  BY <1>1, <1>2, <1>4, <1>5, <1>6, <1>7, <1>8, <1>9, <1>10
  DEF Next, Prepare, Terminated, vars

(* An owner queued or being walked, or done, stays so while the walk and  *)
(* the phase are left alone and its queues lose nothing.                  *)
LEMMA CoveredKept ==
    ASSUME TypeOK, [Next]_vars, NEW o, Covered(o), walk' = walk \/ ~Walking, phase' = phase,
           SeqRange(queue.runtimes) \subseteq SeqRange(queue'.runtimes),
           SeqRange(queue.sets) \subseteq SeqRange(queue'.sets),
           SeqRange(roots) \subseteq SeqRange(roots'), todo' = todo \/ phase \in {"probe", "sweep"}
    PROVE  Covered(o)'
<1>1. CASE Complete(o)
  BY <1>1, CompleteStays DEF Covered
<1>2. CASE Walking /\ walk.owner = o
  BY <1>2 DEF Covered, Walking
<1>3. CASE Pending(o)
  BY <1>3 DEF Covered, Pending
<1> QED BY <1>1, <1>2, <1>3 DEF Covered

(* A walk's steps. *)
LEMMA CoveredWalk ==
    ASSUME TypeOK, WalkSeen, [Next]_vars, Walk, NEW o, Covered(o)
    PROVE  Covered(o)'
<1>1. phase' = phase /\ todo' = todo /\ roots' = roots
  BY DEF Walk, WalkNode, WalkFails, NextShard, EndWalk
<1>2. queue'.runtimes = queue.runtimes /\ queue'.sets = queue.sets
  <2>1. CASE queue' = queue
    BY <2>1
  <2>2. CASE queue' = TakeScannable(queue, <<>>)
    <3>1. queue \in QueueType
      BY DEF TypeOK
    <3> QED BY <2>2, <3>1, TakenFields DEF QueueKinds
  <2>3. (WalkFails \/ NextShard \/ EndWalk) => queue' = queue \/ queue' = TakeScannable(queue, <<>>)
    BY DEF WalkFails, NextShard, EndWalk, work
  <2>4. WalkNode => queue' = queue
    BY DEF WalkNode, work
  <2> QED BY <2>1, <2>2, <2>3, <2>4 DEF Walk
<1>3. CASE Complete(o)
  BY <1>3, CompleteStays DEF Covered
<1>4. CASE Pending(o)
  BY <1>1, <1>2, <1>4 DEF Covered, Pending
<1>5. CASE Walking /\ walk.owner = o
  <2>1. CASE EndWalk
    BY <1>5, <2>1, WalkCompletes, CompleteStays DEF Covered
  <2>2. CASE ~EndWalk
    <3>1. walk'.owner = walk.owner
      BY <1>5, <2>2, WalkParts DEF Walk, WalkNode, WalkFails, NextShard
    <3>2. walk' # Idle
      <4>1. walk.owner \in Owners /\ Nobody \notin Owners
        BY <1>5, WalkParts, ConstantsAssumption DEF Nodes, Markers
      <4>2. Idle.owner = Nobody
        BY DEF Idle
      <4> QED BY <3>1, <4>1, <4>2
    <3> QED BY <1>5, <3>1, <3>2 DEF Covered, Walking
  <2> QED BY <2>1, <2>2
<1> QED BY <1>3, <1>4, <1>5 DEF Covered

(* A walk that starts. *)
LEMMA StartsWalking ==
    ASSUME NEW o \in Owners, StartWalk(o)
    PROVE  Covered(o)'
<1>1. walk'.owner = o
  BY DEF StartWalk, WalkFrom
<1>2. Nobody \notin Owners /\ Idle.owner = Nobody
  BY ConstantsAssumption DEF Nodes, Markers, Idle
<1> QED BY <1>1, <1>2 DEF Covered, Walking

(* Every admitted owner stays covered, and an owner newly admitted is.   *)
LEMMA CoveredStep ==
    ASSUME TypeOK, FrontierAdmitted, DamageInv, [Next]_vars, NEW o \in admitted'
    PROVE  Covered(o)'
<1>0. /\ todo \in Seq(Owners) /\ roots \in Seq(Owners) /\ queue \in QueueType
      /\ queue.runtimes \in Seq(Runtimes) /\ queue.sets \in Seq(LocalSets)
  BY DEF TypeOK, QueueType
<1>1. o \in admitted => Covered(o)
  BY DEF DamageInv
<1>2. WalkSeen
  BY DEF DamageInv
<1>3. CASE Walk
  <2>1. o \in admitted
    BY <1>3 DEF Walk, WalkNode, WalkFails, NextShard, EndWalk
  <2> QED BY <1>1, <1>2, <1>3, <2>1, CoveredWalk
<1>4. CASE EnumerateRoot
  <2>1. /\ o \in admitted /\ todo # <<>> /\ StartWalk(Head(todo)) /\ todo' = Tail(todo)
        /\ phase' = phase /\ phase = "enumerate" /\ queue' = queue /\ ~Walking
    BY <1>4 DEF EnumerateRoot, work
  <2>2. SeqRange(todo) = SeqRange(todo') \cup {Head(todo)} /\ Head(todo) \in Owners
    BY <1>0, <2>1, RangeTail
  <2>3. CASE o = Head(todo)
    BY <2>1, <2>2, <2>3, StartsWalking
  <2>4. CASE o # Head(todo)
    <3>1. CASE Complete(o)
      BY <3>1, CompleteStays DEF Covered
    <3>2. CASE Pending(o)
      BY <2>1, <2>2, <2>4, <3>2 DEF Covered, Pending
    <3> QED BY <1>1, <2>1, <3>1, <3>2 DEF Covered
  <2> QED BY <2>3, <2>4
<1>5. CASE EndEnumerate
  <2>1. /\ o \in admitted /\ todo = <<>> /\ phase = "enumerate" /\ queue' = queue /\ ~Walking
    BY <1>5 DEF EndEnumerate, work
  <2>2. SeqRange(todo) = {}
    BY <2>1 DEF SeqRange
  <2>3. CASE Complete(o)
    BY <2>3, CompleteStays DEF Covered
  <2>4. CASE Pending(o)
    BY <2>1, <2>2, <2>4 DEF Covered, Pending
  <2> QED BY <1>1, <2>1, <2>3, <2>4 DEF Covered
<1>6. CASE ProbeTls
  <2>1. PICK l \in LocalSets : l = Head(todo)
    BY <1>0, <1>6, RangeTail DEF ProbeTls, FrontierAdmitted
  <2>2. /\ phase' = phase /\ phase = "probe" /\ walk' = walk /\ queue' = queue
        /\ \/ roots' = roots /\ admitted' = admitted
           \/ roots' = Append(roots, l) /\ admitted' = admitted \cup {l}
    BY <1>6, <2>1 DEF ProbeTls, work
  <2>3. SeqRange(Append(roots, l)) = SeqRange(roots) \cup {l}
    BY <1>0, RangeAppend DEF Owners
  <2>4. CASE o \in admitted
    BY <1>1, <2>2, <2>3, <2>4, CoveredKept
  <2>5. CASE o \notin admitted
    <3>1. roots' = Append(roots, l) /\ o = l
      BY <2>2, <2>5
    <3>2. o \in SeqRange(roots')
      BY <2>3, <3>1
    <3> QED BY <2>2, <3>1, <3>2 DEF Covered, Pending
  <2> QED BY <2>4, <2>5
<1>7. CASE EndProbe
  <2>1. /\ o \in admitted /\ phase = "probe" /\ phase' = "schedule" /\ todo' = roots
        /\ queue' = queue /\ walk' = walk
    BY <1>7 DEF EndProbe, work
  <2>2. CASE Complete(o)
    BY <2>2, CompleteStays DEF Covered
  <2>3. CASE Pending(o)
    BY <2>1, <2>3 DEF Covered, Pending
  <2>4. CASE Walking /\ walk.owner = o
    BY <2>1, <2>4 DEF Covered, Walking
  <2> QED BY <1>1, <2>1, <2>2, <2>3, <2>4 DEF Covered
<1>8. CASE ScheduleRoot
  <2>1. /\ o \in admitted /\ phase = "schedule" /\ phase' = phase /\ todo # <<>> /\ todo' = Tail(todo)
        /\ walk' = walk
    BY <1>8 DEF ScheduleRoot
  <2>2. SeqRange(todo) = SeqRange(todo') \cup {Head(todo)} /\ Head(todo) \in Owners
    BY <1>0, <2>1, RangeTail
  <2>3. /\ SeqRange(queue.runtimes) \subseteq SeqRange(queue'.runtimes)
        /\ SeqRange(queue.sets) \subseteq SeqRange(queue'.sets)
        /\ Head(todo) \in LocalSets => Head(todo) \in SeqRange(queue'.sets)
    <3>1. CASE Stays /\ ~Schedules(Head(todo))
      <4>1. queue'.runtimes = queue.runtimes /\ queue'.sets = queue.sets
        BY <3>1 DEF Stays, OwnerKinds
      <4>2. Head(todo) \in LocalSets => Head(todo) \in scheduled
        BY <3>1, ConstantsAssumption DEF Schedules, IsExcluded
      <4> QED BY <2>1, <4>1, <4>2 DEF DamageInv, PhasesInv
    <3>2. CASE Adds(Head(todo), FALSE)
      <4>1. queue'.runtimes = queue.runtimes
        BY <3>2 DEF Adds
      <4>2. CASE Head(todo) \in Runtimes
        BY <3>2, <4>1, <4>2, ConstantsAssumption DEF Adds
      <4>3. CASE Head(todo) \notin Runtimes
        <5>1. queue'.sets = Append(queue.sets, Head(todo)) /\ Head(todo) \in LocalSets
          BY <2>2, <3>2, <4>3 DEF Adds, Owners
        <5>2. SeqRange(queue'.sets) = SeqRange(queue.sets) \cup {Head(todo)}
          BY <1>0, <5>1, RangeAppend
        <5> QED BY <4>1, <5>2
      <4> QED BY <4>2, <4>3
    <3> QED BY <1>8, <3>1, <3>2, RootStep
  <2>4. CASE Complete(o)
    BY <2>4, CompleteStays DEF Covered
  <2>5. CASE Pending(o)
    BY <2>1, <2>2, <2>3, <2>5 DEF Covered, Pending
  <2>6. CASE Walking /\ walk.owner = o
    BY <2>1, <2>6 DEF Covered, Walking
  <2> QED BY <1>1, <2>1, <2>4, <2>5, <2>6 DEF Covered
<1>9. CASE StartSweep
  <2>1. /\ o \in admitted /\ phase = "schedule" /\ phase' = "sweep" /\ todo = <<>> /\ walk' = walk
        /\ queue' = TakeScannable(queue, <<>>)
    BY <1>9 DEF StartSweep
  <2>2. queue'.runtimes = queue.runtimes /\ queue'.sets = queue.sets /\ SeqRange(todo) = {}
    BY <1>0, <2>1, TakenFields DEF QueueKinds, SeqRange
  <2>3. CASE Complete(o)
    BY <2>3, CompleteStays DEF Covered
  <2>4. CASE Pending(o)
    BY <2>1, <2>2, <2>4 DEF Covered, Pending
  <2>5. CASE Walking /\ walk.owner = o
    BY <2>1, <2>5 DEF Covered, Walking
  <2> QED BY <1>1, <2>1, <2>3, <2>4, <2>5 DEF Covered
<1>10. CASE Finish
  <2>1. o \in admitted /\ phase = "sweep" /\ walk' = walk /\ queue' = queue
    BY <1>10 DEF Finish, work
  <2>2. CASE Complete(o)
    BY <2>2, CompleteStays DEF Covered
  <2>3. CASE Pending(o)
    BY <2>1, <2>3 DEF Covered, Pending
  <2>4. CASE Walking /\ walk.owner = o
    BY <2>1, <2>4 DEF Covered, Walking
  <2> QED BY <1>1, <2>1, <2>2, <2>3, <2>4 DEF Covered
<1>11. ASSUME NEW k \in {"runtimes", "sets"}, Takes(k), StartWalk(Head(queue[k])), ~Walking,
              phase' = phase, phase = "sweep", o \in admitted
       PROVE  Covered(o)'
  <2>1. queue[k] \in Seq(Owners) /\ queue[k] # <<>>
    BY <1>0, <1>11 DEF Takes, Owners
  <2>2. SeqRange(queue[k]) = SeqRange(queue'[k]) \cup {Head(queue[k])} /\ Head(queue[k]) \in Owners
    BY <1>11, <2>1, RangeTail DEF Takes
  <2>3. CASE o = Head(queue[k])
    BY <1>11, <2>2, <2>3, StartsWalking
  <2>4. CASE o # Head(queue[k])
    <3>1. CASE Complete(o)
      BY <3>1, CompleteStays DEF Covered
    <3>2. CASE Pending(o)
      <4>1. o \in SeqRange(queue.runtimes) \/ o \in SeqRange(queue.sets)
        BY <1>11, <3>2 DEF Pending
      <4>2. \A j \in {"runtimes", "sets"} : o \in SeqRange(queue[j]) => o \in SeqRange(queue'[j])
        BY <1>11, <2>2, <2>4 DEF Takes, OwnerKinds
      <4> QED BY <4>1, <4>2 DEF Covered, Pending
    <3> QED BY <1>1, <1>11, <3>1, <3>2 DEF Covered
  <2> QED BY <2>3, <2>4
<1>12. CASE EnumerateRuntime
  <2>1. /\ StartWalk(Head(queue.runtimes)) /\ ~Walking /\ phase' = phase /\ phase = "sweep"
        /\ o \in admitted
    BY <1>12 DEF EnumerateRuntime, Pops
  <2>2. "runtimes" \in QueueKinds /\ OwnerKinds \subseteq QueueKinds
    BY DEF QueueKinds, OwnerKinds
  <2>3. Takes("runtimes")
    BY <1>12, <2>2, PoppedFields DEF EnumerateRuntime, Takes
  <2> QED BY <1>11, <2>1, <2>3
<1>13. CASE EnumerateLocalSet
  <2>1. /\ StartWalk(Head(queue.sets)) /\ ~Walking /\ phase' = phase /\ phase = "sweep"
        /\ o \in admitted
    BY <1>13 DEF EnumerateLocalSet, Pops
  <2>2. "sets" \in QueueKinds /\ OwnerKinds \subseteq QueueKinds
    BY DEF QueueKinds, OwnerKinds
  <2>3. Takes("sets")
    BY <1>13, <2>2, PoppedFields DEF EnumerateLocalSet, Takes
  <2> QED BY <1>11, <2>1, <2>3
<1>14. CASE ValidateFresh
  <2>1. PICK t : t = Head(queue.validations).addr
    OBVIOUS
  <2>2. phase' = phase /\ phase = "sweep" /\ walk' = walk /\ roots' = roots /\ admitted' = admitted \cup Admits(t)
    BY <1>14, <2>1 DEF ValidateFresh, Pops
  <2>3. /\ SeqRange(queue.runtimes) \subseteq SeqRange(queue'.runtimes)
        /\ SeqRange(queue.sets) \subseteq SeqRange(queue'.sets)
        /\ \A a \in Admits(t) : a \in SeqRange(queue'.runtimes) \cup SeqRange(queue'.sets)
    <3>1. CASE Stays /\ Admits(t) \subseteq scheduled
      <4>1. queue'.runtimes = queue.runtimes /\ queue'.sets = queue.sets
        BY <3>1 DEF Stays, OwnerKinds
      <4>2. \A a \in Admits(t) : a \notin admitted
        BY DEF Admits, IsAdmitted
      <4> QED BY <3>1, <4>1, <4>2 DEF FrontierAdmitted
    <3>2. CASE Adds(world.cell[t], TRUE) /\ Admits(t) = {world.cell[t]}
      <4>1. PICK a : a = world.cell[t]
        OBVIOUS
      <4>2. CASE a \in Runtimes
        <5>1. queue'.runtimes = Append(queue.runtimes, a) /\ queue'.sets = queue.sets
          BY <3>2, <4>1, <4>2 DEF Adds
        <5>2. SeqRange(queue'.runtimes) = SeqRange(queue.runtimes) \cup {a}
          BY <1>0, <4>2, <5>1, RangeAppend
        <5> QED BY <3>2, <4>1, <5>1, <5>2
      <4>3. CASE a \notin Runtimes
        <5>1. queue'.sets = Append(queue.sets, a) /\ queue'.runtimes = queue.runtimes /\ a \in LocalSets
          BY <3>2, <4>1, <4>3 DEF Adds, Owners
        <5>2. SeqRange(queue'.sets) = SeqRange(queue.sets) \cup {a}
          BY <1>0, <5>1, RangeAppend
        <5> QED BY <3>2, <4>1, <5>1, <5>2
      <4> QED BY <4>2, <4>3
    <3> QED BY <1>14, <2>1, <3>1, <3>2, FreshStep
  <2>4. CASE o \in admitted
    BY <1>1, <2>2, <2>3, <2>4, CoveredKept
  <2>5. CASE o \in Admits(t)
    BY <2>3, <2>5 DEF Covered, Pending
  <2> QED BY <2>2, <2>4, <2>5
<1>15. ASSUME phase' = phase, walk' = walk, todo' = todo, roots' = roots, admitted' = admitted,
              queue'.runtimes = queue.runtimes, queue'.sets = queue.sets
       PROVE  Covered(o)'
  BY <1>1, <1>15, CoveredKept
<1>16. CASE ValidateKnown \/ ValidateFails \/ ScanTask
  <2>1. Stays
    BY <1>16, PopStays DEF ValidateKnown, ValidateFails, ScanTask
  <2>2. queue'.runtimes = queue.runtimes /\ queue'.sets = queue.sets
    BY <2>1 DEF Stays, OwnerKinds
  <2> QED BY <1>15, <1>16, <2>2 DEF ValidateKnown, ValidateFails, ScanTask
<1>17. CASE HarvestTimers \/ HarvestIo \/ HarvestBlockingQueue
  <2>1. PICK k, found, route : k \in {"timers", "io", "queues"} /\ Harvest(k, found, route)
    BY <1>17 DEF HarvestTimers, HarvestIo, HarvestBlockingQueue
  <2>2. Takes(k)
    BY <2>1, HarvestTakes
  <2>3. queue'.runtimes = queue.runtimes /\ queue'.sets = queue.sets
    BY <2>1, <2>2 DEF Takes, OwnerKinds
  <2> QED BY <1>15, <2>1, <2>3 DEF Harvest
<1>18. CASE Terminated \/ UNCHANGED vars
  BY <1>15, <1>18 DEF Terminated, vars
<1> QED
  BY <1>3, <1>4, <1>5, <1>6, <1>7, <1>8, <1>9, <1>10, <1>12, <1>13, <1>14, <1>16, <1>17, <1>18
  DEF Next, Prepare, Sweep

(* The session keeps the damage's account. *)
LEMMA DamageStep ==
    ASSUME TypeOK, FrontierAdmitted, DamageInv, [Next]_vars
    PROVE  DamageInv'
<1>0. world' = world
  BY WorldFixed
<1>1. WalkSeen'
  BY WalkSeenStep DEF DamageInv
<1>2. ASSUME NEW o \in Owners, WalkErr(o, errors') PROVE Bent(o)'
  <2>1. CASE WalkErr(o, errors)
    BY <1>0, <2>1, DamageFixed DEF DamageInv
  <2>2. CASE WalkFails /\ o = walk.owner
    BY <1>0, <2>2, FailureIsBent, DamageFixed DEF DamageInv
  <2> QED BY <1>2, <2>1, <2>2, WalkErrorsFrom
<1>3. \A o \in Owners : WalkErr(o, errors)' => Bent(o)'
  BY <1>2 DEF WalkErr
<1>4. \A o \in admitted' : Covered(o)'
  BY CoveredStep
<1>5. PhasesInv'
  BY PhasesStep DEF DamageInv
<1> QED BY <1>1, <1>3, <1>4, <1>5 DEF DamageInv

(* The session starts with the roots' lists to walk. *)
LEMMA DamageInit ==
    ASSUME Init
    PROVE  DamageInv
<1>1. phase = "enumerate" /\ walk = Idle /\ errors = {} /\ scheduled = {}
      /\ admitted = SeqRange(todo)
  BY DEF Init, SeqRange
<1>2. WalkSeen
  BY <1>1 DEF WalkSeen, Walking
<1>3. \A o \in admitted : Covered(o)
  BY <1>1 DEF Covered, Pending
<1> QED BY <1>1, <1>2, <1>3 DEF DamageInv, PhasesInv, WalkErr

(* On every target, however its lists loop, merge, break off or leave the *)
(* mapped memory.                                                         *)
THEOREM DamageHolds == Spec => []DamageInv
<1>1. TypeOK /\ BooksInv /\ DamageInv /\ [Next]_vars => DamageInv'
  BY DamageStep DEF BooksInv
<1> QED BY <1>1, DamageInit, TypeCorrect, BooksHold, PTL DEF Spec

-----------------------------------------------------------------------------
(* What is bent is what is damaged.                                        *)

(* A set of one, of two and of more. *)
LEMMA AtLeastTwo ==
    ASSUME NEW S, IsFiniteSet(S)
    PROVE  /\ Cardinality(S) \in Nat
           /\ \A x \in S : Cardinality(S) >= 1
           /\ \A x, y \in S : x # y => Cardinality(S) >= 2
           /\ Cardinality(S) >= 1 => \E x \in S : TRUE
           /\ Cardinality(S) >= 2 => \E x, y \in S : x # y
<1>1. Cardinality(S) \in Nat /\ (Cardinality(S) = 0 <=> S = {})
  BY FS_CardinalityType, FS_EmptySet
<1>2. ASSUME NEW x \in S
      PROVE  /\ Cardinality(S) = Cardinality(S \ {x}) + 1 /\ IsFiniteSet(S \ {x})
             /\ Cardinality(S \ {x}) \in Nat /\ (Cardinality(S \ {x}) = 0 <=> S \ {x} = {})
  <2>1. PICK T : T = S \ {x}
    OBVIOUS
  <2>2. IsFiniteSet(T) /\ Cardinality(T) = Cardinality(S) - 1
    BY <2>1, FS_RemoveElement
  <2>3. Cardinality(T) \in Nat
    BY <2>2, FS_CardinalityType
  <2>4. Cardinality(T) = 0 <=> T = {}
    BY <2>2, FS_EmptySet
  <2>5. Cardinality(S) = Cardinality(T) + 1
    BY <1>1, <2>2, <2>3
  <2> QED BY <2>1, <2>2, <2>3, <2>4, <2>5
<1>3. ASSUME NEW x \in S, NEW y \in S, x # y PROVE Cardinality(S) >= 2
  <2>1. S \ {x} # {}
    BY <1>3
  <2>2. Cardinality(S \ {x}) # 0
    BY <1>2, <2>1
  <2> QED BY <1>2, <2>2
<1>4. ASSUME Cardinality(S) >= 2 PROVE \E x, y \in S : x # y
  <2>1. PICK x \in S : TRUE
    BY <1>1, <1>4
  <2>2. Cardinality(S \ {x}) # 0
    BY <1>2, <1>4
  <2>3. S \ {x} # {}
    BY <1>2, <2>2
  <2> QED BY <2>3
<1>5. \A x \in S : Cardinality(S) >= 1
  BY <1>1
<1>6. Cardinality(S) >= 1 => \E x \in S : TRUE
  BY <1>1
<1> QED BY <1>1, <1>3, <1>4, <1>5, <1>6

(* The links that lead to a node: its places among the heads, and the     *)
(* nodes that link to it.                                                 *)
HeadsAt(o, t) == {i \in DOMAIN world.shards[Home(o)] : world.shards[Home(o)][i] = t}

NodesAt(o, t) == {u \in Linked(o) : world.next[u] = t}

(* These are all of the links that lead to the node. *)
LEMMA LinksAt ==
    ASSUME TypeOK, NEW o \in Owners, NEW t \in Tasks
    PROVE  /\ \A l \in AllLinks(o) : Target(o, l) = t =>
                 \/ \E i \in HeadsAt(o, t) : l = <<0, i>>
                 \/ \E u \in NodesAt(o, t) : l = <<1, u>>
           /\ \A i \in HeadsAt(o, t) : <<0, i>> \in AllLinks(o) /\ Target(o, <<0, i>>) = t
           /\ \A u \in NodesAt(o, t) : <<1, u>> \in AllLinks(o) /\ Target(o, <<1, u>>) = t
           /\ IsFiniteSet(HeadsAt(o, t))
<1>1. PICK L \in Seq(Tasks \cup {Null, Wild}) : L = world.shards[Home(o)]
  <2>1. Home(o) \in Homes
    BY ConstantsAssumption DEF Home, Homes, Owners
  <2> QED BY <2>1 DEF TypeOK, WorldType
<1>2. DOMAIN L = 1 .. Len(L) /\ Len(L) \in Nat
  OBVIOUS
<1>3. IsFiniteSet(HeadsAt(o, t))
  <2>1. IsFiniteSet(1 .. Len(L))
    BY <1>2, FS_Interval
  <2> QED BY <1>1, <1>2, <2>1, FS_Subset DEF HeadsAt
<1>4. ASSUME NEW l \in AllLinks(o), Target(o, l) = t
      PROVE  \/ \E i \in HeadsAt(o, t) : l = <<0, i>>
             \/ \E u \in NodesAt(o, t) : l = <<1, u>>
  <2>1. l \in Link
    BY DEF AllLinks, LinksOf
  <2>2. CASE l[1] = 0
    <3>1. l = <<0, l[2]>> /\ l[2] \in 1 .. Len(L) /\ L[l[2]] = t
      BY <1>1, <1>4, <2>1, <2>2 DEF AllLinks, LinksOf, Link, Target
    <3> QED BY <1>1, <1>2, <3>1 DEF HeadsAt
  <2>3. CASE l[1] # 0
    <3>1. l = <<1, l[2]>> /\ l[2] \in Linked(o) /\ world.next[l[2]] = t
      BY <1>4, <2>1, <2>3 DEF AllLinks, LinksOf, Link, Target
    <3> QED BY <3>1 DEF NodesAt
  <2> QED BY <2>2, <2>3
<1>5. ASSUME NEW i \in HeadsAt(o, t) PROVE <<0, i>> \in AllLinks(o) /\ Target(o, <<0, i>>) = t
  <2>1. i \in 1 .. Len(L) /\ i \in Nat /\ L[i] = t
    BY <1>1, <1>2 DEF HeadsAt
  <2> QED BY <1>1, <2>1 DEF AllLinks, LinksOf, Link, Target
<1>6. ASSUME NEW u \in NodesAt(o, t) PROVE <<1, u>> \in AllLinks(o) /\ Target(o, <<1, u>>) = t
  <2>1. u \in Linked(o) /\ u \in Tasks /\ world.next[u] = t
    BY LinkedClosed DEF NodesAt
  <2> QED BY <2>1 DEF AllLinks, LinksOf, Link, Target
<1> QED BY <1>3, <1>4, <1>5, <1>6

(* Two links to a node are two by its count of links. *)
LEMMA LinkedTwice ==
    ASSUME TypeOK, NEW o \in Owners, NEW t \in Tasks, IsFiniteSet(Linked(o))
    PROVE  LinksTo(o, t) > 1 <=>
             \E l, m \in AllLinks(o) : l # m /\ Target(o, l) = t /\ Target(o, m) = t
<1>1. PICK A, B : A = HeadsAt(o, t) /\ B = NodesAt(o, t)
  OBVIOUS
<1>2. IsFiniteSet(A) /\ IsFiniteSet(B)
  <2>1. B \subseteq Linked(o)
    BY <1>1 DEF NodesAt
  <2> QED BY <1>1, <2>1, LinksAt, FS_Subset
<1>3. LinksTo(o, t) = Cardinality(A) + Cardinality(B)
  BY <1>1 DEF LinksTo, HeadsAt, NodesAt
<1>4. PICK a \in Nat, b \in Nat : a = Cardinality(A) /\ b = Cardinality(B)
  BY <1>2, AtLeastTwo
<1>5. ASSUME NEW l \in AllLinks(o), NEW m \in AllLinks(o), l # m, Target(o, l) = t, Target(o, m) = t
      PROVE  a + b > 1
  <2>1. /\ (\E i \in A : l = <<0, i>>) \/ (\E u \in B : l = <<1, u>>)
        /\ (\E i \in A : m = <<0, i>>) \/ (\E u \in B : m = <<1, u>>)
    BY <1>1, <1>5, LinksAt
  <2>2. CASE \E i, j \in A : l = <<0, i>> /\ m = <<0, j>>
    <3>1. a >= 2
      BY <1>2, <1>4, <1>5, <2>2, AtLeastTwo
    <3> QED BY <1>4, <3>1
  <2>3. CASE \E u, v \in B : l = <<1, u>> /\ m = <<1, v>>
    <3>1. b >= 2
      BY <1>2, <1>4, <1>5, <2>3, AtLeastTwo
    <3> QED BY <1>4, <3>1
  <2>4. CASE (\E i \in A : TRUE) /\ (\E u \in B : TRUE)
    <3>1. a >= 1 /\ b >= 1
      BY <1>2, <1>4, <2>4, AtLeastTwo
    <3> QED BY <1>4, <3>1
  <2> QED BY <2>1, <2>2, <2>3, <2>4
<1>6. ASSUME a + b > 1
      PROVE  \E l, m \in AllLinks(o) : l # m /\ Target(o, l) = t /\ Target(o, m) = t
  <2>1. a >= 2 \/ b >= 2 \/ (a >= 1 /\ b >= 1)
    BY <1>4, <1>6
  <2>2. CASE a >= 2
    <3>1. PICK i \in A, j \in A : i # j
      BY <1>2, <1>4, <2>2, AtLeastTwo
    <3>2. PICK l, m : l = <<0, i>> /\ m = <<0, j>>
      OBVIOUS
    <3>3. l # m
      BY <3>1, <3>2
    <3>4. l \in AllLinks(o) /\ Target(o, l) = t
      BY <1>1, <3>1, <3>2, LinksAt
    <3>5. m \in AllLinks(o) /\ Target(o, m) = t
      BY <1>1, <3>1, <3>2, LinksAt
    <3> QED BY <3>3, <3>4, <3>5
  <2>3. CASE b >= 2
    <3>1. PICK u \in B, v \in B : u # v
      BY <1>2, <1>4, <2>3, AtLeastTwo
    <3>2. PICK l, m : l = <<1, u>> /\ m = <<1, v>>
      OBVIOUS
    <3>3. l # m
      BY <3>1, <3>2
    <3>4. l \in AllLinks(o) /\ Target(o, l) = t
      BY <1>1, <3>1, <3>2, LinksAt
    <3>5. m \in AllLinks(o) /\ Target(o, m) = t
      BY <1>1, <3>1, <3>2, LinksAt
    <3> QED BY <3>3, <3>4, <3>5
  <2>4. CASE a >= 1 /\ b >= 1
    <3>1. PICK i \in A, u \in B : TRUE
      BY <1>2, <1>4, <2>4, AtLeastTwo
    <3>2. PICK l, m : l = <<0, i>> /\ m = <<1, u>>
      OBVIOUS
    <3>3. l # m
      BY <3>1, <3>2
    <3>4. l \in AllLinks(o) /\ Target(o, l) = t
      BY <1>1, <3>1, <3>2, LinksAt
    <3>5. m \in AllLinks(o) /\ Target(o, m) = t
      BY <1>1, <3>1, <3>2, LinksAt
    <3> QED BY <3>3, <3>4, <3>5
  <2> QED BY <2>1, <2>2, <2>3, <2>4
<1> QED BY <1>3, <1>4, <1>5, <1>6

(* The links are bent exactly where the lists are damaged. *)
LEMMA BentIsDamaged ==
    ASSUME TypeOK, NEW o \in Owners, IsFiniteSet(Linked(o))
    PROVE  Bent(o) <=> Damaged(o)
<1>1. PICK L \in Seq(Tasks \cup {Null, Wild}) : L = world.shards[Home(o)]
  <2>1. Home(o) \in Homes
    BY ConstantsAssumption DEF Home, Homes, Owners
  <2> QED BY <2>1 DEF TypeOK, WorldType
<1>2. DOMAIN L = 1 .. Len(L) /\ Len(L) \in Nat
  OBVIOUS
<1>3. Broken \notin Tasks \cup {Null, Wild}
  BY ConstantsAssumption DEF Nodes, Markers, Null, Wild, Broken
<1>4. ASSUME NEW l \in AllLinks(o), Target(o, l) \in {Wild, Broken} PROVE Damaged(o)
  <2>1. l \in Link
    BY DEF AllLinks, LinksOf
  <2>2. CASE l[1] = 0
    <3>1. l[2] \in 1 .. Len(L) /\ L[l[2]] \in {Wild, Broken}
      BY <1>1, <1>4, <2>1, <2>2 DEF AllLinks, LinksOf, Target
    <3>2. L[l[2]] \in Tasks \cup {Null, Wild}
      BY <1>2, <3>1
    <3>3. L[l[2]] = Wild
      BY <1>3, <3>1, <3>2
    <3> QED BY <1>1, <1>2, <3>1, <3>3 DEF Damaged, Heads
  <2>3. CASE l[1] # 0
    <3>1. l[2] \in Linked(o) /\ world.next[l[2]] \in {Wild, Broken}
      BY <1>4, <2>1, <2>3 DEF AllLinks, LinksOf, Target
    <3> QED BY <3>1 DEF Damaged
  <2> QED BY <2>2, <2>3
<1>5. ASSUME NEW l \in AllLinks(o), NEW m \in AllLinks(o), m # l, Target(o, l) \in Tasks,
             Target(o, m) = Target(o, l)
      PROVE  Damaged(o)
  <2>1. PICK t \in Tasks : t = Target(o, l)
    BY <1>5
  <2>2. LinksTo(o, t) > 1
    BY <1>5, <2>1, LinkedTwice
  <2>3. t \in Linked(o)
    <3>1. CASE \E i \in HeadsAt(o, t) : TRUE
      <4>1. t \in Heads(o)
        BY <3>1 DEF Heads, HeadsAt
      <4> QED BY <4>1, LinkedClosed
    <3>2. CASE \E u \in NodesAt(o, t) : TRUE
      BY <3>2, LinkedClosed DEF NodesAt
    <3> QED BY <2>1, <3>1, <3>2, LinksAt
  <2> QED BY <2>2, <2>3 DEF Damaged
<1>6. ASSUME Wild \in Heads(o) PROVE Bent(o)
  <2>1. PICK i \in 1 .. Len(L) : L[i] = Wild
    BY <1>1, <1>2, <1>6 DEF Heads
  <2>2. <<0, i>> \in AllLinks(o) /\ Target(o, <<0, i>>) = Wild
    BY <1>1, <1>2, <2>1 DEF AllLinks, LinksOf, Link, Target
  <2> QED BY <2>2 DEF Bent
<1>7. ASSUME NEW t \in Linked(o), world.next[t] \in {Wild, Broken} PROVE Bent(o)
  <2>1. t \in Tasks
    BY LinkedClosed
  <2>2. <<1, t>> \in AllLinks(o) /\ Target(o, <<1, t>>) = world.next[t]
    BY <2>1 DEF AllLinks, LinksOf, Link, Target
  <2> QED BY <1>7, <2>2 DEF Bent
<1>8. ASSUME NEW t \in Linked(o), LinksTo(o, t) > 1 PROVE Bent(o)
  <2>1. t \in Tasks
    BY LinkedClosed
  <2>2. PICK l \in AllLinks(o), m \in AllLinks(o) : l # m /\ Target(o, l) = t /\ Target(o, m) = t
    BY <1>8, <2>1, LinkedTwice
  <2> QED BY <2>1, <2>2 DEF Bent
<1>9. Bent(o) => Damaged(o)
  BY <1>4, <1>5 DEF Bent
<1>10. Damaged(o) => Bent(o)
  BY <1>6, <1>7, <1>8 DEF Damaged
<1> QED BY <1>9, <1>10

(* An uncapped sweep's account of the damage is right. *)
LEMMA DamageTold ==
    ASSUME TypeOK, DamageInv
    PROVE  DamageIsReported
<1> SUFFICES ASSUME phase = "done", ~capped, NEW o \in admitted
             PROVE  /\ \A t \in Members[o] : Known(t)
                    /\ [what |-> "walk", at |-> o] \in errors <=> Damaged(o)
  BY DEF DamageIsReported
<1>0. o \in Owners
  BY DEF TypeOK
<1>1. ~Walking /\ NothingQueued
  BY DEF DamageInv, PhasesInv
<1>2. queue.runtimes = <<>> /\ queue.sets = <<>> /\ SeqRange(<<>>) = {}
  BY <1>1 DEF NothingQueued, QueueKinds, SeqRange
<1>3. ~Pending(o)
  BY <1>2 DEF Pending
<1>4. Complete(o)
  BY <1>1, <1>3 DEF DamageInv, Covered
<1>5. Members[o] = {t \in Linked(o) : world.next[t] # Broken}
  BY <1>0 DEF Members
<1>6. \A t \in Members[o] : Known(t)
  BY <1>4, <1>5 DEF Complete, ListedIn, Known
<1>7. WalkErr(o, errors) <=> Bent(o)
  BY <1>0, <1>4 DEF DamageInv, Complete
<1>8. Bent(o) <=> Damaged(o)
  BY <1>0, <1>4, BentIsDamaged DEF Complete
<1> QED BY <1>6, <1>7, <1>8 DEF WalkErr

(* The sweep's books balance, its scope removes nothing, and its reports  *)
(* name exactly the damaged lists, on every target of any size: work is   *)
(* neither done twice nor lost, and what was found is what is kept.       *)
THEOREM SweepKeepsAccounts == Spec => []SweepAccounts
<1>1. TypeOK /\ DamageInv => DamageIsReported
  BY DamageTold
<1> QED
  BY <1>1, TypeCorrect, NoWorkTwiceOrLost, ScopeNeverRemoves, DamageHolds, PTL DEF SweepAccounts

-----------------------------------------------------------------------------
(* What the store says is so.                                              *)

QueuedIn(o, t) == \E s \in rec[t].sources : s.route = "queue" /\ s.at = o

(* A list or a pool named as a source is an admitted owner's and holds the *)
(* task.                                                                   *)
TrueSource(t, s) ==
    /\ s.route = "list" => s.at \in admitted /\ t \in Members[s.at] /\ s.nth = 0
    /\ s.route = "queue" => s.at \in admitted \cap Runtimes /\ t \in Pooled(s.at)

ClaimOf(o, e) == [owner |-> o, evidence |-> e]

(* A claim is what the record's own sources or the task's cell says, and   *)
(* what a list with the task's id or a pool says is claimed.               *)
TrueClaim(t, c) ==
    /\ c.evidence = "list" => ListedIn(c.owner, t) /\ IdAgrees(c.owner, t)
    /\ c.evidence = "queue" => QueuedIn(c.owner, t)
    /\ c.evidence = "cell" => c \in CellClaim(t) /\ (IsExcluded(c.owner) \/ IsAdmitted(c.owner))

TrueClaims(t) ==
    /\ \A c \in rec[t].claims : TrueClaim(t, c)
    /\ \A o \in Owners : ListedIn(o, t) /\ IdAgrees(o, t) => ClaimOf(o, "list") \in rec[t].claims
    /\ \A o \in Owners : QueuedIn(o, t) => ClaimOf(o, "queue") \in rec[t].claims

(* A record no list made was decoded, and claims what its cell says. *)
Born(t) ==
    Known(t) => \/ \E o \in Owners : ListedIn(o, t)
                \/ t \in world.decodable /\ CellClaim(t) \subseteq rec[t].claims

TrueKinds(t) ==
    /\ Known(t) => HeaderKind(t) \subseteq rec[t].kinds
    /\ \A s \in rec[t].sources : SourceKind(s) \subseteq rec[t].kinds
    /\ \A k \in rec[t].kinds :
         k \in HeaderKind(t) \/ \E s \in rec[t].sources : k \in SourceKind(s)

RecordTrue(t) ==
    /\ \A s \in rec[t].sources : TrueSource(t, s)
    /\ TrueClaims(t) /\ Born(t) /\ TrueKinds(t)

(* What a target holds no step changes. *)
LEMMA TargetFixed ==
    ASSUME world' = world
    PROVE  /\ Members' = Members /\ (RoutesAgree' <=> RoutesAgree)
           /\ \A o : /\ Pooled(o)' = Pooled(o) /\ Registered(o)' = Registered(o)
                     /\ IsExcluded(o)' <=> IsExcluded(o)
           /\ \A t : /\ CellOwner(t)' = CellOwner(t) /\ CellClaim(t)' = CellClaim(t)
                     /\ HeaderKind(t)' = HeaderKind(t)
           /\ \A o, t : IdAgrees(o, t)' <=> IdAgrees(o, t)
<1>1. Members' = Members
  <2>1. \A o : Linked(o)' = Linked(o)
    BY DamageFixed
  <2> QED BY <2>1 DEF Members
<1>2. /\ \A o : /\ Pooled(o)' = Pooled(o) /\ Registered(o)' = Registered(o)
                /\ IsExcluded(o)' <=> IsExcluded(o)
      /\ \A t : CellOwner(t)' = CellOwner(t) /\ HeaderKind(t)' = HeaderKind(t)
      /\ \A o, t : IdAgrees(o, t)' <=> IdAgrees(o, t)
  BY DEF Pooled, Registered, IsExcluded, CellOwner, HeaderKind, IdAgrees
<1>3. \A t : CellClaim(t)' = CellClaim(t)
  BY <1>2 DEF CellClaim
<1>4. RoutesAgree' <=> RoutesAgree
  BY <1>1, <1>2 DEF RoutesAgree
<1> QED BY <1>1, <1>2, <1>3, <1>4

(* An owner admitted stays so, under its home too. *)
LEMMA AdmittedStays ==
    ASSUME TypeOK, [Next]_vars
    PROVE  admitted \subseteq admitted' /\ \A o : IsAdmitted(o) => IsAdmitted(o)'
<1>1. admitted \subseteq admitted'
  BY NothingLeaves
<1> QED BY <1>1 DEF IsAdmitted, Home

(* A record left alone stays true. *)
LEMMA RecordKept ==
    ASSUME TypeOK, [Next]_vars, NEW t \in Tasks, RecordTrue(t),
           rec'[t].sources = rec[t].sources, rec'[t].claims = rec[t].claims,
           rec'[t].kinds = rec[t].kinds
    PROVE  RecordTrue(t)'
<1>0. world' = world
  BY WorldFixed
<1>1. /\ \A o : ListedIn(o, t)' <=> ListedIn(o, t)
      /\ \A o : QueuedIn(o, t)' <=> QueuedIn(o, t)
      /\ Known(t)' <=> Known(t)
  BY DEF ListedIn, QueuedIn, Known
<1>2. \A s \in rec'[t].sources : TrueSource(t, s)'
  BY <1>0, TargetFixed, AdmittedStays DEF RecordTrue, TrueSource
<1>3. TrueClaims(t)'
  <2>1. \A c \in rec'[t].claims : TrueClaim(t, c)'
    BY <1>0, <1>1, TargetFixed, AdmittedStays DEF RecordTrue, TrueClaims, TrueClaim
  <2> QED BY <1>0, <1>1, <2>1, TargetFixed DEF RecordTrue, TrueClaims
<1>4. Born(t)'
  BY <1>0, <1>1, TargetFixed DEF RecordTrue, Born
<1>5. TrueKinds(t)'
  BY <1>0, <1>1, TargetFixed DEF RecordTrue, TrueKinds, SourceKind
<1> QED BY <1>2, <1>3, <1>4, <1>5 DEF RecordTrue

(* A record filed along a true source with claims that follow from it, or  *)
(* from the cell of a record just decoded, is true.                        *)
LEMMA RecordFiled ==
    ASSUME TypeOK, TypeOK', [Next]_vars, NEW t \in Tasks, RecordTrue(t), NEW s \in Source, NEW C,
           Files(t, s, C), TrueSource(t, s)',
           \A c \in C :
             /\ c.evidence = "list" =>
                  s = [route |-> "list", at |-> c.owner, nth |-> 0] /\ IdAgrees(c.owner, t)
             /\ c.evidence = "queue" => s.route = "queue" /\ s.at = c.owner
             /\ c.evidence = "cell" =>
                  c \in CellClaim(t) /\ (IsExcluded(c.owner) \/ IsAdmitted(c.owner)'),
           s.route = "list" /\ IdAgrees(s.at, t) => ClaimOf(s.at, "list") \in C,
           s.route = "queue" => ClaimOf(s.at, "queue") \in C,
           ~Known(t) => s.route = "list" \/ (t \in world.decodable /\ CellClaim(t) \subseteq C)
    PROVE  RecordTrue(t)'
<1>0. world' = world
  BY WorldFixed
<1>1. /\ rec[t].sources \subseteq rec'[t].sources /\ rec'[t].sources \subseteq rec[t].sources \cup {s}
      /\ Lists(s) => s \in rec'[t].sources
      /\ s \notin rec'[t].sources => SourceKind(s) = {}
      /\ rec'[t].claims = rec[t].claims \cup C
      /\ Known(t)'
  <2>1. Lists(s) => s \in rec'[t].sources
    BY FilesKnows
  <2>2. rec'[t].sources # {}
    BY FilesKnows
  <2>3. s \notin rec'[t].sources => SourceKind(s) = {}
    BY <2>1 DEF Lists, SourceKind
  <2> QED BY <2>1, <2>2, <2>3 DEF Files, Known
<1>2. /\ \A o : ListedIn(o, t) => ListedIn(o, t)'
      /\ \A o : QueuedIn(o, t) => QueuedIn(o, t)'
      /\ s.route = "list" => s = [route |-> "list", at |-> s.at, nth |-> 0]
      /\ s.route = "list" => ListedIn(s.at, t)'
      /\ s.route = "queue" => QueuedIn(s.at, t)'
      /\ \A o : ListedIn(o, t)' => ListedIn(o, t) \/ (s.route = "list" /\ s.at = o)
      /\ \A o : QueuedIn(o, t)' => QueuedIn(o, t) \/ (s.route = "queue" /\ s.at = o)
  <2>1. s.route = "list" => s = [route |-> "list", at |-> s.at, nth |-> 0]
    BY DEF TrueSource, Source
  <2>2. s.route \in {"list", "queue"} => s \in rec'[t].sources
    BY <1>1 DEF Lists
  <2>3. \A o : [route |-> "list", at |-> o, nth |-> 0].route = "list"
               /\ [route |-> "list", at |-> o, nth |-> 0].at = o
    OBVIOUS
  <2> QED BY <1>1, <2>1, <2>2, <2>3 DEF ListedIn, QueuedIn
<1>3. \A x \in rec'[t].sources : TrueSource(t, x)'
  <2>1. \A x \in rec[t].sources : TrueSource(t, x)'
    BY <1>0, TargetFixed, AdmittedStays DEF RecordTrue, TrueSource
  <2> QED BY <1>1, <2>1
<1>4. TrueClaims(t)'
  <2>1. \A c \in rec[t].claims : TrueClaim(t, c)'
    BY <1>0, <1>2, TargetFixed, AdmittedStays DEF RecordTrue, TrueClaims, TrueClaim
  <2>2. ASSUME NEW c \in C PROVE TrueClaim(t, c)'
    <3>1. c.evidence = "list" => s.route = "list" /\ s.at = c.owner
      OBVIOUS
    <3> QED BY <1>0, <1>2, <3>1, TargetFixed DEF TrueClaim
  <2>3. \A o \in Owners : ListedIn(o, t)' /\ IdAgrees(o, t) => ClaimOf(o, "list") \in rec'[t].claims
    BY <1>1, <1>2 DEF RecordTrue, TrueClaims
  <2>4. \A o \in Owners : QueuedIn(o, t)' => ClaimOf(o, "queue") \in rec'[t].claims
    BY <1>1, <1>2 DEF RecordTrue, TrueClaims
  <2> QED BY <1>0, <1>1, <2>1, <2>2, <2>3, <2>4, TargetFixed DEF TrueClaims, ClaimOf
<1>5. Born(t)'
  <2>1. CASE Known(t)
    BY <1>0, <1>1, <1>2, <2>1, TargetFixed DEF RecordTrue, Born
  <2>2. CASE s.route = "list"
    <3>1. s.at \in Owners
      BY <2>2 DEF TrueSource, TypeOK
    <3> QED BY <1>2, <2>2, <3>1 DEF Born
  <2>3. CASE t \in world.decodable /\ CellClaim(t) \subseteq C
    BY <1>0, <1>1, <2>3, TargetFixed DEF Born
  <2> QED BY <2>1, <2>2, <2>3
<1>6. TrueKinds(t)'
  <2>1. /\ HeaderKind(t) \subseteq rec'[t].kinds
        /\ rec[t].kinds \cup SourceKind(s) \subseteq rec'[t].kinds
        /\ rec'[t].kinds \subseteq rec[t].kinds \cup SourceKind(s) \cup HeaderKind(t)
    BY DEF Files, Kinded, RecordTrue, TrueKinds, Known
  <2>2. \A x \in rec'[t].sources : SourceKind(x) \subseteq rec'[t].kinds
    BY <1>1, <2>1 DEF RecordTrue, TrueKinds
  <2>3. ASSUME NEW k \in rec'[t].kinds
        PROVE  k \in HeaderKind(t) \/ \E x \in rec'[t].sources : k \in SourceKind(x)
    BY <1>1, <2>1 DEF RecordTrue, TrueKinds
  <2>4. \A x : SourceKind(x)' = SourceKind(x)
    BY DEF SourceKind
  <2> QED BY <1>0, <2>1, <2>2, <2>3, <2>4, TargetFixed DEF TrueKinds
<1> QED BY <1>3, <1>4, <1>5, <1>6 DEF RecordTrue

(* The node a walk reads is one of its owner's members. *)
LEMMA WalkedMember ==
    ASSUME TypeOK, WalkSeen, WalkNode
    PROVE  walk.owner \in Owners /\ walk.at \in Members[walk.owner]
<1>1. Walking /\ walk.at \in Tasks /\ world.next[walk.at] # Broken
  BY DEF WalkNode, NodeReads
<1>2. walk.owner \in Owners
  BY <1>1, WalkParts
<1>3. walk.at \in Linked(walk.owner)
  BY <1>1 DEF WalkSeen, SeenAt, Shape
<1> QED BY <1>1, <1>2, <1>3 DEF Members

(* A find is where its route says it is. *)
TrueFind(c) ==
    /\ c.route = "scan" => c.addr \in SeqRange(world.refs[c.from])
    /\ c.route \in {"timers", "io"} => c.addr \in Registered(c.from)
    /\ c.route = "queue" => c.addr \in Pooled(c.from)

FindsTrue == \A c \in SeqRange(queue.validations) : TrueFind(c)

StoreTrue == \A t \in Tasks : RecordTrue(t)

(* The first find is a true one, of an admitted owner or a scanned task. *)
LEMMA FirstFind ==
    ASSUME TypeOK, FrontierAdmitted, FindsTrue, NEW c, c = Head(queue.validations),
           Pops("validations")
    PROVE  /\ c \in Candidate /\ c \in SeqRange(queue.validations) /\ TrueFind(c)
           /\ c.from \in admitted \cup Scanned
           /\ c.route # "scan" => c.from \in admitted \cap Runtimes
<1>1. queue.validations \in Seq(Candidate) /\ queue.validations # <<>>
  BY DEF TypeOK, QueueType, Pops
<1>2. c \in SeqRange(queue.validations) /\ c \in Candidate
  BY <1>1, RangeTail DEF SeqRange
<1>3. c.from \in admitted \cup Scanned
  BY <1>2 DEF FrontierAdmitted
<1>4. c.route # "scan" => c.from \in Runtimes
  BY <1>2 DEF Candidate
<1>5. Runtimes \cap Scanned = {}
  BY ConstantsAssumption DEF Scanned, Owners
<1> QED BY <1>2, <1>3, <1>4, <1>5 DEF FindsTrue

(* The cell's claim of a record just decoded: its owner is excluded,       *)
(* admitted already or admitted by it.                                     *)
LEMMA CellAdmits ==
    ASSUME TypeOK, ValidateFresh, NEW t, t = Head(queue.validations).addr, NEW c \in CellClaim(t)
    PROVE  IsExcluded(c.owner) \/ IsAdmitted(c.owner)'
<1>1. PICK o \in CellOwner(t) : IdAgrees(o, t) /\ c = [owner |-> o, evidence |-> "cell"]
  BY DEF CellClaim
<1>2. c.owner = o
  BY <1>1
<1>3. admitted' = admitted \cup Admits(t)
  BY DEF ValidateFresh
<1>4. CASE IsAdmitted(o)
  BY <1>2, <1>3, <1>4 DEF IsAdmitted, Home
<1>5. CASE ~IsAdmitted(o) /\ ~IsExcluded(o)
  <2>1. o \in Admits(t)
    BY <1>1, <1>5 DEF Admits
  <2> QED BY <1>2, <1>3, <2>1 DEF IsAdmitted, Home
<1> QED BY <1>2, <1>4, <1>5

(* Every record stays true. *)
LEMMA StoreTrueStep ==
    ASSUME TypeOK, TypeOK', FrontierAdmitted, WalkSeen, FindsTrue, StoreTrue, [Next]_vars
    PROVE  StoreTrue'
<1>0. world' = world /\ admitted \subseteq admitted'
  BY WorldFixed, AdmittedStays
<1>1. \A t \in Tasks : RecordTrue(t)
  BY DEF StoreTrue
<1>2. ASSUME NEW t \in Tasks, rec'[t].sources = rec[t].sources, rec'[t].claims = rec[t].claims,
             rec'[t].kinds = rec[t].kinds
      PROVE  RecordTrue(t)'
  BY <1>1, <1>2, RecordKept
<1>3. ASSUME NEW t \in Tasks, NEW s, NEW C, Files(t, s, C), RecordTrue(t)'
      PROVE  StoreTrue'
  <2>1. ASSUME NEW u \in Tasks PROVE RecordTrue(u)'
    <3>1. CASE u = t
      BY <1>3, <3>1
    <3>2. CASE u # t
      <4>1. rec'[u] = rec[u]
        BY <1>3, <3>2 DEF Files
      <4> QED BY <1>2, <4>1
    <3> QED BY <3>1, <3>2
  <2> QED BY <2>1 DEF StoreTrue
<1>4. CASE WalkNode
  <2>1. PICK t \in Tasks : t = walk.at
    BY <1>4 DEF WalkNode, NodeReads
  <2>2. PICK o \in Owners : o = walk.owner /\ o \in admitted /\ t \in Members[o]
    BY <1>4, <2>1, WalkedMember DEF FrontierAdmitted, WalkNode
  <2>3. PICK s \in Source : s = [route |-> "list", at |-> o, nth |-> 0]
    BY <2>2 DEF Source, Routes, Nodes
  <2>4. PICK C : C = ListClaim(o, t)
    OBVIOUS
  <2>5. Files(t, s, C)
    BY <1>4, <2>1, <2>2, <2>3, <2>4, WalkNodeFiles DEF ListSource
  <2>6. s.route = "list" /\ s.at = o /\ s.nth = 0
    BY <2>3
  <2>7. TrueSource(t, s)'
    BY <1>0, <2>2, <2>6, TargetFixed DEF TrueSource
  <2>8. \A c \in C : c.evidence = "list" /\ c.owner = o /\ IdAgrees(o, t)
    BY <2>4 DEF ListClaim
  <2>9. IdAgrees(s.at, t) => ClaimOf(s.at, "list") \in C
    BY <2>4, <2>6 DEF ListClaim, ClaimOf
  <2>10. RecordTrue(t)'
    BY <1>1, <2>3, <2>5, <2>6, <2>7, <2>8, <2>9, RecordFiled
  <2> QED BY <1>3, <2>5, <2>10
<1>5. ASSUME Pops("validations"), NEW c, c = Head(queue.validations), NEW C, Files(c.addr, SourceOf(c), C),
             \/ C = QueueClaim(c) /\ Known(c.addr)
             \/ /\ C = QueueClaim(c) \cup CellClaim(c.addr) /\ c.addr \in world.decodable
                /\ \A d \in CellClaim(c.addr) : IsExcluded(d.owner) \/ IsAdmitted(d.owner)'
      PROVE  StoreTrue'
  <2>1. /\ c \in Candidate /\ TrueFind(c)
        /\ c.route # "scan" => c.from \in admitted \cap Runtimes
    BY <1>5, FirstFind
  <2>2. PICK t \in Tasks : t = c.addr
    BY <2>1 DEF Candidate
  <2>3. PICK s \in Source : s = SourceOf(c)
    BY <1>5 DEF Files
  <2>4. s.route = c.route /\ s.at = c.from /\ s.route # "list"
    BY <2>1, <2>3 DEF SourceOf, Candidate
  <2>5. TrueSource(t, s)'
    BY <1>0, <2>1, <2>2, <2>4, TargetFixed DEF TrueSource, TrueFind
  <2>6. \A d \in QueueClaim(c) : d.evidence = "queue" /\ s.route = "queue" /\ s.at = d.owner
    BY <2>4 DEF QueueClaim
  <2>7. \A d \in CellClaim(t) : d.evidence = "cell"
    BY DEF CellClaim
  <2>8. s.route = "queue" => ClaimOf(s.at, "queue") \in QueueClaim(c)
    BY <2>4 DEF QueueClaim, ClaimOf
  <2>9. /\ Files(t, s, C) /\ QueueClaim(c) \subseteq C
        /\ C \subseteq QueueClaim(c) \cup CellClaim(t)
        /\ ~Known(t) => t \in world.decodable /\ CellClaim(t) \subseteq C
    BY <1>5, <2>2, <2>3
  <2>10. \A d \in C : d.evidence = "cell" =>
           d \in CellClaim(t) /\ (IsExcluded(d.owner) \/ IsAdmitted(d.owner)')
    BY <1>5, <2>2, <2>6
  <2>11. \A d \in C : /\ d.evidence # "list"
                      /\ d.evidence = "queue" => s.route = "queue" /\ s.at = d.owner
    BY <2>6, <2>7, <2>9
  <2>12. RecordTrue(t)'
    BY <1>1, <2>4, <2>5, <2>8, <2>9, <2>10, <2>11, RecordFiled
  <2> QED BY <1>3, <2>9, <2>12
<1>6. CASE ValidateKnown
  <2>1. PICK c : c = Head(queue.validations)
    OBVIOUS
  <2>2. Pops("validations") /\ Known(c.addr) /\ Files(c.addr, SourceOf(c), QueueClaim(c))
    BY <1>6, <2>1, KnownFiles DEF ValidateKnown
  <2> QED BY <1>5, <2>1, <2>2
<1>7. CASE ValidateFresh
  <2>1. PICK c : c = Head(queue.validations)
    OBVIOUS
  <2>2. /\ Pops("validations") /\ c.addr \in world.decodable
        /\ Files(c.addr, SourceOf(c), QueueClaim(c) \cup CellClaim(c.addr))
    BY <1>7, <2>1, FreshFiles DEF ValidateFresh
  <2>3. \A d \in CellClaim(c.addr) : IsExcluded(d.owner) \/ IsAdmitted(d.owner)'
    BY <1>7, <2>1, CellAdmits
  <2> QED BY <1>5, <2>1, <2>2, <2>3
<1>8. CASE rec' = rec
  BY <1>2, <1>8 DEF StoreTrue
<1>9. CASE Rescopes
  BY <1>2, <1>9 DEF StoreTrue, Rescopes
<1>10. CASE Marks(Head(queue.scans))
  <2>1. \A t \in Tasks : /\ rec'[t].sources = rec[t].sources /\ rec'[t].claims = rec[t].claims
                         /\ rec'[t].kinds = rec[t].kinds
    BY <1>10 DEF Marks
  <2> QED BY <1>2, <2>1 DEF StoreTrue
<1> QED BY <1>4, <1>6, <1>7, <1>8, <1>9, <1>10, RecordMoves

-----------------------------------------------------------------------------
(* Every root is taken.                                                    *)

(* An owner is admitted as a local set, as a root, or for a cell. *)
AdmittedNamed ==
    \A o \in admitted : o \in LocalSets \cup AtStart \/ \E t \in Tasks : world.cell[t] = o

(* The sets the probe reads are admitted or it has yet to come to them,    *)
(* and what is admitted is scheduled when the sweep begins.                *)
RootsTaken ==
    /\ phase = "probe" => SeqRange(todo) \subseteq SeqRange(world.tls)
    /\ \A l \in SeqRange(world.tls) : ReadsSet(l) =>
         \/ phase = "enumerate" \/ l \in admitted
         \/ phase = "probe" /\ l \in SeqRange(todo)
    /\ phase \in {"enumerate", "probe"} => admitted \subseteq SeqRange(roots)
    /\ phase = "schedule" => admitted \subseteq scheduled \cup SeqRange(todo)
    /\ phase \in {"sweep", "done"} => admitted \subseteq scheduled

(* Nobody else is admitted. *)
LEMMA AdmittedNamedStep ==
    ASSUME TypeOK, FrontierAdmitted, AdmittedNamed, [Next]_vars
    PROVE  AdmittedNamed'
<1>0. world' = world /\ AtStart' = AtStart
  BY WorldFixed, NothingLeaves
<1>1. CASE admitted' = admitted
  BY <1>0, <1>1 DEF AdmittedNamed
<1>2. CASE ProbeTls
  <2>1. Head(todo) \in LocalSets
    BY <1>2, RangeTail DEF ProbeTls, TypeOK, FrontierAdmitted
  <2>2. admitted' \subseteq admitted \cup {Head(todo)}
    BY <1>2 DEF ProbeTls
  <2> QED BY <1>0, <2>1, <2>2 DEF AdmittedNamed
<1>3. CASE ValidateFresh
  <2>1. PICK t : t = Head(queue.validations).addr
    OBVIOUS
  <2>2. t \in Tasks /\ admitted' = admitted \cup Admits(t)
    BY <1>3, <2>1, PoppedCandidate DEF ValidateFresh
  <2>3. \A o \in Admits(t) : world.cell[t] = o
    BY DEF Admits, CellOwner
  <2> QED BY <1>0, <2>2, <2>3 DEF AdmittedNamed
<1> QED
  BY <1>1, <1>2, <1>3
  DEF Next, Walk, Prepare, Sweep, Terminated, vars, WalkNode, WalkFails,
      NextShard, EndWalk, EnumerateRoot, EndEnumerate, EndProbe,
      ScheduleRoot, StartSweep, ValidateKnown, ValidateFails,
      EnumerateRuntime, EnumerateLocalSet, ScanTask, Harvest,
      HarvestTimers, HarvestIo, HarvestBlockingQueue, Finish

(* The phases take every root in turn. *)
LEMMA RootsTakenStep ==
    ASSUME TypeOK, ExclusionInv, FrontierAdmitted, RootsTaken, [Next]_vars
    PROVE  RootsTaken'
<1>0. world' = world /\ \A l : ReadsSet(l)' <=> ReadsSet(l)
  BY WorldFixed DEF ReadsSet
<1>1. todo \in Seq(Owners) /\ roots \in Seq(Owners)
  BY DEF TypeOK
<1>2. todo # <<>> => /\ Head(todo) \in SeqRange(todo) /\ Head(todo) \in Owners
                     /\ SeqRange(todo) = SeqRange(Tail(todo)) \cup {Head(todo)}
  BY <1>1, RangeTail
<1>3. SeqRange(<<>>) = {}
  BY DEF SeqRange
<1>4. CASE phase' = phase /\ todo' = todo /\ roots' = roots /\ admitted' = admitted
           /\ scheduled' = scheduled
  BY <1>0, <1>4 DEF RootsTaken
<1>5. CASE EnumerateRoot
  <2>1. /\ phase = "enumerate" /\ phase' = phase /\ roots' = roots /\ admitted' = admitted
    BY <1>5 DEF EnumerateRoot
  <2> QED BY <2>1 DEF RootsTaken
<1>6. CASE EndEnumerate
  <2>1. /\ phase = "enumerate" /\ phase' = "probe" /\ todo' = world.tls
        /\ roots' = roots /\ admitted' = admitted
    BY <1>6 DEF EndEnumerate
  <2> QED BY <1>0, <2>1 DEF RootsTaken
<1>7. CASE ProbeTls
  <2>1. PICK l : l = Head(todo)
    OBVIOUS
  <2>2. /\ phase = "probe" /\ phase' = phase /\ todo # <<>> /\ todo' = Tail(todo)
        /\ \/ l \in admitted /\ admitted' = admitted /\ roots' = roots
           \/ ReadsSet(l) /\ admitted' = admitted \cup {l} /\ roots' = Append(roots, l)
           \/ ~ReadsSet(l) /\ admitted' = admitted /\ roots' = roots
    BY <1>7, <2>1 DEF ProbeTls
  <2>3. SeqRange(Append(roots, l)) = SeqRange(roots) \cup {l}
    BY <1>1, <1>2, <2>1, <2>2, RangeAppend
  <2>4. SeqRange(todo) = SeqRange(todo') \cup {l}
    BY <1>2, <2>1, <2>2
  <2>5. admitted' \subseteq SeqRange(roots')
    BY <2>2, <2>3 DEF RootsTaken
  <2>6. \A m \in SeqRange(world.tls) : ReadsSet(m) => m \in admitted' \/ m \in SeqRange(todo')
    BY <2>2, <2>4 DEF RootsTaken
  <2>7. SeqRange(todo') \subseteq SeqRange(world.tls)
    BY <2>2, <2>4 DEF RootsTaken
  <2> QED BY <1>0, <2>2, <2>5, <2>6, <2>7 DEF RootsTaken
<1>8. CASE EndProbe
  <2>1. /\ phase = "probe" /\ phase' = "schedule" /\ todo = <<>> /\ todo' = roots
        /\ admitted' = admitted
    BY <1>8 DEF EndProbe
  <2> QED BY <1>0, <1>3, <2>1 DEF RootsTaken
<1>9. CASE ScheduleRoot
  <2>1. PICK o : o = Head(todo)
    OBVIOUS
  <2>2. /\ phase = "schedule" /\ phase' = phase /\ todo # <<>> /\ todo' = Tail(todo)
        /\ admitted' = admitted
        /\ \/ scheduled' = scheduled \cup {o}
           \/ ~Schedules(o) /\ scheduled' = scheduled
    BY <1>9, <2>1 DEF ScheduleRoot
  <2>3. o \in Included /\ SeqRange(todo) = SeqRange(todo') \cup {o}
    BY <1>2, <2>1, <2>2 DEF ExclusionInv, FrontierIncluded
  <2>4. o \in scheduled'
    BY <2>2, <2>3 DEF Schedules, Included
  <2>5. admitted' \subseteq scheduled' \cup SeqRange(todo')
    BY <2>2, <2>3, <2>4 DEF RootsTaken
  <2>6. \A m \in SeqRange(world.tls) : ReadsSet(m) => m \in admitted'
    BY <2>2 DEF RootsTaken
  <2> QED BY <1>0, <2>2, <2>5, <2>6 DEF RootsTaken
<1>10. CASE StartSweep
  <2>1. /\ phase = "schedule" /\ phase' = "sweep" /\ todo = <<>>
        /\ admitted' = admitted /\ scheduled' = scheduled
    BY <1>10 DEF StartSweep
  <2> QED BY <1>0, <1>3, <2>1 DEF RootsTaken
<1>11. CASE ValidateFresh
  <2>1. PICK t : t = Head(queue.validations).addr
    OBVIOUS
  <2>2. /\ phase = "sweep" /\ phase' = phase /\ admitted' = admitted \cup Admits(t)
        /\ scheduled' = scheduled \cup {o \in Admits(t) : Schedules(o)}
    BY <1>11, <2>1 DEF ValidateFresh, Pops
  <2>3. \A o \in Admits(t) : o \in scheduled'
    BY <2>2 DEF Admits, Schedules
  <2> QED BY <1>0, <2>2, <2>3 DEF RootsTaken
<1>12. CASE Finish
  <2>1. phase = "sweep" /\ phase' = "done" /\ admitted' = admitted /\ scheduled' = scheduled
    BY <1>12 DEF Finish, work
  <2> QED BY <1>0, <2>1 DEF RootsTaken
<1> QED
  BY <1>4, <1>5, <1>6, <1>7, <1>8, <1>9, <1>10, <1>11, <1>12
  DEF Next, Walk, Prepare, Sweep, Terminated, vars, work, WalkNode, WalkFails, NextShard, EndWalk,
      ValidateKnown, ValidateFails, EnumerateRuntime, EnumerateLocalSet, ScanTask,
      Harvest, HarvestTimers, HarvestIo, HarvestBlockingQueue

-----------------------------------------------------------------------------
(* The finds.                                                              *)

(* The finds of a sequence of pointers point where it does. *)
LEMMA CandidatesOf ==
    ASSUME NEW found \in Seq(Tasks), NEW route, NEW from
    PROVE  /\ \A c \in SeqRange(Candidates(found, route, from)) :
                c.route = route /\ c.from = from /\ c.addr \in SeqRange(found)
           /\ \A t \in SeqRange(found) : \E c \in SeqRange(Candidates(found, route, from)) :
                c.route = route /\ c.from = from /\ c.addr = t
<1> DEFINE cs == Candidates(found, route, from)
<1>1. /\ DOMAIN cs = 1 .. Len(found) /\ DOMAIN found = 1 .. Len(found)
      /\ \A i \in 1 .. Len(found) :
           cs[i] = [addr |-> found[i], route |-> route, from |-> from, nth |-> i]
  BY DEF Candidates
<1>2. \A i \in 1 .. Len(found) : cs[i].addr = found[i] /\ cs[i].route = route /\ cs[i].from = from
  BY <1>1
<1> HIDE DEF cs
<1>3. \A c \in SeqRange(cs) : c.route = route /\ c.from = from /\ c.addr \in SeqRange(found)
  BY <1>1, <1>2 DEF SeqRange
<1>4. \A t \in SeqRange(found) : \E c \in SeqRange(cs) : c.route = route /\ c.from = from /\ c.addr = t
  BY <1>1, <1>2 DEF SeqRange
<1> QED BY <1>3, <1>4 DEF cs

(* What a harvest or a scan finds is there, and is all that is there. *)
LEMMA FoundTrue ==
    ASSUME TypeOK
    PROVE  /\ \A k \in HarvestKinds, o \in Runtimes : \A c \in SeqRange(FoundBy(k, o)) : TrueFind(c)
           /\ \A u \in Tasks : \A c \in SeqRange(FoundIn(u)) : TrueFind(c)
           /\ \A o \in Runtimes : \A t \in Pooled(o) : \E c \in SeqRange(FoundBy("queues", o)) :
                c.route = "queue" /\ c.from = o /\ c.addr = t
           /\ \A o \in Runtimes : \A t \in Registered(o) :
                \E k \in HarvestKinds : \E c \in SeqRange(FoundBy(k, o)) : c.addr = t
           /\ \A u \in Tasks : \A t \in SeqRange(world.refs[u]) :
                \E c \in SeqRange(FoundIn(u)) : c.addr = t
<1>1. /\ \A u \in Tasks : world.refs[u] \in Seq(Tasks)
      /\ \A o \in Runtimes : /\ world.timers[HandleOf[o]] \in Seq(Tasks)
                             /\ world.io[HandleOf[o]] \in Seq(Tasks)
                             /\ world.pool[HandleOf[o]] \in Seq(Tasks)
  <2>1. \A o \in Runtimes : HandleOf[o] \in Handles
    BY ConstantsAssumption
  <2> QED BY <2>1 DEF TypeOK, WorldType
<1>2. ASSUME NEW u \in Tasks
      PROVE  /\ \A c \in SeqRange(FoundIn(u)) :
                  c.route = "scan" /\ c.from = u /\ c.addr \in SeqRange(world.refs[u])
             /\ \A t \in SeqRange(world.refs[u]) : \E c \in SeqRange(FoundIn(u)) : c.addr = t
  BY <1>1, CandidatesOf DEF FoundIn
<1>3. ASSUME NEW o \in Runtimes
      PROVE  /\ \A c \in SeqRange(FoundBy("queues", o)) :
                  c.route = "queue" /\ c.from = o /\ c.addr \in Pooled(o)
             /\ \A t \in Pooled(o) : \E c \in SeqRange(FoundBy("queues", o)) :
                  c.route = "queue" /\ c.from = o /\ c.addr = t
  <2>1. FoundBy("queues", o) = Candidates(world.pool[HandleOf[o]], "queue", o)
    BY DEF FoundBy, Registry, RouteOf
  <2> QED BY <1>1, <2>1, CandidatesOf DEF Pooled
<1>4. ASSUME NEW o \in Runtimes
      PROVE  /\ \A c \in SeqRange(FoundBy("timers", o)) :
                  c.route = "timers" /\ c.from = o /\ c.addr \in SeqRange(world.timers[HandleOf[o]])
             /\ \A t \in SeqRange(world.timers[HandleOf[o]]) :
                  \E c \in SeqRange(FoundBy("timers", o)) : c.addr = t
  <2>1. FoundBy("timers", o) = Candidates(world.timers[HandleOf[o]], "timers", o)
    BY DEF FoundBy, Registry, RouteOf
  <2> QED BY <1>1, <2>1, CandidatesOf
<1>5. ASSUME NEW o \in Runtimes
      PROVE  /\ \A c \in SeqRange(FoundBy("io", o)) :
                  c.route = "io" /\ c.from = o /\ c.addr \in SeqRange(world.io[HandleOf[o]])
             /\ \A t \in SeqRange(world.io[HandleOf[o]]) :
                  \E c \in SeqRange(FoundBy("io", o)) : c.addr = t
  <2>1. FoundBy("io", o) = Candidates(world.io[HandleOf[o]], "io", o)
    BY DEF FoundBy, Registry, RouteOf
  <2> QED BY <1>1, <2>1, CandidatesOf
<1>6. \A o \in Runtimes : Registered(o) =
         SeqRange(world.timers[HandleOf[o]]) \cup SeqRange(world.io[HandleOf[o]])
  BY DEF Registered
<1>7. ASSUME NEW k \in HarvestKinds, NEW o \in Runtimes, NEW c \in SeqRange(FoundBy(k, o))
      PROVE  TrueFind(c)
  BY <1>3, <1>4, <1>5, <1>6 DEF HarvestKinds, TrueFind
<1>8. ASSUME NEW u \in Tasks, NEW c \in SeqRange(FoundIn(u)) PROVE TrueFind(c)
  BY <1>2 DEF TrueFind
<1>9. ASSUME NEW o \in Runtimes, NEW t \in Registered(o)
      PROVE  \E k \in HarvestKinds : \E c \in SeqRange(FoundBy(k, o)) : c.addr = t
  BY <1>4, <1>5, <1>6 DEF HarvestKinds
<1> QED BY <1>2, <1>3, <1>7, <1>8, <1>9

(* The finds queued stay true ones. *)
LEMMA FindsTrueStep ==
    ASSUME TypeOK, FindsTrue, [Next]_vars
    PROVE  FindsTrue'
<1>0. world' = world
  BY WorldFixed
<1>1. \A c : TrueFind(c)' <=> TrueFind(c)
  BY <1>0, TargetFixed DEF TrueFind
<1>2. PICK v \in Seq(Candidate) : v = queue.validations
  BY DEF TypeOK, QueueType
<1>3. ASSUME NEW from, NEW finds, Finds(from, finds), \A c \in SeqRange(finds) : TrueFind(c)
      PROVE  FindsTrue'
  <2>1. SeqRange(queue'.validations) = SeqRange(v) \cup SeqRange(finds)
    BY <1>2, <1>3, RangeConcat DEF Finds
  <2> QED BY <1>1, <1>2, <1>3, <2>1 DEF FindsTrue
<1>4. CASE queue'.validations = queue.validations
  BY <1>1, <1>4 DEF FindsTrue
<1>5. CASE ValidateTakes
  <2>1. SeqRange(queue'.validations) \subseteq SeqRange(v)
    BY <1>2, <1>5, RangeTail DEF ValidateTakes
  <2> QED BY <1>1, <1>2, <2>1 DEF FindsTrue
<1>6. CASE ScanTask /\ Finds(Head(queue.scans), FoundIn(Head(queue.scans)))
  <2>1. Head(queue.scans) \in Tasks
    BY <1>6, RangeTail DEF ScanTask, Pops, TypeOK, QueueType
  <2> QED BY <1>3, <1>6, <2>1, FoundTrue
<1>7. ASSUME NEW k \in HarvestKinds, queue[k] # <<>>,
             Finds(Head(queue[k]), FoundBy(k, Head(queue[k])))
      PROVE  FindsTrue'
  <2>1. queue[k] \in Seq(Runtimes)
    BY DEF TypeOK, QueueType, HarvestKinds
  <2>2. Head(queue[k]) \in Runtimes
    BY <1>7, <2>1, RangeTail
  <2> QED BY <1>3, <1>7, <2>2, FoundTrue
<1> QED BY <1>4, <1>5, <1>6, <1>7, FindsMoves

(* A find is queued, on record with the source it brought, or at a header  *)
(* that does not decode.                                                   *)
Dealt(c) ==
    \/ c \in SeqRange(queue.validations)
    \/ Known(c.addr) /\ (c.route = "queue" => QueuedIn(c.from, c.addr))
    \/ c.addr \notin world.decodable

(* Every harvest waits or its finds are dealt with, and so are the finds   *)
(* of every scan.                                                          *)
HarvestsDealt ==
    \A o \in scheduled \cap Runtimes, k \in HarvestKinds :
        o \in SeqRange(queue[k]) \/ \A c \in SeqRange(FoundBy(k, o)) : Dealt(c)

ScansDealt == \A t \in Tasks : rec[t].scanned => \A c \in SeqRange(FoundIn(t)) : Dealt(c)

(* The task's cell gives it to an excluded runtime. *)
ExcludedByCell(t) == \E o \in CellOwner(t) : IdAgrees(o, t) /\ IsExcluded(o)

ResidentsDue ==
    \A t \in Residents : t \in ScansDue \/ rec[t].scanned \/ ExcludedByCell(t)

(* A find once dealt with stays so. *)
LEMMA DealtStays ==
    ASSUME TypeOK, [Next]_vars, NEW c \in Candidate, Dealt(c)
    PROVE  Dealt(c)'
<1>0. world' = world
  BY WorldFixed
<1>1. c.addr \in Tasks
  BY DEF Candidate
<1>2. rec[c.addr].sources \subseteq rec'[c.addr].sources
  BY <1>1, NothingLeaves
<1>3. CASE Known(c.addr) /\ (c.route = "queue" => QueuedIn(c.from, c.addr))
  BY <1>2, <1>3 DEF Dealt, Known, QueuedIn
<1>4. CASE c.addr \notin world.decodable
  BY <1>0, <1>4 DEF Dealt
<1>5. PICK v \in Seq(Candidate) : v = queue.validations
  BY DEF TypeOK, QueueType
<1>6. CASE c \in SeqRange(v)
  <2>1. CASE queue'.validations = queue.validations
    BY <1>5, <1>6, <2>1 DEF Dealt
  <2>2. ASSUME NEW from, NEW finds, Finds(from, finds) PROVE Dealt(c)'
    <3>1. SeqRange(queue'.validations) = SeqRange(v) \cup SeqRange(finds)
      BY <1>5, <2>2, RangeConcat DEF Finds
    <3> QED BY <1>6, <3>1 DEF Dealt
  <2>3. CASE ValidateTakes
    <3>1. SeqRange(v) = SeqRange(queue'.validations) \cup {Head(v)}
      BY <1>5, <2>3, RangeTail DEF ValidateTakes
    <3>2. CASE c \in SeqRange(queue'.validations)
      BY <3>2 DEF Dealt
    <3>3. CASE c = Head(queue.validations) /\ ValidateFails
      BY <1>0, <3>3 DEF ValidateFails, Dealt
    <3>4. CASE c = Head(queue.validations) /\ (ValidateKnown \/ ValidateFresh)
      <4>1. \E C : Files(c.addr, SourceOf(c), C)
        BY <3>4, KnownFiles, FreshFiles
      <4>2. /\ rec'[c.addr].sources # {}
            /\ Lists(SourceOf(c)) => SourceOf(c) \in rec'[c.addr].sources
        BY <4>1, FilesKnows
      <4>3. SourceOf(c).route = c.route /\ SourceOf(c).at = c.from
        BY DEF SourceOf
      <4> QED BY <4>2, <4>3 DEF Dealt, Known, QueuedIn, Lists
    <3> QED BY <1>5, <1>6, <2>3, <3>1, <3>2, <3>3, <3>4 DEF ValidateTakes
  <2> QED BY <2>1, <2>2, <2>3, FindsMoves
<1> QED BY <1>3, <1>4, <1>5, <1>6 DEF Dealt

(* Finds just queued are dealt with. *)
LEMMA DealtFirst ==
    ASSUME TypeOK, NEW from, NEW finds, Finds(from, finds), NEW c \in SeqRange(finds)
    PROVE  Dealt(c)'
<1>1. PICK v \in Seq(Candidate) : v = queue.validations
  BY DEF TypeOK, QueueType
<1>2. SeqRange(queue'.validations) = SeqRange(v) \cup SeqRange(finds)
  BY <1>1, RangeConcat DEF Finds
<1> QED BY <1>2 DEF Dealt

(* The finds of a harvest or a scan are facts of the target. *)
LEMMA FoundFixed ==
    ASSUME TypeOK, [Next]_vars
    PROVE  /\ \A k, o : FoundBy(k, o)' = FoundBy(k, o)
           /\ \A t : FoundIn(t)' = FoundIn(t)
           /\ \A k \in HarvestKinds, o \in Runtimes : SeqRange(FoundBy(k, o)) \subseteq Candidate
           /\ \A t \in Tasks : SeqRange(FoundIn(t)) \subseteq Candidate
<1>1. world' = world
  BY WorldFixed
<1>2. ASSUME NEW k \in HarvestKinds, NEW o \in Runtimes
      PROVE  FoundBy(k, o) \in Seq(Candidate)
  <2>1. HandleOf[o] \in Handles
    BY ConstantsAssumption
  <2>2. Registry(k)[HandleOf[o]] \in Seq(Tasks) /\ RouteOf(k) \in {"timers", "io", "queue"}
    BY <2>1 DEF HarvestKinds, Registry, RouteOf, TypeOK, WorldType
  <2> QED BY <2>2, CandidatesType DEF FoundBy
<1>3. ASSUME NEW t \in Tasks PROVE FoundIn(t) \in Seq(Candidate)
  <2>1. world.refs[t] \in Seq(Tasks)
    BY DEF TypeOK, WorldType
  <2> QED BY <2>1, CandidatesType DEF FoundIn
<1>4. \A s \in Seq(Candidate) : SeqRange(s) \subseteq Candidate
  BY DEF SeqRange
<1>5. /\ \A k, o : FoundBy(k, o)' = FoundBy(k, o)
      /\ \A t : FoundIn(t)' = FoundIn(t)
  BY <1>1 DEF FoundBy, FoundIn, Registry, RouteOf, Candidates
<1> QED BY <1>2, <1>3, <1>4, <1>5

(* No harvest and none of its finds is lost. *)
LEMMA HarvestsDealtStep ==
    ASSUME TypeOK, HarvestsDealt, [Next]_vars
    PROVE  HarvestsDealt'
<1>1. ASSUME NEW o \in scheduled \cap Runtimes, NEW k \in HarvestKinds, o \notin SeqRange(queue[k]),
             NEW c \in SeqRange(FoundBy(k, o))'
      PROVE  Dealt(c)'
  <2>1. c \in SeqRange(FoundBy(k, o)) /\ c \in Candidate
    BY FoundFixed DEF SeqRange
  <2> QED BY <1>1, <2>1, DealtStays DEF HarvestsDealt
<1>2. \A k \in HarvestKinds : queue[k] \in Seq(Runtimes)
  BY DEF TypeOK, QueueType, HarvestKinds
<1>3. CASE Stays
  <2>1. scheduled' = scheduled /\ \A k \in HarvestKinds : queue'[k] = queue[k]
    BY <1>3 DEF Stays, OwnerKinds, HarvestKinds
  <2> QED BY <1>1, <2>1 DEF HarvestsDealt
<1>4. CASE Takes("runtimes") \/ Takes("sets")
  <2>1. scheduled' = scheduled /\ \A k \in HarvestKinds : queue'[k] = queue[k]
    BY <1>4 DEF Takes, OwnerKinds, HarvestKinds
  <2> QED BY <1>1, <2>1 DEF HarvestsDealt
<1>5. ASSUME NEW j \in HarvestKinds, Takes(j), Harvest(j, Registry(j), RouteOf(j))
      PROVE  HarvestsDealt'
  <2>1. /\ scheduled' = scheduled /\ queue[j] # <<>> /\ queue'[j] = Tail(queue[j])
        /\ \A k \in HarvestKinds \ {j} : queue'[k] = queue[k]
    BY <1>5 DEF Takes, OwnerKinds, HarvestKinds
  <2>2. PICK h \in Runtimes : h = Head(queue[j])
    BY <1>2, <2>1, RangeTail
  <2>3. SeqRange(queue[j]) = SeqRange(queue'[j]) \cup {h}
    BY <1>2, <2>1, <2>2, RangeTail
  <2>4. Finds(h, FoundBy(j, h))
    BY <1>5, <2>2, HarvestFinds
  <2>5. ASSUME NEW c \in SeqRange(FoundBy(j, h))' PROVE Dealt(c)'
    <3>1. c \in SeqRange(FoundBy(j, h))
      BY FoundFixed DEF SeqRange
    <3> QED BY <2>4, <3>1, DealtFirst
  <2> QED BY <1>1, <2>1, <2>3, <2>5 DEF HarvestsDealt
<1>6. ASSUME NEW o, NEW e, Adds(o, e) PROVE HarvestsDealt'
  <2>1. scheduled' = scheduled \cup {o}
    BY <1>6 DEF Adds
  <2>2. CASE o \in Runtimes
    <3>1. \A k \in HarvestKinds : queue'[k] = Append(queue[k], o)
      BY <1>6, <2>2 DEF Adds, HarvestKinds
    <3>2. ASSUME NEW k \in HarvestKinds PROVE SeqRange(queue'[k]) = SeqRange(queue[k]) \cup {o}
      <4>1. PICK q \in Seq(Runtimes) : q = queue[k]
        BY <1>2
      <4>2. SeqRange(Append(q, o)) = SeqRange(q) \cup {o}
        BY <2>2, RangeAppend
      <4> QED BY <3>1, <4>1, <4>2
    <3> QED BY <1>1, <2>1, <3>2 DEF HarvestsDealt
  <2>3. CASE o \notin Runtimes
    <3>1. \A k \in HarvestKinds : queue'[k] = queue[k]
      BY <1>6, <2>3 DEF Adds, HarvestKinds
    <3> QED BY <1>1, <2>1, <2>3, <3>1 DEF HarvestsDealt
  <2> QED BY <2>2, <2>3
<1>7. CASE HarvestTimers /\ Takes("timers")
  <2>1. "timers" \in HarvestKinds /\ Harvest("timers", Registry("timers"), RouteOf("timers"))
    BY <1>7 DEF HarvestKinds, HarvestTimers, Registry, RouteOf
  <2> QED BY <1>5, <1>7, <2>1
<1>8. CASE HarvestIo /\ Takes("io")
  <2>1. "io" \in HarvestKinds /\ Harvest("io", Registry("io"), RouteOf("io"))
    BY <1>8 DEF HarvestKinds, HarvestIo, Registry, RouteOf
  <2> QED BY <1>5, <1>8, <2>1
<1>9. CASE HarvestBlockingQueue /\ Takes("queues")
  <2>1. "queues" \in HarvestKinds /\ Harvest("queues", Registry("queues"), RouteOf("queues"))
    BY <1>9 DEF HarvestKinds, HarvestBlockingQueue, Registry, RouteOf
  <2> QED BY <1>5, <1>9, <2>1
<1> QED BY <1>3, <1>4, <1>6, <1>7, <1>8, <1>9, OwnersStep

(* No find of a scan is lost. *)
LEMMA ScansDealtStep ==
    ASSUME TypeOK, ScansDealt, [Next]_vars
    PROVE  ScansDealt'
<1>1. ASSUME NEW t \in Tasks, rec[t].scanned, NEW c \in SeqRange(FoundIn(t))' PROVE Dealt(c)'
  <2>1. c \in SeqRange(FoundIn(t)) /\ c \in Candidate
    BY FoundFixed DEF SeqRange
  <2> QED BY <1>1, <2>1, DealtStays DEF ScansDealt
<1>2. CASE \A t \in Tasks : rec'[t].scanned = rec[t].scanned
  BY <1>1, <1>2 DEF ScansDealt
<1>3. CASE ScanTask /\ Marks(Head(queue.scans))
  <2>1. PICK h \in Tasks : h = Head(queue.scans)
    BY <1>3 DEF Marks
  <2>2. \A t \in Tasks \ {h} : rec'[t] = rec[t]
    BY <1>3, <2>1 DEF Marks
  <2>3. CASE rec' = rec
    BY <1>2, <2>3
  <2>4. CASE Finds(h, FoundIn(h))
    <3>1. ASSUME NEW c \in SeqRange(FoundIn(h))' PROVE Dealt(c)'
      <4>1. c \in SeqRange(FoundIn(h))
        BY FoundFixed DEF SeqRange
      <4> QED BY <2>4, <4>1, DealtFirst
    <3> QED BY <1>1, <2>2, <3>1 DEF ScansDealt
  <2> QED BY <1>3, <2>1, <2>3, <2>4, ScanFinds
<1>4. ASSUME NEW t, NEW s, NEW C, Files(t, s, C)
      PROVE  \A u \in Tasks : rec'[u].scanned = rec[u].scanned
  BY <1>4 DEF Files
<1>5. Rescopes => \A t \in Tasks : rec'[t].scanned = rec[t].scanned
  BY DEF Rescopes
<1>6. rec' = rec => \A t \in Tasks : rec'[t].scanned = rec[t].scanned
  OBVIOUS
<1> QED BY <1>2, <1>3, <1>4, <1>5, <1>6, RecordMoves

(* A record whose one owner is excluded has a cell that says so: no list   *)
(* or pool of an excluded runtime was read.                                *)
LEMMA ExcludedIsByCell ==
    ASSUME TypeOK, FrontierIncluded, StoreTrue, NEW t \in Tasks, ExcludedOwned(rec[t])
    PROVE  ExcludedByCell(t)
<1>1. PICK o \in Owners : OwnersOf(rec[t]) = {o} /\ IsExcluded(o)
  BY DEF ExcludedOwned
<1>2. PICK c \in rec[t].claims : c.owner = o
  BY <1>1 DEF OwnersOf
<1>3. /\ TrueClaim(t, c) /\ \A s \in rec[t].sources : TrueSource(t, s)
  BY <1>2 DEF StoreTrue, RecordTrue, TrueClaims
<1>4. o \notin admitted
  BY <1>1 DEF FrontierIncluded, Included
<1>5. c.evidence # "list"
  <2>1. ASSUME ListedIn(o, t) PROVE FALSE
    <3>1. [route |-> "list", at |-> o, nth |-> 0] \in rec[t].sources
      BY <2>1 DEF ListedIn
    <3>2. TrueSource(t, [route |-> "list", at |-> o, nth |-> 0])
      BY <1>3, <3>1
    <3> QED BY <1>4, <3>2 DEF TrueSource
  <2> QED BY <1>2, <1>3, <2>1 DEF TrueClaim
<1>6. c.evidence # "queue"
  BY <1>2, <1>3, <1>4 DEF TrueClaim, TrueSource, QueuedIn
<1>7. c \in Claim
  BY <1>2 DEF TypeOK, Record
<1>8. c.evidence = "cell"
  BY <1>5, <1>6, <1>7 DEF Claim
<1>9. c \in CellClaim(t)
  BY <1>3, <1>8 DEF TrueClaim
<1>10. PICK p \in CellOwner(t) : IdAgrees(p, t) /\ c = [owner |-> p, evidence |-> "cell"]
  BY <1>9 DEF CellClaim
<1> QED BY <1>1, <1>2, <1>10 DEF ExcludedByCell

(* Every resident record is due for a scan, scanned, or left unscanned for *)
(* its cell.                                                               *)
LEMMA ResidentsDueStep ==
    ASSUME TypeOK, FrontierIncluded, StoreTrue, ResidentsDue, [Next]_vars
    PROVE  ResidentsDue'
<1>0. world' = world /\ \A t : ExcludedByCell(t)' <=> ExcludedByCell(t)
  <2>1. world' = world
    BY WorldFixed
  <2> QED BY <2>1, TargetFixed DEF ExcludedByCell
<1>1. \A t \in Tasks : rec[t].scanned => rec'[t].scanned
  BY NothingLeaves DEF Scanned
<1>2. CASE ScansStay /\ (rec' = rec \/ Rescopes)
  <2>1. Residents' = Residents
    BY <1>0, <1>2, ResidentsKept DEF Rescopes
  <2> QED BY <1>0, <1>1, <1>2, <2>1 DEF ResidentsDue, ScansStay, Residents
<1>3. CASE ScanTask /\ ScansTake /\ (rec' = rec \/ Marks(Head(queue.scans)))
  <2>1. Residents' = Residents
    BY <1>0, <1>3, ResidentsKept DEF Marks
  <2>2. PICK h \in Tasks : h = Head(queue.scans)
    <3>1. queue.scans \in Seq(Tasks) /\ queue.scans # <<>>
      BY <1>3 DEF TypeOK, QueueType, ScansTake
    <3> QED BY <3>1, RangeTail
  <2>3. ExcludedOwned(rec[h]) \/ rec'[h].scanned
    <3>1. rec[h] \in Record
      BY DEF TypeOK
    <3>2. ExcludedOwned(rec[h]) \/ rec' = [rec EXCEPT ![h].scanned = TRUE]
      BY <1>3, <2>2 DEF ScanTask
    <3> QED BY <3>1, <3>2 DEF TypeOK, Record
  <2>4. ScansDue = ScansDue' \cup {h}
    BY <1>3, <2>2 DEF ScansTake
  <2>5. ExcludedByCell(h) \/ rec'[h].scanned
    BY <2>3, ExcludedIsByCell
  <2> QED BY <1>0, <1>1, <2>1, <2>4, <2>5 DEF ResidentsDue, Residents
<1>4. ASSUME NEW t \in Tasks, NEW s \in Source, NEW C, Files(t, s, C), ScansGain(t)
      PROVE  ResidentsDue'
  <2>1. ScansDue' = ScansDue \cup SeqRange(Scannable(t, rec'[t]))
    BY <1>4 DEF ScansGain
  <2>2. ASSUME NEW u \in Residents' PROVE u \in ScansDue' \/ rec'[u].scanned \/ ExcludedByCell(u)'
    <3>1. u \in Tasks /\ Resident(u, rec'[u])
      BY <1>0 DEF Residents, Resident
    <3>2. CASE Resident(u, rec[u])
      <4>1. u \in Residents
        BY <3>1, <3>2 DEF Residents
      <4> QED BY <1>0, <1>1, <2>1, <3>1, <4>1 DEF ResidentsDue
    <3>3. CASE ~Resident(u, rec[u])
      <4>1. u = t
        BY <1>4, <3>1, <3>3 DEF Files
      <4>2. CASE ~rec'[u].scanned
        <5>1. Scannable(t, rec'[t]) = <<t>>
          BY <3>1, <3>3, <4>1, <4>2 DEF Scannable
        <5>2. SeqRange(<<t>>) = {t}
          BY DEF SeqRange
        <5> QED BY <2>1, <4>1, <5>1, <5>2
      <4> QED BY <4>2
    <3> QED BY <3>2, <3>3
  <2> QED BY <2>2 DEF ResidentsDue
<1> QED BY <1>2, <1>3, <1>4, ScansMoves

-----------------------------------------------------------------------------
(* Nothing is found that cannot be reached.                                *)

(* A list or a pool a record names is an admitted owner's. *)
LEMMA SourcesHold ==
    ASSUME StoreTrue, NEW t \in Tasks, NEW o
    PROVE  /\ ListedIn(o, t) => o \in admitted /\ t \in Members[o]
           /\ QueuedIn(o, t) => o \in admitted \cap Runtimes /\ t \in Pooled(o)
<1>1. \A s \in rec[t].sources : TrueSource(t, s)
  BY DEF StoreTrue, RecordTrue
<1>2. ASSUME ListedIn(o, t) PROVE o \in admitted /\ t \in Members[o]
  <2>1. TrueSource(t, [route |-> "list", at |-> o, nth |-> 0])
    BY <1>1, <1>2 DEF ListedIn
  <2> QED BY <2>1 DEF TrueSource
<1>3. ASSUME QueuedIn(o, t) PROVE o \in admitted \cap Runtimes /\ t \in Pooled(o)
  BY <1>1, <1>3 DEF QueuedIn, TrueSource
<1> QED BY <1>2, <1>3

(* Where the routes agree, the record of a task whose cell gives it to an  *)
(* excluded runtime names that owner and no other.                         *)
LEMMA CellDecides ==
    ASSUME TypeOK, RoutesAgree, FrontierIncluded, StoreTrue, NEW t \in Tasks, Known(t),
           ExcludedByCell(t)
    PROVE  ExcludedOwned(rec[t])
<1>1. PICK o \in CellOwner(t) : IdAgrees(o, t) /\ IsExcluded(o)
  BY DEF ExcludedByCell
<1>2. o \in Owners /\ o = world.cell[t] /\ o \notin admitted
  BY <1>1 DEF CellOwner, FrontierIncluded, Included
<1>3. \A p \in Owners : ~ListedIn(p, t) /\ ~QueuedIn(p, t)
  <2>1. ASSUME NEW p \in Owners, t \in Members[p] \cup Pooled(p) PROVE p = o
    BY <1>1, <2>1 DEF RoutesAgree
  <2> QED BY <1>2, <2>1, SourcesHold
<1>4. CellClaim(t) \subseteq rec[t].claims
  BY <1>3 DEF StoreTrue, RecordTrue, Born
<1>5. o \in OwnersOf(rec[t])
  <2>1. [owner |-> o, evidence |-> "cell"] \in CellClaim(t)
    BY <1>1 DEF CellClaim
  <2> QED BY <1>4, <2>1 DEF OwnersOf
<1>6. ASSUME NEW c \in rec[t].claims PROVE c.owner = o
  <2>1. c \in Claim /\ TrueClaim(t, c)
    BY DEF StoreTrue, RecordTrue, TrueClaims, TypeOK, Record
  <2>2. c.owner \in Owners /\ c.evidence \in {"list", "queue", "cell"}
    BY <2>1 DEF Claim
  <2>3. c \in CellClaim(t)
    BY <1>3, <2>1, <2>2 DEF TrueClaim
  <2>4. PICK p \in CellOwner(t) : c = [owner |-> p, evidence |-> "cell"]
    BY <2>3 DEF CellClaim
  <2> QED BY <1>2, <2>4 DEF CellOwner
<1>7. OwnersOf(rec[t]) = {o}
  BY <1>5, <1>6 DEF OwnersOf
<1> QED BY <1>1, <1>2, <1>7 DEF ExcludedOwned

(* Where the routes agree, everything found is in every population closed  *)
(* under the target's own edges.                                           *)
Sound ==
    RoutesAgree => \A S \in SUBSET Nodes :
                     ClosedPopulation(S, Members) => Records \cup admitted \subseteq S

(* A decoded find is one a closed population holds. *)
LEMMA FindIsReached ==
    ASSUME TypeOK, ExclusionInv, FrontierAdmitted, ScansBooked, FindsTrue, StoreTrue, RoutesAgree,
           ValidateFresh, NEW S \in SUBSET Nodes, ClosedPopulation(S, Members),
           Records \cup admitted \subseteq S
    PROVE  Head(queue.validations).addr \in S
<1>1. PICK c : c = Head(queue.validations)
  OBVIOUS
<1>2. Pops("validations") /\ c.addr \in world.decodable
  BY <1>1 DEF ValidateFresh
<1>3. /\ c \in Candidate /\ TrueFind(c) /\ c.from \in admitted \cup Scanned
      /\ c.route # "scan" => c.from \in admitted \cap Runtimes
  BY <1>1, <1>2, FirstFind
<1>4. CASE c.route # "scan"
  <2>1. c.from \in S \cap Owners
    BY <1>3, <1>4 DEF Owners
  <2>2. (Pooled(c.from) \cup Registered(c.from)) \cap world.decodable \subseteq S
    BY <2>1 DEF ClosedPopulation
  <2>3. c.addr \in Pooled(c.from) \cup Registered(c.from)
    BY <1>3, <1>4 DEF TrueFind, Candidate
  <2> QED BY <1>1, <1>2, <2>2, <2>3
<1>5. CASE c.route = "scan"
  <2>1. PICK u \in Tasks : u = c.from /\ u \in Scanned
    <3>1. c.from \in Tasks
      BY <1>3, <1>5 DEF Candidate
    <3> QED BY <1>3, <3>1, ConstantsAssumption DEF TypeOK
  <2>2. u \in Residents
    BY <2>1 DEF ScansBooked
  <2>3. rec[u].scanned /\ Resident(u, rec[u]) /\ Known(u)
    BY <2>1, <2>2 DEF Scanned, Residents, ExclusionInv
  <2>4. u \in S \cap Tasks
    BY <2>3 DEF Records
  <2>5. ~ExcludedByCell(u)
    BY <2>3, CellDecides DEF ExclusionInv, ScannedNeverExcluded
  <2>6. u \notin world.complete \/ \E o \in S \cap Owners : u \in Members[o] \cup Pooled(o)
    <3>1. CASE u \notin world.complete
      BY <3>1
    <3>2. ASSUME NEW s \in rec[u].sources, Lists(s)
          PROVE  \E o \in S \cap Owners : u \in Members[o] \cup Pooled(o)
      <4>1. TrueSource(u, s)
        BY <3>2 DEF StoreTrue, RecordTrue
      <4>2. s.at \in admitted /\ u \in Members[s.at] \cup Pooled(s.at)
        BY <3>2, <4>1 DEF Lists, TrueSource
      <4> QED BY <4>2 DEF TypeOK
    <3> QED BY <2>3, <3>1, <3>2 DEF Resident
  <2>7. SeqRange(world.refs[u]) \cap world.decodable \subseteq S
    BY <2>4, <2>5, <2>6 DEF ClosedPopulation, ExcludedByCell
  <2>8. c.addr \in SeqRange(world.refs[u])
    BY <1>3, <1>5, <2>1 DEF TrueFind
  <2> QED BY <1>1, <1>2, <2>7, <2>8
<1> QED BY <1>4, <1>5

(* What is closed is a fact of the target. *)
LEMMA ClosedFixed ==
    ASSUME world' = world, NEW S
    PROVE  ClosedPopulation(S, Members)' <=> ClosedPopulation(S, Members)
BY TargetFixed DEF ClosedPopulation

(* No step finds what a closed population lacks. *)
LEMMA SoundStep ==
    ASSUME TypeOK, ExclusionInv, FrontierAdmitted, ScansBooked, WalkSeen, FindsTrue, StoreTrue,
           RootsTaken, Sound, [Next]_vars
    PROVE  Sound'
<1>0. world' = world
  BY WorldFixed
<1> SUFFICES ASSUME RoutesAgree, NEW S \in SUBSET Nodes, ClosedPopulation(S, Members)
             PROVE  (Records \cup admitted)' \subseteq S
  <2>1. RoutesAgree' <=> RoutesAgree
    BY <1>0, TargetFixed
  <2>2. \A S : ClosedPopulation(S, Members)' <=> ClosedPopulation(S, Members)
    BY <1>0, ClosedFixed
  <2>3. Nodes' = Nodes
    BY DEF Nodes, Owners
  <2> QED BY <2>1, <2>2, <2>3 DEF Sound
<1>1. Records \cup admitted \subseteq S
  BY DEF Sound
<1>2. ASSUME NEW t, NEW s, NEW C, Files(t, s, C), t \in S PROVE Records' \subseteq S
  <2>1. \A u \in Tasks \ {t} : rec'[u] = rec[u]
    BY <1>2 DEF Files
  <2> QED BY <1>1, <1>2, <2>1 DEF Records, Known
<1>3. ASSUME \A t \in Tasks : rec'[t].sources = rec[t].sources PROVE Records' \subseteq S
  BY <1>1, <1>3 DEF Records, Known
<1>4. CASE WalkNode
  <2>1. walk.owner \in Owners /\ walk.owner \in admitted /\ walk.at \in Members[walk.owner]
    BY <1>4, WalkedMember DEF FrontierAdmitted, WalkNode
  <2>2. walk.at \in S
    BY <1>1, <2>1 DEF ClosedPopulation
  <2>3. admitted' = admitted
    BY <1>4 DEF WalkNode
  <2> QED BY <1>1, <1>2, <1>4, <2>2, <2>3, WalkNodeFiles
<1>5. CASE ValidateFresh
  <2>1. PICK c, t : c = Head(queue.validations) /\ t = c.addr
    OBVIOUS
  <2>2. t \in S
    BY <1>1, <1>5, <2>1, FindIsReached
  <2>3. Records' \subseteq S /\ t \in Tasks
    BY <1>2, <1>5, <2>1, <2>2, FreshFiles DEF Files
  <2>4. admitted' = admitted \cup Admits(t)
    BY <1>5, <2>1 DEF ValidateFresh
  <2>5. Admits(t) \subseteq S
    BY <2>2, <2>3 DEF Admits, ClosedPopulation
  <2> QED BY <1>1, <2>3, <2>4, <2>5
<1>6. CASE ValidateKnown
  <2>1. PICK c, t : c = Head(queue.validations) /\ t = c.addr
    OBVIOUS
  <2>2. Files(t, SourceOf(c), QueueClaim(c)) /\ t \in Tasks
    BY <1>6, <2>1, KnownFiles DEF Files
  <2>3. Known(t) /\ admitted' = admitted
    BY <1>6, <2>1 DEF ValidateKnown
  <2>4. t \in S
    BY <1>1, <2>2, <2>3 DEF Records
  <2> QED BY <1>1, <1>2, <2>2, <2>3, <2>4
<1>7. CASE ProbeTls
  <2>1. PICK l : l = Head(todo)
    OBVIOUS
  <2>2. /\ rec' = rec /\ phase = "probe" /\ todo # <<>>
        /\ admitted' = admitted \/ (ReadsSet(l) /\ admitted' = admitted \cup {l})
    BY <1>7, <2>1 DEF ProbeTls, store
  <2>3. l \in SeqRange(world.tls)
    BY <2>1, <2>2, RangeTail DEF RootsTaken, TypeOK
  <2>4. ReadsSet(l) => l \in S
    BY <2>3 DEF ClosedPopulation, ReadsSet
  <2> QED BY <1>1, <1>3, <2>2, <2>4
<1>8. CASE ~WalkNode /\ ~ValidateFresh /\ ~ValidateKnown /\ ~ProbeTls
  <2>1. admitted' = admitted
    BY <1>8
    DEF Next, Walk, Prepare, Sweep, Terminated, vars, WalkFails,
        NextShard, EndWalk, EnumerateRoot, EndEnumerate, EndProbe,
        ScheduleRoot, StartSweep, ValidateFails,
        EnumerateRuntime, EnumerateLocalSet, ScanTask, Harvest,
        HarvestTimers, HarvestIo, HarvestBlockingQueue, Finish
  <2>2. \A t \in Tasks : rec'[t].sources = rec[t].sources
    BY <1>8, RecordMoves DEF Marks, Rescopes
  <2> QED BY <1>1, <1>3, <2>1, <2>2
<1> QED BY <1>4, <1>5, <1>6, <1>7, <1>8

-----------------------------------------------------------------------------
(* What the scope reaches.                                                 *)

(* What became scannable is handed over by the end of a walk. *)
HandedOver == phase \in {"sweep", "done"} /\ ~Walking => scannable = <<>>

(* A find filed left a record. *)
FoundKnown == \A p \in foundFrom : Known(p[2])

(* Where the routes agree, the scope's walk reaches admitted owners only. *)
Reaches == RoutesAgree /\ phase = "done" => reached \subseteq admitted

(* Every walk of the sweep and every validation hands over. *)
LEMMA HandedOverStep ==
    ASSUME TypeOK, PhasesInv, HandedOver, [Next]_vars
    PROVE  HandedOver'
<1>1. ASSUME Walking, walk'.owner = walk.owner PROVE Walking'
  <2>1. walk.owner \in Owners
    BY <1>1, WalkParts
  <2>2. walk.owner # Nobody
    BY <2>1, ConstantsAssumption DEF Nodes, Markers
  <2> QED BY <1>1, <2>2 DEF Walking, Idle
<1>2. CASE WalkNode \/ WalkFails \/ NextShard
  <2>1. Walking
    BY <1>2 DEF WalkNode, WalkFails, NextShard
  <2>2. walk'.owner = walk.owner
    BY <1>2, <2>1, WalkParts DEF WalkNode, WalkFails, NextShard
  <2> QED BY <1>1, <2>1, <2>2 DEF HandedOver
<1>3. CASE EndWalk
  <2>1. Walking /\ phase' = phase /\ (phase = "sweep" => scannable' = <<>>)
    BY <1>3 DEF EndWalk
  <2>2. phase # "done"
    BY <2>1 DEF PhasesInv
  <2> QED BY <2>1, <2>2 DEF HandedOver
<1>4. CASE scannable' = <<>>
  BY <1>4 DEF HandedOver
<1>5. CASE phase' \notin {"sweep", "done"}
  BY <1>5 DEF HandedOver
<1>6. CASE phase \in {"sweep", "done"} /\ ~Walking /\ scannable' = scannable
  BY <1>6 DEF HandedOver
<1>7. CASE UNCHANGED vars
  BY <1>7 DEF vars, HandedOver, Walking, Idle
<1>8. CASE Prepare
  BY <1>4, <1>5, <1>8
  DEF Prepare, EnumerateRoot, EndEnumerate, ProbeTls, EndProbe, ScheduleRoot, StartSweep
<1>9. CASE Sweep
  BY <1>4, <1>6, <1>9
  DEF Sweep, ValidateKnown, ValidateFresh, ValidateFails, EnumerateRuntime, EnumerateLocalSet,
      ScanTask, Harvest, HarvestTimers, HarvestIo, HarvestBlockingQueue, Pops, store
<1>10. CASE Finish
  BY <1>6, <1>10 DEF Finish
<1> QED BY <1>2, <1>3, <1>7, <1>8, <1>9, <1>10 DEF Next, Walk, Terminated

(* The finds filed stay on record. *)
LEMMA FoundKnownStep ==
    ASSUME TypeOK, FoundKnown, [Next]_vars
    PROVE  FoundKnown'
<1>1. \A t \in Tasks : Known(t) => Known(t)'
  BY NothingLeaves DEF Known
<1>2. \A p \in foundFrom : p[2] \in Tasks
  BY DEF TypeOK
<1>3. CASE foundFrom' = foundFrom
  BY <1>1, <1>2, <1>3 DEF FoundKnown
<1>4. CASE ValidateTakes
  <2>1. CASE ValidateKnown \/ ValidateFresh
    <3>1. PICK c : c = Head(queue.validations)
      OBVIOUS
    <3>2. \E C : Files(c.addr, SourceOf(c), C)
      BY <2>1, <3>1, KnownFiles, FreshFiles
    <3>3. rec'[c.addr].sources # {}
      BY <3>2, FilesKnows
    <3>4. foundFrom' = foundFrom \cup {<<c.from, c.addr>>}
      BY <2>1, <3>1 DEF ValidateKnown, ValidateFresh, Filed
    <3> QED BY <1>1, <1>2, <3>3, <3>4 DEF FoundKnown, Known
  <2> QED BY <1>3, <1>4, <2>1 DEF ValidateTakes
<1> QED BY <1>3, <1>4, FindsMoves DEF Finds

(* Where the routes agree, a cell's owner that is admitted under its home  *)
(* is admitted under the key the cell gives.                               *)
LEMMA CellOwnerIn ==
    ASSUME TypeOK, RoutesAgree, AdmittedNamed, NEW t \in Tasks, NEW o \in CellOwner(t), IsAdmitted(o)
    PROVE  o \in admitted
<1>1. o \in Owners /\ world.cell[t] = o
  BY DEF CellOwner
<1>2. PICK a \in admitted : Home(a) = Home(o)
  BY DEF IsAdmitted
<1>3. a \in Owners
  BY DEF TypeOK
<1>4. CASE a \in LocalSets
  <2>1. Home(a) = a
    BY <1>4, ConstantsAssumption DEF Home
  <2>2. o \notin Runtimes
    BY <1>2, <1>4, <2>1, ConstantsAssumption DEF Home
  <2> QED BY <1>2, <2>1, <2>2 DEF Home
<1>5. CASE a \in SeqRange(world.runtimes) \/ \E u \in Tasks : world.cell[u] = a
  BY <1>1, <1>2, <1>3, <1>5 DEF RoutesAgree
<1> QED BY <1>4, <1>5 DEF AdmittedNamed, AtStart

(* Where the routes agree, what was found is closed under the scope's      *)
(* rule, so the scope holds nothing else.                                  *)
LEMMA ScopeIsFound ==
    ASSUME TypeOK, RoutesAgree, FrontierAdmitted, StoreTrue, AdmittedNamed, FoundKnown
    PROVE  Scope \subseteq Records \cup admitted
<1> DEFINE F == Records \cup admitted
<1>1. F \in SUBSET Nodes
  BY DEF TypeOK, Records, Nodes
<1>2. ScopeRoots \subseteq F
  BY DEF ScopeRoots, FrontierAdmitted, SeqRange
<1>3. ASSUME NEW n \in F PROVE LeadsTo(n) \subseteq F
  <2>1. \A t \in Tasks : <<n, t>> \in foundFrom => t \in Records
    BY DEF FoundKnown, Records
  <2>2. ASSUME NEW t \in Tasks, NEW s \in rec[t].sources PROVE t \in Records
    BY DEF Records, Known
  <2>3. CASE n \in Owners
    BY <2>1, <2>2, <2>3 DEF LeadsTo
  <2>4. CASE n \notin Owners
    <3>1. n \in Tasks
      BY <1>3, <2>4 DEF Records, TypeOK
    <3>2. ASSUME NEW o \in Owners, ClaimOf(o, "cell") \in rec[n].claims, ~IsExcluded(o)
          PROVE  o \in admitted
      <4>1. TrueClaim(n, ClaimOf(o, "cell"))
        BY <3>1, <3>2 DEF StoreTrue, RecordTrue, TrueClaims
      <4>2. ClaimOf(o, "cell") \in CellClaim(n) /\ IsAdmitted(o)
        BY <3>2, <4>1 DEF TrueClaim, ClaimOf
      <4>3. o \in CellOwner(n)
        BY <4>2 DEF CellClaim, ClaimOf
      <4> QED BY <3>1, <4>2, <4>3, CellOwnerIn
    <3> QED BY <2>1, <2>4, <3>2 DEF LeadsTo, ClaimOf
  <2> QED BY <2>3, <2>4
<1> HIDE DEF F
<1>4. \A n \in F : [m \in Nodes |-> LeadsTo(m)][n] \subseteq F
  BY <1>1, <1>3
<1>5. Scope \subseteq F
  BY <1>1, <1>2, <1>4 DEF Scope
<1> QED BY <1>5 DEF F

(* The end of the sweep reaches admitted owners only. *)
LEMMA ReachesStep ==
    ASSUME TypeOK, FrontierAdmitted, StoreTrue, AdmittedNamed, FoundKnown, Reaches, [Next]_vars
    PROVE  Reaches'
<1>0. RoutesAgree' <=> RoutesAgree
  BY WorldFixed, TargetFixed
<1>1. CASE Finish
  <2>1. reached' = Scope \cap Owners /\ admitted' = admitted
    BY <1>1 DEF Finish
  <2>2. RoutesAgree => Scope \cap Owners \subseteq admitted
    <3>1. Records \cap Owners = {}
      BY ConstantsAssumption DEF Records
    <3> QED BY <3>1, ScopeIsFound
  <2> QED BY <1>0, <2>1, <2>2 DEF Reaches
<1>2. CASE ~Finish
  <2>1. reached' = reached /\ (phase' = "done" => phase = "done")
    BY <1>2
    DEF Next, Walk, Prepare, Sweep, Terminated, vars, WalkNode, WalkFails,
        NextShard, EndWalk, EnumerateRoot, EndEnumerate, ProbeTls, EndProbe,
        ScheduleRoot, StartSweep, ValidateKnown, ValidateFresh, ValidateFails,
        EnumerateRuntime, EnumerateLocalSet, ScanTask, Harvest,
        HarvestTimers, HarvestIo, HarvestBlockingQueue
  <2>2. admitted \subseteq admitted'
    BY AdmittedStays
  <2> QED BY <1>0, <2>1, <2>2 DEF Reaches
<1> QED BY <1>1, <1>2

-----------------------------------------------------------------------------
(* What an uncapped sweep found.                                           *)

(* The inductive invariant: what the store says is so, every root is       *)
(* taken, no find is lost, and nothing is found that cannot be reached.    *)
FoundInv ==
    /\ StoreTrue /\ FindsTrue
    /\ AdmittedNamed /\ RootsTaken
    /\ HarvestsDealt /\ ScansDealt /\ ResidentsDue
    /\ HandedOver /\ FoundKnown /\ Reaches
    /\ Sound

(* The session starts with no records. *)
LEMMA FoundInit ==
    ASSUME Init
    PROVE  FoundInv
<1>1. /\ \A t \in Tasks : rec[t].sources = {} /\ rec[t].claims = {} /\ rec[t].kinds = {}
      /\ \A t \in Tasks : rec[t].scanned = FALSE
      /\ queue.validations = <<>> /\ scheduled = {} /\ foundFrom = {}
      /\ phase = "enumerate" /\ roots = world.runtimes /\ admitted = AtStart
  BY DEF Init, NoRecord, EmptyQueue, AtStart, SeqRange
<1>2. StoreTrue
  BY <1>1 DEF StoreTrue, RecordTrue, TrueClaims, Born, TrueKinds, ListedIn, QueuedIn, Known
<1>3. FindsTrue
  BY <1>1 DEF FindsTrue, SeqRange
<1>4. AdmittedNamed /\ RootsTaken
  BY <1>1 DEF AdmittedNamed, RootsTaken, AtStart
<1>5. HarvestsDealt /\ ScansDealt /\ ResidentsDue
  BY <1>1 DEF HarvestsDealt, ScansDealt, ResidentsDue, Residents, Resident
<1>6. HandedOver /\ FoundKnown /\ Reaches
  BY <1>1 DEF HandedOver, FoundKnown, Reaches
<1>7. Sound
  BY <1>1 DEF Sound, Records, Known, ClosedPopulation, AtStart
<1> QED BY <1>2, <1>3, <1>4, <1>5, <1>6, <1>7 DEF FoundInv

(* Every step keeps it. *)
LEMMA FoundStep ==
    ASSUME TypeOK, TypeOK', ExclusionInv, BooksInv, DamageInv, FoundInv, [Next]_vars
    PROVE  FoundInv'
<1>1. /\ FrontierAdmitted /\ ScansBooked /\ WalkSeen /\ PhasesInv /\ FrontierIncluded
  BY DEF BooksInv, DamageInv, ExclusionInv
<1>2. StoreTrue' /\ FindsTrue'
  BY <1>1, StoreTrueStep, FindsTrueStep DEF FoundInv
<1>3. AdmittedNamed' /\ RootsTaken'
  BY <1>1, AdmittedNamedStep, RootsTakenStep DEF FoundInv
<1>4. HarvestsDealt' /\ ScansDealt' /\ ResidentsDue'
  BY <1>1, HarvestsDealtStep, ScansDealtStep, ResidentsDueStep DEF FoundInv
<1>5. HandedOver' /\ FoundKnown' /\ Reaches'
  BY <1>1, HandedOverStep, FoundKnownStep, ReachesStep DEF FoundInv
<1>6. Sound'
  BY <1>1, SoundStep DEF FoundInv
<1> QED BY <1>2, <1>3, <1>4, <1>5, <1>6 DEF FoundInv

(* What the records say of where they were found is so in every state of   *)
(* every session, and no pointer a harvest or a scan met goes unfollowed.  *)
THEOREM FoundHolds == Spec => []FoundInv
<1>1. Init => FoundInv
  BY FoundInit
<1>2. TypeOK /\ TypeOK' /\ ExclusionInv /\ BooksInv /\ DamageInv /\ FoundInv /\ [Next]_vars => FoundInv'
  BY FoundStep
<1> QED BY <1>1, <1>2, TypeCorrect, ExclusionHolds, BooksHold, DamageHolds, PTL DEF Spec

(* An uncapped sweep has read every list of an admitted owner to its end,  *)
(* followed every pointer of its registries and its pool, and scanned      *)
(* every resident record its cell does not exclude.                        *)
LEMMA AllRead ==
    ASSUME TypeOK, DamageInv, FoundInv, RoutesAgree, phase = "done", ~capped
    PROVE  /\ \A o \in admitted : \A t \in Members[o] : t \in Tasks /\ ListedIn(o, t)
           /\ \A o \in admitted : \A t \in Pooled(o) \cup Registered(o) :
                t \in world.decodable => Known(t)
           /\ \A o \in admitted : \A t \in Tasks : t \in Pooled(o) /\ Known(t) => QueuedIn(o, t)
           /\ \A t \in Residents : rec[t].scanned \/ ExcludedByCell(t)
           /\ \A t \in Tasks : rec[t].scanned =>
                \A u \in SeqRange(world.refs[t]) : u \in world.decodable => Known(u)
<1>1. ~Walking /\ NothingQueued /\ scannable = <<>> /\ admitted \subseteq scheduled
  BY DEF DamageInv, PhasesInv, FoundInv, HandedOver, RootsTaken
<1>2. SeqRange(<<>>) = {}
  BY DEF SeqRange
<1>3. \A k \in QueueKinds : SeqRange(queue[k]) = {}
  BY <1>1, <1>2 DEF NothingQueued
<1>4. /\ SeqRange(queue.runtimes) = {} /\ SeqRange(queue.sets) = {} /\ SeqRange(queue.scans) = {}
      /\ SeqRange(queue.validations) = {} /\ \A k \in HarvestKinds : SeqRange(queue[k]) = {}
  BY <1>3 DEF QueueKinds, HarvestKinds
<1>5. ASSUME NEW o \in admitted, NEW t \in Members[o] PROVE t \in Tasks /\ ListedIn(o, t)
  <2>1. Covered(o) /\ ~Pending(o)
    BY <1>4 DEF DamageInv, Pending
  <2>2. Complete(o)
    BY <1>1, <2>1 DEF Covered
  <2>3. o \in Owners
    BY DEF TypeOK
  <2>4. t \in Linked(o) /\ world.next[t] # Broken
    BY <2>3 DEF Members
  <2>5. t \in Tasks
    BY <2>4, LinkedClosed
  <2> QED BY <2>2, <2>4, <2>5 DEF Complete
<1>6. ASSUME NEW o \in admitted \cap Runtimes, NEW k \in HarvestKinds, NEW c \in SeqRange(FoundBy(k, o))
      PROVE  /\ c.addr \in world.decodable => Known(c.addr)
             /\ c.addr \in world.decodable /\ c.route = "queue" => QueuedIn(c.from, c.addr)
  <2>1. Dealt(c)
    BY <1>1, <1>4 DEF FoundInv, HarvestsDealt
  <2> QED BY <1>4, <2>1 DEF Dealt
<1>7. ASSUME NEW o \in admitted, NEW t \in Pooled(o) \cup Registered(o), t \in world.decodable
      PROVE  Known(t)
  <2>1. o \in Runtimes
    BY DEF Pooled, Registered
  <2>2. \E k \in HarvestKinds : \E c \in SeqRange(FoundBy(k, o)) : c.addr = t
    BY <2>1, FoundTrue DEF HarvestKinds
  <2> QED BY <1>6, <1>7, <2>1, <2>2
<1>8. ASSUME NEW o \in admitted, NEW t \in Tasks, t \in Pooled(o), Known(t) PROVE QueuedIn(o, t)
  <2>1. o \in Runtimes /\ "queues" \in HarvestKinds
    BY <1>8 DEF Pooled, HarvestKinds
  <2>2. PICK c \in SeqRange(FoundBy("queues", o)) : c.route = "queue" /\ c.from = o /\ c.addr = t
    BY <1>8, <2>1, FoundTrue
  <2>3. t \in world.decodable
    <3>1. CASE \E p \in Owners : ListedIn(p, t)
      <4>1. PICK p \in Owners : t \in Members[p]
        BY <3>1, SourcesHold DEF FoundInv
      <4>2. o \in Owners
        BY DEF TypeOK
      <4> QED BY <1>8, <4>1, <4>2 DEF RoutesAgree
    <3> QED BY <1>8, <3>1 DEF FoundInv, StoreTrue, RecordTrue, Born
  <2> QED BY <1>6, <2>1, <2>2, <2>3
<1>9. \A t \in Residents : rec[t].scanned \/ ExcludedByCell(t)
  BY <1>1, <1>2, <1>4 DEF FoundInv, ResidentsDue, ScansDue
<1>10. ASSUME NEW t \in Tasks, rec[t].scanned, NEW u \in SeqRange(world.refs[t]), u \in world.decodable
       PROVE  Known(u)
  <2>1. PICK c \in SeqRange(FoundIn(t)) : c.addr = u
    BY FoundTrue
  <2>2. Dealt(c)
    BY <1>10 DEF FoundInv, ScansDealt
  <2> QED BY <1>4, <1>10, <2>1, <2>2 DEF Dealt
<1> QED BY <1>5, <1>7, <1>8, <1>9, <1>10

(* What an uncapped sweep found is closed under the target's edges. *)
LEMMA FoundIsClosed ==
    ASSUME TypeOK, BooksInv, DamageInv, FoundInv, RoutesAgree, phase = "done", ~capped
    PROVE  ClosedPopulation(Records \cup admitted, Members)
<1> DEFINE F == Records \cup admitted
<1>1. /\ F \cap Owners \subseteq admitted /\ F \cap Tasks \subseteq Records
  BY ConstantsAssumption DEF Records, TypeOK
<1>2. SeqRange(world.runtimes) \subseteq F
  BY DEF BooksInv, FrontierAdmitted, AtStart
<1>3. {l \in SeqRange(world.tls) : world.listId[l] # NoId} \subseteq F
  BY DEF FoundInv, RootsTaken, ReadsSet
<1>4. ASSUME NEW o \in F \cap Owners
      PROVE  /\ Members[o] \subseteq F
             /\ (Pooled(o) \cup Registered(o)) \cap world.decodable \subseteq F
  <2>1. o \in admitted
    BY <1>1
  <2>2. Members[o] \subseteq F
    BY <2>1, AllRead DEF Records, Known, ListedIn
  <2>3. world.decodable \subseteq Tasks
    BY DEF TypeOK, WorldType
  <2>4. (Pooled(o) \cup Registered(o)) \cap world.decodable \subseteq F
    BY <2>1, <2>3, AllRead DEF Records
  <2> QED BY <2>2, <2>4
<1>5. ASSUME NEW t \in F \cap Tasks, NEW o \in CellOwner(t), IdAgrees(o, t), ~IsExcluded(o)
      PROVE  o \in F
  <2>1. Known(t) /\ Born(t) /\ TrueClaims(t)
    BY <1>1 DEF Records, FoundInv, StoreTrue, RecordTrue
  <2>2. CASE \E p \in Owners : ListedIn(p, t)
    <3>1. PICK p \in Owners : p \in admitted /\ t \in Members[p]
      BY <2>2, SourcesHold DEF FoundInv
    <3>2. o = p
      BY <1>5, <3>1 DEF RoutesAgree
    <3> QED BY <3>1, <3>2
  <2>3. CASE CellClaim(t) \subseteq rec[t].claims
    <3>1. ClaimOf(o, "cell") \in rec[t].claims
      BY <1>5, <2>3 DEF CellClaim, ClaimOf
    <3>2. TrueClaim(t, ClaimOf(o, "cell"))
      BY <2>1, <3>1 DEF TrueClaims
    <3>3. IsAdmitted(o)
      BY <1>5, <3>2 DEF TrueClaim, ClaimOf
    <3> QED BY <3>3, CellOwnerIn DEF FoundInv
  <2> QED BY <2>1, <2>2, <2>3 DEF Born
<1>6. ASSUME NEW t \in F \cap Tasks
      PROVE  \/ ExcludedByCell(t)
             \/ /\ t \in world.complete
                /\ \A o \in F \cap Owners : t \notin Members[o] \cup Pooled(o)
             \/ SeqRange(world.refs[t]) \cap world.decodable \subseteq F
  <2>1. CASE rec[t].scanned
    <3>1. world.decodable \subseteq Tasks
      BY DEF TypeOK, WorldType
    <3> QED BY <2>1, <3>1, AllRead DEF Records
  <2>2. CASE t \in Residents
    BY <2>1, <2>2, AllRead
  <2>3. CASE t \notin Residents
    <3>1. Known(t) /\ ~Resident(t, rec[t])
      BY <1>1, <2>3 DEF Records, Residents
    <3>2. t \in world.complete /\ \A s \in rec[t].sources : ~Lists(s)
      BY <3>1 DEF Resident, Known
    <3>3. \A o : ~ListedIn(o, t) /\ ~QueuedIn(o, t)
      BY <3>2 DEF Lists, ListedIn, QueuedIn
    <3> QED BY <1>1, <3>1, <3>2, <3>3, AllRead
  <2> QED BY <2>2, <2>3
<1> HIDE DEF F
<1>7. ClosedPopulation(F, Members)
  BY <1>2, <1>3, <1>4, <1>5, <1>6 DEF ClosedPopulation, ExcludedByCell
<1> QED BY <1>7 DEF F

(* The sweep found exactly the population. *)
LEMMA FoundIsPopulation ==
    ASSUME TypeOK, BooksInv, DamageInv, FoundInv, RoutesAgree
    PROVE  PopulationComplete
<1> SUFFICES ASSUME phase = "done", ~capped PROVE Records \cup admitted = Population
  BY DEF PopulationComplete, Records
<1>1. Records \cup admitted \in SUBSET Nodes
  BY DEF TypeOK, Records, Nodes
<1>2. Records \cup admitted \subseteq Population
  BY <1>1 DEF FoundInv, Sound, Population
<1>3. Population \subseteq Records \cup admitted
  BY <1>1, FoundIsClosed DEF Population
<1> QED BY <1>2, <1>3

(* A row's claims name the owners that all the evidence gives it. *)
LEMMA RowOwners ==
    ASSUME TypeOK, DamageInv, FoundInv, RoutesAgree, phase = "done", ~capped, reached = admitted,
           NEW t \in Tasks, Known(t)
    PROVE  OwnersOf(rec[t]) = AllOwners(t)
<1>1. StoreTrue /\ TrueClaims(t) /\ Born(t) /\ admitted \subseteq Owners
  BY DEF FoundInv, StoreTrue, RecordTrue, TypeOK
<1>2. ASSUME NEW c \in rec[t].claims PROVE c.owner \in AllOwners(t)
  <2>1. TrueClaim(t, c) /\ c \in Claim
    BY <1>1 DEF TrueClaims, TypeOK, Record
  <2>2. c.evidence \in {"list", "queue", "cell"}
    BY <2>1 DEF Claim
  <2>3. CASE c.evidence = "list"
    BY <1>1, <2>1, <2>3, SourcesHold DEF TrueClaim, AllOwners
  <2>4. CASE c.evidence = "queue"
    BY <1>1, <2>1, <2>4, SourcesHold DEF TrueClaim, AllOwners
  <2>5. CASE c.evidence = "cell"
    <3>1. PICK p \in CellOwner(t) : IdAgrees(p, t) /\ c = [owner |-> p, evidence |-> "cell"]
      BY <2>1, <2>5 DEF TrueClaim, CellClaim
    <3>2. c.owner = p
      BY <3>1
    <3> QED BY <3>1, <3>2 DEF AllOwners
  <2> QED BY <2>2, <2>3, <2>4, <2>5
<1>3. ASSUME NEW o, NEW e, ClaimOf(o, e) \in rec[t].claims PROVE o \in OwnersOf(rec[t])
  BY <1>3 DEF ClaimOf, OwnersOf
<1>4. ASSUME NEW o \in admitted, t \in Members[o], IdAgrees(o, t) PROVE o \in OwnersOf(rec[t])
  BY <1>1, <1>3, <1>4, AllRead DEF TrueClaims
<1>5. ASSUME NEW o \in admitted, t \in Pooled(o) PROVE o \in OwnersOf(rec[t])
  BY <1>1, <1>3, <1>5, AllRead DEF TrueClaims
<1>6. ASSUME NEW o \in CellOwner(t), IdAgrees(o, t) PROVE o \in OwnersOf(rec[t])
  <2>1. CASE \E p \in Owners : ListedIn(p, t)
    <3>1. PICK p \in Owners : p \in admitted /\ t \in Members[p]
      BY <1>1, <2>1, SourcesHold
    <3>2. o = p
      BY <1>6, <3>1 DEF RoutesAgree
    <3> QED BY <1>4, <1>6, <3>1, <3>2
  <2>2. CASE CellClaim(t) \subseteq rec[t].claims
    <3>1. ClaimOf(o, "cell") \in rec[t].claims
      BY <1>6, <2>2 DEF CellClaim, ClaimOf
    <3> QED BY <1>3, <3>1
  <2> QED BY <1>1, <2>1, <2>2 DEF Born
<1>7. OwnersOf(rec[t]) \subseteq AllOwners(t)
  BY <1>2 DEF OwnersOf
<1>8. AllOwners(t) \subseteq OwnersOf(rec[t])
  BY <1>4, <1>5, <1>6 DEF AllOwners
<1> QED BY <1>7, <1>8

(* A row's kinds are those that all the evidence shows. *)
LEMMA RowKinds ==
    ASSUME TypeOK, DamageInv, FoundInv, RoutesAgree, phase = "done", ~capped, reached = admitted,
           NEW t \in Tasks, Known(t)
    PROVE  rec[t].kinds = AllKinds(t)
<1>1. TrueKinds(t) /\ \A s \in rec[t].sources : TrueSource(t, s) /\ s \in Source
  BY DEF FoundInv, StoreTrue, RecordTrue, TypeOK, Record
<1>2. ASSUME NEW s \in rec[t].sources, NEW k \in SourceKind(s) PROVE k \in AllKinds(t)
  <2>1. CASE s.route = "list"
    <3>1. k = "async" /\ s.at \in reached /\ t \in Members[s.at]
      BY <1>1, <1>2, <2>1 DEF SourceKind, TrueSource
    <3> QED BY <3>1 DEF AllKinds
  <2>2. CASE s.route = "queue"
    <3>1. k = "blocking" /\ s.at \in reached /\ t \in Pooled(s.at)
      BY <1>1, <1>2, <2>2 DEF SourceKind, TrueSource
    <3> QED BY <3>1 DEF AllKinds
  <2> QED BY <1>2, <2>1, <2>2 DEF SourceKind
<1>3. rec[t].kinds \subseteq AllKinds(t)
  <2>1. HeaderKind(t) \subseteq AllKinds(t)
    BY DEF AllKinds
  <2> QED BY <1>1, <1>2, <2>1 DEF TrueKinds
<1>4. ASSUME NEW o \in reached, t \in Members[o] PROVE "async" \in rec[t].kinds
  <2>1. PICK s \in rec[t].sources : s = [route |-> "list", at |-> o, nth |-> 0]
    BY <1>4, AllRead DEF ListedIn
  <2>2. s.route = "list"
    BY <2>1
  <2>3. "async" \in SourceKind(s)
    BY <2>2 DEF SourceKind
  <2> QED BY <1>1, <2>3 DEF TrueKinds
<1>5. ASSUME NEW o \in reached, t \in Pooled(o) PROVE "blocking" \in rec[t].kinds
  <2>1. PICK s \in rec[t].sources : s.route = "queue"
    BY <1>5, AllRead DEF QueuedIn
  <2>2. "blocking" \in SourceKind(s)
    BY <2>1 DEF SourceKind
  <2> QED BY <1>1, <2>2 DEF TrueKinds
<1>6. HeaderKind(t) \subseteq rec[t].kinds
  BY <1>1 DEF TrueKinds
<1>7. AllKinds(t) \subseteq rec[t].kinds
  BY <1>4, <1>5, <1>6 DEF AllKinds
<1> QED BY <1>3, <1>7

(* The rows are what the evidence adds up to, and each was searched. *)
LEMMA RowsHold ==
    ASSUME TypeOK, ExclusionInv, DamageInv, ScopeInv, FoundInv, RoutesAgree
    PROVE  RowsRouteFree /\ RowsAreScanned
<1> SUFFICES ASSUME phase = "done", ~capped, NEW t \in Rows
             PROVE  /\ OwnersOf(rec[t]) = AllOwners(t) /\ rec[t].kinds = AllKinds(t)
                    /\ rec[t].scanned
  BY DEF RowsRouteFree, RowsAreScanned
<1>1. reached = admitted
  BY DEF ScopeInv, FoundInv, Reaches
<1>2. t \in Tasks /\ t \in Residents /\ ~ExcludedOwned(rec[t])
  BY DEF Rows, Residents
<1>3. Known(t)
  BY <1>2 DEF Residents, Resident, Known
<1>4. ~ExcludedByCell(t)
  BY <1>2, <1>3, CellDecides DEF FoundInv, ExclusionInv
<1>5. rec[t].scanned
  BY <1>2, <1>4, AllRead
<1> QED BY <1>1, <1>2, <1>3, <1>5, RowOwners, RowKinds

(* On every target whose routes agree, of any size, a sweep that ran to    *)
(* its end found exactly the tasks and owners that can be reached from the *)
(* roots: the order in which the routes ran decides nothing.               *)
THEOREM PopulationIsComplete == Spec => [](RoutesAgree => PopulationComplete)
<1>1. TypeOK /\ BooksInv /\ DamageInv /\ FoundInv => (RoutesAgree => PopulationComplete)
  BY FoundIsPopulation
<1> QED BY <1>1, TypeCorrect, BooksHold, DamageHolds, FoundHolds, PTL

(* On such a target a row's owner and kind are what all the evidence adds  *)
(* up to, whichever route met the task first.                              *)
THEOREM RowsAreRouteFree == Spec => [](RoutesAgree => RowsRouteFree)
<1>1. TypeOK /\ ExclusionInv /\ DamageInv /\ ScopeInv /\ FoundInv => (RoutesAgree => RowsRouteFree)
  BY RowsHold
<1> QED BY <1>1, TypeCorrect, ExclusionHolds, DamageHolds, ScopeHolds, FoundHolds, PTL

(* And a row's storage was searched: the scan an excluded runtime's claim  *)
(* drops for good is lost only where a task's routes disagree.             *)
THEOREM EveryRowIsScanned == Spec => [](RoutesAgree => RowsAreScanned)
<1>1. TypeOK /\ ExclusionInv /\ DamageInv /\ ScopeInv /\ FoundInv => (RoutesAgree => RowsAreScanned)
  BY RowsHold
<1> QED BY <1>1, TypeCorrect, ExclusionHolds, DamageHolds, ScopeHolds, FoundHolds, PTL

=============================================================================
