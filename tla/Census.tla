------------------------------- MODULE Census -------------------------------
(***************************************************************************)
(* The future census of hansei-runtime/src/tokio/census.rs: every task's   *)
(* await chain scanned for the futures, sets and join sets its frames      *)
(* hold, and what those hold in turn, over a target whose links may be     *)
(* bent and whose memory the allocator may have taken back.                *)
(*                                                                         *)
(* A value stands for its (address, type), the key the walk knows it by.   *)
(* A world is a target, frozen:                                            *)
(*   tasks   a sequence of [root, running]: the stage's future, if any     *)
(*   access  the values whose type has an access route, the adapters       *)
(*   next    value -> the future its continuation or route lands on        *)
(*   extent  value -> the bytes a pointer to it is followed for, its type's *)
(*           or its vtable's size; 0 where it lies in what leads to it     *)
(*   holds   value -> the finds in a frame's storage, or of a container's  *)
(*           entries, in order                                             *)
(*           (nothing where a frame's variant does not decode or its       *)
(*           layout has no such state: census.rs leaves it without a word) *)
(*   withheld value -> how many locals the layout cannot vouch for         *)
(*   items   table -> the count it keeps of its full buckets               *)
(*   buffer  container -> the address of its entries                       *)
(*   heads   set or join set -> the heads of its node lists                *)
(*   length  join set -> the count it keeps for itself                     *)
(*   nodes   address -> [size, next, slot]: a set node or an entry; a slot *)
(*           is <<>> when empty, <<v>> with a future or a task's root, and *)
(*           Broken when it does not decode                                *)
(*   freed, live   what the allocator says of memory: the addresses taken  *)
(*           back, and the blocks [lo, hi] handed out                      *)
(* Optional values are empty or singleton sets; link 0 ends a list.        *)
(***************************************************************************)
EXTENDS Integers, Sequences, FiniteSets, SequencesExt

CONSTANTS
    Values,
    Addr,               \* value -> its address
    Kind,               \* value -> what the bundle recognizes its type as
    Worlds,             \* the targets, in families
    MAX_CHILDREN,       \* nodes or entries a walk may take
    MAX_NESTING,        \* hops from a task's own frames the scan recurses
    MAX_AWAIT_DEPTH,    \* frames of a chain
    Broken

ASSUME BoundsAssumption ==
    /\ MAX_CHILDREN \in Nat \ {0}
    /\ MAX_NESTING \in Nat
    /\ MAX_AWAIT_DEPTH \in Nat \ {0}

(* What every target is, however bent: words read as addresses and counts,
   links and heads that may lead anywhere, a node's size its type's. *)
Target(w) ==
    /\ w.tasks \in Seq([root : SUBSET Values, running : BOOLEAN])
    /\ w.access \subseteq Values /\ w.freed \subseteq Nat
    /\ w.next \in [Values -> SUBSET Values] /\ w.extent \in [Values -> Nat]
    /\ w.holds \in [Values -> Seq(Values)]
    /\ \A v \in Values :
          /\ Kind[v] \in {"Set", "JoinSet"} => w.heads[v] \in Seq(Nat) \ {<<>>}
          /\ Kind[v] = "JoinSet" => w.length[v] \in Nat
    /\ \A a \in DOMAIN w.nodes :
          /\ a \in Nat /\ w.nodes[a].size \in Nat \ {0} /\ w.nodes[a].next \in Nat
          /\ w.nodes[a].slot \in Seq(Values) \cup {Broken}

ASSUME TargetsAssumption ==
    /\ IsFiniteSet(Values)
    /\ \A v \in Values : Addr[v] \in Nat
    /\ \A family \in Worlds : \A w \in family : Target(w)

VARIABLES
    world,
    task,       \* tasks scanned so far
    work,       \* the finds still to record, the innermost scan's first
    visited,    \* the values recorded or looked through
    held,       \* the held futures listed
    sets,       \* the sets listed, with their children
    joinSets,   \* the join sets listed, with their members
    spans,      \* [lo, hi, set, child] of every child node
    errors,     \* each error as the addresses its report names
    refused,    \* finds the allocator's account refused
    short,      \* chains too distant and locals withheld
    phase       \* "scan" or "done"

vars == <<world, task, work, visited, held, sets, joinSets, spans, errors,
          refused, short, phase>>

-----------------------------------------------------------------------------
(* Reads and what they are held to.                                        *)

(* ReadContext::taken_back and ReadContext::refusal. *)
TakenBack(addr) == addr \in world.freed

Refused(addr, size) ==
    \/ TakenBack(addr)
    \/ \E block \in world.live :
          addr \in block.lo .. (block.hi - 1) /\ addr + size > block.hi

(* What a route leads to may not be read: a pointer into memory taken back,
   or to more than is left of the block it points into. *)
RouteRefused(referent) == \E v \in referent : Refused(Addr[v], world.extent[v])

(* Context::inspect_future: the chain from a root, until a future awaits
   nothing the engine knows, the allocator refuses the next, a chain comes
   back on itself or is as long as chains may be. *)
Await(chain) ==
    LET ahead == world.next[Last(chain.frames)]
    IN  IF chain.end # "open" THEN chain
        ELSE IF ahead = {} THEN [chain EXCEPT !.end = "leaf"]
        ELSE IF RouteRefused(ahead)
             THEN [chain EXCEPT !.end = "refused"]
        ELSE IF Len(chain.frames) >= MAX_AWAIT_DEPTH
             THEN [chain EXCEPT !.end = "depth"]
        ELSE IF ahead \subseteq ToSet(chain.frames)
             THEN [chain EXCEPT !.end = "cycle"]
        ELSE [chain EXCEPT !.frames = Append(@, CHOOSE v \in ahead : TRUE)]

InspectFuture(root) ==
    LET after[n \in 0 .. MAX_AWAIT_DEPTH] ==
            IF n = 0 THEN [frames |-> <<root>>, end |-> "open"]
            ELSE Await(after[n - 1])
    IN  after[MAX_AWAIT_DEPTH]

(* Walker::identity_frame: the first frame that is no adapter, or the root. *)
Identity(chain) ==
    LET plain == {i \in DOMAIN chain.frames : chain.frames[i] \notin world.access}
    IN  chain.frames[IF plain = {} THEN 1 ELSE Min(plain)]

-----------------------------------------------------------------------------
(* The node walks.  A walk is [nodes, stop]: the nodes visited in order and  *)
(* the addresses a stop names, {} where the list ended.                      *)

(* NodeWalk::admit: what stops a walk before it reads a node.  The cap names
   no address, which is 0 here. *)
MutAdmit(walk, addr) ==
    IF addr \notin DOMAIN world.nodes THEN {addr}
    ELSE IF Refused(addr, world.nodes[addr].size) THEN {addr}
    ELSE IF Len(walk.nodes) >= MAX_CHILDREN THEN {0}
    ELSE {}

Admit(walk, addr) ==
    IF addr \notin DOMAIN world.nodes THEN {addr}
    ELSE IF Refused(addr, world.nodes[addr].size) THEN {addr}
    ELSE IF addr \in ToSet(walk.nodes) THEN {addr}
    ELSE IF Len(walk.nodes) >= MAX_CHILDREN THEN {0}
    ELSE {}

(* walk_set_nodes, and one list of walk_join_set_entries: from a head to the
   end of its list, a node whose slot does not decode stopping it unlisted. *)
Visit(walk) ==
    IF walk.cur = 0 \/ walk.stop # {} THEN walk
    ELSE IF Admit(walk, walk.cur) # {}
         THEN [walk EXCEPT !.stop = Admit(walk, walk.cur)]
    ELSE IF world.nodes[walk.cur].slot = Broken
         THEN [walk EXCEPT !.stop = {walk.cur}]
    ELSE [walk EXCEPT !.nodes = Append(@, walk.cur),
                      !.cur = world.nodes[walk.cur].next]

WalkNodes(start, head) ==
    LET after[n \in 0 .. (MAX_CHILDREN + 1)] ==
            IF n = 0 THEN [start EXCEPT !.cur = head] ELSE Visit(after[n - 1])
    IN  after[MAX_CHILDREN + 1]

NewWalk == [nodes |-> <<>>, cur |-> 0, stop |-> {}]

(* walk_join_set_entries: the woken entries and then the rest, under one
   guard against cycles and one cap. *)
WalkLists(heads) ==
    LET resume(walk, head) == IF walk.stop = {} THEN WalkNodes(walk, head) ELSE walk
        after[n \in 0 .. Len(heads)] ==
            IF n = 0 THEN NewWalk ELSE resume(after[n - 1], heads[n])
    IN  after[Len(heads)]

(* walk_fanout_entries and walk_table_buckets: the entries handed over, and
   what stops the walk short of them.  A table that counts no items is not
   looked into; address 0 is never mapped. *)
Contents(v) ==
    IF Kind[v] = "Table" /\ world.items[v] = 0 THEN <<>> ELSE world.holds[v]

Unreadable(v) ==
    /\ Contents(v) # <<>>
    /\ world.buffer[v] = 0 \/ Refused(world.buffer[v], Len(Contents(v)))

EntriesStop(v) ==
    IF Unreadable(v) THEN {world.buffer[v]}
    ELSE IF Len(Contents(v)) > MAX_CHILDREN THEN {0} ELSE {}

Entries(v) ==
    IF Unreadable(v)
    THEN <<>>
    ELSE SubSeq(Contents(v), 1, Min({Len(Contents(v)), MAX_CHILDREN}))

-----------------------------------------------------------------------------
(* Scans.                                                                  *)

(* One find to record: where it was scanned from. *)
Item(value, owner, via, nesting, onChain) ==
    [value |-> value, owner |-> owner, via |-> via, nesting |-> nesting,
     onChain |-> onChain]

(* Walker::scan_frames: the finds of a chain's frames, first frame first.  A
   frame that is a fan-out container is a find itself; a running task's
   frames offer their sets alone. *)
Offers(frame, scope) ==
    IF Kind[frame] = "Fanout"
    THEN IF scope = "Sets" THEN <<>> ELSE <<frame>>
    ELSE FlattenSeq([i \in DOMAIN world.holds[frame] |->
                        LET v == world.holds[frame][i]
                        IN  IF scope = "All" \/ Kind[v] = "Set" THEN <<v>> ELSE <<>>])

ScanFrames(owner, via, chain, nesting, scope) ==
    LET finds == FlattenSeq([i \in DOMAIN chain.frames |-> Offers(chain.frames[i], scope)])
    IN  [i \in DOMAIN finds |->
            Item(finds[i], owner, via, nesting, ToSet(chain.frames))]

(* The locals a scan of a chain leaves out and counts: not a running task's,
   whose held futures are not listed in any case.  A frame whose state the
   layout does not describe counts none and holds nothing. *)
Withheld(chain) ==
    FoldLeft(LAMBDA n, frame : n + (IF Kind[frame] = "Fanout"
                                    THEN 0 ELSE world.withheld[frame]),
             0, chain.frames)

-----------------------------------------------------------------------------

Init ==
    /\ \E family \in Worlds : world \in family
    /\ task = 0
    /\ work = <<>>
    /\ visited = {}
    /\ held = <<>> /\ sets = <<>> /\ joinSets = <<>>
    /\ spans = {} /\ errors = {}
    /\ refused = 0 /\ short = 0
    /\ phase = "scan"

(* census_bounded: the next task's chain, or a running task's saved one.  A
   task with no stage to inspect contributes nothing. *)
ScanTask ==
    /\ phase = "scan" /\ work = <<>>
    /\ task < Len(world.tasks)
    /\ task' = task + 1
    /\ LET t == world.tasks[task + 1]
           chain == InspectFuture(CHOOSE v \in t.root : TRUE)
       IN  IF t.root = {}
           THEN UNCHANGED <<work, short>>
           ELSE /\ work' = ScanFrames(task + 1, <<>>, chain, 0,
                                      IF t.running THEN "Sets" ELSE "All")
                /\ short' = short + (IF t.running THEN 0 ELSE Withheld(chain))
    /\ UNCHANGED <<world, visited, held, sets, joinSets, spans, errors, refused, phase>>

(* Walker::record, up to the kind of find: memory the allocator has taken
   back, and a value already recorded, are dropped in that order. *)
Stale(item) == TakenBack(Addr[item.value])

MutFresh(item) == ~ Stale(item)

Fresh(item) == ~ Stale(item) /\ item.value \notin visited

Drop ==
    /\ work # <<>>
    /\ ~ Fresh(Head(work))
    /\ work' = Tail(work)
    /\ refused' = refused + (IF Stale(Head(work)) THEN 1 ELSE 0)
    /\ UNCHANGED <<world, task, visited, held, sets, joinSets, spans, errors,
                   short, phase>>

(* A find taken off the work: it is recorded or looked through once. *)
Recording(kinds) ==
    /\ work # <<>>
    /\ Fresh(Head(work))
    /\ Kind[Head(work).value] \in kinds

(* Walker::set_child: the child's root is the future past its adapters. *)
Child(addr) ==
    LET slot == world.nodes[addr].slot
    IN  [node |-> addr,
         root |-> IF slot = <<>> THEN {} ELSE {Identity(InspectFuture(slot[1]))}]

(* Walker::record_set: the nodes walked and spanned, the set listed under the
   index its children's finds name, then each resident child scanned. *)
MutSetIndex == Len(sets)

SetIndex == Len(sets) + 1

MutTooFar(nesting) == 0

(* A child's chain too far out is left unscanned and counted. *)
TooFar(nesting) == IF nesting < MAX_NESTING THEN 0 ELSE 1

RecordSet ==
    /\ Recording({"Set"})
    /\ LET item == Head(work)
           v == item.value
           walk == WalkNodes(NewWalk, world.heads[v][1])
           slot(c) == world.nodes[walk.nodes[c]].slot
           resident == {c \in DOMAIN walk.nodes : slot(c) # <<>>}
           scanned == IF item.nesting < MAX_NESTING THEN resident ELSE {}
           chain(c) == InspectFuture(slot(c)[1])
       IN  /\ sets' = Append(sets,
                        [owner |-> item.owner, via |-> item.via, value |-> v,
                         children |-> [c \in DOMAIN walk.nodes |-> Child(walk.nodes[c])]])
           /\ spans' = spans \cup
                {[lo |-> walk.nodes[c], hi |-> walk.nodes[c] + world.nodes[walk.nodes[c]].size,
                  set |-> SetIndex, child |-> c] : c \in DOMAIN walk.nodes}
           /\ errors' = errors \cup (IF walk.stop = {} THEN {}
                                     ELSE {walk.stop \cup {Addr[v]}})
           /\ short' = short + Cardinality(resident) * TooFar(item.nesting)
                             + MapThenSumSet(LAMBDA c : Withheld(chain(c)), scanned)
           /\ work' = FlattenSeq([c \in DOMAIN walk.nodes |->
                           IF c \in scanned
                           THEN ScanFrames(item.owner, <<SetIndex, c>>, chain(c),
                                           item.nesting + 1, "All")
                           ELSE <<>>]) \o Tail(work)
    /\ visited' = visited \cup {Head(work).value}
    /\ UNCHANGED <<world, task, held, joinSets, refused, phase>>

(* Walker::record_join_set: its members are tasks of their own and nothing
   recurses; a walk that fails, or a count the lists disagree with, is an
   error that names the set. *)
Miscounted(walk, v) == walk.stop # {} \/ Len(walk.nodes) # world.length[v]

RecordJoinSet ==
    /\ Recording({"JoinSet"})
    /\ LET item == Head(work)
           v == item.value
           walk == WalkLists(world.heads[v])
       IN  /\ joinSets' = Append(joinSets,
                            [owner |-> item.owner, via |-> item.via, value |-> v,
                             length |-> world.length[v], children |-> walk.nodes])
           /\ errors' = errors \cup (IF Miscounted(walk, v)
                                     THEN {walk.stop \cup {Addr[v]}} ELSE {})
    /\ work' = Tail(work)
    /\ visited' = visited \cup {Head(work).value}
    /\ UNCHANGED <<world, task, held, sets, spans, refused, short, phase>>

(* Walker::record_fanout and Walker::record_table: no row of their own, each
   entry's finds are the frame's.  An entry is one find here, so the number
   of a table's full buckets is that of its finds; its entries have a size.
   The HTTP pool a frame may hold is read beside the finds and marks its own
   value visited, a reaper or a checkout that no find is of: it has no part
   here, its errors included. *)
RecordContainer ==
    /\ Recording({"Fanout", "Table"})
    /\ LET item == Head(work)
           v == item.value
           finds == Entries(v)
           counted == Kind[v] = "Fanout" \/ EntriesStop(v) # {}
                        \/ Len(finds) = world.items[v]
       IN  /\ work' = [i \in DOMAIN finds |-> [item EXCEPT !.value = finds[i]]]
                        \o Tail(work)
           /\ errors' = errors \cup
                (IF EntriesStop(v) = {} /\ counted THEN {}
                 ELSE {EntriesStop(v) \cup {Addr[v]}})
    /\ visited' = visited \cup {Head(work).value}
    /\ UNCHANGED <<world, task, held, sets, joinSets, spans, refused, short, phase>>

(* An adapter that is no future: its referent is the find, refused where the
   allocator refuses the route and nothing where it lands nowhere. *)
RecordAdapter ==
    /\ Recording({"Adapter"})
    /\ LET item == Head(work)
           referent == world.next[item.value]
           stale == RouteRefused(referent)
       IN  /\ refused' = refused + (IF stale THEN 1 ELSE 0)
           /\ work' = (IF stale THEN <<>>
                       ELSE [i \in 1 .. Cardinality(referent) |->
                               [item EXCEPT !.value = CHOOSE v \in referent : TRUE]])
                        \o Tail(work)
    /\ visited' = visited \cup {Head(work).value}
    /\ UNCHANGED <<world, task, held, sets, joinSets, spans, errors, short, phase>>

(* A future that is a frame of the chain it was scanned out of, or whose own
   chain lands on one, is that frame. *)
OnChain(item) ==
    ToSet(InspectFuture(item.value).frames) \cap item.onChain # {}

(* The future past its adapters, where the walk may record it: its adapters
   lead somewhere, its memory is the program's and it is not listed yet. *)
StaleSlot(item) ==
    LET chain == InspectFuture(item.value)
        future == Identity(chain)
    IN  \/ future \in world.access /\ chain.end = "refused"
        \/ TakenBack(Addr[future])

MutAlias(item) == FALSE

Alias(item) ==
    LET future == Identity(InspectFuture(item.value))
    IN  future # item.value /\ future \in visited

PassFuture ==
    /\ Recording({"Future"})
    /\ LET item == Head(work)
           chain == InspectFuture(item.value)
       IN  /\ OnChain(item) \/ StaleSlot(item) \/ Alias(item)
           /\ refused' = refused + (IF ~ OnChain(item) /\ StaleSlot(item) THEN 1 ELSE 0)
    /\ work' = Tail(work)
    /\ visited' = visited \cup {Head(work).value}
    /\ UNCHANGED <<world, task, held, sets, joinSets, spans, errors, short, phase>>

RecordFuture ==
    /\ Recording({"Future"})
    /\ LET item == Head(work)
           chain == InspectFuture(item.value)
           index == Len(held) + 1
       IN  /\ ~ OnChain(item) /\ ~ StaleSlot(item) /\ ~ Alias(item)
           /\ held' = Append(held,
                        [owner |-> item.owner, via |-> item.via, slot |-> item.value,
                         future |-> Identity(chain), frames |-> chain.frames])
           /\ visited' = visited \cup {item.value, Identity(chain)}
           /\ IF item.nesting < MAX_NESTING
              THEN /\ work' = ScanFrames(item.owner, <<index>>, chain,
                                         item.nesting + 1, "All") \o Tail(work)
                   /\ short' = short + Withheld(chain)
              ELSE /\ work' = Tail(work)
                   /\ short' = short + 1
    /\ UNCHANGED <<world, task, sets, joinSets, spans, errors, refused, phase>>

(* span_overlap_errors: the spans sorted, each pair of neighbours that claim
   one byte reported by both starts. *)
Before(a, b) ==
    \/ a.lo < b.lo
    \/ a.lo = b.lo /\ a.hi < b.hi
    \/ a.lo = b.lo /\ a.hi = b.hi /\ a.set < b.set
    \/ a.lo = b.lo /\ a.hi = b.hi /\ a.set = b.set /\ a.child < b.child

Neighbours ==
    {p \in spans \X spans :
        /\ Before(p[1], p[2])
        /\ \A c \in spans : ~ (Before(p[1], c) /\ Before(c, p[2]))}

Overlaps == {{p[1].lo, p[2].lo} : p \in {q \in Neighbours : q[1].hi > q[2].lo}}

Finish ==
    /\ phase = "scan" /\ work = <<>>
    /\ task = Len(world.tasks)
    /\ phase' = "done"
    /\ errors' = errors \cup Overlaps
    /\ UNCHANGED <<world, task, work, visited, held, sets, joinSets, spans,
                   refused, short>>

Done == phase = "done" /\ UNCHANGED vars

Next ==
    \/ ScanTask
    \/ Drop
    \/ RecordSet
    \/ RecordJoinSet
    \/ RecordContainer
    \/ RecordAdapter
    \/ PassFuture
    \/ RecordFuture
    \/ Finish
    \/ Done

Spec == Init /\ [][Next]_vars

-----------------------------------------------------------------------------
(* What the target holds, whatever order a walk takes and whatever it        *)
(* remembers: the finds each scanned chain offers, closed under what they    *)
(* hold.  A find is a pair <<value, the frames it was scanned out of>>.      *)

Finds(chain, scope) ==
    {<<v, ToSet(chain.frames)>>
        : v \in UNION {ToSet(Offers(frame, scope)) : frame \in ToSet(chain.frames)}}

TaskFinds ==
    UNION {UNION {Finds(InspectFuture(v), IF t.running THEN "Sets" ELSE "All")
                    : v \in t.root} : t \in ToSet(world.tasks)}

(* The nodes a set's links reach. *)
Linked(v) ==
    LET grow(addrs, i) == addrs \cup {world.nodes[a].next
                                         : a \in addrs \cap DOMAIN world.nodes}
    IN  FoldLeft(grow, ToSet(world.heads[v]),
                 [i \in 1 .. Cardinality(DOMAIN world.nodes) |-> i]) \ {0}

Residents(v) ==
    UNION {ToSet(world.nodes[a].slot)
             : a \in {n \in Linked(v) \cap DOMAIN world.nodes : world.nodes[n].slot # Broken}}

Through(find) ==
    LET v == find[1]
    IN  CASE Kind[v] = "Future" ->
                 IF ToSet(InspectFuture(v).frames) \cap find[2] = {}
                 THEN Finds(InspectFuture(v), "All") ELSE {}
          [] Kind[v] = "Set" ->
                 UNION {Finds(InspectFuture(f), "All") : f \in Residents(v)}
          [] Kind[v] = "Adapter" -> {<<f, find[2]>> : f \in world.next[v]}
          [] Kind[v] \in {"Fanout", "Table"} ->
                 {<<f, find[2]>> : f \in ToSet(Contents(v))}
          [] OTHER -> {}

Reached ==
    FoldLeft(LAMBDA finds, i : finds \cup UNION {Through(find) : find \in finds},
             TaskFinds, [i \in 1 .. Cardinality(Values) |-> i])

Rows == {held[i].future : i \in DOMAIN held}

(* The frames of every chain scanned: a future among them is listed there. *)
Frames ==
    UNION ({ToSet(held[i].frames) : i \in DOMAIN held}
             \cup {ToSet(InspectFuture(v).frames) : v \in UNION {t.root : t \in ToSet(world.tasks)}}
             \cup UNION {{ToSet(InspectFuture(f).frames) : f \in Residents(sets[s].value)}
                           : s \in DOMAIN sets})

-----------------------------------------------------------------------------
(* Properties.                                                             *)

(* "A dropped find otherwise leaves a listing that covered less looking
   exactly like a complete one" (census.rs, FutureCensus::refused): a census
   with no error, no refusal and nothing counted short lists every future,
   set and join set its tasks reach, or has it as a frame of a chain it
   lists, however chains alias one another and whichever is scanned first. *)
CompleteUnlessItSaysSo ==
    (phase = "done" /\ errors = {} /\ refused = 0 /\ short = 0) =>
        \A find \in Reached :
            LET v == find[1]
            IN  /\ Kind[v] = "Future" =>
                      \/ Identity(InspectFuture(v)) \in Rows \cup Frames
                      \/ \E other \in Reached :
                            /\ other[1] = v
                            /\ ToSet(InspectFuture(v).frames) \cap other[2] # {}
                /\ Kind[v] = "Set" =>
                      \E i \in DOMAIN sets :
                          /\ sets[i].value = v
                          /\ {c.node : c \in ToSet(sets[i].children)} = Linked(v)
                /\ Kind[v] = "JoinSet" =>
                      \E i \in DOMAIN joinSets :
                          /\ joinSets[i].value = v
                          /\ ToSet(joinSets[i].children) = Linked(v)

(* No future is two rows, whichever pointers lead to it; no row is of memory
   the allocator has taken back, and no child's node lies in any. *)
NoRowTwiceNorFreed ==
    /\ \A i, j \in DOMAIN held : held[i].future = held[j].future => i = j
    /\ \A i, j \in DOMAIN sets : sets[i].value = sets[j].value => i = j
    /\ \A i \in DOMAIN held : ~ TakenBack(Addr[held[i].future])
    /\ \A i \in DOMAIN sets :
          /\ ~ TakenBack(Addr[sets[i].value])
          /\ \A child \in ToSet(sets[i].children) : ~ TakenBack(child.node)

(* A find reached through another names it: the held future or the set child
   at the index reserved before the descent is one whose frames hold the
   find, at every step of the walk. *)
Opened(values) ==
    values \cup UNION {CASE Kind[v] = "Adapter" -> world.next[v]
                         [] Kind[v] \in {"Fanout", "Table"} -> ToSet(world.holds[v])
                         [] OTHER -> {} : v \in values}

Offered(chain) ==
    LET grown[n \in 0 .. Cardinality(Values)] ==
            IF n = 0 THEN {find[1] : find \in Finds(chain, "All")}
            ELSE Opened(grown[n - 1])
    IN  grown[Cardinality(Values)]

HolderHolds(via, v) ==
    \/ via = <<>>
    \/ Len(via) = 1 /\ via[1] \in DOMAIN held
          /\ v \in Offered([frames |-> held[via[1]].frames])
    \/ Len(via) = 2 /\ via[1] \in DOMAIN sets
          /\ via[2] \in DOMAIN sets[via[1]].children
          /\ LET slot == world.nodes[sets[via[1]].children[via[2]].node].slot
             IN  slot # <<>> /\ v \in Offered(InspectFuture(slot[1]))

ViasNameTheHolder ==
    /\ \A i \in DOMAIN held : HolderHolds(held[i].via, held[i].slot)
    /\ \A i \in DOMAIN sets : HolderHolds(sets[i].via, sets[i].value)
    /\ \A i \in DOMAIN joinSets : HolderHolds(joinSets[i].via, joinSets[i].value)
    /\ \A i \in DOMAIN work : HolderHolds(work[i].via, work[i].value)

(* FutureCensus::locate: the last span, sorted, that starts at or before the
   address, when it reaches it. *)
Locate(addr) ==
    {span \in spans :
        /\ addr \in span.lo .. (span.hi - 1)
        /\ \A other \in spans : Before(span, other) => other.lo > addr}

(* A damaged list is never silent.  A child's node is located as that child,
   or an error names the node: two lists may claim one allocation.  A join
   set whose members differ in number from its own count is named by an
   error, and none lists an entry twice. *)
DamageIsNamed ==
    phase = "done" =>
        /\ \A i \in DOMAIN sets : \A c \in DOMAIN sets[i].children :
              LET node == sets[i].children[c].node
              IN  \/ {[set |-> s.set, child |-> s.child] : s \in Locate(node)}
                        = {[set |-> i, child |-> c]}
                  \/ \E error \in errors : node \in error
        /\ \A i \in DOMAIN joinSets :
              /\ \/ Len(joinSets[i].children) = joinSets[i].length
                 \/ \E error \in errors : Addr[joinSets[i].value] \in error
              /\ \A c, d \in DOMAIN joinSets[i].children :
                    joinSets[i].children[c] = joinSets[i].children[d] => c = d

(* The walk ends whatever cycles the links, the awaits and what holds what
   make: every step scans another task, looks into a value for the first
   time, or leaves less to record, and there are only so many of each. *)
WalkMakesHeadway ==
    [][\/ task' > task
       \/ phase' # phase
       \/ visited \subseteq visited' /\ visited' # visited
       \/ visited' = visited /\ Len(work') < Len(work)]_vars

(* span_overlap_errors is documented as "the reports for any two sorted spans
   claiming one byte": every two that do are in one report. *)
EveryOverlapIsReported ==
    phase = "done" =>
        \A a, b \in spans :
            (Before(a, b) /\ a.hi > b.lo) => \E error \in errors : {a.lo, b.lo} \subseteq error
=============================================================================
