----------------------------- MODULE WakerScan ------------------------------
(***************************************************************************)
(* What the waker sweep of hansei-runtime/src/tokio/wakers.rs promises,    *)
(* with nothing of how it looks: of each target it sweeps it lists, once   *)
(* and in slot order, every aligned word of readable memory that holds a   *)
(* known vtable's address and whose companion word reads, and it admits    *)
(* the ones that wake something listed from memory the program still owns. *)
(* A target and the snapshot of a recording of its sweep answer alike.     *)
(***************************************************************************)
EXTENDS CoreFile, SequencesExt

CONSTANT Unswept

VARIABLES
    world,      \* the target: its core and the session's account of it
    hits        \* per target, Unswept or the hits listed

WordAt(addr) == {Value(word) : word \in Pslice(world.core, addr, WORD)}

Within(addr, spans) == \E span \in spans : addr \in span.lo .. (span.hi - 1)

ReadableWord(addr) ==
    \E m \in BuildMappings(world.core) :
        /\ "r" \in m.flags
        /\ addr \in m.lo .. (m.hi - WORD)
        /\ WordAt(addr) # {}

(* The addresses any pattern could be at. *)
Addresses == UNION {m.lo .. (m.hi - 1) : m \in BuildMappings(world.core)}

PairAt(layout, slot) ==
    /\ (slot + layout.vtable) % WORD = 0
    /\ ReadableWord(slot + layout.vtable)
    /\ WordAt(slot + layout.vtable) \subseteq (world.taskVtables \cup world.setVtables)
    /\ WordAt(slot + layout.data) # {}

Wakes(layout, slot) ==
    IF WordAt(slot + layout.vtable) \subseteq world.taskVtables
    THEN \E header \in world.tasks : WordAt(slot + layout.data) = {header}
    ELSE \E node \in world.nodes : WordAt(slot + layout.data) = {node.lo}

(* Memory the program still owns: a task's allocation or a find, else what
   the allocator says of it, else the data segment, and anonymous memory only
   where there is no allocator to ask. *)
Owned(slot) ==
    \/ Within(slot, world.extents \cup world.nodes \cup world.held)
    \/ \E heap \in world.heap : Within(slot, heap.live)
    \/ /\ \A heap \in world.heap : ~ Within(slot, heap.freed)
       /\ ~ Within(slot, world.stacks)
       /\ \/ world.heap = {}
          \/ \E m \in BuildMappings(world.core) :
                /\ slot \in m.lo .. (m.hi - 1)
                /\ {"r", "w"} \subseteq m.flags
                /\ "anon" \notin m.flags

(* Without a RawWaker layout or a copy of the task vtable no sweep runs. *)
Expected ==
    UNION {{[slot |-> slot, admitted |-> Wakes(layout, slot) /\ Owned(slot)]
              : slot \in {s \in Addresses : PairAt(layout, s)}}
             : layout \in IF world.taskVtables = {} THEN {} ELSE world.layout}

-----------------------------------------------------------------------------

Init == hits = [target \in {"core", "snapshot"} |-> Unswept]

Sweep(target) ==
    /\ hits[target] = Unswept /\ hits'[target] # Unswept
    /\ world' = world
    /\ \A other \in DOMAIN hits \ {target} : hits'[other] = hits[other]
    /\ LET listed == hits'[target]
       IN  /\ ToSet(listed) = Expected
           /\ \A i, j \in DOMAIN listed : i < j => listed[i].slot < listed[j].slot

Next == \E target \in {"core", "snapshot"} : Sweep(target)

Spec == Init /\ [][Next]_<<world, hits>>
=============================================================================
