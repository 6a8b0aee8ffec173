-------------------------------- MODULE Umem --------------------------------
(***************************************************************************)
(* libumem as hansei's walk of its metadata takes it to be: the slabs, the *)
(* magazines of a CPU, the depot, the threads' own caches and the arenas,  *)
(* while a program allocates and frees, and the core that stops it.  The   *)
(* allocator is outside the repository; its structures and what a free     *)
(* does to them are the ones heap/umem.rs reads and describes.  A core may *)
(* be caught between two stores of one operation, and some word of it may  *)
(* be unreadable or at odds with another.                                  *)
(***************************************************************************)
EXTENDS Integers, Sequences, FiniteSets, SequencesExt

CONSTANTS
    Null, Gone,   \* no magazine; a structure the core does not hold
    CacheList,    \* the caches, in the order of the list at umem_null_cache
    CacheShape,   \* [cache -> its geometry, flags and list of slabs]
    SlabShape,    \* [slab -> its cache, base and number of chunks]
    Magazines,    \* magazines there is memory for
    MagSize,      \* rounds of a full magazine
    Threads,      \* threads with a cache of their own
    ArenaShape,   \* [arena -> the extents that tile what it imported]
    Workloads,    \* the parts of the heap one program works on, the rest idle
    Torn,         \* layers a core may be caught in the middle of
    Faults        \* kinds of damage a core may have besides

ASSUME UmemAssumption ==
    /\ MagSize \in Nat \ {0}
    /\ Torn \subseteq {"slab", "depot", "cpu"}
    /\ Faults \subseteq {"gone", "slab", "depot", "cpu", "thread", "arena", "live"}

VARIABLES
    uses,    \* the caches and arenas this program works on
    mem,     \* the allocator's metadata; once a core is taken, the core's
    held,    \* buffers and extents the program holds
    put,     \* buffers and extents the allocator holds, when the core is taken
    running  \* whether the program still runs, and if not, how the core came

alloc == <<uses, mem, held, put, running>>

Caches == Range(CacheList)
Slabs == DOMAIN SlabShape
Chunks(s) ==
    {SlabShape[s].base + i * CacheShape[SlabShape[s].cache].chunksize :
        i \in 0 .. SlabShape[s].chunks - 1}
SlabsOf(c) == Range(CacheShape[c].slabs)
BuffersOf(c) == UNION {Chunks(s) : s \in SlabsOf(c)}
NoCpu == [loaded |-> Null, rounds |-> -1, ploaded |-> Null, prounds |-> -1]

(* What a CPU, the depot and the threads hold of a cache. *)
RoundsOf(m, mag, n) == {m.slots[mag][i] : i \in 1 .. n}
CpuHolds(m, c) ==
    LET cpu == m.cpu[c]
    IN (IF cpu.rounds > 0 THEN RoundsOf(m, cpu.loaded, cpu.rounds) ELSE {})
       \cup (IF cpu.prounds > 0 THEN RoundsOf(m, cpu.ploaded, cpu.prounds) ELSE {})
DepotHolds(m, c) ==
    UNION {RoundsOf(m, mag, MagSize) : mag \in Range(m.depot[c].list)}
Unused(m) ==
    Magazines \ UNION {{m.cpu[c].loaded, m.cpu[c].ploaded}
                         \cup Range(m.depot[c].list) : c \in Caches}

(* Every buffer and extent in one of the allocator's pockets. *)
Pockets(m) ==
    UNION {Range(m.slab[s].free) : s \in Slabs}
      \cup UNION {CpuHolds(m, c) \cup DepotHolds(m, c) : c \in Caches}
      \cup UNION {Range(m.ptc[t]) : t \in Threads}
      \cup UNION {{e.start : e \in {x \in Range(m.segs[a]) : x.kind = "free"}} :
                    a \in DOMAIN ArenaShape}

(* An allocator that has handed nothing out. *)
Init ==
    /\ uses \in Workloads
    /\ mem = [ready  |-> TRUE,
              linked |-> TRUE,
              cache  |-> CacheShape,
              slab   |-> [s \in Slabs |->
                            [cache |-> SlabShape[s].cache, base |-> SlabShape[s].base,
                             chunks |-> SlabShape[s].chunks, refcnt |-> 0,
                             free |-> SetToSortSeq(Chunks(s), <)]],
              hash   |-> [c \in Caches |-> {}],
              cpu    |-> [c \in Caches |-> NoCpu],
              slots  |-> [g \in Magazines |-> [i \in 1 .. MagSize |-> 0]],
              depot  |-> [c \in Caches |-> [list |-> <<>>, total |-> 0]],
              ptc    |-> [t \in Threads |-> <<>>],
              segs   |-> [a \in DOMAIN ArenaShape |->
                            [i \in DOMAIN ArenaShape[a] |->
                               [start |-> ArenaShape[a][i], end |-> ArenaShape[a][i] + 1,
                                kind |-> "free"]]]]
    /\ held = {} /\ put = {} /\ running = "yes"

----------------------------------------------------------------------------
(* One allocation or free, at the layer it reaches. *)

Running == running = "yes" /\ UNCHANGED <<uses, put>>
Whole == running' = running
(* A core caught inside an operation of this layer: a store is missing. *)
Caught(layer) == layer \in Torn /\ running' = "caught"

HasMagazines(c) == "nomagazine" \notin CacheShape[c].flags
Hashed(c) == "hash" \in CacheShape[c].flags

(* The loaded magazine has a round to give, or a slot to take one. *)
CpuAlloc(c) ==
    /\ Running /\ mem.cpu[c].rounds > 0
    /\ mem' = [mem EXCEPT !.cpu[c].rounds = @ - 1]
    /\ held' = held \cup {mem.slots[mem.cpu[c].loaded][mem.cpu[c].rounds]}
    /\ Whole

CpuFree(c, b) ==
    LET cpu == mem.cpu[c]
    IN /\ Running /\ b \in held \cap BuffersOf(c)
       /\ cpu.rounds \in 0 .. MagSize - 1
       /\ held' = held \ {b}
       /\ \/ mem' = [mem EXCEPT !.slots[cpu.loaded][cpu.rounds + 1] = b,
                                !.cpu[c].rounds = @ + 1] /\ Whole
          \/ mem' = [mem EXCEPT !.cpu[c].rounds = @ + 1] /\ Caught("cpu")

(* The two magazines of a CPU change places: the loaded one is empty and  *)
(* the other is not, or the loaded one is full and the other empty.       *)
Exchange(c) ==
    LET cpu == mem.cpu[c]
    IN /\ Running
       /\ \/ cpu.rounds = 0 /\ cpu.prounds > 0
          \/ cpu.rounds = MagSize /\ cpu.prounds = 0
       /\ \/ /\ mem' = [mem EXCEPT !.cpu[c] =
                          [loaded |-> cpu.ploaded, rounds |-> cpu.prounds,
                           ploaded |-> cpu.loaded, prounds |-> cpu.rounds]]
             /\ Whole
          \/ mem' = [mem EXCEPT !.cpu[c].ploaded = cpu.loaded] /\ Caught("cpu")
       /\ UNCHANGED held

(* Both magazines are empty: a full one comes from the depot. *)
DepotAlloc(c) ==
    LET cpu == mem.cpu[c]
        depot == mem.depot[c]
    IN /\ Running /\ cpu.rounds <= 0 /\ cpu.prounds <= 0 /\ depot.list # <<>>
       /\ \/ /\ mem' = [mem EXCEPT
                  !.depot[c] = [list |-> Tail(@.list), total |-> @.total - 1],
                  !.cpu[c] = [loaded |-> Head(depot.list), rounds |-> MagSize,
                              ploaded |-> cpu.loaded, prounds |-> cpu.rounds]]
             /\ Whole
          \/ mem' = [mem EXCEPT !.depot[c].list = Tail(@)] /\ Caught("depot")
          \/ mem' = [mem EXCEPT !.depot[c] =
                       [list |-> Tail(@.list), total |-> @.total - 1]] /\ Caught("depot")
       /\ UNCHANGED held

(* Neither magazine takes a round: an empty one is loaded, and the one    *)
(* loaded before goes to the depot if it is full.                         *)
DepotFree(c) ==
    LET cpu == mem.cpu[c]
    IN /\ Running /\ HasMagazines(c) /\ held \cap BuffersOf(c) # {}
       /\ cpu.rounds \in {-1, MagSize} /\ cpu.prounds # 0
       /\ \E g \in Unused(mem) :
            LET loaded == [mem EXCEPT !.cpu[c] =
                             [loaded |-> g, rounds |-> 0,
                              ploaded |-> cpu.loaded, prounds |-> cpu.rounds]]
            IN \/ /\ mem' = IF cpu.prounds = MagSize
                            THEN [loaded EXCEPT !.depot[c] =
                                    [list |-> <<cpu.ploaded>> \o @.list, total |-> @.total + 1]]
                            ELSE loaded
                  /\ Whole
               \/ /\ cpu.prounds = MagSize
                  /\ mem' = [mem EXCEPT !.depot[c].list = <<cpu.ploaded>> \o @]
                  /\ Caught("depot")
       /\ UNCHANGED held

(* No magazine serves: the slab's freelist, its count and the hash table. *)
SlabAlloc(c) ==
    /\ Running /\ mem.cpu[c].rounds <= 0 /\ mem.cpu[c].prounds <= 0
    /\ mem.depot[c].list = <<>>
    /\ \E s \in SlabsOf(c) :
         /\ mem.slab[s].free # <<>>
         /\ LET b == Head(mem.slab[s].free)
                popped == [mem EXCEPT !.slab[s].free = Tail(@)]
                counted == [popped EXCEPT !.slab[s].refcnt = @ + 1]
            IN \/ /\ mem' = IF Hashed(c) THEN [counted EXCEPT !.hash[c] = @ \cup {b}]
                                         ELSE counted
                  /\ held' = held \cup {b} /\ Whole
               \/ mem' \in {popped} \cup (IF Hashed(c) THEN {counted} ELSE {})
                  /\ UNCHANGED held /\ Caught("slab")

SlabFree(c, b) ==
    /\ Running /\ b \in held \cap BuffersOf(c)
    /\ HasMagazines(c) => Unused(mem) = {} /\ mem.cpu[c].rounds = MagSize
                            /\ mem.cpu[c].prounds = MagSize
    /\ held' = held \ {b}
    /\ \E s \in SlabsOf(c) :
         /\ b \in Chunks(s)
         /\ LET pushed == [mem EXCEPT !.slab[s].free = <<b>> \o @,
                                      !.hash[c] = @ \ {b}]
            IN \/ mem' = [pushed EXCEPT !.slab[s].refcnt = @ - 1] /\ Whole
               \/ mem' = pushed /\ Caught("slab")

(* A thread's own list of buffers, chained through their first words. *)
PtcAlloc(c, t) ==
    /\ Running /\ "ptc" \in CacheShape[c].flags /\ mem.ptc[t] # <<>>
    /\ mem' = [mem EXCEPT !.ptc[t] = Tail(@)]
    /\ held' = held \cup {Head(mem.ptc[t])}
    /\ Whole

PtcFree(c, t, b) ==
    /\ Running /\ "ptc" \in CacheShape[c].flags /\ b \in held \cap BuffersOf(c)
    /\ mem' = [mem EXCEPT !.ptc[t] = <<b>> \o @]
    /\ held' = held \ {b}
    /\ Whole

(* An extent of an arena is handed out, or taken back. *)
ArenaSwap(a, i) ==
    /\ Running
    /\ LET e == mem.segs[a][i]
       IN IF e.kind = "free"
          THEN mem' = [mem EXCEPT !.segs[a][i].kind = "alloc"] /\ held' = held \cup {e.start}
          ELSE mem' = [mem EXCEPT !.segs[a][i].kind = "free"] /\ held' = held \ {e.start}
    /\ Whole

Allocator ==
    \/ \E c \in Caches \cap uses :
         \/ CpuAlloc(c) \/ Exchange(c) \/ DepotAlloc(c) \/ DepotFree(c) \/ SlabAlloc(c)
         \/ \E b \in BuffersOf(c) : CpuFree(c, b) \/ SlabFree(c, b)
         \/ \E t \in Threads : PtcAlloc(c, t) \/ \E b \in BuffersOf(c) : PtcFree(c, t, b)
    \/ \E a \in DOMAIN ArenaShape \cap uses : \E i \in DOMAIN ArenaShape[a] : ArenaSwap(a, i)

----------------------------------------------------------------------------
(* Damage: a structure the core does not hold, or one reading of the      *)
(* allocator's state put at odds with another.                            *)

(* Where the program has been: the rest of the heap is as it began. *)
InUse == [caches |-> Caches \cap uses,
          slabs  |-> {s \in Slabs : SlabShape[s].cache \in uses},
          mags   |-> Magazines \ Unused(mem),
          arenas |-> DOMAIN ArenaShape \cap uses]

Unreadable(m) ==
    {[m EXCEPT !.ready = FALSE], [m EXCEPT !.linked = FALSE]}
      \cup UNION {{[m EXCEPT !.cache[c].bufsize = 0], [m EXCEPT !.hash[c] = Gone],
                   [m EXCEPT !.cpu[c] = Gone], [m EXCEPT !.depot[c] = Gone]} : c \in InUse.caches}
      \cup {[m EXCEPT !.slab[s] = Gone] : s \in InUse.slabs}
      \cup {[m EXCEPT !.slots[g] = Gone] : g \in InUse.mags}
      \cup {[m EXCEPT !.ptc[t] = Gone] : t \in Threads}
      \cup {[m EXCEPT !.segs[a] = Gone] : a \in InUse.arenas}

(* A slab at odds with itself: its count, a link of its freelist (into     *)
(* nothing, between two chunks, round again, or on to a chunk that is not  *)
(* free), its owner or its base.                                           *)
OddSlab(m, s) ==
    LET free == m.slab[s].free
    IN {[m EXCEPT !.slab[s].refcnt = @ + 1],
        [m EXCEPT !.slab[s].free = Append(@, Gone)],
        [m EXCEPT !.slab[s].free = Append(@, m.slab[s].base + 1)],
        [m EXCEPT !.slab[s].free = free \o free]}
       \cup {[m EXCEPT !.slab[s].free = Append(@, b)] : b \in Chunks(s) \ Range(free)}
       \cup {[m EXCEPT !.slab[s].cache = c] : c \in Caches \ {SlabShape[s].cache}}
       \cup {[m EXCEPT !.slab[s].base = SlabShape[r].base - 1] : r \in Slabs \ {s}}

(* A full list that runs into its own head again, or is miscounted. *)
OddDepot(m, c) ==
    {[m EXCEPT !.depot[c].total = @ + 1],
     [m EXCEPT !.depot[c].list = @ \o @]}

(* A CPU whose count, magazine or last round cannot be right: a round     *)
(* that is null, no buffer's base, another cache's, or free twice over.   *)
(* One that names a held buffer of the same cache is OddLive's.           *)
OddCpu(m, c) ==
    LET cpu == m.cpu[c]
        odd == {0} \cup {b + 1 : b \in BuffersOf(c)}
                 \cup UNION {BuffersOf(d) : d \in Caches \ {c}}
                 \cup Pockets(m)
    IN IF cpu.rounds <= 0 THEN {}
       ELSE {[m EXCEPT !.cpu[c].rounds = MagSize + 1], [m EXCEPT !.cpu[c].loaded = Null]}
              \cup {[m EXCEPT !.slots[cpu.loaded][cpu.rounds] = b] :
                      b \in odd \ {m.slots[cpu.loaded][cpu.rounds]}}

(* A thread's list that leads nowhere, or on to a buffer of any cache     *)
(* that the program does not hold; one it holds is OddLive's.             *)
OddThread(m, t) ==
    {[m EXCEPT !.ptc[t] = Append(@, b)] :
        b \in ({Gone} \cup UNION {BuffersOf(c) : c \in Caches}) \ held}

OddArena(m, a) ==
    LET last == Len(m.segs[a])
    IN {[m EXCEPT !.segs[a][last].start = @ - Len(ArenaShape[a])],
        [m EXCEPT !.segs[a][last].end = @ + 1],
        [m EXCEPT !.segs[a] = <<[start |-> 0, end |-> 0, kind |-> "rotor"]>> \o @]}

(* Damage that reads as sound: a link or a round overwritten by a held    *)
(* buffer of the very cache it belongs to, every count left right.  The   *)
(* walk takes it for a free buffer, as it must.                           *)
OddLive(m) ==
    UNION {LET cpu == m.cpu[c]
               live == held \cap BuffersOf(c)
           IN (IF cpu.rounds <= 0 THEN {}
               ELSE {[m EXCEPT !.slots[cpu.loaded][cpu.rounds] = b] : b \in live})
              \cup (IF "ptc" \notin CacheShape[c].flags THEN {}
                    ELSE {[m EXCEPT !.ptc[t] = Append(@, b)] : t \in Threads, b \in live})
              \cup UNION {{[m EXCEPT !.slab[s].free[Len(m.slab[s].free)] = b] : b \in live \cap Chunks(s)} :
                            s \in {r \in SlabsOf(c) : m.slab[r].free # <<>>}} :
             c \in InUse.caches}

Damaged(m) ==
    UNION {IF "gone" \in Faults THEN Unreadable(m) ELSE {},
           UNION {OddSlab(m, s) : s \in IF "slab" \in Faults THEN InUse.slabs ELSE {}},
           UNION {OddDepot(m, c) : c \in IF "depot" \in Faults THEN InUse.caches ELSE {}},
           UNION {OddCpu(m, c) : c \in IF "cpu" \in Faults THEN InUse.caches ELSE {}},
           UNION {OddThread(m, t) : t \in IF "thread" \in Faults THEN Threads ELSE {}},
           UNION {OddArena(m, a) : a \in IF "arena" \in Faults THEN InUse.arenas ELSE {}},
           IF "live" \in Faults THEN OddLive(m) ELSE {}}

(* The program stops and its core is read: one tear or one fault at most. *)
Core ==
    /\ running \in {"yes", "caught"}
    /\ running' = "no"
    /\ mem' \in {mem} \cup IF running = "yes" THEN Damaged(mem) ELSE {}
    /\ put' = Pockets(mem)
    /\ UNCHANGED <<uses, held>>

=============================================================================
