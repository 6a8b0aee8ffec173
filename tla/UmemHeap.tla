------------------------------ MODULE UmemHeap ------------------------------
(***************************************************************************)
(* The walk of libumem's metadata in a core, and the index it builds: the  *)
(* caches with their slabs and magazines, the slabs that overlap, the      *)
(* threads' own caches, the fold of the parked buffers, the arenas, and    *)
(* the verdict the index gives an address (heap/umem.rs).  The allocator   *)
(* and the core are Umem's.                                                *)
(***************************************************************************)
EXTENDS Umem, Functions

VARIABLES
    phase,            \* where run() is, or "none" if there is no index
    at,               \* the cache walk_caches has come to
    caches,           \* the caches believed, with their counts
    slabs,            \* their slabs: once sorted, by base and disjoint
    parked,           \* <<cache, buffer>> the layers below the slabs hold
    parked_declined,  \* caches whose parked set is not believed
    segs,             \* the extents of the arenas believed
    stats             \* what was declined, and which layers were walked

index == <<caches, slabs, parked, parked_declined, segs, stats>>
vars == <<alloc, phase, at, index>>

NoStats == [caches_declined |-> 0, slabs_declined |-> 0, overlaps |-> 0,
            caches_parked_declined |-> 0, ptc_walked |-> FALSE,
            oversize_walked |-> FALSE]

----------------------------------------------------------------------------
(* Slabs. *)

End(slab) == slab.base + slab.chunks * slab.chunksize
BaseOf(slab, addr) ==
    slab.base + ((addr - slab.base) \div slab.chunksize) * slab.chunksize

(* The slab holding an address: the last that starts at or before it, if  *)
(* it reaches that far.  0 stands for none.                               *)
LastFrom(ranges, addr) ==
    LET below == {i \in DOMAIN ranges : ranges[i].base <= addr}
    IN IF below = {} THEN 0
       ELSE CHOOSE i \in below : \A j \in below : ranges[j].base <= ranges[i].base
SlabIndex(of, addr) ==
    LET i == LastFrom(of, addr)
    IN IF i # 0 /\ addr < End(of[i]) THEN i ELSE 0

(* A slip: the freelist is not held against the count. *)
MutSlabSound(r, c) ==
    /\ r.cache = c
    /\ r.chunks # 0 /\ r.refcnt <= r.chunks
    /\ r.chunks * mem.cache[c].chunksize <= mem.cache[c].slabsize
    /\ IsInjective(r.free)
    /\ Range(r.free) \subseteq {r.base + n * mem.cache[c].chunksize : n \in 0 .. r.chunks - 1}

(* One slab: its freelist is of its own chunks, none twice, and as long   *)
(* as its count of allocated chunks leaves.                               *)
SlabSound(r, c) ==
    /\ r.cache = c
    /\ r.chunks # 0 /\ r.refcnt <= r.chunks
    /\ r.chunks * mem.cache[c].chunksize <= mem.cache[c].slabsize
    /\ IsInjective(r.free)
    /\ Range(r.free) \subseteq {r.base + n * mem.cache[c].chunksize : n \in 0 .. r.chunks - 1}
    /\ Len(r.free) = r.chunks - r.refcnt

ReadSlab(s, c, i) ==
    LET r == mem.slab[s]
    IN [base |-> r.base, chunksize |-> mem.cache[c].chunksize, chunks |-> r.chunks,
        cache |-> i, free |-> Range(r.free), parked |-> {}]

(* A cache's slabs, in list order, as far as the list can be read, and of *)
(* them the ones that are sound.                                          *)
WalkedSlabs(c) ==
    LET list == mem.cache[c].slabs
        broken == {n \in DOMAIN list : mem.slab[list[n]] = Gone}
    IN IF broken = {} THEN list
       ELSE SubSeq(list, 1, (CHOOSE n \in broken : \A k \in broken : n <= k) - 1)
SoundSlabs(c) == SelectSeq(WalkedSlabs(c), LAMBDA s : SlabSound(mem.slab[s], c))
ReadSlabs(c, i) ==
    LET sound == SoundSlabs(c) IN [n \in DOMAIN sound |-> ReadSlab(sound[n], c, i)]

FreedIn(of) == FoldLeft(LAMBDA n, s : n + Cardinality(s.free), 0, of)
LiveIn(of) == FoldLeft(LAMBDA n, s : n + s.chunks - Cardinality(s.free), 0, of)
OfCache(i, of) == SelectSeq(of, LAMBDA s : s.cache = i)

(* The hash table's entries are chunks of this cache's slabs, as many as  *)
(* the slabs count allocated.                                             *)
HashAgrees(c, of) ==
    /\ mem.hash[c] # Gone
    /\ Cardinality(mem.hash[c]) = LiveIn(of)
    /\ \A b \in mem.hash[c] :
         LET i == SlabIndex(of, b) IN i # 0 /\ BaseOf(of[i], b) = b

(* The depot's full list, up to where it comes back to its head. *)
DepotList(c) ==
    LET list == mem.depot[c].list
        again == {i \in 2 .. Len(list) : list[i] = list[1]}
    IN IF again = {} THEN list
       ELSE SubSeq(list, 1, (CHOOSE i \in again : \A j \in again : i <= j) - 1)

(* A slip: a CPU's magazine taken to be full, as the depot's are. *)
MutLoads(c) ==
    LET cpu == mem.cpu[c]
        mags == DepotList(c) \o SelectSeq(<<cpu.loaded, cpu.ploaded>>, LAMBDA g : g # Null)
    IN [i \in DOMAIN mags |-> [mag |-> mags[i], rounds |-> MagSize]]

(* The magazines a cache's depot and CPU hold, each with its rounds. *)
Loads(c) ==
    LET cpu == mem.cpu[c]
        depot == DepotList(c)
    IN [i \in DOMAIN depot |-> [mag |-> depot[i], rounds |-> MagSize]]
       \o SelectSeq(<<[mag |-> cpu.loaded, rounds |-> cpu.rounds],
                      [mag |-> cpu.ploaded, rounds |-> cpu.prounds]>>,
                    LAMBDA l : l.rounds > 0)

(* The buffers in them, or Gone where a count, a magazine or a round      *)
(* cannot be right.                                                       *)
ReadRounds(load) ==
    IF load.rounds > MagSize \/ load.mag = Null THEN Gone
    ELSE IF mem.slots[load.mag] = Gone THEN Gone
    ELSE LET rounds == SubSeq(mem.slots[load.mag], 1, load.rounds)
         IN IF 0 \in Range(rounds) THEN Gone ELSE rounds

WalkMagazines(c, live) ==
    IF mem.cpu[c] = Gone THEN Gone
    ELSE IF ~HasMagazines(c) THEN <<>>
    ELSE IF mem.depot[c] = Gone THEN Gone
    ELSE LET read == [i \in DOMAIN Loads(c) |-> ReadRounds(Loads(c)[i])]
             found == FlattenSeq(read)
         IN IF \/ Len(DepotList(c)) # mem.depot[c].total
               \/ Gone \in Range(read)
               \/ Len(found) > live
            THEN Gone ELSE found

----------------------------------------------------------------------------
(* run(), one part after another. *)

(* The core is opened: nothing is walked of an allocator not yet ready. *)
Attach ==
    /\ Core
    /\ phase' = IF mem'.ready THEN "caches" ELSE "none"
    /\ UNCHANGED <<at, index>>

(* A cache declined whole: its slabs are in no verdict.  Those declined   *)
(* one by one before it stay counted.                                     *)
DeclineCache(unsound) ==
    /\ stats' = [stats EXCEPT !.caches_declined = @ + 1, !.slabs_declined = @ + unsound]
    /\ UNCHANGED <<caches, slabs, parked, parked_declined>>

(* One cache: its geometry, its slabs, its hash table, then its depot and *)
(* CPUs, which decline alone.                                             *)
WalkCache(c) ==
    LET i == Len(caches) + 1
        walked == WalkedSlabs(c)
        read == ReadSlabs(c, i)
        unsound == Len(walked) - Len(read)
        found == WalkMagazines(c, LiveIn(read))
        cache == [addr |-> c, live |-> LiveIn(read), freed |-> FreedIn(read),
                  parked |-> 0, parked_walked |-> found # Gone]
    IN IF mem.cache[c].bufsize = 0 THEN DeclineCache(0)
       ELSE IF walked # mem.cache[c].slabs \/ (Hashed(c) /\ ~HashAgrees(c, read))
       THEN DeclineCache(unsound)
       ELSE /\ caches' = Append(caches, cache)
            /\ slabs' = slabs \o read
            /\ parked' = parked \o IF found = Gone THEN <<>>
                                    ELSE [n \in DOMAIN found |-> <<i, found[n]>>]
            /\ parked_declined' = parked_declined \cup IF found = Gone THEN {i} ELSE {}
            /\ stats' = [stats EXCEPT !.slabs_declined = @ + unsound,
                             !.caches_parked_declined = @ + IF found = Gone THEN 1 ELSE 0]

(* The list of caches, each of which names the one before it; a list that *)
(* does not, or that holds no cache to believe, leaves no index.          *)
WalkCaches ==
    /\ phase = "caches"
    /\ IF at > Len(CacheList)
       THEN phase' = (IF caches = <<>> THEN "none" ELSE "overlaps") /\ UNCHANGED <<at, index>>
       ELSE IF at = Len(CacheList) /\ ~mem.linked
       THEN phase' = "none" /\ UNCHANGED <<at, index>>
       ELSE WalkCache(CacheList[at]) /\ at' = at + 1 /\ UNCHANGED <<phase, segs>>
    /\ UNCHANGED alloc

(* The slabs in order of their bases, less any that starts before the end *)
(* of one kept; the counts are then made again.                           *)
Disjoint(of) ==
    FoldLeft(LAMBDA kept, s : IF kept # <<>> /\ s.base < End(Last(kept)) THEN kept
                              ELSE Append(kept, s), <<>>, of)

(* A slip: the counts are left as they were before slabs were dropped. *)
MutRecount(of) == caches

Recount(of) ==
    [i \in DOMAIN caches |-> [caches[i] EXCEPT !.live = LiveIn(OfCache(i, of)),
                                              !.freed = FreedIn(OfCache(i, of))]]

DropOverlaps ==
    /\ phase = "overlaps"
    /\ LET sorted == SortSeq(slabs, LAMBDA s, r : s.base < r.base)
           kept == Disjoint(sorted)
       IN /\ slabs' = kept
          /\ stats' = [stats EXCEPT !.overlaps = Len(sorted) - Len(kept)]
          /\ caches' = IF Len(kept) = Len(sorted) THEN caches ELSE Recount(kept)
    /\ phase' = "ptc"
    /\ UNCHANGED <<alloc, at, parked, parked_declined, segs>>

(* The threads' own caches: each list is of one cache's buffers, and of a *)
(* cache that is kept per thread.  One bad list drops the whole layer.    *)
CacheAt(addr) == LET i == SlabIndex(slabs, addr) IN IF i = 0 THEN 0 ELSE slabs[i].cache
PtcSound(t) ==
    /\ mem.ptc[t] # Gone
    /\ Gone \notin Range(mem.ptc[t])
    /\ \A b \in Range(mem.ptc[t]) :
         /\ CacheAt(b) # 0 /\ CacheAt(b) = CacheAt(Head(mem.ptc[t]))
         /\ "ptc" \in CacheShape[caches[CacheAt(b)].addr].flags

PtcLists ==
    LET threads == SetToSeq(Threads)
    IN FlattenSeq([n \in DOMAIN threads |-> mem.ptc[threads[n]]])

(* A slip: the layer is marked walked before its lists are read. *)
MutWalkPtc ==
    /\ phase = "ptc"
    /\ stats' = [stats EXCEPT !.ptc_walked = TRUE]
    /\ IF \A t \in Threads : PtcSound(t)
       THEN LET lists == PtcLists
            IN parked' = parked \o [n \in DOMAIN lists |-> <<CacheAt(lists[n]), lists[n]>>]
       ELSE UNCHANGED parked
    /\ phase' = "fold"
    /\ UNCHANGED <<alloc, at, caches, slabs, parked_declined, segs>>

WalkPtc ==
    /\ phase = "ptc"
    /\ IF \A t \in Threads : PtcSound(t)
       THEN LET lists == PtcLists
            IN /\ parked' = parked \o [n \in DOMAIN lists |-> <<CacheAt(lists[n]), lists[n]>>]
               /\ stats' = [stats EXCEPT !.ptc_walked = TRUE]
       ELSE UNCHANGED <<parked, stats>>
    /\ phase' = "fold"
    /\ UNCHANGED <<alloc, at, caches, slabs, parked_declined, segs>>

(* A cache's parked buffers are believed whole or not at all: each is a   *)
(* buffer of that cache, allocated as far as its slab knows, and in one   *)
(* pocket only.                                                           *)
ParkedOf(i) == SelectSeq(parked, LAMBDA p : p[1] = i)
StrayParked(i) ==
    \/ ~IsInjective(ParkedOf(i))
    \/ \E p \in Range(ParkedOf(i)) :
         LET s == SlabIndex(slabs, p[2])
         IN \/ CacheAt(p[2]) # i
            \/ BaseOf(slabs[s], p[2]) # p[2]
            \/ p[2] \in slabs[s].free

FoldParked ==
    /\ phase = "fold"
    /\ LET strays == {i \in DOMAIN caches \ parked_declined : StrayParked(i)}
           sound == DOMAIN caches \ (parked_declined \cup strays)
           Kept(i) == IF i \in sound THEN {p[2] : p \in Range(ParkedOf(i))} ELSE {}
       IN /\ parked_declined' = parked_declined \cup strays
          /\ stats' = [stats EXCEPT !.caches_parked_declined = @ + Cardinality(strays)]
          /\ caches' = [i \in DOMAIN caches |->
                          [caches[i] EXCEPT !.parked = Cardinality(Kept(i)),
                                            !.live = @ - Cardinality(Kept(i)),
                                            !.parked_walked = @ /\ i \notin strays]]
          /\ slabs' = [s \in DOMAIN slabs |->
                         [slabs[s] EXCEPT !.parked =
                            {b \in Kept(slabs[s].cache) : SlabIndex(slabs, b) = s}]]
          /\ parked' = SelectSeq(parked, LAMBDA p : p[1] \in sound)
    /\ phase' = "arenas"
    /\ UNCHANGED <<alloc, at, segs>>

(* An arena's extents tile what it imported in the order of their         *)
(* addresses; one that does not drops the arena.                          *)
SegSound(a, list, i) ==
    LET before == IF i = 1 THEN ArenaShape[a][1] ELSE list[i - 1].end
    IN list[i].start < list[i].end /\ list[i].start >= before
         /\ list[i].end <= Last(ArenaShape[a]) + 1

WalkArenas ==
    /\ phase = "arenas"
    /\ LET List(a) == SelectSeq(mem.segs[a], LAMBDA e : e.kind # "rotor")
           sound == {a \in DOMAIN ArenaShape :
                       mem.segs[a] # Gone /\ \A i \in DOMAIN List(a) : SegSound(a, List(a), i)}
       IN /\ segs' = UNION {Range(List(a)) : a \in sound}
          /\ stats' = [stats EXCEPT !.oversize_walked = (sound = DOMAIN ArenaShape)]
    /\ phase' = "done"
    /\ UNCHANGED <<alloc, at, caches, slabs, parked, parked_declined>>

----------------------------------------------------------------------------
(* The verdict on an address: the slab's first and alone, in its slack    *)
(* too; only where no slab covers it, the arena's.                        *)
LocateInArena(addr) ==
    LET covering == {e \in segs : e.start <= addr /\ addr < e.end}
    IN IF covering = {} THEN "unknown"
       ELSE IF (CHOOSE e \in covering : TRUE).kind = "alloc" THEN "live" ELSE "freed"

Locate(addr) ==
    LET s == SlabIndex(slabs, addr)
    IN IF s = 0 THEN LocateInArena(addr)
       ELSE LET buf == BaseOf(slabs[s], addr)
            IN IF addr >= buf + CacheShape[caches[slabs[s].cache].addr].bufsize THEN "unknown"
               ELSE IF buf \in slabs[s].free \cup slabs[s].parked THEN "freed" ELSE "live"

Incomplete ==
    \/ stats.caches_declined > 0 \/ stats.slabs_declined > 0
    \/ stats.overlaps > 0 \/ stats.caches_parked_declined > 0

----------------------------------------------------------------------------
WalkInit ==
    /\ Init
    /\ phase = "target" /\ at = 1
    /\ caches = <<>> /\ slabs = <<>> /\ parked = <<>> /\ parked_declined = {}
    /\ segs = {} /\ stats = NoStats

Next ==
    \/ Allocator /\ UNCHANGED <<phase, at, index>>
    \/ Attach \/ WalkCaches \/ DropOverlaps \/ WalkPtc \/ FoldParked \/ WalkArenas

Spec == WalkInit /\ [][Next]_vars

----------------------------------------------------------------------------
(* Properties. *)

(* The walk errs toward live: no address of a buffer or extent the        *)
(* program holds reads freed, whichever layer of Torn the core was caught *)
(* in and whatever of it is missing or at odds (the module's promise,     *)
(* "never toward wrongly Freed").  A core caught in the exchange of a     *)
(* CPU's magazines does not keep it.                                      *)
NeverWronglyFreed == phase = "done" => \A b \in held : Locate(b) # "freed"

(* A walk that covered less says so: where nothing was declined and every *)
(* layer was walked, what the program holds reads live, and what is in    *)
(* any pocket of the allocator reads freed (Stats).                       *)
MissingIsSaid ==
    phase = "done" /\ ~Incomplete /\ stats.ptc_walked /\ stats.oversize_walked =>
        /\ \A b \in held : Locate(b) = "live"
        /\ \A b \in put : Locate(b) = "freed"

(* The self-check finds nothing to report of the slabs and the parked     *)
(* buffers, whatever the core: the slabs are disjoint and in order, each  *)
(* cache's counts are those of the slabs kept, and every parked buffer is *)
(* marked on the one slab that has it and is not on its freelist          *)
(* (violations, parked_violations).                                       *)
SelfCheckIsClean ==
    phase = "done" =>
        /\ \A i \in 1 .. Len(slabs) - 1 : End(slabs[i]) <= slabs[i + 1].base
        /\ \A i \in DOMAIN caches :
             /\ caches[i].live + caches[i].parked = LiveIn(OfCache(i, slabs))
             /\ caches[i].freed = FreedIn(OfCache(i, slabs))
             /\ caches[i].parked = Len(ParkedOf(i))
        /\ IsInjective(parked)
        /\ \A p \in Range(parked) :
             LET s == SlabIndex(slabs, p[2])
             IN s # 0 /\ p[2] \in slabs[s].parked \ slabs[s].free

(* incomplete() is true whenever anything was declined, as its doc says.  *)
(* It is not: it looks at no layer that has a flag instead of a count.    *)
IncompleteSaysSo ==
    phase = "done" /\ ~Incomplete => stats.ptc_walked /\ stats.oversize_walked

=============================================================================
