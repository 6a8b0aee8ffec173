----------------------------- MODULE WakerSweep -----------------------------
(***************************************************************************)
(* The waker sweep of hansei-runtime/src/tokio/wakers.rs: the readable     *)
(* memory of a target cut into overlapping chunks, scoped workers that     *)
(* claim chunks from one counter and search each for the vtables' words,   *)
(* and the joined matches sorted, deduplicated, paired with their          *)
(* companion words, named and classified.  The target is a core read       *)
(* through a recorder, and then the snapshot of that recording: the two    *)
(* kinds of target a sweep tells apart.                                    *)
(*                                                                         *)
(* A world is [core, tasks, extents, nodes, held, heap, stacks, layout,    *)
(* taskVtables, setVtables, setFns]: the core, what the session lists and  *)
(* the memory it accounts for as spans [lo, hi, id], and the RawWaker      *)
(* layout and vtable functions the bundle and the symtab give.             *)
(***************************************************************************)
EXTENDS CoreFile, Recorder

CONSTANTS
    Worlds,         \* the targets
    Workers,        \* the sweep's threads, 1 .. n
    CHUNK, OVERLAP, \* half words of a chunk, and shared with the next one
    PriorReads,     \* ranges <<addr, len>> an analysis may read beforehand
    MaxPrior,       \* how many of them it reads
    Unswept

ASSUME ChunkAssumption ==
    /\ CHUNK \in Nat \ {0}
    /\ CHUNK % WORD = 0
    /\ OVERLAP \in Nat

VARIABLES
    world,
    target,     \* what is swept: "core" or "snapshot"
    log,        \* the recorder's read log
    memory,     \* the snapshot's segments, once taken
    phase,      \* "idle", "scan" or "swept"
    chunks,     \* the chunks to scan
    vtables,    \* the patterns, as the set of task and of set vtables
    next,       \* the counter chunks are claimed from
    lent,       \* per worker: the chunk in hand, {} before a claim, Ended
    found,      \* per worker: its matches <<slot, vtable>>
    hits        \* per target: Unswept or the classified hits

vars == <<world, target, log, memory, phase, chunks, vtables, next, lent,
          found, hits>>

Ended == {[addr |-> 0, bytes |-> <<>>]}    \* no chunk is empty

-----------------------------------------------------------------------------
(* The target in hand.                                                     *)

ReadBytes(addr, len) ==
    IF target = "core"
    THEN Pslice(world.core, addr, len)
    ELSE SnapshotRead(memory, addr, len)

(* A read that was served, as the recorder logs it. *)
Lent(addr, len) ==
    [addr |-> addr, bytes |-> CHOOSE bytes \in ReadBytes(addr, len) : TRUE]

ReadWord(addr) == {Value(word) : word \in ReadBytes(addr, WORD)}

Mappings == BuildMappings(world.core)

(* A read through the recorder is logged; a snapshot's is not. *)
Recorded(segments) ==
    log' = IF target = "core" THEN LoggedAll(log, segments) ELSE log

(* Context::readable_runs: a core's runs are hunted page by page in each
   readable mapping kept, a snapshot's are its captured runs clipped to it. *)
Runs(keep) ==
    LET kept == {m \in keep : "r" \in m.flags}
        clip(run, m) == [lo |-> Max({run.lo, m.lo}), hi |-> Min({run.hi, m.hi})]
    IN  IF target = "core"
        THEN UNION {ReadableRuns(world.core, m) : m \in kept}
        ELSE {run \in {clip(r, m) : r \in CapturedRuns(memory), m \in kept} :
                run.lo < run.hi}

Ascending(numbers) ==
    [i \in 1 .. Cardinality(numbers) |->
        CHOOSE n \in numbers : Cardinality({m \in numbers : m <= n}) = i]

ByStart(spans) ==
    LET starts == Ascending({span.lo : span \in spans})
    IN  [i \in DOMAIN starts |-> CHOOSE span \in spans : span.lo = starts[i]]

-----------------------------------------------------------------------------
(* The search.                                                             *)

(* aligned_matches: every aligned match of a pattern, the search resumed one
   unit past each match so that a word found off its alignment cannot hide
   an aligned one under it. *)
MutAlignedMatches(patterns, bytes) ==
    LET matches(pos) == {off \in pos .. (Len(bytes) - WORD) :
                            Value(SubSeq(bytes, off + 1, off + WORD)) \in patterns}
        from[pos \in 0 .. Len(bytes)] ==
            IF matches(pos) = {}
            THEN {}
            ELSE {at \in {Min(matches(pos))} : at % WORD = 0}
                    \cup from[Min(matches(pos)) + WORD]
    IN  from[0]

AlignedMatches(patterns, bytes) ==
    LET matches(pos) == {off \in pos .. (Len(bytes) - WORD) :
                            Value(SubSeq(bytes, off + 1, off + WORD)) \in patterns}
        from[pos \in 0 .. Len(bytes)] ==
            IF matches(pos) = {}
            THEN {}
            ELSE {at \in {Min(matches(pos))} : at % WORD = 0}
                    \cup from[Min(matches(pos)) + 1]
    IN  from[0]

(* set_waker_vtables: in the file-backed mappings that hold no code, every
   record whose first word is one of futures-util's clone functions and whose
   other three are its wake, wake_by_ref and drop. *)
DataRuns ==
    IF world.setFns[1] = {} THEN {}
    ELSE Runs({m \in Mappings : "x" \notin m.flags /\ "anon" \notin m.flags})

Candidates(run) ==
    UNION {{run.lo + off : off \in AlignedMatches(world.setFns[1], bytes)}
             : bytes \in ReadBytes(run.lo, run.hi - run.lo)}

Agrees(at, i) == ReadWord(at + (i - 1) * WORD) \cap world.setFns[i] # {}

SetWakerVtables ==
    UNION {{at \in Candidates(run) : \A i \in 2 .. 4 : Agrees(at, i)} : run \in DataRuns}

(* What that search reads: each run, and of each candidate in it the words
   after the first, as far as they agree. *)
CompanionReads(at) ==
    LET asked == {i \in 2 .. 4 : \A j \in 2 .. (i - 1) : Agrees(at, j)}
        served == Ascending({i \in asked : ReadWord(at + (i - 1) * WORD) # {}})
    IN  [n \in DOMAIN served |-> Lent(at + (served[n] - 1) * WORD, WORD)]

RunReads(run) ==
    LET starts == Ascending(Candidates(run))
    IN  <<Lent(run.lo, run.hi - run.lo)>>
            \o FlattenSeq([n \in DOMAIN starts |-> CompanionReads(starts[n])])

SetVtableReads ==
    LET served == ByStart({run \in DataRuns : ReadBytes(run.lo, run.hi - run.lo) # {}})
    IN  FlattenSeq([i \in DOMAIN served |-> RunReads(served[i])])

(* One run in chunks, each reaching into the next. *)
ChunksOf(run) ==
    {[lo |-> start,
      hi |-> Min({Min({start + CHUNK, run.hi}) + OVERLAP, run.hi})]
        : start \in {a \in run.lo .. (run.hi - 1) : (a - run.lo) % CHUNK = 0}}

-----------------------------------------------------------------------------
(* Names and classes.                                                      *)

(* TaskExtents::locate, FutureCensus::locate and the sweep's own search of
   the held finds: the last span, in order, that starts at or before the
   address, when it reaches the address. *)
Locate(spans, addr) ==
    {span \in spans :
        /\ addr \in span.lo .. (span.hi - 1)
        /\ \A other \in spans :
              other.lo <= addr =>
                  \/ other.lo < span.lo
                  \/ other.lo = span.lo /\ other.hi <= span.hi}

Inside(addr, spans) == \E span \in spans : addr \in span.lo .. (span.hi - 1)

(* classify: the first claim wins. *)
Classify(slot) ==
    LET live == \E heap \in world.heap : Inside(slot, heap.live)
        freed == \E heap \in world.heap : Inside(slot, heap.freed)
        data == \E m \in Mappings : /\ slot \in m.lo .. (m.hi - 1)
                                    /\ {"r", "w"} \subseteq m.flags
                                    /\ "anon" \notin m.flags
    IN  CASE Locate(world.extents, slot) # {} -> "TaskExtent"
          [] Locate(world.extents, slot) = {}
                /\ (Locate(world.nodes, slot) # {} \/ Locate(world.held, slot) # {})
                -> "Find"
          [] OTHER -> IF live THEN "UmemLive"
                      ELSE IF freed THEN "UmemFreed"
                      ELSE IF Inside(slot, world.stacks) THEN "LwpStack"
                      ELSE IF data THEN "DataSegment" ELSE "Anon"

(* A task vtable's data word is a listed task's header; a set vtable's is the
   start of a set child's node. *)
OwnerOf(vtable, data) ==
    IF vtable \in vtables.task
    THEN {[task |-> header] : header \in world.tasks \cap {data}}
    ELSE {[child |-> node.id] : node \in {n \in Locate(world.nodes, data) : n.lo = data}}

Admits(owner, class) ==
    /\ owner # {}
    /\ \/ class \in {"TaskExtent", "Find", "UmemLive", "DataSegment"}
       \/ class = "Anon" /\ world.heap = {}

HitOf(match, data) ==
    LET owner == OwnerOf(match[2], data)
        class == IF ContainsAddr(Mappings, data)
                 THEN Classify(match[1])
                 ELSE "UnmappedCompanion"
    IN  [slot |-> match[1], vtable |-> match[2], data |-> data,
         owner |-> owner, class |-> class, admitted |-> Admits(owner, class)]

-----------------------------------------------------------------------------

Init ==
    /\ world \in Worlds
    /\ target = "core"
    /\ log = EmptyLog
    /\ memory = {}
    /\ phase = "idle"
    /\ chunks = <<>>
    /\ vtables = [task |-> {}, set |-> {}]
    /\ next = 1
    /\ lent = [w \in Workers |-> {}]
    /\ found = [w \in Workers |-> <<>>]
    /\ hits = [t \in {"core", "snapshot"} |-> Unswept]

(* The rest of an analysis reading the target through the recorder before it
   sweeps: at any address, of any length. *)
PriorRead(addr, len) ==
    /\ phase = "idle" /\ target = "core"
    /\ Len(log.reads) < MaxPrior
    /\ \E bytes \in ReadBytes(addr, len) :
          Recorded(<<[addr |-> addr, bytes |-> bytes]>>)
    /\ UNCHANGED <<world, target, memory, phase, chunks, vtables, next, lent,
                   found, hits>>

(* sweep_wakers up to its workers: with no RawWaker layout or no copy of the
   task vtable there is no sweep; else the patterns and the chunks. *)
BeginSweep ==
    /\ phase = "idle"
    /\ IF world.layout = {} \/ world.taskVtables = {}
       THEN /\ phase' = "swept"
            /\ hits' = [hits EXCEPT ![target] = <<>>]
            /\ UNCHANGED <<log, chunks, vtables>>
       ELSE /\ phase' = "scan"
            /\ vtables' = [task |-> world.taskVtables, set |-> SetWakerVtables]
            /\ Recorded(SetVtableReads)
            /\ chunks' = ByStart(UNION {ChunksOf(run) : run \in Runs(Mappings)})
            /\ UNCHANGED hits
    /\ next' = 1
    /\ lent' = [w \in Workers |-> {}]
    /\ found' = [w \in Workers |-> <<>>]
    /\ UNCHANGED <<world, target, memory>>

(* A worker takes the next chunk from the counter and is lent its bytes.  A
   chunk that does not read is passed over; past the last one it ends. *)
Claim(w) ==
    /\ phase = "scan" /\ lent[w] = {}
    /\ next' = next + 1
    /\ lent' = [lent EXCEPT ![w] =
                  IF next > Len(chunks)
                  THEN Ended
                  ELSE {[addr |-> chunks[next].lo, bytes |-> bytes]
                          : bytes \in ReadBytes(chunks[next].lo,
                                            chunks[next].hi - chunks[next].lo)}]
    /\ UNCHANGED <<world, target, log, memory, phase, chunks, vtables, found, hits>>

(* The recorder logs what it lent, and the worker searches it. *)
Match(w) ==
    /\ phase = "scan" /\ lent[w] \notin {{}, Ended}
    /\ \E segment \in lent[w], layout \in world.layout :
          LET patterns == vtables.task \cup vtables.set
              offsets == AlignedMatches(patterns, segment.bytes)
              at == Ascending({a \in {segment.addr + off : off \in offsets} :
                                  a >= layout.vtable})
              from(a) == a - segment.addr
          IN  /\ Recorded(<<segment>>)
              /\ found' = [found EXCEPT ![w] = @ \o
                    [i \in DOMAIN at |->
                        <<at[i] - layout.vtable,
                          Value(SubSeq(segment.bytes, from(at[i]) + 1,
                                       from(at[i]) + WORD))>>]]
    /\ lent' = [lent EXCEPT ![w] = {}]
    /\ UNCHANGED <<world, target, memory, phase, chunks, vtables, next, hits>>

(* The matches of all the workers, sorted by slot and then stripped of
   repeats: a match in an overlap is found by both chunks. *)
Joined(batches) ==
    LET all == FoldLeft(LAMBDA acc, batch : acc \o batch, <<>>, batches)
        sorted == SortSeq(all, LAMBDA x, y : x[1] < y[1])
        fresh(acc, match) == IF acc # <<>> /\ Last(acc) = match
                             THEN acc ELSE Append(acc, match)
    IN  FoldLeft(fresh, <<>>, sorted)

(* Every worker joined: companions read, owners named, hits classified.  A
   companion that does not read drops its match. *)
Join ==
    /\ phase = "scan"
    /\ \A w \in Workers : lent[w] = Ended
    /\ \E layout \in world.layout :
          LET data(match) == ReadWord(match[1] + layout.data)
              paired == SelectSeq(Joined(found), LAMBDA match : data(match) # {})
              hit(match) == HitOf(match, CHOOSE v \in data(match) : TRUE)
          IN  /\ hits' = [hits EXCEPT ![target] = [i \in DOMAIN paired |-> hit(paired[i])]]
              /\ Recorded([i \in DOMAIN paired |->
                              Lent(paired[i][1] + layout.data, WORD)])
    /\ phase' = "swept"
    /\ UNCHANGED <<world, target, memory, chunks, vtables, next, lent, found>>

(* Recorder::snapshot, and the replay: the recorder is done with and the next
   sweep is of the snapshot. *)
Replay ==
    /\ phase = "swept" /\ target = "core"
    /\ memory' = MergeReads(log.reads)
    /\ target' = "snapshot"
    /\ phase' = "idle"
    /\ log' = EmptyLog
    /\ UNCHANGED <<world, chunks, vtables, next, lent, found, hits>>

Done ==
    /\ phase = "swept" /\ target = "snapshot"
    /\ UNCHANGED vars

Next ==
    \/ \E range \in PriorReads : PriorRead(range[1], range[2])
    \/ BeginSweep
    \/ \E w \in Workers : Claim(w) \/ Match(w)
    \/ Join
    \/ Replay
    \/ Done

Spec == Init /\ [][Next]_vars

-----------------------------------------------------------------------------
(* Properties.                                                             *)

(* The parallel sweep, chunk by chunk in any order of claims and of log
   entries, implements the serial scan: each matching word of readable memory
   once, whichever chunks see it, classified and admitted by what owns its
   memory; and the sweep of the snapshot of its recording answers the same. *)
Listed(listing) ==
    IF listing = Unswept
    THEN Unswept
    ELSE [i \in DOMAIN listing |->
            [slot |-> listing[i].slot, admitted |-> listing[i].admitted]]

Scan == INSTANCE WakerScan WITH hits <- [t \in DOMAIN hits |-> Listed(hits[t])]

SweepIsSerial == Scan!Spec

(* A snapshot taken now would replay exactly the reads that reached memory
   the recording was served: every range inside the union of the reads lent,
   with the target's bytes, however the reads overlapped, abutted or were
   logged; and nothing else. *)
ReplayIsFaithful ==
    LET taken == MergeReads(log.reads)
        held == UNION {run.lo .. (run.hi - 1) : run \in log.served}
        byte(a) == (CHOOSE bytes \in Pslice(world.core, a, 1) : TRUE)[1]
    IN  \A a \in held : \A len \in {1, WORD + 1, CHUNK + OVERLAP} :
            SnapshotRead(taken, a, len) =
                IF a .. (a + len - 1) \subseteq held
                THEN {[i \in 1 .. len |-> byte(a + i - 1)]}
                ELSE {}

(* Class::Find is documented as "Inside a census find: a held future's storage
   or a set child's node": a mapped hit inside one is a task's or a find's,
   and classed as nothing weaker. *)
FindClaimsItsStorage ==
    \A t \in DOMAIN hits :
        hits[t] # Unswept =>
            \A i \in DOMAIN hits[t] :
                (Inside(hits[t][i].slot, world.held \cup world.nodes)
                    /\ hits[t][i].class # "UnmappedCompanion")
                        => hits[t][i].class \in {"TaskExtent", "Find"}

(* Core::readable_len is documented as "exactly the longest slice pslice can
   lend there": a read trimmed to it is never refused. *)
CoreLendsWhatItPromises ==
    \A m \in Mappings : \A a \in m.lo .. (m.hi - 1) :
        LendsWhatItPromises(world.core, a)
=============================================================================
