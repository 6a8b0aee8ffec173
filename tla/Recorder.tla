------------------------------ MODULE Recorder ------------------------------
(***************************************************************************)
(* The recorder of proc/src/snapshot.rs, which lends a target's reads and  *)
(* logs a copy of each, and the snapshot its log is merged into, which     *)
(* replays them.  Readers share one recorder: each is lent its bytes       *)
(* without a lock and logs them under one, so the logs of reads made       *)
(* together land in any order.  A segment is [addr, bytes]; a read that    *)
(* fails is the empty set, a read that succeeds the set of its bytes.      *)
(***************************************************************************)
EXTENDS Integers, Sequences, SequencesExt

End(segment) == segment.addr + Len(segment.bytes)

MutCovers(runs, addr, end) ==
    \E run \in runs : run.lo <= addr /\ addr < run.hi

(* ReadLog::covers: the last run starting at or before the read reaches its
   end. *)
Covers(runs, addr, end) ==
    \E run \in runs :
        /\ run.lo <= addr
        /\ \A other \in runs : other.lo <= addr => other.lo <= run.lo
        /\ end <= run.hi

(* ReadLog::cover: fold a read into the runs, merging every run it touches. *)
Cover(runs, addr, end) ==
    LET touching == {run \in runs : run.lo <= end /\ run.hi >= addr}
    IN  (runs \ touching)
            \cup {[lo |-> Min({addr} \cup {run.lo : run \in touching}),
                   hi |-> Max({end} \cup {run.hi : run \in touching})]}

(* merge_reads, first pass: sweep the read intervals, sorted, into disjoint
   extents.  A read of no bytes stakes out none. *)
Intervals(log) ==
    SortSeq([i \in DOMAIN log |-> <<log[i].addr, End(log[i])>>],
            LAMBDA x, y : x[1] < y[1] \/ (x[1] = y[1] /\ x[2] < y[2]))

Extended(extents, interval) ==
    IF extents # <<>> /\ interval[1] <= Last(extents).hi
    THEN Front(extents) \o
            <<[lo |-> Last(extents).lo, hi |-> Max({Last(extents).hi, interval[2]})]>>
    ELSE Append(extents, [lo |-> interval[1], hi |-> interval[2]])

Extents(log) ==
    FoldLeft(Extended, <<>>,
             Intervals(SelectSeq(log, LAMBDA segment : segment.bytes # <<>>)))

(* merge_reads, second pass: the log replayed in order on top of the extents,
   so that the latest read of a byte wins.  Every byte of an extent is some
   read's. *)
LatestRead(log, a) ==
    LET upon == {i \in DOMAIN log :
                    a \in log[i].addr .. (End(log[i]) - 1)}
    IN  log[Max(upon)].bytes[a - log[Max(upon)].addr + 1]

MergeReads(log) ==
    {[addr |-> extent.lo,
      bytes |-> [i \in 1 .. (extent.hi - extent.lo) |->
                    LatestRead(log, extent.lo + i - 1)]]
        : extent \in Range(Extents(log))}

(* Snapshot::segment and Snapshot's read_bytes: a read replays out of the one
   segment that holds it whole. *)
SnapshotSegment(memory, addr) ==
    {segment \in memory :
        /\ addr \in segment.addr .. (End(segment) - 1)
        /\ \A other \in memory :
              other.addr <= addr => other.addr <= segment.addr}

SnapshotRead(memory, addr, len) ==
    {SubSeq(segment.bytes, addr - segment.addr + 1, addr - segment.addr + len)
        : segment \in {s \in SnapshotSegment(memory, addr) :
                          addr + len <= End(s)}}

(* Snapshot's captured_runs. *)
CapturedRuns(memory) ==
    {[lo |-> segment.addr, hi |-> End(segment)] : segment \in memory}

-----------------------------------------------------------------------------

(* ReadLog: the logged segments in order, and the memory they hold so far as
   disjoint maximal runs.  served is history: every range a reader was lent. *)
EmptyLog == [reads |-> <<>>, covered |-> {}, served |-> {}]

(* The second half of Recorder's read_bytes: with the bytes in hand, take the
   lock and log them unless the log already holds the range whole. *)
Logged(log, segment) ==
    LET held == Covers(log.covered, segment.addr, End(segment))
    IN  [reads |-> IF held THEN log.reads ELSE Append(log.reads, segment),
         covered |-> IF held
                     THEN log.covered
                     ELSE Cover(log.covered, segment.addr, End(segment)),
         served |-> log.served \cup {[lo |-> segment.addr, hi |-> End(segment)]}]

(* Reads one thread makes one after the other. *)
LoggedAll(log, segments) == FoldLeft(Logged, log, segments)
=============================================================================
