------------------------------ MODULE CoreFile ------------------------------
(***************************************************************************)
(* A Linux core file as proc/src/coredump/linux.rs serves it: the dumped   *)
(* segments of the program headers joined with the file mappings of the    *)
(* NT_FILE note, whose undumped pages are read from the files themselves   *)
(* when this machine has them.  An illumos core is the case without file   *)
(* mappings.  A core never changes while it is read, so the module is      *)
(* operators over a record                                                 *)
(*   [segments : set of [vaddr, memsz, filesz, bytes, flags],              *)
(*    files    : set of [lo, hi, path, offset, loaded],                    *)
(*    recorded : path -> the build id of the image the core dumped of it,  *)
(*    exec     : the path of the executable,                               *)
(*    binary   : {} or {the file standing in for the executable},          *)
(*    disk     : path -> {} or {the file [contents, id] there, as opened}] *)
(* with addresses, sizes and offsets in half words, which is as fine as    *)
(* alignment needs, and an optional value the empty set or a singleton.    *)
(***************************************************************************)
EXTENDS Integers, Sequences, FiniteSets

CONSTANT PAGE    \* the page size: where the hunt past a hole resumes

ASSUME PageAssumption == PAGE \in Nat \ {0}

WORD == 2        \* half words in a machine word
HALF == 64       \* the values of a half word

(* The number a little-endian word spells. *)
Value(word) == word[1] + HALF * word[2]

(* Segment::range and Segment::dumped: the address space a program header
   claims, and the part of it whose bytes are in the core. *)
SegmentRange(seg) == seg.vaddr .. (seg.vaddr + seg.memsz - 1)
Dumped(seg) == seg.vaddr .. (seg.vaddr + seg.filesz - 1)

(* Core::segment_at: the last segment starting at or below the address, when
   it reaches the address. *)
SegmentAt(core, addr) ==
    {seg \in core.segments :
        /\ addr \in SegmentRange(seg)
        /\ \A other \in core.segments :
              other.vaddr <= addr => other.vaddr <= seg.vaddr}

(* file_at: the same search over the file mappings. *)
FileAt(core, addr) ==
    {file \in core.files :
        /\ addr \in file.lo .. (file.hi - 1)
        /\ \A other \in core.files : other.lo <= addr => other.lo <= file.lo}

DumpedAt(core, addr) == {seg \in SegmentAt(core, addr) : addr \in Dumped(seg)}

(* Core::readable_until: the end of the dumped part holding the address, or
   of the file mapping holding it; {} where neither does. *)
ReadableUntil(core, addr) ==
    IF DumpedAt(core, addr) # {}
    THEN {seg.vaddr + seg.filesz : seg \in DumpedAt(core, addr)}
    ELSE {file.hi : file \in FileAt(core, addr)}

(* Core::readable_len. *)
ReadableLen(core, addr, max) ==
    IF \E end \in ReadableUntil(core, addr) : end - addr < max
    THEN (CHOOSE end \in ReadableUntil(core, addr) : TRUE) - addr
    ELSE IF ReadableUntil(core, addr) = {} THEN 0 ELSE max

(* Core::dumped_build_id: the id in the dumped image of an object, known only
   where the page its file offset 0 is mapped at is in the core.  An id of
   Unstamped is a build that carries none. *)
Unstamped == "unstamped"

DumpedBuildId(core, path) ==
    LET heads == {file \in core.files : file.path = path /\ file.offset = 0}
        bases == {file.lo : file \in {f \in heads :
                                        \A g \in heads : f.lo <= g.lo}}
    IN  {core.recorded[path] : base \in {b \in bases : DumpedAt(core, b) # {}}}
            \ {Unstamped}

(* Core::open_recorded: the file at the recorded path, unless both it and the
   dumped image carry a build id and the two differ. *)
OpenRecorded(core, path) ==
    {file \in core.disk[path] :
        \/ file.id = Unstamped
        \/ DumpedBuildId(core, path) \subseteq {file.id}}

(* Core::open_backing: the executable is the file that stands in for it where
   one was given, whatever its build id. *)
OpenBacking(core, path) ==
    IF path = core.exec /\ core.binary # {}
    THEN core.binary
    ELSE OpenRecorded(core, path)

(* The bytes start + 1 .. start + len of a file's contents, if it has them. *)
Slice(contents, start, len) ==
    IF start + len <= Len(contents)
    THEN {SubSeq(contents, start + 1, start + len)}
    ELSE {}

(* Core::pslice: one source serves a read whole or nobody does. *)
Pslice(core, addr, len) ==
    IF DumpedAt(core, addr) # {}
    THEN UNION {IF seg.filesz - (addr - seg.vaddr) < len
                THEN {}
                ELSE Slice(seg.bytes, addr - seg.vaddr, len)
                  : seg \in DumpedAt(core, addr)}
    ELSE UNION {IF file.hi - addr < len
                THEN {}
                ELSE UNION {Slice(opened.contents,
                                  file.offset + (addr - file.lo), len)
                              : opened \in OpenBacking(core, file.path)}
                  : file \in FileAt(core, addr)}

(* Core::build_mappings: one mapping per segment, anonymous where no file is
   mapped at its start, and one per file mapping no segment touches, which
   gdb leaves out of the program headers; its permissions are the backing
   file's, or only "r" without one. *)
SegmentMapping(core, seg) ==
    [lo |-> seg.vaddr, hi |-> seg.vaddr + seg.memsz,
     flags |-> seg.flags \cup
                 (IF FileAt(core, seg.vaddr) = {} THEN {"anon"} ELSE {})]

FileMapping(core, file) ==
    [lo |-> file.lo, hi |-> file.hi,
     flags |-> IF OpenBacking(core, file.path) = {} THEN {"r"} ELSE file.loaded]

Untouched(core, file) ==
    \A seg \in core.segments :
        ~ (seg.vaddr < file.hi /\ file.lo < seg.vaddr + seg.memsz)

BuildMappings(core) ==
    {SegmentMapping(core, seg) : seg \in core.segments}
        \cup {FileMapping(core, file)
                : file \in {f \in core.files : Untouched(core, f)}}

(* Mappings::contains_addr. *)
ContainsAddr(mappings, addr) ==
    \E m \in mappings : addr \in m.lo .. (m.hi - 1)

(* proc::readable_runs: the readable stretches of one mapping, a hole skipped
   to the next page boundary. *)
ReadableRuns(core, mapping) ==
    LET size == mapping.hi - mapping.lo
        run[off \in 0 .. (size + PAGE)] ==
            IF off >= size
            THEN {}
            ELSE LET addr == mapping.lo + off
                     n == ReadableLen(core, addr, size - off)
                 IN  IF n = 0
                     THEN run[off + (PAGE - (addr % PAGE))]
                     ELSE {[lo |-> addr, hi |-> addr + n]} \cup run[off + n]
    IN  run[0]

-----------------------------------------------------------------------------

(* What the documentation of Core::readable_len promises: what it answers is
   exactly what pslice can lend there, so a reader that trims its reads to it
   is never refused. *)
LendsWhatItPromises(core, addr) ==
    LET n == ReadableLen(core, addr, PAGE)
    IN  n > 0 => Pslice(core, addr, n) # {}
=============================================================================
