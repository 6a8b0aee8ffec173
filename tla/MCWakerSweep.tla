--------------------------- MODULE MCWakerSweep ----------------------------
(***************************************************************************)
(* Small targets for the waker sweep.  Addresses are half words: a heap at *)
(* 0, the executable's read-only data at 16 and the memory of a task and   *)
(* of a set child at 24, with a hole between the first two.                *)
(***************************************************************************)
EXTENDS WakerSweep

Word(value) == <<value % HALF, value \div HALF>>
Words(values) == FoldLeft(LAMBDA acc, v : acc \o Word(v), <<>>, values)

(* A task vtable whose two halves are the same, so that its word can match
   off its alignment across two others; and the four set waker functions. *)
V == 9 + HALF * 9
Fns == <<{40}, {41}, {42}, {43}>>
Record == <<40, 41, 42, 43>>

Header == 24
Node == 28
SetVtable == 16

Segment(vaddr, contents, flags) ==
    [vaddr |-> vaddr, memsz |-> Len(contents), filesz |-> Len(contents),
     bytes |-> contents, flags |-> flags]

(* Slot 0 is the task's waker, in the second word; slot 4 a stale pair whose
   data word, 3 + 9 * HALF, is unmapped and hides under a match at 5; slot 8
   the set child's. *)
HeapWords == <<Header, V, 3 + HALF * 9, V, Node, SetVtable>>

Heap == Segment(0, Words(HeapWords), {"r", "w"})
Rodata == Segment(16, Words(Record), {"r"})
Tasks == Segment(24, Words(<<0, 0, 0, 0>>), {"r", "w"})

Binary == [lo |-> 16, hi |-> 24, path |-> "bin", offset |-> 0, loaded |-> {"r"}]

Core(segments, files, disk) ==
    [segments |-> segments, files |-> files, recorded |-> [p \in {"bin"} |-> "id"],
     exec |-> "bin", binary |-> {}, disk |-> [p \in {"bin"} |-> disk]]

Span(lo, hi, id) == [lo |-> lo, hi |-> hi, id |-> id]

DataFirst == {[data |-> 0, vtable |-> WORD]}
VtableFirst == {[data |-> WORD, vtable |-> 0]}

World(core, heap, stacks, held) ==
    [core |-> core, tasks |-> {Header}, extents |-> {Span(24, 28, 1)},
     nodes |-> {Span(28, 32, 1)}, held |-> held, heap |-> heap,
     stacks |-> stacks, layout |-> DataFirst, taskVtables |-> {V},
     setVtables |-> {SetVtable}, setFns |-> Fns]

Whole == Core({Heap, Rodata, Tasks}, {Binary}, {})

(* The executable's pages left out of the dump and read from its file. *)
Undumped(disk) ==
    Core({Heap, [Rodata EXCEPT !.filesz = 0, !.bytes = <<>>], Tasks}, {Binary}, disk)

BinFile == [contents |-> Words(Record), id |-> "id"]

(* The data segment's second page left out of the program headers, and the
   pair in it in the file: only NT_FILE names it. *)
Unlisted ==
    Core({Heap, Tasks},
         {[Binary EXCEPT !.loaded = {"r", "w"}]},
         {[contents |-> Words(<<Header, V, 0, V>>), id |-> "id"]})

Allocator == {[live |-> {Span(0, 8, 1)}, freed |-> {Span(8, 12, 1)}]}

(* The set waker's record across the end of its mapping: its last two words
   are in one that is not searched. *)
Straddling ==
    Core({Heap, Segment(16, Words(<<40, 41>>), {"r"}),
          Segment(20, Words(<<42, 43>>), {"r", "x"}), Tasks}, {Binary}, {})

SweptWorlds ==
    {World(Straddling, Allocator, {}, {}),
     World(Whole, Allocator, {}, {}),
     World(Whole, {}, {Span(8, 12, 1)}, {Span(0, 2, 1)}),
     World(Undumped({BinFile}), {}, {}, {}),
     [World(Undumped({}), {[live |-> {}, freed |-> {}]}, {}, {Span(0, 2, 1)})
        EXCEPT !.setVtables = {}],
     [World(Unlisted, Allocator, {}, {}) EXCEPT !.setVtables = {}],
     [World(Whole, Allocator, {}, {}) EXCEPT !.layout = VtableFirst],
     [World(Whole, {}, {}, {}) EXCEPT !.taskVtables = {}]}

(* A boxed future that holds another by value, in memory the allocator's
   index does not cover: the waker lies past the inner one. *)
NestedWorlds ==
    {World(Whole, {[live |-> {}, freed |-> {}]}, {},
           {Span(0, 12, 1), Span(4, 6, 2)})}

(* Cores whose undumped pages lie in a file that is gone, is another build,
   or is shorter than its mapping. *)
FileWorlds ==
    {World(Undumped(disk), Allocator, {}, {})
        : disk \in {{BinFile}, {}, {[BinFile EXCEPT !.id = "other"]},
                    {[BinFile EXCEPT !.contents = Words(<<40, 41, 42>>)]}}}

(* Reads of the analysis before the sweep: off the sweep's alignment, abutting
   one another. *)
SomeReads == {<<5, 3>>, <<8, 3>>}
=============================================================================
