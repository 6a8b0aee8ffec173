---------------------------- MODULE MCUmemHeap ----------------------------
(***************************************************************************)
(* Two caches and two arenas in twelve addresses: a small cache with two   *)
(* slabs, kept in magazines and per thread, whose chunks have slack; a     *)
(* hashed cache without magazines.                                         *)
(***************************************************************************)
EXTENDS UmemHeap, TLC

CONSTANTS small, large, a1, a2, b1, m1, m2, m3, t1, t2

MCCacheList == <<small, large>>
MCCacheShape ==
    (small :> [bufsize |-> 1, chunksize |-> 2, slabsize |-> 4, flags |-> {"ptc"},
               slabs |-> <<a1, a2>>])
 @@ (large :> [bufsize |-> 1, chunksize |-> 1, slabsize |-> 2,
               flags |-> {"hash", "nomagazine"}, slabs |-> <<b1>>])
MCSlabShape ==
    (a1 :> [cache |-> small, base |-> 1, chunks |-> 2])
 @@ (a2 :> [cache |-> small, base |-> 5, chunks |-> 1])
 @@ (b1 :> [cache |-> large, base |-> 7, chunks |-> 2])
MCArenaShape == <<<<9, 10>>, <<11>>>>
MCWorkloads == {{small}, {large, 1, 2}}
MagazinesAlike == Permutations(Magazines)

=============================================================================
