---------------------------- MODULE MCPlacement ----------------------------
(* The sizes and alignments at which something changes, in words of 30 bits. *)
EXTENDS Placement

MCSizeMax == 2^30 - 1

\* Where a class, a width of store, a block or the pool ends, with its neighbours.
Edges == {1, 8, 16, 32, 64, 128, 192, 256, 512, 768, 1024, 2048, 4096, 8192,
          16384, 65536, BUDDY_POOL_SIZE}
Headers == {0, LargeHeader, POINTER + 56, POINTER + 80}   \* in front of the object
MCSizes ==
  {0, 3, 5}
  \union {e + d : e \in Edges, d \in {0, 1}} \union {e - 1 : e \in Edges}
  \union {e - h - d : e \in {4096, 8192, BUDDY_POOL_SIZE}, h \in Headers, d \in {0, 1, 14, 15, 16}}
  \union {MCSizeMax - h - d : h \in Headers, d \in {0, 1, 15, 16, 4095, 4096, 4097, 8191, 8192}}

MCAlignments == {0, 1, 8, 16, 24, 32, 4096, BUDDY_POOL_SIZE, 2 * BUDDY_POOL_SIZE, 2^29}

\* mmap gives pages, malloc multiples of 16; both before and on an alignment's bound.
MCBases == {4096, 3 * 4096, BUDDY_POOL_SIZE, BUDDY_POOL_SIZE + 16, 65536 + 4080}
\* Every offset within a word.
MCOffsets == 4096..4103
=============================================================================
