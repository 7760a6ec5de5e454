---- MODULE Arena ----
(***************************************************************************)
(* statusandslice/arena.h and arena.cpp: memory given out from the front   *)
(* of a block, of kBlockSize bytes or made for one large request.  An      *)
(* address is a block and an offset; new aligns blocks.  MaxAllocations    *)
(* bounds the requests.                                                    *)
(***************************************************************************)
EXTENDS Integers, Sequences, FiniteSets

CONSTANTS kBlockSize, Align, PointerSize, Requests, MaxAllocations

VARIABLES arena,      \* sizes of blocks_, alloc_ptr_, alloc_bytes_remaining_, memory_usage_
          handed      \* what Allocate and AllocateAligned returned, with its size

arenaVars == <<arena, handed>>

(* The null pointer, which is aligned.                                     *)
Null == [block |-> 0, offset |-> 0]

TypeOK ==
  /\ arena.blocks \in Seq(Nat)
  /\ arena.alloc_ptr \in [block : 0 .. MaxAllocations, offset : 0 .. kBlockSize]
  /\ arena.remaining \in 0 .. kBlockSize
  /\ arena.memory_usage \in Nat
  /\ \A h \in handed : h.bytes \in Requests

Init ==
  /\ arena = [blocks |-> <<>>, alloc_ptr |-> Null, remaining |-> 0, memory_usage |-> 0]
  /\ handed = {}

AllocateNewBlock(a, bytes) ==
  [a EXCEPT !.blocks = Append(@, bytes), !.memory_usage = @ + bytes + PointerSize]

(* The next bytes of the current block, after slop bytes that are skipped. *)
FromBlock(a, slop, bytes) ==
  [a EXCEPT !.alloc_ptr.offset = @ + slop + bytes, !.remaining = @ - (slop + bytes)]

(* The current block is left, with what remains in it.                     *)
NextBlock(a) ==
  [AllocateNewBlock(a, kBlockSize) EXCEPT
     !.alloc_ptr = [block |-> Len(a.blocks) + 1, offset |-> 0], !.remaining = kBlockSize]

Hand(block, offset, bytes, aligned) ==
  handed' = handed \union
              {[block |-> block, offset |-> offset, bytes |-> bytes, aligned |-> aligned]}

(* A large request gets a block of its own and leaves the current one.     *)
AllocateFallback(bytes, aligned) ==
  /\ IF bytes > kBlockSize \div 4
       THEN arena' = AllocateNewBlock(arena, bytes)
       ELSE arena' = FromBlock(NextBlock(arena), 0, bytes)
  /\ Hand(Len(arena'.blocks), 0, bytes, aligned)

Allocate(bytes) ==
  IF bytes <= arena.remaining
    THEN /\ arena' = FromBlock(arena, 0, bytes)
         /\ Hand(arena.alloc_ptr.block, arena.alloc_ptr.offset, bytes, FALSE)
    ELSE AllocateFallback(bytes, FALSE)

Slop == (Align - (arena.alloc_ptr.offset % Align)) % Align

(* Mutant: the room for the slop is not looked at. *)
AllocateAlignedTight(bytes) ==
  IF bytes <= arena.remaining
    THEN /\ arena' = FromBlock(arena, Slop, bytes)
         /\ Hand(arena.alloc_ptr.block, arena.alloc_ptr.offset + Slop, bytes, TRUE)
    ELSE AllocateFallback(bytes, TRUE)

AllocateAligned(bytes) ==
  IF bytes + Slop <= arena.remaining
    THEN /\ arena' = FromBlock(arena, Slop, bytes)
         /\ Hand(arena.alloc_ptr.block, arena.alloc_ptr.offset + Slop, bytes, TRUE)
    ELSE AllocateFallback(bytes, TRUE)

Next ==
  /\ Cardinality(handed) < MaxAllocations
  /\ \E bytes \in Requests : Allocate(bytes) \/ AllocateAligned(bytes)

Spec == Init /\ [][Next]_arenaVars

-----------------------------------------------------------------------------
Overlap(g, h) ==
  /\ g.block = h.block
  /\ g.offset < h.offset + h.bytes
  /\ h.offset < g.offset + g.bytes

Total(blocks) ==
  LET sum[i \in 0 .. Len(blocks)] == IF i = 0 THEN 0 ELSE sum[i - 1] + blocks[i]
  IN  sum[Len(blocks)]

(* What was given out lies in its block, apart from all else that was      *)
(* given out, and aligned if it was asked for; the room that is counted as *)
(* left is behind all of it; and memory_usage_ is the size of the blocks   *)
(* with their entries (arena.h:41-52, arena.cpp:18-67).                    *)
OneHolder ==
  /\ \A h \in handed : h.offset + h.bytes <= arena.blocks[h.block]
  /\ \A g, h \in handed : g # h => ~Overlap(g, h)
  /\ \A h \in handed : h.aligned => h.offset % Align = 0
  /\ \A h \in handed :
        h.block = arena.alloc_ptr.block => h.offset + h.bytes <= arena.alloc_ptr.offset
  /\ arena.alloc_ptr # Null =>
        arena.alloc_ptr.offset + arena.remaining = arena.blocks[arena.alloc_ptr.block]
  /\ arena.memory_usage = Total(arena.blocks) + PointerSize * Len(arena.blocks)
====
