------------------------------ MODULE StringPool ------------------------------
(***************************************************************************)
(* The string pools of expat, src/libjudo/src/expat/xmlparse.c.            *)
(*                                                                         *)
(* A pool is [blocks, freeBlocks, start, ptr, fresh].  A block is [id, s]: *)
(* where malloc has put it, and its characters.  What is being written is  *)
(* in the first block, from start to ptr, counted from 0; pool->end is the *)
(* end of that block.  Without a block the three pointers are NULL.  fresh *)
(* is the place malloc and realloc give next: never one that was freed, so *)
(* that a pointer that dangles can be told, nor one of the other pool: the *)
(* odd places are for the one and the even places for the other.           *)
(***************************************************************************)
EXTENDS Integers, Sequences, SequencesExt

CONSTANT InitBlockSize       \* INIT_BLOCK_SIZE
ASSUME InitBlockSizeAssumption == InitBlockSize \in Nat \ {0}

NUL     == "NUL"             \* the end of a string
Garbage == "?"               \* what malloc leaves in a block

poolInit(place) == [blocks |-> <<>>, freeBlocks |-> <<>>, start |-> 0, ptr |-> 0, fresh |-> place]
NextPlace(place) == place + 2

Cells(n)  == [i \in 1..n |-> Garbage]
EndOf(p)  == IF p.blocks = <<>> THEN 0 ELSE Len(p.blocks[1].s)     \* pool->end

\* What lies between start and end is copied to the front of a block.
Filled(p, block) ==
  LET old == IF p.blocks = <<>> THEN <<>> ELSE SubSeq(p.blocks[1].s, p.start + 1, Len(p.blocks[1].s))
  IN  [block EXCEPT !.s = old \o SubSeq(@, Len(old) + 1, Len(@))]

Front_(p, blocks) == [p EXCEPT !.blocks = blocks, !.start = 0, !.ptr = @ - p.start]

reuseBlock(p) ==
  [Front_(p, <<Filled(p, Head(p.freeBlocks))>> \o p.blocks) EXCEPT !.freeBlocks = Tail(@)]

\* realloc: nothing else is in the block yet.
enlargeBlock(p) ==
  [p EXCEPT !.blocks[1] = [id |-> p.fresh, s |-> @.s \o Cells(Len(@.s))], !.fresh = NextPlace(@)]

newBlock(p) ==
  LET room == EndOf(p) - p.start
      size == IF room < InitBlockSize THEN InitBlockSize ELSE 2 * room
  IN  [Front_(p, <<Filled(p, [id |-> p.fresh, s |-> Cells(size)])>> \o p.blocks) EXCEPT !.fresh = NextPlace(@)]

\* Mutant: a block is enlarged though there are finished strings in it.
poolGrowMoving(p) ==
  IF p.freeBlocks # <<>> /\ EndOf(p) - p.start < Len(Head(p.freeBlocks).s) THEN reuseBlock(p)
  ELSE IF p.blocks # <<>> THEN enlargeBlock(p)
  ELSE newBlock(p)

poolGrow(p) ==
  IF p.freeBlocks # <<>> /\ EndOf(p) - p.start < Len(Head(p.freeBlocks).s) THEN reuseBlock(p)
  ELSE IF p.blocks # <<>> /\ p.start = 0 THEN enlargeBlock(p)
  ELSE newBlock(p)

-----------------------------------------------------------------------------
poolAppendChar(p, c) ==
  LET q == IF p.ptr = EndOf(p) THEN poolGrow(p) ELSE p
  IN  [q EXCEPT !.blocks[1].s[q.ptr + 1] = c, !.ptr = @ + 1]

\* poolAppend, poolStoreString: the string stays open until it is finished.
poolAppend(p, text) ==
  FoldLeft(poolAppendChar, IF p.blocks = <<>> THEN poolGrow(p) ELSE p, text)
poolStoreString(p, text) == poolAppendChar(poolAppend(p, text), NUL)

poolFinish(p)  == [p EXCEPT !.start = p.ptr]
poolDiscard(p) == [p EXCEPT !.ptr = p.start]
poolCopyString(p, text) == poolFinish(FoldLeft(poolAppendChar, p, Append(text, NUL)))
poolAppendString(p, text) == FoldLeft(poolAppendChar, p, text)

poolClear(p) ==
  [p EXCEPT !.freeBlocks = IF @ = <<>> THEN p.blocks ELSE Reverse(p.blocks) \o @,
            !.blocks = <<>>, !.start = 0, !.ptr = 0]

-----------------------------------------------------------------------------
\* poolStart: a pointer is [id, at], a place in a block.
poolStart(p) == [id |-> p.blocks[1].id, at |-> p.start]

\* What a pointer points to, up to the end of the string; <<Garbage>> if it
\* dangles.
StringAt(p, pointer) ==
  LET in   == {i \in DOMAIN p.blocks : p.blocks[i].id = pointer.id}
      s    == p.blocks[CHOOSE i \in in : TRUE].s
      ends == {k \in pointer.at + 1..Len(s) : s[k] = NUL}
  IN  IF in = {} \/ ends = {} THEN <<Garbage>> ELSE SubSeq(s, pointer.at + 1, Min(ends) - 1)
=============================================================================
