----------------------------- MODULE ParseBuffer -----------------------------
(***************************************************************************)
(* The buffer in which XML_Parse keeps what it could not parse yet,        *)
(* src/libjudo/src/expat/xmlparse.c.                                       *)
(*                                                                         *)
(* The buffer is [lim, ptr, end]: its size, and from where to where it     *)
(* holds "rest".  lim = 0: there is none yet.  Where the processor of the  *)
(* parser comes to in a text is the parameter "next".                      *)
(***************************************************************************)
EXTENDS Integers, Sequences, SequencesExt

CONSTANT InitBufferSize      \* INIT_BUFFER_SIZE
ASSUME InitBufferSizeAssumption == InitBufferSize \in Nat \ {0}

VARIABLES buffer, rest

bufferVars == <<buffer, rest>>

NewBuffer == [lim |-> 0, ptr |-> 0, end |-> 0]

\* The size doubles until it is enough, once at least.
DoubledOnce(s, round) == IF s.size >= s.needed THEN s ELSE [s EXCEPT !.size = 2 * @]
Doubled(size, needed) ==
  FoldLeft(DoubledOnce, [size |-> 2 * size, needed |-> needed], [round \in 1..needed |-> round]).size

\* Mutant: the room is counted from what is held, not from behind it.
XML_GetBufferFromPtr(len) ==
  LET held == buffer.end - buffer.ptr
  IN  IF len <= buffer.lim - buffer.ptr THEN buffer
      ELSE [lim |-> Doubled(InitBufferSize, len + held), ptr |-> 0, end |-> held]

\* Room for len bytes behind what is there, which is moved to the front.
XML_GetBuffer(len) ==
  LET held   == buffer.end - buffer.ptr
      needed == len + held
      left   == buffer.lim - buffer.ptr
      size   == Doubled(IF left = 0 THEN InitBufferSize ELSE left, needed)
  IN  IF len <= buffer.lim - buffer.end THEN buffer
      ELSE [lim |-> IF needed <= buffer.lim THEN buffer.lim ELSE size, ptr |-> 0, end |-> held]

\* Nothing is left over from before: data is parsed where it is.  The buffer
\* stays as it is if it is the last, or if the parser fails.
KeepLeftOver(data, next, keep) ==
  LET left == SubSeq(data, next, Len(data))
      n    == Len(left)
  IN  /\ buffer.ptr = buffer.end
      /\ IF keep \/ n = 0 THEN UNCHANGED bufferVars
         ELSE /\ rest' = left
              /\ buffer' = [lim |-> IF n > buffer.lim THEN 2 * Len(data) ELSE buffer.lim,
                            ptr |-> 0, end |-> n]

\* data is put behind what is left over.
ParseBuffered(data, next, keep) ==
  LET b    == XML_GetBuffer(Len(data))
      all  == rest \o data
  IN  /\ buffer.ptr # buffer.end
      /\ rest' = IF keep THEN all ELSE SubSeq(all, next, Len(all))
      /\ buffer' = [b EXCEPT !.end = @ + Len(data), !.ptr = IF keep THEN @ ELSE @ + next - 1]

BufferInit == buffer = NewBuffer /\ rest = <<>>

\* With any processor that stays in the text it is given
BufferNext(pieces) ==
  \E data \in pieces, keep \in BOOLEAN :
    \/ \E next \in 1..Len(data) + 1 : KeepLeftOver(data, next, keep)
    \/ \E next \in 1..Len(rest) + Len(data) + 1 : ParseBuffered(data, next, keep)

BufferSpec(pieces) == BufferInit /\ [][BufferNext(pieces)]_bufferVars

-----------------------------------------------------------------------------
\* What XML_Parse could not parse yet is in the buffer, and nothing was written
\* past its end: XML_GetBuffer made it large enough.
BufferHolds ==
  /\ 0 <= buffer.ptr /\ buffer.ptr <= buffer.end /\ buffer.end <= buffer.lim
  /\ Len(rest) = buffer.end - buffer.ptr
=============================================================================
