------------------------------ MODULE HashTable ------------------------------
(***************************************************************************)
(* The hash tables of expat, src/libjudo/src/expat/xmlparse.c: open        *)
(* addressing downwards, and twice the size when half of it is used.       *)
(*                                                                         *)
(* A table is [size, used, usedLim, v], v from the slots 0 .. size - 1 to  *)
(* pointers.  What a pointer points to is given by Text.                   *)
(***************************************************************************)
EXTENDS Integers, Sequences, SequencesExt

CONSTANTS InitSize,          \* INIT_SIZE, a power of 2
          Code(_)            \* the number of a character

ASSUME InitSizeAssumption == InitSize \in Nat /\ InitSize >= 2

Empty == [empty |-> TRUE]

hashTableInit == [size |-> 0, used |-> 0, usedLim |-> 0, v |-> << >>]

\* An unsigned long may overflow, but the slot is taken modulo a smaller power
\* of 2, so that it makes no difference.
WithCharacter(h, c) == 32 * h + h + Code(c)
hash(text) == FoldLeft(WithCharacter, 0, text)

\* The first slot from that of a hash downwards that is empty or has one of some
\* pointers
Probe(v, size, h, pointers) ==
  LET slot(k) == (h - k) % size
      ends(k) == v[slot(k)] \in pointers \cup {Empty}
  IN  slot(CHOOSE k \in 0..size - 1 : ends(k) /\ \A j \in 0..k - 1 : ~ ends(j))

FreeSlot(v, size, h) == Probe(v, size, h, {})
NoSlots(size) == [i \in 0..size - 1 |-> Empty]

\* What hashTableIterNext finds on its way through a table
UsedSlots(table) == {i \in 0..table.size - 1 : table.v[i] # Empty}
Pointers(table) == {table.v[i] : i \in UsedSlots(table)}

\* Mutant: a pointer is put where its hash says, though the slot is taken.
PutOver(t, p) == IF p = Empty THEN t ELSE [t EXCEPT !.v[hash(t.texts[p]) % t.size] = p]

\* One round of the loop that fills the new slots from the old ones
PutAgain(t, p) == IF p = Empty THEN t ELSE [t EXCEPT !.v[FreeSlot(t.v, t.size, hash(t.texts[p]))] = p]

\* The table at twice its size
Grown(table, texts) ==
  LET size == 2 * table.size
      new  == [size |-> size, texts |-> texts, v |-> NoSlots(size)]
      old  == [i \in 1..table.size |-> table.v[i - 1]]
  IN  [table EXCEPT !.size = size, !.usedLim = size \div 2, !.v = FoldLeft(PutAgain, new, old).v]

Added(table, i, p) == [table EXCEPT !.v[i] = p, !.used = @ + 1]

\* lookup returns what it finds, or Empty, and the table; with create it adds
\* the name if it is new.
lookup(table, name, create, texts) ==
  LET h    == hash(texts[name])
      i    == Probe(table.v, table.size, h, {p \in DOMAIN texts : texts[p] = texts[name]})
      new  == [size |-> InitSize, used |-> 0, usedLim |-> InitSize \div 2, v |-> NoSlots(InitSize)]
      full == Grown(table, texts)
      With(t, k) == [found |-> name, table |-> Added(t, k, name)]
      found == table.size # 0 /\ table.v[i] # Empty
  IN  CASE found -> [found |-> table.v[i], table |-> table]
        [] ~ found /\ ~ create -> [found |-> Empty, table |-> table]
        [] create /\ table.size = 0 -> With(new, h % InitSize)
        [] ~ found /\ create /\ table.size # 0 /\ table.used = table.usedLim ->
             With(full, FreeSlot(full.v, full.size, h))
        [] ~ found /\ create /\ table.size # 0 /\ table.used # table.usedLim -> With(table, i)
=============================================================================
