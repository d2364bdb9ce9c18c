------------------------------ MODULE DTDTables ------------------------------
(***************************************************************************)
(* What a parser of expat knows by name, src/libjudo/src/expat/xmlparse.c: *)
(* the names are strings of a pool that is never cleared, and the tables   *)
(* hold pointers to them; a second pool, tempPool, has the values of one   *)
(* tag at a time.                                                          *)
(***************************************************************************)
EXTENDS StringPool, HashTable, FiniteSets

CONSTANTS Strings,           \* names and values
          MaxKept, MaxValues \* bounds: strings that are kept for good, and of a tag

Characters == UNION {{s[i] : i \in DOMAIN s} : s \in Strings}

ASSUME StringsAssumption ==
  /\ \A s \in Strings : s \in Seq(Characters)
  /\ \A c \in Characters : c # NUL /\ Code(c) \in Nat

VARIABLES pool, tempPool,    \* dtd.pool and tempPool
          elementTypes, attributeIds,
          types, ids,        \* the names there are to be
          values, tagValues  \* strings kept in the pools: [at, text]

dtdVars == <<pool, tempPool, elementTypes, attributeIds, types, ids, values, tagValues>>
tables  == <<elementTypes, attributeIds, types, ids>>
temp    == <<tempPool, tagValues>>

KeptStrings == Len(values) + Cardinality(types) + Cardinality(ids)

\* What the pointers of a table, and another one, point to
TextsIn(p, table, pointer) ==
  [q \in Pointers(table) \cup {pointer} |-> StringAt(p, q)]

\* The name stays in the pool if the table has taken it.
SettledPool(p, pointer, found) == IF found = pointer THEN poolFinish(p) ELSE poolDiscard(p)

getElementType(name) ==
  LET p == poolStoreString(pool, name)
      r == lookup(elementTypes, poolStart(p), TRUE, TextsIn(p, elementTypes, poolStart(p)))
  IN  /\ pool' = SettledPool(p, poolStart(p), r.found)
      /\ elementTypes' = r.table
      /\ types' = types \cup {name}
      /\ UNCHANGED <<attributeIds, ids, values, temp>>

\* The character before the name is the mark of storeAtts.
getAttributeId(name) ==
  LET p  == poolStoreString(poolAppendChar(pool, NUL), name)
      at == [poolStart(p) EXCEPT !.at = @ + 1]
      r  == lookup(attributeIds, at, TRUE, TextsIn(p, attributeIds, at))
  IN  /\ pool' = SettledPool(p, at, r.found)
      /\ attributeIds' = r.table
      /\ ids' = ids \cup {name}
      /\ UNCHANGED <<elementTypes, types, values, temp>>

\* The name of an empty tag, in storeAtts: it is in tempPool, and copied if the
\* table does not have it yet.
typeOfTag(name) ==
  LET p     == poolStoreString(tempPool, name)
      asked == lookup(elementTypes, poolStart(p), FALSE,
                      [TextsIn(pool, elementTypes, poolStart(p)) EXCEPT ![poolStart(p)] = name])
      copy  == poolAppendString(pool, Append(name, NUL))
      new   == lookup(elementTypes, poolStart(copy), TRUE,
                      TextsIn(copy, elementTypes, poolStart(copy)))
  IN  /\ tempPool' = poolFinish(p)
      /\ tagValues' = Append(tagValues, [at |-> poolStart(p), text |-> name])
      /\ types' = types \cup {name}
      /\ IF asked.found # Empty THEN UNCHANGED <<pool, elementTypes>>
         ELSE pool' = poolFinish(copy) /\ elementTypes' = new.table
      /\ UNCHANGED <<attributeIds, ids, values>>

\* A default value or the text of an entity
keepValue(text) ==
  LET p == poolStoreString(pool, text)
  IN  /\ pool' = poolFinish(p)
      /\ values' = Append(values, [at |-> poolStart(p), text |-> text])
      /\ UNCHANGED <<tables, temp>>

\* A value of the tag that is being read, and the end of the tag
storeValue(text) ==
  LET p == poolStoreString(tempPool, text)
  IN  /\ tempPool' = poolFinish(p)
      /\ tagValues' = Append(tagValues, [at |-> poolStart(p), text |-> text])
      /\ UNCHANGED <<pool, tables, values>>

endTag ==
  /\ tagValues # <<>>
  /\ tempPool' = poolClear(tempPool)
  /\ tagValues' = <<>>
  /\ UNCHANGED <<pool, tables, values>>

DTDInit ==
  /\ pool = poolInit(1) /\ tempPool = poolInit(2)
  /\ elementTypes = hashTableInit /\ attributeIds = hashTableInit
  /\ types = {} /\ ids = {} /\ values = <<>> /\ tagValues = <<>>

DTDNext ==
  \/ \E s \in Strings :
       \/ KeptStrings < MaxKept /\ (getElementType(s) \/ getAttributeId(s) \/ keepValue(s))
       \/ Len(tagValues) < MaxValues /\ storeValue(s)
       \/ KeptStrings < MaxKept /\ tagValues = <<>> /\ typeOfTag(s)
  \/ endTag

DTDSpec == DTDInit /\ [][DTDNext]_dtdVars

-----------------------------------------------------------------------------
\* A table has each name once, and finds it and no other, in whatever order the
\* names came and however the table and the pool have grown.  It counts the
\* slots it uses, and one stays empty: a search ends.
Finds(table, names) ==
  LET Ask(s) == Probe(table.v, table.size, hash(s),
                      {q \in Pointers(table) : StringAt(pool, q) = s})
  IN  /\ {StringAt(pool, q) : q \in Pointers(table)} = names
      /\ Cardinality(UsedSlots(table)) = Cardinality(names)
      /\ table.used = Cardinality(names)
      /\ table.size # 0 => /\ table.used < table.size
                           /\ \A s \in Strings : (table.v[Ask(s)] # Empty) = (s \in names)

NamesAreFound == Finds(elementTypes, types) /\ Finds(attributeIds, ids)

\* A string that is finished keeps its place and its characters until the pool
\* is cleared, whatever is written, discarded and moved behind it.
StringsStay ==
  /\ \A i \in DOMAIN values : StringAt(pool, values[i].at) = values[i].text
  /\ \A i \in DOMAIN tagValues : StringAt(tempPool, tagValues[i].at) = tagValues[i].text
  /\ \A p \in {pool, tempPool} : p.start <= p.ptr /\ p.ptr <= EndOf(p)
=============================================================================
