------------------------------- MODULE Values -------------------------------
(***************************************************************************)
(* The values expat stores: of attributes, with their references replaced  *)
(* and their space normalized, and of entities, with only the character    *)
(* references replaced (src/libjudo/src/expat/xmlparse.c).                 *)
(*                                                                         *)
(* The declarations read so far are                                        *)
(*   entities    a set of [name, text, internal, notation],                *)
(*   complete    no declaration may have been skipped,                     *)
(*   standalone  the XML declaration says "yes".                           *)
(* open is the set of the names of the entities being expanded.            *)
(***************************************************************************)
EXTENDS Markup

\* The characters from number 32 to 95, and the letters of ours behind them.
FirstCodes == Chars(" !\"#$%&'()*+,-./0123456789:;<=>?@ABCDEFGHIJKLMNOPQRSTUVWXYZ[\\]^_")

\* XmlUtf8Encode, where two bytes stand for two, three and four.
XmlEncode(n) ==
  CASE n = 9 -> <<"\t">>
    [] n = 10 -> <<"\n">>
    [] n = 13 -> <<"\r">>
    [] n \in 32..93 -> <<FirstCodes[n - 31]>>
    [] n \in 97..122 -> <<Chars("abcdefghijklmnopqrstuvwxyz")[n - 96]>>
    [] OTHER -> <<"~", "^">>

Named(entities, name) == {e \in entities : e.name = name}

-----------------------------------------------------------------------------
Space(cdata, pool) == IF ~ cdata /\ (pool = <<>> \/ pool[Len(pool)] = " ") THEN pool
                      ELSE Append(pool, " ")

RECURSIVE appendAttributeValue(_, _, _, _, _, _), attributeToken(_, _, _, _, _, _, _)
appendAttributeValue(t, i, cdata, dtd, open, pool) ==
  attributeToken(t, i, Scan(t, i, "value"), cdata, dtd, open, pool)

\* k is the token at i.
attributeToken(t, i, k, cdata, dtd, open, pool) ==
  LET n    == charRefNumber(t, i)
      name == Slice(t, i + 1, k.next - 1)
      found == Named(dtd.entities, name)
      e     == CHOOSE x \in found : TRUE
      inner == appendAttributeValue(e.text, 1, cdata, dtd, open \cup {name}, pool)
      fail(error) == [error |-> error, pool |-> pool]
      on(to, p)   == appendAttributeValue(t, to, cdata, dtd, open, p)
  IN  CASE k.tok = "NONE" -> fail("NONE")
        [] k.tok \in {"INVALID", "PARTIAL"} -> fail("INVALID_TOKEN")
        [] k.tok = "CHAR_REF" ->
             IF n < 0 THEN fail("BAD_CHAR_REF")
             ELSE on(k.next, IF n = 32 THEN Space(cdata, pool) ELSE pool \o XmlEncode(n))
        [] k.tok = "DATA_CHARS" -> on(k.next, pool \o Slice(t, i, k.next))
        [] k.tok = "TRAILING_CR" -> on(i + 1, Space(cdata, pool))
        [] k.tok \in {"ATTRIBUTE_VALUE_S", "DATA_NEWLINE"} -> on(k.next, Space(cdata, pool))
        [] k.tok = "ENTITY_REF" /\ predefinedEntityName(name) # "" ->
             on(k.next, Append(pool, predefinedEntityName(name)))
        [] k.tok = "ENTITY_REF" /\ predefinedEntityName(name) = "" ->
             IF found = {} THEN IF dtd.complete THEN fail("UNDEFINED_ENTITY") ELSE on(k.next, pool)
             ELSE IF name \in open THEN fail("RECURSIVE_ENTITY_REF")
             ELSE IF e.notation THEN fail("BINARY_ENTITY_REF")
             ELSE IF ~ e.internal THEN fail("ATTRIBUTE_EXTERNAL_ENTITY_REF")
             ELSE IF inner.error # "NONE" THEN inner
             ELSE on(k.next, inner.pool)
        [] OTHER -> fail("UNEXPECTED_STATE")

\* A space at the end goes, unless the type is CDATA.
Trimmed(r, cdata) ==
  LET n == Len(r.pool)
  IN  IF r.error = "NONE" /\ ~ cdata /\ n > 0 /\ r.pool[n] = " "
      THEN [r EXCEPT !.pool = SubSeq(r.pool, 1, n - 1)] ELSE r

\* t is what is between the quotes.
storeAttributeValue(t, cdata, dtd, open) ==
  Trimmed(appendAttributeValue(t, 1, cdata, dtd, open, <<>>), cdata)

RECURSIVE storeEntityValue(_, _, _), entityToken(_, _, _, _)
storeEntityValue(t, i, pool) == entityToken(t, i, Scan(t, i, "entity"), pool)

entityToken(t, i, k, pool) ==
  LET n == charRefNumber(t, i)
      fail(error) == [error |-> error, pool |-> pool]
  IN  CASE k.tok = "NONE" -> fail("NONE")
        [] k.tok = "PARAM_ENTITY_REF" -> fail("SYNTAX")
        [] k.tok \in {"INVALID", "PARTIAL"} -> fail("INVALID_TOKEN")
        [] k.tok \in {"ENTITY_REF", "DATA_CHARS"} ->
             storeEntityValue(t, k.next, pool \o Slice(t, i, k.next))
        [] k.tok = "TRAILING_CR" -> storeEntityValue(t, i + 1, Append(pool, "\n"))
        [] k.tok = "DATA_NEWLINE" -> storeEntityValue(t, k.next, Append(pool, "\n"))
        [] k.tok = "CHAR_REF" ->
             IF n < 0 THEN fail("BAD_CHAR_REF")
             ELSE storeEntityValue(t, k.next, pool \o XmlEncode(n))
        [] OTHER -> fail("UNEXPECTED_STATE")
=============================================================================
