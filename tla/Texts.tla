-------------------------------- MODULE Texts --------------------------------
(***************************************************************************)
(* What the library reads and writes, checked in one run: documents in     *)
(* pieces (Documents), declarations (Declarations), elements written out   *)
(* and read back (Elements), queries (Queries), and the names and values a *)
(* parser keeps (DTDTables).  These have no state in common; a behavior    *)
(* takes one of them up, and the variables of the others stay as they are. *)
(***************************************************************************)
EXTENDS Documents, Declarations, Elements, Queries, DTDTables

VARIABLE suite

\* Names for DTDTables, two of one hash modulo 8, and the ASCII codes of their
\* characters and of what malloc leaves
SomeStrings == {<<"a">>, <<"i">>, <<"a", "c", "i">>}
CodeOf(c) == CASE c = "a" -> 97 [] c = "c" -> 99 [] c = "i" -> 105 [] OTHER -> 63

NoQuery == /\ query = [text |-> <<>>, steps |-> <<>>] /\ target = <<>> /\ result = [asked |-> FALSE]
NoDocument == XMLInit({[text |-> <<>>, wellFormed |-> FALSE]})

TextsInit ==
  \/ suite = "documents" /\ XMLInit(AllDocuments) /\ DeclIdle /\ ElementInit /\ NoQuery /\ DTDInit
  \/ suite = "queries" /\ QueryInit /\ NoDocument /\ DeclIdle /\ ElementInit /\ DTDInit
  \/ suite = "declarations" /\ DeclInit /\ NoDocument /\ ElementInit /\ NoQuery /\ DTDInit
  \/ suite \in {"elements", "tables"}
       /\ NoDocument /\ DeclIdle /\ ElementInit /\ NoQuery /\ DTDInit

TextsNext ==
  /\ UNCHANGED suite
  /\ \/ /\ suite = "documents" /\ XMLNext
        /\ UNCHANGED <<declVars, elementVars, queryVars, dtdVars>>
     \/ /\ suite = "declarations" /\ DeclNext
        /\ UNCHANGED <<xmlVars, elementVars, queryVars, dtdVars>>
     \/ /\ suite = "elements" /\ ElementNext
        /\ UNCHANGED <<xmlVars, declVars, queryVars, dtdVars>>
     \/ /\ suite = "queries" /\ QueryNext
        /\ UNCHANGED <<xmlVars, declVars, elementVars, dtdVars>>
     \/ /\ suite = "tables" /\ DTDNext
        /\ UNCHANGED <<xmlVars, declVars, elementVars, queryVars>>

textsVars == <<suite, xmlVars, declVars, elementVars, queryVars, dtdVars>>
TextsSpec == TextsInit /\ [][TextsNext]_textsVars
=============================================================================
