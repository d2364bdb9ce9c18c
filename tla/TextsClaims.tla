----------------------------- MODULE TextsClaims -----------------------------
(***************************************************************************)
(* Two sentences about texts that the code breaks, for one reason: memory   *)
(* that nothing has set decides what comes out.  An application builds an  *)
(* element, and asks a query with "//" of another one.  What the code does *)
(* is ReadBack of Elements and FindsWhatIsMeant of Queries.                 *)
(***************************************************************************)
EXTENDS Elements, Queries

vars == <<elementVars, queryVars>>

ClaimsInit == ElementInit /\ QueryInit /\ Descends

ClaimsNext ==
    \/ ElementNext /\ UNCHANGED queryVars
    \/ QueryNext /\ UNCHANGED elementVars

ClaimsSpec == ClaimsInit /\ [][ClaimsNext]_vars

-----------------------------------------------------------------------------
(***************************************************************************)
(* At no time are both sentences broken at once.  A behavior that ends in a *)
(* state where they are shows the two disagreements side by side: an "&" of *)
(* the element that is read together with what lies behind it              *)
(* (DataEndsWithItsLength), and a query that finds something else than what *)
(* it means (AllDescends).                                                  *)
(***************************************************************************)
LengthClaimOrDescentClaim == DataEndsWithItsLength \/ AllDescends
=============================================================================
