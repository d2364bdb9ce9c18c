------------------------ MODULE MCPresenceClaims ------------------------
(* A user with two resources, who may be named without one as well. *)
EXTENDS PresenceClaims

CONSTANTS u, r1, r2, low

Named == [bare : {u}, res : {r1, r2, NoRes}, sp : {low}]

=============================================================================
