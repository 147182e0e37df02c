--------------------------- MODULE MCCommandGrants ---------------------------
(* Small instances of CommandGrants: three commands of one name, one of them
   without a request id, and one of a second name.                          *)
EXTENDS CommandGrants

CONSTANTS c1, c2, c3, r1, r2, r3, r4, RunController, UpdateCodeWorldModel

MCNameOf == [r \in Requests |-> IF r = r4 THEN UpdateCodeWorldModel ELSE RunController]
=============================================================================
