---------------------------- MODULE MCCoordinator ----------------------------
(* Small instances of Coordinator.  q1 and q2 share a request id, as a client
   that sends a command again does; q4, q5 and q6 carry none.  Commands of the
   same name without ids are interchangeable.                               *)
EXTENDS Coordinator, TLC

CONSTANTS q1, q2, q3, q4, q5, q6, id1, id3

MCRidOf == [r \in Requests |-> CASE r \in {q1, q2} -> id1
                                 [] r = q3 -> id3
                                 [] OTHER -> NoRid]
NoIds == [r \in Requests |-> NoRid]
VanillaNames == [r \in Requests |-> IF r = q3 THEN "Reset" ELSE "RunController"]
ModelNames == [r \in Requests |-> CASE r \in {q3, q6} -> "UpdateCodeWorldModel"
                                    [] r = q4 -> "PlanInCWM"
                                    [] OTHER -> "RunController"]
Interchangeable == Permutations({q1, q5}) \cup Permutations({q3, q6})
=============================================================================
