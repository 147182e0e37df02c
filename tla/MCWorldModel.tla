---------------------------- MODULE MCWorldModel ----------------------------
(* Instance of WorldModel for TLC: every step function over three States that
   leads from the last to the first on the right, and every rendering of the
   last two, against a log with repeated histories and a log of one start.   *)
EXTENDS WorldModel

CONSTANTS s1, s2, s3, dark, light, won, left, right

MCStates == {s1, s2, s3}
MCObservations == {dark, light, won}
MCActions == {left, right}
MCActionsFor == [obs \in MCObservations |-> <<left, right>>]
MCModels ==
  {[initial |-> [obs \in MCObservations |-> s1], step |-> f, render |-> g] :
     f \in {h \in [MCStates \X MCActions -> MCStates] : h[<<s3, right>>] = s1},
     g \in {r \in [MCStates -> MCObservations] : r[s1] = dark /\ r[s2] # won}}
MCUtilities == {[s \in MCStates |-> IF s = s3 THEN top ELSE 1] : top \in {0, 2}}

Took(action, obs) == [action |-> action, obs |-> obs]
Began(steps) == [first |-> dark, steps |-> steps]
MCLogs == {<<Began(<<>>)>>,
           <<Began(<<Took(left, dark), Took(left, dark), Took(right, light)>>), Began(<<Took(left, dark)>>),
             Began(<<Took(left, dark), Took(right, dark)>>)>>}

-----------------------------------------------------------------------------
=============================================================================
