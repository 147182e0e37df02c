---------------------------- MODULE MCPolicySearch ----------------------------
(* A small instance of PolicySearch: versions that win, lose and are missing. *)
EXTENDS PolicySearch
=============================================================================
