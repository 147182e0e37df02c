------------------------------- MODULE MCLaunch -------------------------------
(* Small instances of Launch: the constants are numbers given in the
   configurations.                                                          *)
EXTENDS Launch
=============================================================================
