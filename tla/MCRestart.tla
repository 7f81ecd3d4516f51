------------------------------- MODULE MCRestart -------------------------------
(***************************************************************************)
(* Small instances of Restart for TLC, with the values of MCEventForwarder.*)
(***************************************************************************)
EXTENDS MCEventForwarder, Restart
=============================================================================
