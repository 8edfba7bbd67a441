------------------------------- MODULE MCCli -------------------------------
(* A step of 5 units with a grain of 2 makes every second delay inexact;   *)
(* a second loop meets what the first has left behind.                     *)
EXTENDS Cli
=============================================================================
