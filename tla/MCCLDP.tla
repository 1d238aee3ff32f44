------------------------------- MODULE MCCLDP -------------------------------
(* Instance of CLDP for TLC: a server and a client of each version.        *)
EXTENDS CLDP
=============================================================================
