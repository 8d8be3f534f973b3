---------------------------- MODULE MCSockStream ----------------------------
(* The bounds of SockStream are numbers, given in the configurations. *)
EXTENDS SockStream
=============================================================================
