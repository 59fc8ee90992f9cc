---------------------------- MODULE MCS1apSetup ----------------------------
(***************************************************************************)
(* TLC instance of S1apSetup: up to four packets wait for the stack        *)
(* thread, enough for a stale packet to follow the one that closes its     *)
(* socket and for answers of two successive sockets to be queued together. *)
(***************************************************************************)
EXTENDS S1apSetup

=============================================================================
