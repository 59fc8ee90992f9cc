----------------------------- MODULE MCSfWorker -----------------------------
(***************************************************************************)
(* SfWorker for TLC: user 1 is connected and has downlink data for one or  *)
(* for three subframes, user 2 comes by random access and reports uplink   *)
(* data.  Eight frames make a period: every kind of frame (SIB1, SIB2,     *)
(* NSSS) meets every subframe of the search spaces, whose periods are 8    *)
(* and 16.                                                                 *)
(***************************************************************************)
EXTENDS SfWorker

MCRnti == {1, 2}
MCConnected == {1}
MCUlUsers == {2}
MCDlData == {<<1, 1>>, <<1, 3>>}

=============================================================================
