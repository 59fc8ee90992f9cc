---------------------------- MODULE MCUeContext ----------------------------
(***************************************************************************)
(* TLC instances of UeContext.  Two RNTIs are enough for one UE to be      *)
(* released while another arrives, and for the allocator to come round.    *)
(***************************************************************************)
EXTENDS UeContext

MCRnti == {1, 2}
MCNextRnti == [r \in MCRnti |-> 3 - r]

=============================================================================
