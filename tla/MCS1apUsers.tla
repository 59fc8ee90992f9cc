---------------------------- MODULE MCS1apUsers ----------------------------
(***************************************************************************)
(* TLC instances of S1apUsers.  Two RNTIs and two MME identities, so that  *)
(* identities are freed and given to another UE; four eNB identities, so   *)
(* that both UEs can leave and come back.                                  *)
(***************************************************************************)
EXTENDS S1apUsers

CONSTANTS r1, r2
MCRntis == {r1, r2}
MCMmeIds == {1, 2}

=============================================================================
