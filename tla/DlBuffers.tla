----------------------------- MODULE DlBuffers -----------------------------
(***************************************************************************)
(* The downlink of one user: its buffers as the RLC has them (upper/rlc.cc)*)
(* and as the scheduler knows them (lch[].buf_tx in mac/scheduler_ue.cc),  *)
(* the grants made from the latter and the MAC PDU filled from the former  *)
(* (mac/ue.cc).  The scheduler never asks: the RLC reports its buffer      *)
(* state after every SDU written, PDU written or PDU read.  The stack      *)
(* thread writes, the PHY worker schedules and reads; both hold only read  *)
(* locks of the RLC, so a report may be older than the one it overwrites.  *)
(* sched_mutex is held during a grant and during a report.                 *)
(*                                                                         *)
(* The user comes with a connection request (Msg3).  Its answer is Msg4:   *)
(* the contention resolution, a control element that the RRC asks the      *)
(* scheduler for, and the connection setup, which it writes to SRB0        *)
(* afterwards.  Everything else goes over SRB1bis.                         *)
(*                                                                         *)
(* In every TTI the worker runs the scheduler twice, for the downlink and  *)
(* for the uplink.  generate_tti_result never stores the TTI in the result *)
(* (sf_result->tti_params), so the second run generates the downlink       *)
(* grant of the TTI once more and takes its bytes off buf_tx again.        *)
(***************************************************************************)
EXTENDS Integers, Sequences

CONSTANTS
  SetupSizes,   \* sizes of a connection setup, in bytes
  SduSizes,     \* sizes of other SDUs
  Capacity      \* bytes that the queue of SRB1bis holds

ASSUME DlBuffersAssumption ==
  /\ SetupSizes \subseteq 1..76
  /\ SduSizes \subseteq Nat \ {0}
  /\ Capacity \in Nat

VARIABLES
  asked,        \* was the connection request handled?
  rlc,          \* bytes in the RLC's queues
  buf_tx,       \* lch[].buf_tx; buf_retx is always reported as 0
  pending_ces,  \* does it have the contention resolution?
  stack,        \* the stack thread: where it is and the report it is making
  worker,       \* where the PHY worker is
  pass,         \* which pass of the scheduler is the last
  i_sf,         \* of the grant of this TTI (data_allocs)
  tbs,          \* bytes of its transport block
  rem_tbs,      \* those that are not allocated
  pdu,          \* the grant: bytes per bearer
  ce,           \* does it have the contention resolution?
  mac_msg_dl,   \* the MAC PDU: its rem_len, and the SDUs in it
  reading,      \* the bearer being read, its bytes left, and the report
  resolved      \* was the contention resolution put in a PDU?

ueVars == <<buf_tx, pending_ces>>
grantVars == <<pass, i_sf, tbs, rem_tbs, pdu, ce>>
pduVars == <<mac_msg_dl, reading, resolved>>
vars == <<asked, rlc, stack, worker, ueVars, grantVars, pduVars>>

SRB0 == 0
SRB1bis == 3
Lcid == {SRB0, SRB1bis}

StackPc == {"idle", "write_sdu", "get_state", "report"}
WorkerPc == {"dl_sched", "mac_ces", "mac_sdus", "generate_pdu", "allocate_sdu", "read_pdu",
             "get_state", "report", "ul_sched"}

\* sched_mutex is held by the worker.
Locked == worker \in {"mac_ces", "mac_sdus"}

\* tbs_table_nbiot for one subframe (i_sf = 0) and for three (i_sf = 2), by MCS
TbsTable(i) ==
  IF i = 0 THEN <<16, 24, 32, 40, 56, 72, 88, 104, 120, 136, 144, 176, 208>>
           ELSE <<56, 88, 144, 176, 208, 224, 256, 328, 392, 456, 504, 584, 680>>
Mcs == 0..12
TbsBytes(i, mcs) == TbsTable(i)[mcs + 1] \div 8
MaxTbs == 85

Least(m, n) == IF m < n THEN m ELSE n
Most(m, n) == IF m > n THEN m ELSE n

ConResSize == 7         \* ce_total_size(CON_RES_ID)
MinMacSdu == 5          \* min_mac_sdu_size, min_alloc_bytes
SubheaderSize(n) == IF n > 128 THEN 3 ELSE 2

MaxBuf == Most(MaxTbs, Capacity + 3)

\* No grant, no PDU and nothing read: what the worker has in between
NoGrant == [l \in Lcid |-> 0]
NoPdu == [rem_len |-> 0, sdus |-> 0]
NoRead == [lcid |-> SRB0, sdu_len |-> 0, n |-> 0, tx_queue |-> 0]

(***************************************************************************)
(* Buffers never exceed what was written; what is allocated, put into a    *)
(* PDU or read stays within the transport block.                           *)
(***************************************************************************)
TypeOK ==
  /\ asked \in BOOLEAN /\ pending_ces \in BOOLEAN /\ ce \in BOOLEAN /\ resolved \in BOOLEAN
  /\ rlc \in [Lcid -> 0..MaxBuf]
  /\ buf_tx \in [Lcid -> 0..MaxBuf]
  /\ stack \in [at : StackPc, lcid : Lcid, tx_queue : 0..MaxBuf]
  /\ worker \in WorkerPc /\ pass \in {"dl", "ul"}
  /\ i_sf \in {0, 2} /\ tbs \in 0..MaxTbs /\ rem_tbs \in 0..MaxTbs
  /\ pdu \in [Lcid -> 0..MaxTbs]
  /\ mac_msg_dl \in [rem_len : 0..MaxTbs, sdus : Nat]
  /\ reading \in [lcid : Lcid, sdu_len : 0..MaxTbs, n : 0..MaxTbs,
                  tx_queue : 0..MaxBuf]

-----------------------------------------------------------------------------
(* The stack thread *)

\* Mutant: the contention resolution is not asked for.
ConnectionRequestUnresolved ==
  /\ stack.at = "idle" /\ ~asked
  /\ asked' = TRUE
  /\ stack' = [stack EXCEPT !.at = "write_sdu", !.lcid = SRB0]
  /\ UNCHANGED <<rlc, worker, ueVars, grantVars, pduVars>>

(***************************************************************************)
(* rrc::ue::handle_rrc_con_req and send_connection_setup up to             *)
(* mac::ue_set_crnti: "we need to resolve the contention by sending a      *)
(* ConRes CE".  A UE sends one request with an RNTI.                       *)
(***************************************************************************)
ConnectionRequest ==
  /\ stack.at = "idle" /\ ~asked /\ ~Locked
  /\ asked' = TRUE
  /\ pending_ces' = TRUE
  /\ stack' = [stack EXCEPT !.at = "write_sdu", !.lcid = SRB0]
  /\ UNCHANGED <<rlc, buf_tx, worker, grantVars, pduVars>>

\* The rest of it: send_dl_ccch, rlc::write_sdu
SendDlCcch(n) ==
  /\ stack.at = "write_sdu"
  /\ rlc' = [rlc EXCEPT ![SRB0] = n]
  /\ stack' = [stack EXCEPT !.at = "get_state"]
  /\ UNCHANGED <<asked, worker, ueVars, grantVars, pduVars>>

\* Mutant: with a discarded SDU an empty buffer is reported.
WriteSduReportsNothing(n) ==
  /\ stack.at = "idle" /\ asked
  /\ IF rlc[SRB1bis] + n <= Capacity
       THEN /\ rlc' = [rlc EXCEPT ![SRB1bis] = @ + n]
            /\ stack' = [stack EXCEPT !.at = "get_state", !.lcid = SRB1bis]
       ELSE /\ UNCHANGED rlc
            /\ stack' = [at |-> "report", lcid |-> SRB1bis, tx_queue |-> 0]
  /\ UNCHANGED <<asked, worker, ueVars, grantVars, pduVars>>

\* send_dl_dcch, rlc::write_sdu: the SDU goes into the queue; one that finds it
\* full is discarded, and the buffer state is reported all the same.
WriteSdu(n) ==
  /\ stack.at = "idle" /\ asked
  /\ rlc' = [rlc EXCEPT ![SRB1bis] = IF @ + n <= Capacity THEN @ + n ELSE @]
  /\ stack' = [stack EXCEPT !.at = "get_state", !.lcid = SRB1bis]
  /\ UNCHANGED <<asked, worker, ueVars, grantVars, pduVars>>

\* rlc::write_pdu: a PDU of the UE came on SRB1bis.
WritePdu ==
  /\ stack.at = "idle" /\ asked
  /\ stack' = [stack EXCEPT !.at = "get_state", !.lcid = SRB1bis]
  /\ UNCHANGED <<asked, rlc, worker, ueVars, grantVars, pduVars>>

\* rlc::get_buffer_state, with room for the header on SRB1bis
BufferState(l) == IF l = SRB0 \/ rlc[l] = 0 THEN rlc[l] ELSE rlc[l] + 3

StackGetState ==
  /\ stack.at = "get_state"
  /\ stack' = [stack EXCEPT !.at = "report", !.tx_queue = BufferState(stack.lcid)]
  /\ UNCHANGED <<asked, rlc, worker, ueVars, grantVars, pduVars>>

\* mac::rlc_buffer_state, sched_ue::dl_buffer_state
StackReport ==
  /\ stack.at = "report" /\ ~Locked
  /\ buf_tx' = [buf_tx EXCEPT ![stack.lcid] = stack.tx_queue]
  /\ stack' = [at |-> "idle", lcid |-> SRB0, tx_queue |-> 0]
  /\ UNCHANGED <<asked, rlc, pending_ces, worker, grantVars, pduVars>>

-----------------------------------------------------------------------------
(* The worker makes the grant *)

\* compute_sdu_total_bytes
SduTotalBytes(l) ==
  IF buf_tx[l] = 0 THEN 0
  ELSE IF l = SRB0 THEN buf_tx[l] + SubheaderSize(buf_tx[l])
  ELSE Most(buf_tx[l] + SubheaderSize(buf_tx[l]), MinMacSdu)

\* get_requested_dl_bytes, the maximum; the minimum is positive if it is
RequestedDlBytes ==
  SduTotalBytes(SRB0) + SduTotalBytes(SRB1bis) + (IF pending_ces THEN ConResSize ELSE 0)

\* generate_formatN1: the first MCS whose transport block is larger than what
\* is requested, or the last
IsMcs(i, mcs) ==
  /\ TbsBytes(i, mcs) > RequestedDlBytes \/ mcs = 12
  /\ \A k \in 0..mcs - 1 : TbsBytes(i, k) <= RequestedDlBytes

\* The start of generate_formatN1
GenerateFormatN1(i) ==
  /\ \E mcs \in Mcs : IsMcs(i, mcs) /\ tbs' = TbsBytes(i, mcs)
  /\ rem_tbs' = tbs'
  /\ pdu' = NoGrant
  /\ ce' = FALSE
  /\ worker' = "mac_ces"

\* Mutant: one subframe whatever the size
DlSchedShort ==
  /\ worker = "dl_sched"
  /\ RequestedDlBytes > 0
  /\ pass' = "dl"
  /\ i_sf' = 0
  /\ GenerateFormatN1(i_sf')
  /\ UNCHANGED <<asked, rlc, stack, ueVars, pduVars>>

(***************************************************************************)
(* The downlink pass: the user gets a grant of one subframe, or of three,  *)
(* if it has data and the subframe is free (allocate_user, alloc_dl_user). *)
(***************************************************************************)
DlSched ==
  /\ worker = "dl_sched"
  /\ RequestedDlBytes > 0
  /\ pass' = "dl"
  /\ i_sf' = IF RequestedDlBytes > 20 THEN 2 ELSE 0
  /\ GenerateFormatN1(i_sf')
  /\ UNCHANGED <<asked, rlc, stack, ueVars, pduVars>>

\* The uplink pass generates the downlink grant again, from the buffers as
\* they are now.
UlSched ==
  /\ worker = "ul_sched"
  /\ pass' = "ul"
  /\ GenerateFormatN1(i_sf)
  /\ UNCHANGED <<asked, rlc, stack, ueVars, i_sf, pduVars>>

\* allocate_mac_ces
AllocateMacCes ==
  /\ worker = "mac_ces"
  /\ worker' = "mac_sdus"
  /\ IF pending_ces /\ rem_tbs >= ConResSize
       THEN ce' = TRUE /\ pending_ces' = FALSE /\ rem_tbs' = rem_tbs - ConResSize
       ELSE UNCHANGED <<ce, pending_ces, rem_tbs>>
  /\ UNCHANGED <<asked, rlc, buf_tx, stack, pass, i_sf, tbs, pdu, pduVars>>

\* Mutant: the space for an SDU is all that is left.
MaxSduBytesAll == rem_tbs

\* What may be allocated besides the subheader
MaxSduBytes == rem_tbs - SubheaderSize(rem_tbs - 2)

\* alloc_rlc_pdu: the first bearer with data
FirstWithData(l) == buf_tx[l] > 0 /\ \A k \in Lcid : k < l => buf_tx[k] = 0

\* Mutant: the subheader is not accounted for.
AllocRlcPduBare(l) ==
  LET n == Least(buf_tx[l], MaxSduBytes)
  IN /\ worker = "mac_sdus"
     /\ rem_tbs >= MinMacSdu
     /\ FirstWithData(l)
     /\ buf_tx' = [buf_tx EXCEPT ![l] = @ - n]
     /\ pdu' = [pdu EXCEPT ![l] = n]
     /\ rem_tbs' = rem_tbs - n
     /\ UNCHANGED <<asked, rlc, pending_ces, stack, worker, pass, i_sf, tbs, ce, pduVars>>

\* One turn of the loop in allocate_mac_sdus
AllocRlcPdu(l) ==
  LET n == Least(buf_tx[l], MaxSduBytes)
  IN /\ worker = "mac_sdus"
     /\ rem_tbs >= MinMacSdu
     /\ FirstWithData(l)
     /\ buf_tx' = [buf_tx EXCEPT ![l] = @ - n]
     /\ pdu' = [pdu EXCEPT ![l] = n]
     /\ rem_tbs' = rem_tbs - (n + SubheaderSize(n))
     /\ UNCHANGED <<asked, rlc, pending_ces, stack, worker, pass, i_sf, tbs, ce,
                    pduVars>>

\* The end of the pass: the grant of the uplink pass is not used.
SchedEnds ==
  /\ worker = "mac_sdus"
  /\ rem_tbs < MinMacSdu \/ \A l \in Lcid : buf_tx[l] = 0
  /\ IF pass = "dl"
       THEN worker' = "generate_pdu" /\ UNCHANGED <<i_sf, tbs, pdu, ce>>
       ELSE worker' = "dl_sched" /\ i_sf' = 0 /\ tbs' = 0 /\ pdu' = NoGrant /\ ce' = FALSE
  /\ rem_tbs' = 0
  /\ UNCHANGED <<asked, rlc, stack, ueVars, pass, pduVars>>

-----------------------------------------------------------------------------
(* The worker fills the PDU *)

\* sch_pdu::get_sdu_space: the subheader of the last SDU has one byte.
SduSpace == mac_msg_dl.rem_len - (IF mac_msg_dl.sdus = 0 THEN 1 ELSE 2)

\* ue::generate_pdu: init_tx with the size of the grant, allocate_ce
GeneratePdu ==
  /\ worker = "generate_pdu"
  /\ worker' = "allocate_sdu"
  /\ mac_msg_dl' = [rem_len |-> IF ce THEN tbs - ConResSize ELSE tbs, sdus |-> 0]
  /\ reading' = [NoRead EXCEPT !.lcid = SRB0]
  /\ resolved' = (resolved \/ ce)
  /\ UNCHANGED <<asked, rlc, stack, ueVars, grantVars>>

\* ue::allocate_sdu
AllocateSdu ==
  /\ worker = "allocate_sdu"
  /\ worker' = "read_pdu"
  /\ reading' = [reading EXCEPT !.sdu_len = Least(pdu[reading.lcid], Most(SduSpace, 0)), !.n = 1]
  /\ UNCHANGED <<asked, rlc, stack, ueVars, grantVars, mac_msg_dl, resolved>>

\* Is there another turn of its loop?
ReadsMore == reading.sdu_len >= 2 /\ reading.n > 0 /\ SduSpace >= reading.sdu_len

\* What rlc::read_pdu takes from the queue: SRB0 (TM) gives whole SDUs, SRB1bis
\* (AM) what fits beside a header of two bytes, but never a single byte.
BytesTaken(l, len) ==
  IF l = SRB0 THEN (IF rlc[l] > len THEN 0 ELSE rlc[l])
  ELSE IF len < 4 THEN 0 ELSE Least(rlc[l], len - 2)

ReadPdu ==
  LET l == reading.lcid
      taken == BytesTaken(l, reading.sdu_len)
      n == IF l = SRB0 \/ taken = 0 THEN taken ELSE taken + 2
  IN /\ worker = "read_pdu" /\ ReadsMore
     /\ worker' = "get_state"
     /\ rlc' = [rlc EXCEPT ![l] = @ - taken]
     /\ reading' = [reading EXCEPT !.sdu_len = @ - n, !.n = n]
     /\ mac_msg_dl' = IF n > 0 THEN [rem_len |-> SduSpace - n, sdus |-> mac_msg_dl.sdus + 1]
                               ELSE mac_msg_dl
     /\ UNCHANGED <<asked, stack, ueVars, grantVars, resolved>>

WorkerGetState ==
  /\ worker = "get_state"
  /\ worker' = "report"
  /\ reading' = [reading EXCEPT !.tx_queue = BufferState(reading.lcid)]
  /\ UNCHANGED <<asked, rlc, stack, ueVars, grantVars, mac_msg_dl, resolved>>

WorkerReport ==
  /\ worker = "report"
  /\ worker' = "read_pdu"
  /\ buf_tx' = [buf_tx EXCEPT ![reading.lcid] = reading.tx_queue]
  /\ reading' = [reading EXCEPT !.tx_queue = 0]
  /\ UNCHANGED <<asked, rlc, stack, pending_ces, grantVars, mac_msg_dl, resolved>>

\* The next bearer, or the end of generate_pdu
NextSdu ==
  /\ worker = "read_pdu" /\ ~ReadsMore
  /\ IF reading.lcid = SRB0
       THEN /\ worker' = "allocate_sdu"
            /\ reading' = [NoRead EXCEPT !.lcid = SRB1bis]
            /\ UNCHANGED mac_msg_dl
       ELSE worker' = "ul_sched" /\ reading' = NoRead /\ mac_msg_dl' = NoPdu
  /\ UNCHANGED <<asked, rlc, stack, ueVars, grantVars, resolved>>

-----------------------------------------------------------------------------

Init ==
  /\ asked = FALSE
  /\ rlc = [l \in Lcid |-> 0] /\ buf_tx = [l \in Lcid |-> 0] /\ pending_ces = FALSE
  /\ stack = [at |-> "idle", lcid |-> SRB0, tx_queue |-> 0]
  /\ worker = "dl_sched" /\ pass = "ul"
  /\ i_sf = 0 /\ tbs = 0 /\ rem_tbs = 0 /\ pdu = NoGrant /\ ce = FALSE
  /\ mac_msg_dl = NoPdu
  /\ reading = NoRead
  /\ resolved = FALSE

Arrivals ==
  ConnectionRequest \/ WritePdu \/ \E n \in SduSizes : WriteSdu(n)

StackStep == (\E n \in SetupSizes : SendDlCcch(n)) \/ StackGetState \/ StackReport

WorkerStep ==
  \/ DlSched \/ UlSched \/ AllocateMacCes \/ (\E l \in Lcid : AllocRlcPdu(l)) \/ SchedEnds
  \/ GeneratePdu \/ AllocateSdu \/ ReadPdu \/ WorkerGetState \/ WorkerReport \/ NextSdu

Next == Arrivals \/ StackStep \/ WorkerStep

\* Both threads run whenever they can, and a user with data gets a subframe in
\* the end.
Fairness == WF_vars(StackStep) /\ WF_vars(WorkerStep)

Spec == Init /\ [][Next]_vars /\ Fairness

-----------------------------------------------------------------------------

(***************************************************************************)
(* "allocated bytes, which is always equal or lower than total_tbs"        *)
(* (allocate_mac_sdus): what the scheduler allocated on its own reckoning  *)
(* of subheaders fits into the PDU that ue::generate_pdu builds with       *)
(* another; no SDU is cut that the grant was large enough for.             *)
(***************************************************************************)
GrantHasRoom ==
  worker = "allocate_sdu" /\ pdu[reading.lcid] > 0 => SduSpace >= pdu[reading.lcid]

(***************************************************************************)
(* "SRB0 is a special case due to being RLC TM (no segmentation possible)" *)
(* (get_requested_dl_bytes): a downlink grant takes all of SRB0's data or  *)
(* none, although size and MCS are chosen for the sum of all bearers.      *)
(***************************************************************************)
Srb0Whole ==
  worker = "mac_sdus" /\ pass = "dl" /\ pdu[SRB0] > 0 => buf_tx[SRB0] = 0

(***************************************************************************)
(* The connection setup does not leave before the contention is resolved:  *)
(* the control element is in the same PDU or in an earlier one, wherever   *)
(* the worker runs between the two calls of send_connection_setup.         *)
(***************************************************************************)
ResolvedFirst == [][rlc'[SRB0] < rlc[SRB0] => resolved]_vars

(***************************************************************************)
(* "There is no polling for buffer state from the scheduler, thus          *)
(* communicate buffer state every time" (rlc.cc): between the tasks of the *)
(* stack thread and the TTIs of the worker, the scheduler knows of the     *)
(* data that waits in the RLC.                                             *)
(***************************************************************************)
NothingForgotten ==
  stack.at = "idle" /\ worker = "dl_sched" =>
    \A l \in Lcid : rlc[l] > 0 => buf_tx[l] > 0

(***************************************************************************)
(* As long as SDUs are written, and not every report of the stack thread   *)
(* falls between the two passes of a TTI, data is sent: whatever the       *)
(* scheduler forgot or an old report hid is found again, even if the queue *)
(* is full and the SDU itself is discarded (rlc::write_sdu).               *)
(***************************************************************************)
TrafficIsServed ==
  /\ []<><<\E n \in SduSizes : WriteSdu(n)>>_vars
  /\ []<><<StackReport /\ worker = "dl_sched" /\ stack.tx_queue > 0>>_vars
  => []<><<ReadPdu /\ rlc' # rlc>>_vars

=============================================================================
