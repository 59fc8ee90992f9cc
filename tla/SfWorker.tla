------------------------------ MODULE SfWorker ------------------------------
(***************************************************************************)
(* The subframe worker of the PHY (phy/sf_worker.cc) on top of the carrier *)
(* scheduler: what really goes on air and what is received, subframe by    *)
(* subframe.  The scheduler books subframes; the worker gets the grants of *)
(* the TTI only, queues downlink data until its subframe comes, sends SIB1 *)
(* and SIB2 as it is told, and has one slot for an uplink grant, which it  *)
(* remembers for the thirteen TTIs until the UE transmits.                 *)
(*                                                                         *)
(* A received PDU goes to the buffer that mac::get_ul_sched requested for  *)
(* the grant (pending_buffers, one per TTI modulo 8), and the reports in   *)
(* it reach the scheduler when the stack thread processes it.              *)
(***************************************************************************)
EXTENDS SchedGrid

CONSTANTS
  MaxPdus,     \* bound on the PDUs of a user that wait for the stack thread
  MaxGrants    \* bound: data arrives while fewer downlink grants are pending

ASSUME SfWorkerAssumption == MaxPdus \in Nat \ {0} /\ MaxGrants \in Nat

VARIABLES
  dl_pending_grants,  \* downlink grants that wait for their first subframe
  npdsch,             \* the NPDSCH being sent, with the subframes left
  sib1_cfg,           \* sib1_npdsch_cfg.sf_idx: subframes of SIB1 sent, 0 if none
  ugrant,             \* the slot: has_ugrant, npusch_start, npusch_rnti, npusch_data
  enb_ul,             \* the NPUSCH being received, with the subframes left
  pending_buffers,    \* per user, the entries that hold a buffer
  pdus                \* per user, RNTIs of the senders of the queued PDUs

phyVars == <<dl_pending_grants, npdsch, sib1_cfg, ugrant, enb_ul, pending_buffers, pdus>>
allVars == <<vars, phyVars>>

NofRxHarq == 8
Nobody == 0

Grant == [start : Tti, sfs : 0..3, rnti : Rnti]

(***************************************************************************)
(* The tables of the scheduler, the members of the worker and the buffers  *)
(* of the users keep their types, and PDUs queue up for users of ue_db.    *)
(***************************************************************************)
PhyTypeOK ==
  /\ TypeOK
  /\ dl_pending_grants \in Seq(Grant)
  /\ npdsch \in [rnti : Rnti \cup {Nobody}, left : 0..Sib2NumSf]
  /\ sib1_cfg \in 0..Sib1NumSf - 1
  /\ ugrant \in [on : BOOLEAN, start : Tti, rnti : Rnti \cup {Nobody}, data : BOOLEAN]
  /\ enb_ul \in [rnti : Rnti \cup {Nobody}, left : 0..NofUlSfs]
  /\ pending_buffers \in [Rnti -> SUBSET (0..NofRxHarq - 1)]
  /\ pdus \in [Rnti -> Seq(Rnti)]
  /\ \A u \in Rnti \ users : pdus[u] = <<>>

-----------------------------------------------------------------------------
(* work_dl, for the subframe TtiTxDl; the grants are those of the downlink *)
(* pass.                                                                   *)

\* The grant with a DCI, if there is one: mac::get_dl_sched hands over one.
DciNow == {b \in dl : b.tti = TtiTxDl /\ b.what \in {"rar_dci", "dl_dci"}}

Ahead(x) == (x + Period - TtiTxDl) % Period < Period \div 2

\* srslte_ra_nbiot_dl_dci_to_grant: the first valid subframe five after the DCI
GrantOf(b) ==
  [start |-> RarTxTti(TtiTxDl),
   sfs   |-> IF b.what = "rar_dci" THEN 1
             ELSE Cardinality({c \in dl : c.what = "data" /\ c.rnti = b.rnti /\ Ahead(c.tti)}),
   rnti  |-> b.rnti]

Queued ==
  IF DciNow = {} THEN dl_pending_grants
  ELSE Append(dl_pending_grants, GrantOf(CHOOSE b \in DciNow : TRUE))

Sib1Now == Book(TtiTxDl, "sib1", 0) \in dl
Sib2Now == Book(TtiTxDl, "sib2", 0) \in dl /\ IsSib2Start(TtiTxDl)

\* Mutant: a new SIB1 is not configured while the old one is under way.
HasSib1CfgKeepsOld == Sib1Now /\ sib1_cfg > 0

\* is_new_sib, or a configuration that is not finished
HasSib1Cfg == Sib1Now /\ (sib1_sf_idx = 1 \/ sib1_cfg > 0)

\* sf_idx, with which srslte_npdsch_encode_seq finds the symbols of the subframe.
\* It counts on from one repetition to the next, beyond the eight encoded ones,
\* and from wherever the MAC was started: it is not the part of SIB1 that the UEs
\* expect.  The symbols themselves are left out.
Sib1SfIdx == IF sib1_sf_idx = 1 THEN 0 ELSE sib1_cfg

\* SIB2 takes the place of what is being sent.
AfterSib2 == IF Sib2Now THEN [rnti |-> Nobody, left |-> Sib2NumSf] ELSE npdsch

\* Only the first grant is looked at, and only when nothing is being sent.
HeadStarts ==
  AfterSib2.left = 0 /\ Queued # <<>> /\ Head(Queued).start = TtiTxDl

AfterStart ==
  IF HeadStarts THEN [rnti |-> Head(Queued).rnti, left |-> Head(Queued).sfs] ELSE AfterSib2

SendsNpdsch == ~HasSib1Cfg /\ AfterStart.left > 0 /\ IsValidDlSf(TtiTxDl)

\* The worker is done with SIB1 when all its subframes are sent.
NextSib1 == (Sib1SfIdx + 1) % Sib1NumSf

WorkDl ==
  /\ sib1_cfg' = IF HasSib1Cfg THEN NextSib1 ELSE sib1_cfg
  /\ dl_pending_grants' = IF HeadStarts THEN Tail(Queued) ELSE Queued
  /\ npdsch' = IF ~SendsNpdsch THEN AfterStart
               ELSE IF AfterStart.left = 1 THEN [rnti |-> Nobody, left |-> 0]
               ELSE [AfterStart EXCEPT !.left = @ - 1]

-----------------------------------------------------------------------------
(* work_ul, for the subframe tti_rx; the grants are those of the uplink    *)
(* pass, in the same step.                                                 *)

Msg3Now == {m.rnti : m \in {n \in msg3 : n.tti = tti_rx}}
UlDciNow == {b.rnti : b \in {c \in dl' : c.tti = TtiTxDl /\ c.what = "ul_dci"}}

\* mac::get_ul_sched, ue::request_buffer: no buffer if the entry has one.
Slot(t) == t % NofRxHarq
HasBuffer(u) == Slot(TtiTxUl) \notin pending_buffers[u]
Requested == [u \in Rnti |-> IF u \in Msg3Now \cup UlDciNow
                               THEN pending_buffers[u] \cup {Slot(TtiTxUl)}
                               ELSE pending_buffers[u]]

\* work_imp: of several grants the first is recorded, a Msg3 before others.
Recorded ==
  IF Msg3Now \cup UlDciNow = {} THEN ugrant
  ELSE LET u == CHOOSE v \in IF Msg3Now # {} THEN Msg3Now ELSE UlDciNow : TRUE
       IN [on |-> TRUE, start |-> TtiTxUl, rnti |-> u, data |-> HasBuffer(u)]

\* The members mean nothing while has_ugrant is false or no subframe is left.
NoGrant == [on |-> FALSE, start |-> 0, rnti |-> Nobody, data |-> FALSE]
NotReceiving == [rnti |-> Nobody, left |-> 0]

\* sonica_enb_ul_nbiot_cfg_grant, when the first subframe comes
Receiving ==
  IF Recorded.on /\ tti_rx = Recorded.start
    THEN [rnti |-> Recorded.rnti, left |-> NofUlSfs]
    ELSE enb_ul

\* Does this subframe complete the reception?
Completes == Receiving.left = 1

(***************************************************************************)
(* mac::crc_info for what was received, under the RNTI and the start that  *)
(* the slot has now.  A transport block that cannot be decoded is reported *)
(* as correct too, with one of the prepared contents (dummy_data), or as   *)
(* false; a correct one is queued (push_pdu), if there is a buffer for it. *)
(***************************************************************************)
CrcInfo(crc) ==
  LET u    == Recorded.rnti
      slot == Slot(Recorded.start)
      found == slot \in Requested[u]
  IN /\ pending_buffers' = [Requested EXCEPT ![u] = @ \ {slot}]
     /\ pdus' = IF crc /\ found /\ Len(pdus[u]) < MaxPdus
                  THEN [pdus EXCEPT ![u] = Append(@, Receiving.rnti)]
                  ELSE pdus

WorkUl ==
  /\ enb_ul' = IF Receiving.left > 1 THEN [Receiving EXCEPT !.left = @ - 1] ELSE NotReceiving
  /\ ugrant' = IF Completes THEN NoGrant ELSE Recorded
  /\ IF Completes /\ Recorded.rnti # Nobody
       THEN \E crc \in BOOLEAN : CrcInfo(crc)
       ELSE pending_buffers' = Requested /\ UNCHANGED pdus

-----------------------------------------------------------------------------

\* work_imp: the uplink pass follows the downlink pass, then work_ul, work_dl
WorkImp == UlPass /\ WorkUl /\ WorkDl

GetDlSched == DlPass /\ UNCHANGED phyVars

\* ue::process_pdus in the stack thread: the PDU reports data, or none, or has
\* no report
ProcessPdu(u) ==
  /\ pdus[u] # <<>>
  /\ pdus' = [pdus EXCEPT ![u] = Tail(@)]
  /\ (u \in UlUsers /\ \E data, wait \in BOOLEAN : UlBsr(u, data, wait)) \/ UNCHANGED vars
  /\ UNCHANGED <<dl_pending_grants, npdsch, sib1_cfg, ugrant, enb_ul, pending_buffers>>

OtherReports ==
  /\ \/ \E r \in Rnti : DlRachInfo(r)
     \/ Len(dl_pending_grants) < MaxGrants /\ \E d \in DlData : DlRlcBufferState(d[1], d[2])
  /\ UNCHANGED phyVars

PhyInit ==
  /\ Init
  /\ dl_pending_grants = <<>>
  /\ npdsch = [rnti |-> Nobody, left |-> 0]
  /\ sib1_cfg = 0
  /\ ugrant = NoGrant
  /\ enb_ul = NotReceiving
  /\ pending_buffers = [u \in Rnti |-> {}]
  /\ pdus = [u \in Rnti |-> <<>>]

PhyNext == GetDlSched \/ WorkImp \/ (\E u \in Rnti : ProcessPdu(u)) \/ OtherReports

PhySpec == PhyInit /\ [][PhyNext]_allVars

-----------------------------------------------------------------------------

(***************************************************************************)
(* Wherever they begin, the scheduler, which counts the SIB1s that it      *)
(* schedules, and the worker, which counts those that it sends, stay in    *)
(* step: in every subframe of SIB1 the worker sends SIB1 and nothing else, *)
(* and is told that a new one begins when it is done with the old one, so  *)
(* that neither warning of work_dl comes ("Original SIB1 config has not    *)
(* finished transmission", "New SIB1 configuration missing").              *)
(***************************************************************************)
Sib1InStep ==
  pass = "ul" /\ IsSib1Sf(TtiTxDl) =>
    /\ HasSib1Cfg /\ ~SendsNpdsch /\ DciNow = {}
    /\ sib1_sf_idx = 1 <=> sib1_cfg = 0

(***************************************************************************)
(* "transmit DCI immediately and queue the data" (work_dl): a grant whose  *)
(* first subframe is over is not in the queue any more.                    *)
(***************************************************************************)
QueuedIsSent ==
  pass = "ul" => \A i \in 1..Len(Queued) : Ahead(Queued[i].start)

(***************************************************************************)
(* "push the pdu through the queue if received correctly" (mac::crc_info): *)
(* a queued PDU was received from the user it is queued for.               *)
(***************************************************************************)
PduFromUser == \A u \in Rnti : \A i \in 1..Len(pdus[u]) : pdus[u][i] = u

=============================================================================
