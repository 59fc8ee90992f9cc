----------------------------- MODULE UeContext -----------------------------
(***************************************************************************)
(* The context of a UE across the layers of the eNodeB: mac::ue_db         *)
(* (mac/mac.cc), the scheduler's users (mac/scheduler.cc), rlc::users      *)
(* (upper/rlc.cc), rrc::users (rrc/rrc.cc) and the S1AP users.  Three      *)
(* threads work on them:                                                   *)
(*   the NPRACH worker calls mac::rach_detected,                           *)
(*   the PHY worker calls mac::get_dl_sched and mac::crc_info,             *)
(*   the stack thread runs the tasks of its queues, one at a time:         *)
(*     mac_queue (new UEs, received PDUs), mme_queue (S1AP messages) and   *)
(*     sync_queue (tti_clock, which empties rrc::rx_pdu_queue).            *)
(* A step is a section that one lock protects; get_dl_sched and rem_user   *)
(* take several, and other threads run in between.                         *)
(***************************************************************************)
EXTENDS Naturals, Sequences, FiniteSets

CONSTANTS
  Rnti,         \* the C-RNTIs, 4097..59999 in the code
  FirstRnti,    \* 4097
  NextRnti,     \* last_rnti++, and back to 4097 after 59999
  InUseAgain,   \* may the allocator come round to an RNTI still in use?
  MaxTasks,     \* capacity of a task queue (8192)
  MaxPdus       \* bound on the PDUs of one UE that wait for the MAC or the RRC

ASSUME UeContextAssumption ==
  /\ FirstRnti \in Rnti
  /\ NextRnti \in [Rnti -> Rnti]
  /\ InUseAgain \in BOOLEAN
  /\ MaxTasks \in Nat
  /\ MaxPdus \in Nat

VARIABLES
  last_rnti,      \* mac::last_rnti
  mac,            \* keys of mac::ue_db
  sched,          \* keys of sched::ue_db
  pending,        \* RNTIs the scheduler has downlink data for (buf_tx)
  rlc,            \* keys of rlc::users; pdcp::users changes with rrc
  rrc,            \* rrc::users: state per RNTI, "absent" when there is none
  s1ap,           \* RNTIs of the S1AP users
  pdus,           \* PDUs received and not yet processed, per MAC UE
  macTasks,       \* pending_tasks[mac_queue]
  mmeTasks,       \* pending_tasks[mme_queue]
  rx_pdu_queue,   \* rrc::rx_pdu_queue
  stack,          \* what the stack thread is doing
  worker,         \* what the PHY worker is doing in get_dl_sched
  ue              \* the UEs (environment)

vars == <<last_rnti, mac, sched, pending, rlc, rrc, s1ap, pdus, macTasks,
          mmeTasks, rx_pdu_queue, stack, worker, ue>>

RrcState == {"absent", "idle", "wait_con_setup_complete", "wait_con_reconf_complete"}

\* An uplink message, as far as the RRC tells them apart, and the two commands
\* that the RRC queues for itself (LCID_REL_USER, LCID_REM_USER).
UlMsg == {"con_req", "setup_complete", "ul_info"}
RrcPdu == [rnti : Rnti, lcid : UlMsg \cup {"rel_user", "rem_user"}]

MacTask == [type : {"rach"}, rnti : Rnti] \cup [type : {"process_pdus"}]
MmeTask == [type : {"dl_nas", "release"}, rnti : Rnti]

(***************************************************************************)
(* The stack thread is between tasks ("idle"), in mac::process_pdus, in    *)
(* the loop of rrc::tti_clock ("tti"), in process_release_complete or at   *)
(* one of the steps of rem_user.                                           *)
(***************************************************************************)
StackPc == {"idle", "pdus", "tti", "sleep", "queue_rem", "rem_sched", "rem_mac", "rem_rlc", "rem_rrc"}

\* Nobody reads the RNTI of an idle thread.
Idle == [at |-> "idle", rnti |-> FirstRnti]
Tti  == [at |-> "tti", rnti |-> FirstRnti]

\* The worker has a scheduling result, or is generating the PDU for it with
\* the MAC's read lock held.
WorkerPc == {"idle", "scheduled", "generating"}

\* What the UE that was given the RNTI last does.
UeState == {"none", "rach", "msg3", "wait_setup", "got_setup", "connected"}

(***************************************************************************)
(* Every layer keeps RNTIs, the queues their tasks and the RRC one of its  *)
(* states per RNTI; the task queue of the MAC keeps its capacity.          *)
(***************************************************************************)
TypeOK ==
  /\ last_rnti \in Rnti
  /\ mac \subseteq Rnti /\ sched \subseteq Rnti /\ rlc \subseteq Rnti
  /\ s1ap \subseteq Rnti /\ pending \subseteq Rnti
  /\ rrc \in [Rnti -> RrcState]
  /\ pdus \in [Rnti -> Seq(UlMsg)]
  /\ macTasks \in Seq(MacTask)
  /\ mmeTasks \in Seq(MmeTask)
  /\ Len(macTasks) <= MaxTasks
  /\ rx_pdu_queue \in Seq(RrcPdu)
  /\ stack \in [at : StackPc, rnti : Rnti]
  /\ worker \in [at : WorkerPc, rnti : Rnti]
  /\ ue \in [Rnti -> UeState]

RrcUsers == {r \in Rnti : rrc[r] # "absent"}

\* Does some layer, a task or a scheduling result still know the RNTI?
InUse(r) ==
  \/ r \in mac \cup sched \cup rlc \cup s1ap \cup RrcUsers
  \/ \E i \in 1..Len(macTasks) : macTasks[i].type = "rach" /\ macTasks[i].rnti = r
  \/ \E i \in 1..Len(mmeTasks) : mmeTasks[i].rnti = r
  \/ \E i \in 1..Len(rx_pdu_queue) : rx_pdu_queue[i].rnti = r
  \/ worker.at # "idle" /\ worker.rnti = r

-----------------------------------------------------------------------------
(* The NPRACH worker *)

\* Mutant: the queue takes one task more than its capacity.
RachDetectedUnbounded ==
  /\ worker.at # "generating"
  /\ stack.at # "pdus"
  /\ Len(macTasks) <= MaxTasks
  /\ InUseAgain \/ ~InUse(last_rnti)
  /\ last_rnti' = NextRnti[last_rnti]
  /\ mac' = mac \cup {last_rnti}
  /\ pdus' = [pdus EXCEPT ![last_rnti] = <<>>]
  /\ macTasks' = Append(macTasks, [type |-> "rach", rnti |-> last_rnti])
  /\ ue' = [ue EXCEPT ![last_rnti] = "rach"]
  /\ UNCHANGED <<sched, pending, rlc, rrc, s1ap, mmeTasks, rx_pdu_queue, stack, worker>>

(***************************************************************************)
(* mac::rach_detected: allocate_rnti, the new UE in ue_db under the write  *)
(* lock (which waits for the read locks of get_dl_sched and process_pdus), *)
(* and the task.  Pushing the task commutes with every step of the other   *)
(* threads, so the three are one action.                                   *)
(***************************************************************************)
RachDetected ==
  /\ worker.at # "generating"
  /\ stack.at # "pdus"
  /\ Len(macTasks) < MaxTasks
  /\ InUseAgain \/ ~InUse(last_rnti)
  /\ last_rnti' = NextRnti[last_rnti]
  /\ mac' = mac \cup {last_rnti}
  /\ pdus' = [pdus EXCEPT ![last_rnti] = <<>>]
  /\ macTasks' = Append(macTasks, [type |-> "rach", rnti |-> last_rnti])
  /\ ue' = [ue EXCEPT ![last_rnti] = "rach"]
  /\ UNCHANGED <<sched, pending, rlc, rrc, s1ap, mmeTasks, rx_pdu_queue, stack, worker>>

-----------------------------------------------------------------------------
(* The PHY worker *)

\* get_dl_sched, first part: the scheduler's result for a user with data, all
\* or some of which the grant takes off buf_tx (alloc_rlc_pdu)
DlSched(r) ==
  /\ worker.at = "idle"
  /\ r \in pending
  /\ pending' \in {pending, pending \ {r}}
  /\ worker' = [at |-> "scheduled", rnti |-> r]
  /\ UNCHANGED <<last_rnti, mac, sched, rlc, rrc, s1ap, pdus, macTasks,
                 mmeTasks, rx_pdu_queue, stack, ue>>

\* get_dl_sched, second part: under the read lock, if the user still exists
TakeDlResult ==
  /\ worker.at = "scheduled"
  /\ worker' = IF worker.rnti \in mac THEN [worker EXCEPT !.at = "generating"] ELSE Idle
  /\ UNCHANGED <<last_rnti, mac, sched, pending, rlc, rrc, s1ap, pdus, macTasks,
                 mmeTasks, rx_pdu_queue, stack, ue>>

\* Mutant: the scheduler notes a report for a user it does not have.
BufferReportUnchecked(r) == pending \cup ({r} \cap rlc \cap mac)

(***************************************************************************)
(* A buffer report of the RLC (mac::rlc_buffer_state) with data waiting:   *)
(* the scheduler notes it if RLC, MAC and scheduler know the user.         *)
(***************************************************************************)
BufferReport(r) == pending \cup ({r} \cap rlc \cap mac \cap sched)

(***************************************************************************)
(* ue::generate_pdu: rlc::read_pdu, which reports what is left in the      *)
(* buffer to the scheduler.  A UE that waits for RRCConnectionSetup gets   *)
(* it.  The scheduler's user may be gone by now (RemSched), the RLC's not. *)
(***************************************************************************)
GeneratePdu ==
  /\ worker.at = "generating"
  /\ LET r == worker.rnti
     IN \/ /\ r \notin rlc
           /\ UNCHANGED <<pending, ue>>
        \/ /\ r \in rlc
           /\ pending' = BufferReport(r)
           /\ UNCHANGED ue
        \/ /\ r \in rlc
           /\ pending' = pending \ {r}
           /\ ue' = IF ue[r] = "wait_setup" THEN [ue EXCEPT ![r] = "got_setup"] ELSE ue
  /\ worker' = Idle
  /\ UNCHANGED <<last_rnti, mac, sched, rlc, rrc, s1ap, pdus, macTasks, mmeTasks,
                 rx_pdu_queue, stack>>

\* What a UE sends next, and where that takes it.
UeSends(r) ==
  CASE ue[r] = "msg3"      -> "con_req"
    [] ue[r] = "got_setup" -> "setup_complete"
    [] OTHER               -> "ul_info"

UeAfter(r) ==
  CASE ue[r] = "msg3"      -> "wait_setup"
    [] ue[r] = "got_setup" -> "connected"
    [] OTHER               -> ue[r]

\* PDUs of a UE that the stack has not come to yet
Waiting(r) ==
  Len(pdus[r]) + Cardinality({i \in 1..Len(rx_pdu_queue) :
                                /\ rx_pdu_queue[i].rnti = r
                                /\ rx_pdu_queue[i].lcid \in UlMsg})

(***************************************************************************)
(* mac::crc_info with the CRC right: the PDU waits in the MAC's UE and a   *)
(* process_pdus task in the queue.  With the CRC wrong, or without a       *)
(* context, the PDU is dropped: a step without effect (the UE repeats a    *)
(* message of SRB1bis, and gives up after a lost Msg3).                    *)
(***************************************************************************)
CrcInfo(r) ==
  /\ ue[r] \in {"msg3", "got_setup", "connected"}
  /\ r \in mac
  /\ Waiting(r) < MaxPdus
  /\ Len(macTasks) < MaxTasks
  /\ pdus' = [pdus EXCEPT ![r] = Append(@, UeSends(r))]
  /\ macTasks' = Append(macTasks, [type |-> "process_pdus"])
  /\ ue' = [ue EXCEPT ![r] = UeAfter(r)]
  /\ UNCHANGED <<last_rnti, mac, sched, pending, rlc, rrc, s1ap, mmeTasks,
                 rx_pdu_queue, stack, worker>>

-----------------------------------------------------------------------------
(* The stack thread: tasks of the MAC *)

PopMacTask(type) ==
  /\ stack.at = "idle"
  /\ macTasks # <<>>
  /\ Head(macTasks).type = type
  /\ macTasks' = Tail(macTasks)

\* rrc::add_user refuses an RNTI that it knows, and then leaves RLC alone.
RrcAddUser(r) ==
  IF rrc[r] = "absent"
    THEN rrc' = [rrc EXCEPT ![r] = "idle"] /\ rlc' = rlc \cup {r}
    ELSE UNCHANGED <<rrc, rlc>>

\* The task of rach_detected; the random access response reaches the UE.
RachTask ==
  /\ PopMacTask("rach")
  /\ LET r == Head(macTasks).rnti
     IN /\ sched' = sched \cup {r}
        /\ RrcAddUser(r)
        /\ ue' = [ue EXCEPT ![r] = "msg3"]
  /\ UNCHANGED <<last_rnti, mac, pending, s1ap, pdus, mmeTasks, rx_pdu_queue, stack, worker>>

(***************************************************************************)
(* mac::process_pdus, with the MAC's read lock held: PDU after PDU goes    *)
(* through RLC, which reports its downlink buffer, to the RRC's queue.     *)
(* The worker can add PDUs meanwhile.                                      *)
(***************************************************************************)
ProcessPdus ==
  /\ PopMacTask("process_pdus")
  /\ stack' = [stack EXCEPT !.at = "pdus"]
  /\ UNCHANGED <<last_rnti, mac, sched, pending, rlc, rrc, s1ap, pdus, mmeTasks,
                 rx_pdu_queue, worker, ue>>

ProcessPdu(r) ==
  /\ stack.at = "pdus"
  /\ r \in mac
  /\ pdus[r] # <<>>
  /\ pdus' = [pdus EXCEPT ![r] = Tail(@)]
  /\ rx_pdu_queue' = IF r \in rlc
                       THEN Append(rx_pdu_queue, [rnti |-> r, lcid |-> Head(pdus[r])])
                       ELSE rx_pdu_queue
  /\ pending' \in {pending, BufferReport(r)}
  /\ UNCHANGED <<last_rnti, mac, sched, rlc, rrc, s1ap, macTasks, mmeTasks,
                 stack, worker, ue>>

ProcessPdusEnd ==
  /\ stack.at = "pdus"
  /\ \A r \in mac : pdus[r] = <<>>
  /\ stack' = [stack EXCEPT !.at = "idle"]
  /\ UNCHANGED <<last_rnti, mac, sched, pending, rlc, rrc, s1ap, pdus, macTasks,
                 mmeTasks, rx_pdu_queue, worker, ue>>

-----------------------------------------------------------------------------
(* The stack thread: messages of the MME *)

PopMmeTask(type) ==
  /\ stack.at = "idle"
  /\ mmeTasks # <<>>
  /\ Head(mmeTasks).type = type
  /\ mmeTasks' = Tail(mmeTasks)

\* handle_dlnastransport and rrc::write_dl_info; unknown users are ignored.
DlNasTask ==
  /\ PopMmeTask("dl_nas")
  /\ LET r == Head(mmeTasks).rnti
     IN pending' = IF r \in s1ap /\ rrc[r] # "absent" THEN BufferReport(r) ELSE pending
  /\ UNCHANGED <<last_rnti, mac, sched, rlc, rrc, s1ap, pdus, macTasks, rx_pdu_queue,
                 stack, worker, ue>>

\* Mutant: the release command leaves the user in S1AP's list.
ReleaseTaskKeepsS1ap ==
  /\ PopMmeTask("release")
  /\ LET r == Head(mmeTasks).rnti
     IN /\ s1ap' = s1ap
        /\ rx_pdu_queue' = IF r \in s1ap
                             THEN Append(rx_pdu_queue, [rnti |-> r, lcid |-> "rel_user"])
                             ELSE rx_pdu_queue
  /\ UNCHANGED <<last_rnti, mac, sched, pending, rlc, rrc, pdus, macTasks, stack, worker, ue>>

\* handle_uectxtreleasecommand: S1AP forgets the user, then tells the RRC.
ReleaseTask ==
  /\ PopMmeTask("release")
  /\ LET r == Head(mmeTasks).rnti
     IN /\ s1ap' = s1ap \ {r}
        /\ rx_pdu_queue' = IF r \in s1ap
                             THEN Append(rx_pdu_queue, [rnti |-> r, lcid |-> "rel_user"])
                             ELSE rx_pdu_queue
  /\ UNCHANGED <<last_rnti, mac, sched, pending, rlc, rrc, pdus, macTasks, stack, worker, ue>>

\* The MME: a UE that S1AP announced gets NAS messages, and is released once.
MmeSends(r, type) ==
  /\ r \in s1ap
  /\ Len(mmeTasks) < MaxTasks
  /\ \A i \in 1..Len(mmeTasks) : mmeTasks[i] # [type |-> "release", rnti |-> r]
  /\ mmeTasks' = Append(mmeTasks, [type |-> type, rnti |-> r])
  /\ UNCHANGED <<last_rnti, mac, sched, pending, rlc, rrc, s1ap, pdus, macTasks,
                 rx_pdu_queue, stack, worker, ue>>

-----------------------------------------------------------------------------
(* The stack thread: rrc::tti_clock *)

TtiClock ==
  /\ stack.at = "idle"
  /\ rx_pdu_queue # <<>>
  /\ stack' = Tti
  /\ UNCHANGED <<last_rnti, mac, sched, pending, rlc, rrc, s1ap, pdus, macTasks,
                 mmeTasks, rx_pdu_queue, worker, ue>>

TtiClockEnd ==
  /\ stack.at = "tti"
  /\ rx_pdu_queue = <<>>
  /\ stack' = [stack EXCEPT !.at = "idle"]
  /\ UNCHANGED <<last_rnti, mac, sched, pending, rlc, rrc, s1ap, pdus, macTasks,
                 mmeTasks, rx_pdu_queue, worker, ue>>

PopRrcPdu ==
  /\ stack.at = "tti"
  /\ rx_pdu_queue # <<>>
  /\ rx_pdu_queue' = Tail(rx_pdu_queue)
  /\ UNCHANGED <<last_rnti, mac, rlc, pdus, macTasks, mmeTasks, worker, ue>>

\* handle_rrc_con_req, in any state: configure the scheduler (ue_set_crnti,
\* if the MAC knows the user) and send RRCConnectionSetup on SRB0.
HandleConReq ==
  /\ PopRrcPdu
  /\ LET r == Head(rx_pdu_queue).rnti
     IN /\ Head(rx_pdu_queue).lcid = "con_req"
        /\ rrc[r] # "absent"
        /\ sched' = sched \cup ({r} \cap mac)
        /\ pending' = pending \cup ({r} \cap rlc \cap mac)
        /\ rrc' = [rrc EXCEPT ![r] = "wait_con_setup_complete"]
  /\ UNCHANGED <<s1ap, stack>>

\* handle_rrc_con_setup_complete, in any state: s1ap::initial_ue
HandleConSetupComplete ==
  /\ PopRrcPdu
  /\ LET r == Head(rx_pdu_queue).rnti
     IN /\ Head(rx_pdu_queue).lcid = "setup_complete"
        /\ rrc[r] # "absent"
        /\ s1ap' = s1ap \cup {r}
        /\ rrc' = [rrc EXCEPT ![r] = "wait_con_reconf_complete"]
  /\ UNCHANGED <<sched, pending, stack>>

\* ul_info_transfer goes to s1ap::write_pdu, which sends it on or ignores it.
\* "Discarding PDU for removed rnti", whatever it is.
HandleUlInfo ==
  /\ PopRrcPdu
  /\ Head(rx_pdu_queue).lcid = "ul_info" \/ rrc[Head(rx_pdu_queue).rnti] = "absent"
  /\ UNCHANGED <<sched, pending, rrc, s1ap, stack>>

(***************************************************************************)
(* process_release_complete: empty the UE's buffers, send                  *)
(* RRCConnectionRelease and sleep 50 ms, all of it skipped for an idle UE; *)
(* then rem_user_thread queues LCID_REM_USER.                              *)
(***************************************************************************)
ProcessReleaseComplete ==
  /\ PopRrcPdu
  /\ LET r == Head(rx_pdu_queue).rnti
     IN /\ Head(rx_pdu_queue).lcid = "rel_user"
        /\ rrc[r] # "absent"
        /\ pending' = IF rrc[r] = "idle" THEN pending ELSE BufferReport(r)
        /\ stack' = [at |-> IF rrc[r] = "idle" THEN "queue_rem" ELSE "sleep", rnti |-> r]
  /\ UNCHANGED <<sched, rrc, s1ap>>

\* usleep(50000)
Sleep ==
  /\ stack.at = "sleep"
  /\ stack' = [stack EXCEPT !.at = "queue_rem"]
  /\ UNCHANGED <<last_rnti, mac, sched, pending, rlc, rrc, s1ap, pdus, macTasks,
                 mmeTasks, rx_pdu_queue, worker, ue>>

\* Mutant: LCID_REM_USER is not queued.
RemUserThreadLost ==
  /\ stack.at = "queue_rem"
  /\ stack' = Tti
  /\ UNCHANGED <<last_rnti, mac, sched, pending, rlc, rrc, s1ap, pdus, macTasks,
                 mmeTasks, rx_pdu_queue, worker, ue>>

\* rem_user_thread: the removal waits for its turn in rx_pdu_queue
RemUserThread ==
  /\ stack.at = "queue_rem"
  /\ stack' = Tti
  /\ rx_pdu_queue' = Append(rx_pdu_queue, [rnti |-> stack.rnti, lcid |-> "rem_user"])
  /\ UNCHANGED <<last_rnti, mac, sched, pending, rlc, rrc, s1ap, pdus, macTasks,
                 mmeTasks, worker, ue>>

\* Mutant: rem_user without mac->ue_rem.
RemUserKeepsMac ==
  /\ PopRrcPdu
  /\ LET r == Head(rx_pdu_queue).rnti
     IN /\ Head(rx_pdu_queue).lcid = "rem_user"
        /\ rrc[r] # "absent"
        /\ stack' = [at |-> "rem_rlc", rnti |-> r]
  /\ UNCHANGED <<sched, pending, rrc, s1ap>>

\* rem_user begins: mac::ue_rem is skipped if the MAC does not know the user.
RemUser ==
  /\ PopRrcPdu
  /\ LET r == Head(rx_pdu_queue).rnti
     IN /\ Head(rx_pdu_queue).lcid = "rem_user"
        /\ rrc[r] # "absent"
        /\ stack' = [at |-> IF r \in mac THEN "rem_sched" ELSE "rem_rlc", rnti |-> r]
  /\ UNCHANGED <<sched, pending, rrc, s1ap>>

\* mac::ue_rem, under the read lock: scheduler.ue_rem
RemSched ==
  /\ stack.at = "rem_sched"
  /\ sched' = sched \ {stack.rnti}
  /\ pending' = pending \ {stack.rnti}
  /\ stack' = [stack EXCEPT !.at = "rem_mac"]
  /\ UNCHANGED <<last_rnti, mac, rlc, rrc, s1ap, pdus, macTasks, mmeTasks,
                 rx_pdu_queue, worker, ue>>

\* Mutant: ue_rem erases the user without the write lock.
RemMacUnlocked ==
  /\ stack.at = "rem_mac"
  /\ mac' = mac \ {stack.rnti}
  /\ pdus' = [pdus EXCEPT ![stack.rnti] = <<>>]
  /\ ue' = [ue EXCEPT ![stack.rnti] = "none"]
  /\ stack' = [stack EXCEPT !.at = "rem_rlc"]
  /\ UNCHANGED <<last_rnti, sched, pending, rlc, rrc, s1ap, macTasks, mmeTasks,
                 rx_pdu_queue, worker>>

\* mac::ue_rem, under the write lock; from here on the MAC drops what the UE
\* sends, so what it does no longer matters.
RemMac ==
  /\ stack.at = "rem_mac"
  /\ worker.at # "generating"
  /\ mac' = mac \ {stack.rnti}
  /\ pdus' = [pdus EXCEPT ![stack.rnti] = <<>>]
  /\ ue' = [ue EXCEPT ![stack.rnti] = "none"]
  /\ stack' = [stack EXCEPT !.at = "rem_rlc"]
  /\ UNCHANGED <<last_rnti, sched, pending, rlc, rrc, s1ap, macTasks, mmeTasks,
                 rx_pdu_queue, worker>>

\* rlc::rem_user
RemRlc ==
  /\ stack.at = "rem_rlc"
  /\ rlc' = rlc \ {stack.rnti}
  /\ stack' = [stack EXCEPT !.at = "rem_rrc"]
  /\ UNCHANGED <<last_rnti, mac, sched, pending, rrc, s1ap, pdus, macTasks, mmeTasks,
                 rx_pdu_queue, worker, ue>>

\* pdcp::rem_user and users.erase
RemRrc ==
  /\ stack.at = "rem_rrc"
  /\ rrc' = [rrc EXCEPT ![stack.rnti] = "absent"]
  /\ stack' = Tti
  /\ UNCHANGED <<last_rnti, mac, sched, pending, rlc, s1ap, pdus, macTasks, mmeTasks,
                 rx_pdu_queue, worker, ue>>

-----------------------------------------------------------------------------

Init ==
  /\ last_rnti = FirstRnti
  /\ mac = {} /\ sched = {} /\ pending = {} /\ rlc = {} /\ s1ap = {}
  /\ rrc = [r \in Rnti |-> "absent"]
  /\ pdus = [r \in Rnti |-> <<>>]
  /\ macTasks = <<>> /\ mmeTasks = <<>> /\ rx_pdu_queue = <<>>
  /\ stack = Idle /\ worker = Idle
  /\ ue = [r \in Rnti |-> "none"]

StackStep ==
  \/ RachTask \/ ProcessPdus \/ (\E r \in Rnti : ProcessPdu(r)) \/ ProcessPdusEnd
  \/ DlNasTask \/ ReleaseTask
  \/ TtiClock \/ TtiClockEnd
  \/ HandleConReq \/ HandleConSetupComplete \/ HandleUlInfo
  \/ ProcessReleaseComplete \/ Sleep \/ RemUserThread
  \/ RemUser \/ RemSched \/ RemMac \/ RemRlc \/ RemRrc

WorkerStep ==
  \/ \E r \in Rnti : DlSched(r)
  \/ TakeDlResult
  \/ GeneratePdu

Next ==
  \/ RachDetected
  \/ \E r \in Rnti : CrcInfo(r)
  \/ \E r \in Rnti, type \in {"dl_nas", "release"} : MmeSends(r, type)
  \/ WorkerStep
  \/ StackStep

(***************************************************************************)
(* The stack thread and the worker run whenever they can.  wait_pop turns  *)
(* from queue to queue, so none of the three is left out for ever: the     *)
(* tasks of the MME and tti_clock have fairness of their own, strong       *)
(* because the thread is busy with other tasks in between.  The write lock *)
(* of ue_rem is handed over when a reader leaves, so the worker, which     *)
(* takes the read lock once per subframe, does not keep it out for ever.   *)
(***************************************************************************)
Fairness ==
  /\ WF_vars(StackStep)
  /\ WF_vars(TakeDlResult \/ GeneratePdu)
  /\ SF_vars(DlNasTask \/ ReleaseTask)
  /\ SF_vars(TtiClock)
  /\ SF_vars(RachTask \/ ProcessPdus)
  /\ SF_vars(RemMac)

Spec == Init /\ [][Next]_vars /\ Fairness

-----------------------------------------------------------------------------

(***************************************************************************)
(* rem_user: "First remove MAC and GTPU to stop processing DL/UL traffic   *)
(* for this user".  While the worker generates a PDU, the RLC has the      *)
(* user: the RLC's context is removed only after the MAC's write lock      *)
(* waited for the worker, and a scheduling result that outlives the user   *)
(* is not used.                                                            *)
(***************************************************************************)
GeneratesForKnownUser == worker.at = "generating" => worker.rnti \in rlc

RachPending ==
  {r \in Rnti : \E i \in 1..Len(macTasks) : macTasks[i] = [type |-> "rach", rnti |-> r]}

(***************************************************************************)
(* Between tasks of the stack thread all layers agree on the UEs: RRC, RLC *)
(* and scheduler have the same users, and the MAC those and the UEs whose  *)
(* RACH task waits.  S1AP never has a user without an RRC context, within  *)
(* a task neither: a downlink message for it would be lost, and the UE's   *)
(* RNTI could go to another UE (initial_ue, handle_uectxtreleasecommand,   *)
(* rem_user).                                                              *)
(***************************************************************************)
LayersAgree ==
  /\ s1ap \subseteq RrcUsers
  /\ stack.at = "idle" =>
       /\ RrcUsers = rlc
       /\ RrcUsers = sched
       /\ mac = RrcUsers \cup RachPending

(***************************************************************************)
(* Whatever waits in rx_pdu_queue is for a UE that the RRC still knows     *)
(* when its turn comes: rem_user finds no later message of the UE, and no  *)
(* UE is released or removed twice.                                        *)
(***************************************************************************)
QueuedHasUser ==
  \A i \in 1..Len(rx_pdu_queue) : rx_pdu_queue[i].rnti \in RrcUsers

(***************************************************************************)
(* The scheduler never has data for a user that it removed, whatever       *)
(* buffer reports the worker made during rem_user.                         *)
(***************************************************************************)
PendingIsScheduled == pending \subseteq sched

(***************************************************************************)
(* A release command removes the UE from every layer in the end.           *)
(***************************************************************************)
ReleaseCompletes ==
  \A r \in Rnti :
    (mmeTasks # <<>> /\ Head(mmeTasks) = [type |-> "release", rnti |-> r])
      ~> (r \notin mac \cup sched \cup rlc \cup RrcUsers \cup s1ap)

=============================================================================
