-------------------------- MODULE UeContextProofs --------------------------
(***************************************************************************)
(* Proofs about UeContext: its types, that the scheduler never has data    *)
(* for a user it removed, and that the worker generates PDUs only for      *)
(* users of the RLC.                                                       *)
(***************************************************************************)
EXTENDS UeContext, SequenceTheorems, TLAPS

\* What the first two theorems need of a state.
Typed == TypeOK /\ PendingIsScheduled

-----------------------------------------------------------------------------
(* Types *)

\* What adding and taking an element does to a queue.
LEMMA SequenceTypes ==
  ASSUME NEW S, NEW s \in Seq(S)
  PROVE  /\ Len(s) \in Nat
         /\ \A e \in S : Append(s, e) \in Seq(S) /\ Len(Append(s, e)) = Len(s) + 1
         /\ s # <<>> => /\ Head(s) \in S
                        /\ Tail(s) \in Seq(S)
                        /\ Len(Tail(s)) = Len(s) - 1
  OBVIOUS

\* At the start no layer has a user.
LEMMA InitTyped == Init => Typed
  BY UeContextAssumption
  DEF Init, Typed, TypeOK, PendingIsScheduled, Idle, StackPc, WorkerPc, RrcState, UeState

\* Preambles, received PDUs and messages of the MME.
LEMMA EnvironmentTyped ==
  ASSUME Typed,
         \/ RachDetected
         \/ \E r \in Rnti : CrcInfo(r)
         \/ \E r \in Rnti, type \in {"dl_nas", "release"} : MmeSends(r, type)
  PROVE  Typed'
<1> USE UeContextAssumption DEF Typed, TypeOK, PendingIsScheduled
<1>1. CASE RachDetected
  <2>1. [type |-> "rach", rnti |-> last_rnti] \in MacTask
    BY DEF MacTask
  <2>2. macTasks' \in Seq(MacTask) /\ Len(macTasks') <= MaxTasks
    BY <1>1, <2>1, SequenceTypes DEF RachDetected
  <2>3. <<>> \in Seq(UlMsg)
    OBVIOUS
  <2>4. pdus' \in [Rnti -> Seq(UlMsg)] /\ ue' \in [Rnti -> UeState]
    BY <1>1, <2>3 DEF RachDetected, UeState
  <2> QED
    BY <1>1, <2>2, <2>4 DEF RachDetected
<1>2. ASSUME NEW r \in Rnti, CrcInfo(r) PROVE Typed'
  <2>1. UeSends(r) \in UlMsg /\ UeAfter(r) \in UeState
    BY DEF UeSends, UeAfter, UlMsg, UeState
  <2>2. [type |-> "process_pdus"] \in MacTask
    BY DEF MacTask
  <2>3. macTasks' \in Seq(MacTask) /\ Len(macTasks') <= MaxTasks
    BY <1>2, <2>2, SequenceTypes DEF CrcInfo
  <2>4. pdus' \in [Rnti -> Seq(UlMsg)]
    BY <1>2, <2>1, SequenceTypes DEF CrcInfo
  <2>5. ue' \in [Rnti -> UeState]
    BY <1>2, <2>1 DEF CrcInfo
  <2> QED
    BY <1>2, <2>3, <2>4, <2>5 DEF CrcInfo
<1>3. ASSUME NEW r \in Rnti, NEW type \in {"dl_nas", "release"}, MmeSends(r, type)
      PROVE Typed'
  <2>1. [type |-> type, rnti |-> r] \in MmeTask
    BY DEF MmeTask
  <2>2. mmeTasks' \in Seq(MmeTask)
    BY <1>3, <2>1, SequenceTypes DEF MmeSends
  <2> QED
    BY <1>3, <2>2 DEF MmeSends
<1> QED
  BY <1>1, <1>2, <1>3

\* The three sections of get_dl_sched.
LEMMA WorkerTyped ==
  ASSUME Typed, WorkerStep
  PROVE  Typed'
<1> USE UeContextAssumption DEF Typed, TypeOK, PendingIsScheduled
<1>1. ASSUME NEW r \in Rnti, DlSched(r) PROVE Typed'
  BY <1>1 DEF DlSched, WorkerPc
<1>2. CASE TakeDlResult
  BY <1>2 DEF TakeDlResult, WorkerPc, Idle
<1>3. CASE GeneratePdu
  <2>1. ue' \in [Rnti -> UeState]
    BY <1>3 DEF GeneratePdu, UeState
  <2>2. pending' \subseteq sched /\ pending' \subseteq Rnti
    BY <1>3 DEF GeneratePdu, BufferReport
  <2> QED
    BY <1>3, <2>1, <2>2 DEF GeneratePdu, WorkerPc, Idle
<1> QED
  BY <1>1, <1>2, <1>3 DEF WorkerStep

\* rrc::add_user, which adds the user to the RLC too.
LEMMA AddUserTypes ==
  ASSUME NEW r \in Rnti, RrcAddUser(r), rrc \in [Rnti -> RrcState], rlc \subseteq Rnti
  PROVE  rrc' \in [Rnti -> RrcState] /\ rlc' \subseteq Rnti
<1>1. "idle" \in RrcState
  BY DEF RrcState
<1>2. rrc' \in [Rnti -> RrcState]
  BY <1>1 DEF RrcAddUser
<1>3. rlc' \subseteq Rnti
  BY DEF RrcAddUser
<1> QED
  BY <1>2, <1>3

\* The tasks of the MAC and the MME.
LEMMA TasksTyped ==
  ASSUME Typed,
         \/ RachTask \/ ProcessPdus \/ (\E r \in Rnti : ProcessPdu(r)) \/ ProcessPdusEnd
         \/ DlNasTask \/ ReleaseTask
  PROVE  Typed'
<1> USE UeContextAssumption DEF Typed, TypeOK, PendingIsScheduled
<1>1. ASSUME NEW t, PopMacTask(t)
      PROVE  /\ macTasks' \in Seq(MacTask) /\ Len(macTasks') <= MaxTasks
             /\ Head(macTasks) \in MacTask
  BY <1>1, SequenceTypes DEF PopMacTask
<1>2. ASSUME NEW t, PopMmeTask(t)
      PROVE  mmeTasks' \in Seq(MmeTask) /\ Head(mmeTasks).rnti \in Rnti
  <2>1. mmeTasks' \in Seq(MmeTask) /\ Head(mmeTasks) \in MmeTask
    BY <1>2, SequenceTypes DEF PopMmeTask
  <2> QED
    BY <2>1 DEF MmeTask
<1>3. CASE RachTask
  <2>1. Head(macTasks).rnti \in Rnti
    BY <1>1, <1>3 DEF RachTask, PopMacTask, MacTask
  <2>2. rrc' \in [Rnti -> RrcState] /\ rlc' \subseteq Rnti
    BY <1>3, <2>1, AddUserTypes DEF RachTask
  <2>3. ue' \in [Rnti -> UeState]
    BY <1>3, <2>1 DEF RachTask, UeState
  <2> QED
    BY <1>1, <1>3, <2>1, <2>2, <2>3 DEF RachTask
<1>4. CASE ProcessPdus
  BY <1>1, <1>4 DEF ProcessPdus, StackPc
<1>5. ASSUME NEW r \in Rnti, ProcessPdu(r) PROVE Typed'
  <2>1. pdus[r] \in Seq(UlMsg) /\ Head(pdus[r]) \in UlMsg /\ Tail(pdus[r]) \in Seq(UlMsg)
    BY <1>5, SequenceTypes DEF ProcessPdu
  <2>2. [rnti |-> r, lcid |-> Head(pdus[r])] \in RrcPdu
    BY <2>1 DEF RrcPdu
  <2>3. rx_pdu_queue' \in Seq(RrcPdu) /\ pdus' \in [Rnti -> Seq(UlMsg)]
    BY <1>5, <2>1, <2>2, SequenceTypes DEF ProcessPdu
  <2>4. pending' \subseteq sched /\ pending' \subseteq Rnti
    BY <1>5 DEF ProcessPdu, BufferReport
  <2> QED
    BY <1>5, <2>3, <2>4 DEF ProcessPdu
<1>6. CASE ProcessPdusEnd
  BY <1>6 DEF ProcessPdusEnd, StackPc
<1>7. CASE DlNasTask
  <2>1. pending' \subseteq sched /\ pending' \subseteq Rnti
    BY <1>7 DEF DlNasTask, BufferReport
  <2> QED
    BY <1>2, <1>7, <2>1 DEF DlNasTask
<1>8. CASE ReleaseTask
  <2>1. [rnti |-> Head(mmeTasks).rnti, lcid |-> "rel_user"] \in RrcPdu
    BY <1>2, <1>8 DEF ReleaseTask, RrcPdu
  <2>2. rx_pdu_queue' \in Seq(RrcPdu)
    BY <1>8, <2>1, SequenceTypes DEF ReleaseTask
  <2> QED
    BY <1>2, <1>8, <2>2 DEF ReleaseTask
<1> QED
  BY <1>3, <1>4, <1>5, <1>6, <1>7, <1>8

\* rrc::tti_clock and what it calls.
LEMMA RrcTyped ==
  ASSUME Typed,
         \/ TtiClock \/ TtiClockEnd
         \/ HandleConReq \/ HandleConSetupComplete \/ HandleUlInfo
         \/ ProcessReleaseComplete \/ Sleep \/ RemUserThread
         \/ RemUser \/ RemSched \/ RemMac \/ RemRlc \/ RemRrc
  PROVE  Typed'
<1> USE UeContextAssumption DEF Typed, TypeOK, PendingIsScheduled
<1>1. ASSUME PopRrcPdu
      PROVE  rx_pdu_queue' \in Seq(RrcPdu) /\ Head(rx_pdu_queue).rnti \in Rnti
  <2>1. rx_pdu_queue' \in Seq(RrcPdu) /\ Head(rx_pdu_queue) \in RrcPdu
    BY <1>1, SequenceTypes DEF PopRrcPdu
  <2> QED
    BY <2>1 DEF RrcPdu
<1>2. CASE TtiClock \/ TtiClockEnd \/ Sleep
  <2>1. stack' \in [at : StackPc, rnti : Rnti]
    <3>1. CASE TtiClock
      BY <3>1 DEF TtiClock, Tti, StackPc
    <3>2. CASE TtiClockEnd \/ Sleep
      BY <3>2 DEF TtiClockEnd, Sleep, StackPc
    <3> QED
      BY <1>2, <3>1, <3>2
  <2> QED
    BY <1>2, <2>1 DEF TtiClock, TtiClockEnd, Sleep
<1>3. CASE HandleConReq
  BY <1>1, <1>3 DEF HandleConReq, PopRrcPdu, RrcState
<1>4. CASE HandleConSetupComplete
  BY <1>1, <1>4 DEF HandleConSetupComplete, PopRrcPdu, RrcState
<1>5. CASE HandleUlInfo
  BY <1>1, <1>5 DEF HandleUlInfo, PopRrcPdu
<1>6. CASE ProcessReleaseComplete
  <2>1. pending' \subseteq sched /\ pending' \subseteq Rnti
    BY <1>6 DEF ProcessReleaseComplete, BufferReport
  <2> QED
    BY <1>1, <1>6, <2>1 DEF ProcessReleaseComplete, PopRrcPdu, StackPc
<1>7. CASE RemUserThread
  <2>1. [rnti |-> stack.rnti, lcid |-> "rem_user"] \in RrcPdu
    BY DEF RrcPdu
  <2>2. rx_pdu_queue' \in Seq(RrcPdu)
    BY <1>7, <2>1, SequenceTypes DEF RemUserThread
  <2> QED
    BY <1>7, <2>2 DEF RemUserThread, Tti, StackPc
<1>8. CASE RemUser
  BY <1>1, <1>8 DEF RemUser, PopRrcPdu, StackPc
<1>9. CASE RemSched
  BY <1>9 DEF RemSched, StackPc
<1>10. CASE RemMac
  <2>1. pdus' \in [Rnti -> Seq(UlMsg)] /\ ue' \in [Rnti -> UeState]
    BY <1>10 DEF RemMac, UeState
  <2> QED
    BY <1>10, <2>1 DEF RemMac, StackPc
<1>11. CASE RemRlc
  BY <1>11 DEF RemRlc, StackPc
<1>12. CASE RemRrc
  BY <1>12 DEF RemRrc, Tti, StackPc, RrcState
<1> QED
  BY <1>2, <1>3, <1>4, <1>5, <1>6, <1>7, <1>8, <1>9, <1>10, <1>11, <1>12

\* Every step keeps the types and leaves nothing pending for a user that is gone.
LEMMA StepTyped ==
  ASSUME Typed, [Next]_vars
  PROVE  Typed'
<1>1. CASE Next
  BY <1>1, EnvironmentTyped, WorkerTyped, TasksTyped, RrcTyped DEF Next, StackStep
<1>2. CASE UNCHANGED vars
  BY <1>2 DEF vars, Typed, TypeOK, PendingIsScheduled
<1> QED
  BY <1>1, <1>2

\* So they hold throughout every behaviour, with RNTIs reused or not.
LEMMA TypedInvariance == Spec => []Typed
<1>1. Init => Typed
  BY InitTyped
<1>2. Typed /\ [Next]_vars => Typed'
  BY StepTyped
<1> QED
  BY <1>1, <1>2, PTL DEF Spec

(***************************************************************************)
(* Every layer keeps RNTIs and states of their types, and the MAC's task   *)
(* queue its capacity, for any number of UEs and any sizes of the queues.  *)
(***************************************************************************)
THEOREM TypeCorrect == Spec => []TypeOK
<1>1. Typed => TypeOK
  BY DEF Typed
<1> QED
  BY <1>1, TypedInvariance, PTL

(***************************************************************************)
(* The scheduler never has downlink data for a user that it removed        *)
(* (rlc_buffer_state, ue_rem), even when the allocator comes round to an   *)
(* RNTI that is still in use.                                              *)
(***************************************************************************)
THEOREM PendingScheduled == Spec => []PendingIsScheduled
<1>1. Typed => PendingIsScheduled
  BY DEF Typed
<1> QED
  BY <1>1, TypedInvariance, PTL

-----------------------------------------------------------------------------
(* The worker and the removal of a user *)

RachTaskOf(r) == [type |-> "rach", rnti |-> r]

\* No RNTI waits twice in the MAC's queue.
UniqueRach ==
  \A i, j \in 1..Len(macTasks), r \in Rnti :
    macTasks[i] = RachTaskOf(r) /\ macTasks[j] = RachTaskOf(r) => i = j

\* An RNTI that waits for its RACH task is new to RLC, RRC, scheduler, worker.
RachIsFresh ==
  \A r \in RachPending :
    /\ r \notin rlc \cup sched
    /\ rrc[r] = "absent"
    /\ worker.at # "idle" => worker.rnti # r

\* rem_user removes a user that the RRC knows, from the MAC before the RLC.
RemovalOrder ==
  /\ stack.at \in {"rem_sched", "rem_mac", "rem_rlc", "rem_rrc"} => rrc[stack.rnti] # "absent"
  /\ stack.at \in {"rem_rlc", "rem_rrc"} => stack.rnti \notin mac

MacHasRlc == mac \subseteq rlc \cup RachPending

GeneratesForMacUser == worker.at = "generating" => worker.rnti \in mac

WorkerInv ==
  UniqueRach /\ RachIsFresh /\ RemovalOrder /\ MacHasRlc /\ GeneratesForMacUser

\* A new RACH task makes its RNTI pending, once.
LEMMA PushRach ==
  ASSUME TypeOK, UniqueRach, NEW r \in Rnti, r \notin RachPending,
         macTasks' = Append(macTasks, RachTaskOf(r))
  PROVE  UniqueRach' /\ RachPending' = RachPending \cup {r}
<1>1. macTasks \in Seq(MacTask) /\ RachTaskOf(r) \in MacTask
  BY DEF TypeOK, RachTaskOf, MacTask
<1>2. /\ Len(macTasks) \in Nat
      /\ Len(macTasks') = Len(macTasks) + 1
      /\ macTasks'[Len(macTasks) + 1] = RachTaskOf(r)
      /\ \A i \in 1..Len(macTasks) : macTasks'[i] = macTasks[i]
  BY <1>1
<1>3. \A i \in 1..Len(macTasks) : macTasks[i] # RachTaskOf(r)
  BY DEF RachPending, RachTaskOf
<1>4. \A q \in Rnti : RachTaskOf(q) = RachTaskOf(r) => q = r
  BY DEF RachTaskOf
<1>5. UniqueRach'
  <2> SUFFICES ASSUME NEW i \in 1..Len(macTasks'), NEW j \in 1..Len(macTasks'), NEW q \in Rnti,
                      macTasks'[i] = RachTaskOf(q), macTasks'[j] = RachTaskOf(q)
               PROVE  i = j
    BY DEF UniqueRach, RachTaskOf
  <2>1. CASE q = r
    BY <1>2, <1>3, <2>1
  <2>2. CASE q # r
    BY <1>2, <1>4, <2>2 DEF UniqueRach
  <2> QED
    BY <2>1, <2>2
<1>6. RachPending' = RachPending \cup {r}
  <2>1. \A q \in Rnti : q \in RachPending <=> \E i \in 1..Len(macTasks) : macTasks[i] = RachTaskOf(q)
    BY DEF RachPending, RachTaskOf
  <2>2. \A q \in Rnti : q \in RachPending' <=> \E i \in 1..Len(macTasks') : macTasks'[i] = RachTaskOf(q)
    BY DEF RachPending, RachTaskOf
  <2>3. \A q \in Rnti : q \in RachPending' <=> q \in RachPending \/ q = r
    BY <1>2, <1>4, <2>1, <2>2
  <2> QED
    BY <2>3 DEF RachPending
<1> QED
  BY <1>5, <1>6

\* A process_pdus task leaves the pending RNTIs alone.
LEMMA PushPdus ==
  ASSUME TypeOK, UniqueRach,
         macTasks' = Append(macTasks, [type |-> "process_pdus"])
  PROVE  UniqueRach' /\ RachPending' = RachPending
<1>1. macTasks \in Seq(MacTask) /\ [type |-> "process_pdus"] \in MacTask
  BY DEF TypeOK, MacTask
<1>2. /\ Len(macTasks) \in Nat
      /\ Len(macTasks') = Len(macTasks) + 1
      /\ macTasks'[Len(macTasks) + 1] = [type |-> "process_pdus"]
      /\ \A i \in 1..Len(macTasks) : macTasks'[i] = macTasks[i]
  BY <1>1
<1>3. \A q \in Rnti : RachTaskOf(q) # [type |-> "process_pdus"]
  BY DEF RachTaskOf
<1>4. UniqueRach'
  <2> SUFFICES ASSUME NEW i \in 1..Len(macTasks'), NEW j \in 1..Len(macTasks'), NEW q \in Rnti,
                      macTasks'[i] = RachTaskOf(q), macTasks'[j] = RachTaskOf(q)
               PROVE  i = j
    BY DEF UniqueRach, RachTaskOf
  <2> QED
    BY <1>2, <1>3 DEF UniqueRach
<1>5. RachPending' = RachPending
  <2>1. \A q \in Rnti : q \in RachPending <=> \E i \in 1..Len(macTasks) : macTasks[i] = RachTaskOf(q)
    BY DEF RachPending, RachTaskOf
  <2>2. \A q \in Rnti : q \in RachPending' <=> \E i \in 1..Len(macTasks') : macTasks'[i] = RachTaskOf(q)
    BY DEF RachPending, RachTaskOf
  <2>3. \A q \in Rnti : q \in RachPending' <=> q \in RachPending
    BY <1>2, <1>3, <2>1, <2>2
  <2> QED
    BY <2>3 DEF RachPending
<1> QED
  BY <1>4, <1>5

\* Taking a task off the queue takes away at most the RNTI it is for.
LEMMA PopTask ==
  ASSUME TypeOK, UniqueRach, macTasks # <<>>, macTasks' = Tail(macTasks)
  PROVE  /\ UniqueRach'
         /\ RachPending' = {q \in RachPending : Head(macTasks) # RachTaskOf(q)}
<1>1. macTasks \in Seq(MacTask)
  BY DEF TypeOK
<1>2. /\ Len(macTasks) \in Nat \ {0}
      /\ Head(macTasks) = macTasks[1]
      /\ Len(macTasks') = Len(macTasks) - 1
      /\ \A i \in 1..Len(macTasks') : i + 1 \in 1..Len(macTasks) /\ macTasks'[i] = macTasks[i + 1]
  BY <1>1
<1>3. \A i \in 2..Len(macTasks) : i - 1 \in 1..Len(macTasks') /\ macTasks[i] = macTasks'[i - 1]
  BY <1>2
<1>4. UniqueRach'
  <2> SUFFICES ASSUME NEW i \in 1..Len(macTasks'), NEW j \in 1..Len(macTasks'), NEW q \in Rnti,
                      macTasks'[i] = RachTaskOf(q), macTasks'[j] = RachTaskOf(q)
               PROVE  i = j
    BY DEF UniqueRach, RachTaskOf
  <2>1. i + 1 = j + 1
    BY <1>2 DEF UniqueRach
  <2> QED
    BY <1>2, <2>1
<1>5. RachPending' = {q \in RachPending : Head(macTasks) # RachTaskOf(q)}
  <2>1. \A q \in Rnti : q \in RachPending <=> \E i \in 1..Len(macTasks) : macTasks[i] = RachTaskOf(q)
    BY DEF RachPending, RachTaskOf
  <2>2. \A q \in Rnti : q \in RachPending' <=> \E i \in 1..Len(macTasks') : macTasks'[i] = RachTaskOf(q)
    BY DEF RachPending, RachTaskOf
  <2>3. \A q \in Rnti : q \in RachPending' => q \in RachPending /\ Head(macTasks) # RachTaskOf(q)
    <3> SUFFICES ASSUME NEW q \in Rnti, q \in RachPending'
                 PROVE  q \in RachPending /\ Head(macTasks) # RachTaskOf(q)
      OBVIOUS
    <3>1. PICK i \in 1..Len(macTasks') : macTasks'[i] = RachTaskOf(q)
      BY <2>2
    <3>2. macTasks[i + 1] = RachTaskOf(q) /\ i + 1 \in 1..Len(macTasks) /\ 1 \in 1..Len(macTasks)
      BY <1>2, <3>1
    <3>3. macTasks[1] = RachTaskOf(q) => i + 1 = 1
      BY <3>2 DEF UniqueRach
    <3> QED
      BY <1>2, <2>1, <3>2, <3>3
  <2>4. \A q \in Rnti : q \in RachPending /\ Head(macTasks) # RachTaskOf(q) => q \in RachPending'
    BY <1>2, <1>3, <2>1, <2>2
  <2> QED
    BY <2>3, <2>4 DEF RachPending
<1> QED
  BY <1>4, <1>5

\* A step that leaves the queue alone leaves its RACH tasks alone.
LEMMA SameTasks ==
  ASSUME UNCHANGED macTasks, UniqueRach
  PROVE  UniqueRach' /\ RachPending' = RachPending
  BY DEF UniqueRach, RachPending, RachTaskOf

\* The NPRACH worker, the PHY worker and the MME.
LEMMA EnvironmentWorkerInv ==
  ASSUME Typed, WorkerInv, ~InUseAgain,
         \/ RachDetected
         \/ \E r \in Rnti : CrcInfo(r)
         \/ \E r \in Rnti, type \in {"dl_nas", "release"} : MmeSends(r, type)
         \/ WorkerStep
  PROVE  WorkerInv'
<1> USE DEF WorkerInv, Typed
<1>1. CASE RachDetected
  <2>1. last_rnti \in Rnti /\ ~InUse(last_rnti)
    BY <1>1 DEF RachDetected, TypeOK
  <2>2. /\ last_rnti \notin mac \cup sched \cup rlc
        /\ rrc[last_rnti] = "absent"
        /\ worker.at # "idle" => worker.rnti # last_rnti
    BY <2>1 DEF InUse, RrcUsers
  <2>3. last_rnti \notin RachPending
    BY <2>1 DEF InUse, RachPending
  <2>4. UniqueRach' /\ RachPending' = RachPending \cup {last_rnti}
    BY <1>1, <2>1, <2>3, PushRach DEF RachDetected, RachTaskOf
  <2>5. RachIsFresh'
    BY <1>1, <2>2, <2>4 DEF RachIsFresh, RachDetected
  <2>6. RemovalOrder'
    BY <1>1, <2>2 DEF RemovalOrder, RachDetected
  <2>7. MacHasRlc' /\ GeneratesForMacUser'
    BY <1>1, <2>4 DEF MacHasRlc, GeneratesForMacUser, RachDetected
  <2> QED
    BY <2>4, <2>5, <2>6, <2>7
<1>2. ASSUME NEW r \in Rnti, CrcInfo(r) PROVE WorkerInv'
  <2>1. UniqueRach' /\ RachPending' = RachPending
    BY <1>2, PushPdus DEF CrcInfo
  <2> QED
    BY <1>2, <2>1 DEF CrcInfo, RachIsFresh, RemovalOrder, MacHasRlc, GeneratesForMacUser
<1>3. ASSUME NEW r \in Rnti, NEW type \in {"dl_nas", "release"}, MmeSends(r, type)
      PROVE WorkerInv'
  <2>1. UniqueRach' /\ RachPending' = RachPending
    BY <1>3, SameTasks DEF MmeSends
  <2> QED
    BY <1>3, <2>1 DEF MmeSends, RachIsFresh, RemovalOrder, MacHasRlc, GeneratesForMacUser
<1>4. CASE WorkerStep
  <2>1. UniqueRach' /\ RachPending' = RachPending
    BY <1>4, SameTasks DEF WorkerStep, DlSched, TakeDlResult, GeneratePdu
  <2>2. UNCHANGED <<mac, sched, rlc, rrc, stack>>
    BY <1>4 DEF WorkerStep, DlSched, TakeDlResult, GeneratePdu
  <2>3. RemovalOrder' /\ MacHasRlc'
    BY <2>1, <2>2 DEF RemovalOrder, MacHasRlc
  <2>4. ASSUME NEW r \in Rnti, DlSched(r) PROVE RachIsFresh' /\ GeneratesForMacUser'
    <3>1. r \notin RachPending
      BY <2>4 DEF DlSched, PendingIsScheduled, RachIsFresh
    <3>2. worker' = [at |-> "scheduled", rnti |-> r]
      BY <2>4 DEF DlSched
    <3> QED
      BY <2>1, <2>2, <3>1, <3>2 DEF RachIsFresh, GeneratesForMacUser
  <2>5. ASSUME worker' = Idle PROVE RachIsFresh' /\ GeneratesForMacUser'
    BY <2>1, <2>2, <2>5 DEF RachIsFresh, GeneratesForMacUser, Idle
  <2>6. ASSUME TakeDlResult PROVE RachIsFresh' /\ GeneratesForMacUser'
    <3>1. CASE worker.rnti \in mac
      <4>1. worker'.at = "generating" /\ worker'.rnti = worker.rnti /\ worker.at = "scheduled"
        BY <2>6, <3>1 DEF TakeDlResult, TypeOK
      <4> QED
        BY <2>1, <2>2, <3>1, <4>1 DEF RachIsFresh, GeneratesForMacUser
    <3> QED
      BY <2>5, <2>6, <3>1 DEF TakeDlResult
  <2>7. ASSUME GeneratePdu PROVE RachIsFresh' /\ GeneratesForMacUser'
    BY <2>5, <2>7 DEF GeneratePdu
  <2> QED
    BY <1>4, <2>1, <2>3, <2>4, <2>6, <2>7 DEF WorkerStep
<1> QED
  BY <1>1, <1>2, <1>3, <1>4

\* The stack thread.
LEMMA StackWorkerInv ==
  ASSUME Typed, WorkerInv, StackStep
  PROVE  WorkerInv'
<1> USE DEF WorkerInv, Typed
<1>1. CASE RachTask
  <2> DEFINE q == Head(macTasks).rnti
  <2>1. Head(macTasks) \in MacTask /\ macTasks # <<>> /\ macTasks' = Tail(macTasks)
    BY <1>1 DEF RachTask, PopMacTask, TypeOK
  <2>2. Head(macTasks) = RachTaskOf(q) /\ q \in Rnti
    BY <1>1, <2>1 DEF RachTask, PopMacTask, MacTask, RachTaskOf
  <2>3. UniqueRach' /\ RachPending' = RachPending \ {q}
    <3>1. UniqueRach' /\ RachPending' = {r \in RachPending : Head(macTasks) # RachTaskOf(r)}
      BY <2>1, PopTask
    <3>2. \A r : RachTaskOf(r) = RachTaskOf(q) <=> r = q
      BY DEF RachTaskOf
    <3> HIDE DEF q
    <3> QED
      BY <2>2, <3>1, <3>2
  <2>4. q \in RachPending
    <3>1. Head(macTasks) = macTasks[1] /\ 1 \in 1..Len(macTasks)
      BY <2>1 DEF TypeOK
    <3> QED
      BY <2>2, <3>1 DEF RachPending, RachTaskOf
  <2>5. rrc[q] = "absent"
    BY <2>4 DEF RachIsFresh
  <2>6. RrcAddUser(q) /\ sched' = sched \cup {q} /\ UNCHANGED <<mac, worker, stack>>
    BY <1>1 DEF RachTask
  <2> HIDE DEF q
  <2>7. rrc' = [rrc EXCEPT ![q] = "idle"] /\ rlc' = rlc \cup {q}
    BY <2>5, <2>6 DEF RrcAddUser
  <2>8. \A r \in Rnti : r # q => rrc'[r] = rrc[r]
    BY <2>7 DEF TypeOK
  <2>9. RachPending \subseteq Rnti
    BY DEF RachPending
  <2>10. RachIsFresh'
    BY <2>3, <2>6, <2>7, <2>8, <2>9 DEF RachIsFresh
  <2>11. RemovalOrder'
    BY <2>2, <2>6, <2>7 DEF RemovalOrder, TypeOK
  <2>12. MacHasRlc' /\ GeneratesForMacUser'
    BY <2>3, <2>6, <2>7 DEF MacHasRlc, GeneratesForMacUser
  <2> QED
    BY <2>3, <2>10, <2>11, <2>12
<1>2. CASE ProcessPdus
  <2>1. macTasks # <<>> /\ macTasks' = Tail(macTasks) /\ Head(macTasks).type = "process_pdus"
    BY <1>2 DEF ProcessPdus, PopMacTask
  <2>2. UniqueRach' /\ RachPending' = RachPending
    <3>1. UniqueRach' /\ RachPending' = {r \in RachPending : Head(macTasks) # RachTaskOf(r)}
      BY <2>1, PopTask
    <3>2. \A r : Head(macTasks) # RachTaskOf(r)
      BY <2>1 DEF RachTaskOf
    <3> QED
      BY <3>1, <3>2
  <2> QED
    BY <1>2, <2>2
    DEF ProcessPdus, RachIsFresh, RemovalOrder, MacHasRlc, GeneratesForMacUser, TypeOK
<1>3. ASSUME UNCHANGED <<mac, sched, rlc, rrc, stack, worker, macTasks>> PROVE WorkerInv'
  <2>1. UniqueRach' /\ RachPending' = RachPending
    BY <1>3, SameTasks
  <2> QED
    BY <1>3, <2>1 DEF RachIsFresh, RemovalOrder, MacHasRlc, GeneratesForMacUser
<1>4. ASSUME UNCHANGED <<mac, sched, rlc, rrc, worker, macTasks>>,
             stack'.at \notin {"rem_sched", "rem_mac", "rem_rlc", "rem_rrc"}
      PROVE  WorkerInv'
  <2>1. UniqueRach' /\ RachPending' = RachPending
    BY <1>4, SameTasks
  <2> QED
    BY <1>4, <2>1 DEF RachIsFresh, RemovalOrder, MacHasRlc, GeneratesForMacUser
<1>5. CASE (\E r \in Rnti : ProcessPdu(r)) \/ DlNasTask \/ ReleaseTask \/ HandleUlInfo
  BY <1>3, <1>5 DEF ProcessPdu, DlNasTask, ReleaseTask, HandleUlInfo, PopRrcPdu
<1>6. CASE TtiClock \/ RemUserThread
  BY <1>4, <1>6 DEF TtiClock, RemUserThread, Tti
<1>7. CASE ProcessPdusEnd \/ TtiClockEnd \/ Sleep
  BY <1>4, <1>7 DEF ProcessPdusEnd, TtiClockEnd, Sleep, TypeOK
<1>8. CASE ProcessReleaseComplete
  BY <1>4, <1>8 DEF ProcessReleaseComplete, PopRrcPdu
<1>9. CASE HandleConReq \/ HandleConSetupComplete
  <2> DEFINE q == Head(rx_pdu_queue).rnti
  <2>1. /\ rrc[q] # "absent" /\ stack.at = "tti"
        /\ UNCHANGED <<mac, rlc, stack, worker, macTasks>>
        /\ sched' \subseteq sched \cup {q}
        /\ \/ rrc' = [rrc EXCEPT ![q] = "wait_con_setup_complete"]
           \/ rrc' = [rrc EXCEPT ![q] = "wait_con_reconf_complete"]
    BY <1>9 DEF HandleConReq, HandleConSetupComplete, PopRrcPdu
  <2> HIDE DEF q
  <2>2. UniqueRach' /\ RachPending' = RachPending
    BY <2>1, SameTasks
  <2>3. q \notin RachPending /\ RachPending \subseteq Rnti
    BY <2>1 DEF RachIsFresh, RachPending
  <2>4. \A r \in RachPending : rrc'[r] = rrc[r]
    BY <2>1, <2>3 DEF TypeOK
  <2> QED
    BY <2>1, <2>2, <2>3, <2>4
    DEF RachIsFresh, RemovalOrder, MacHasRlc, GeneratesForMacUser
<1>10. CASE RemUser
  <2>1. UniqueRach' /\ RachPending' = RachPending
    BY <1>10, SameTasks DEF RemUser, PopRrcPdu
  <2>2. RemovalOrder'
    BY <1>10 DEF RemUser, PopRrcPdu, RemovalOrder
  <2> QED
    BY <1>10, <2>1, <2>2
    DEF RemUser, PopRrcPdu, RachIsFresh, MacHasRlc, GeneratesForMacUser
<1>11. CASE RemSched
  <2>1. UniqueRach' /\ RachPending' = RachPending
    BY <1>11, SameTasks DEF RemSched
  <2> QED
    BY <1>11, <2>1
    DEF RemSched, RachIsFresh, RemovalOrder, MacHasRlc, GeneratesForMacUser, TypeOK
<1>12. CASE RemMac
  <2>1. UniqueRach' /\ RachPending' = RachPending
    BY <1>12, SameTasks DEF RemMac
  <2> QED
    BY <1>12, <2>1
    DEF RemMac, RachIsFresh, RemovalOrder, MacHasRlc, GeneratesForMacUser, TypeOK
<1>13. CASE RemRlc
  <2>1. UniqueRach' /\ RachPending' = RachPending
    BY <1>13, SameTasks DEF RemRlc
  <2> QED
    BY <1>13, <2>1
    DEF RemRlc, RachIsFresh, RemovalOrder, MacHasRlc, GeneratesForMacUser, TypeOK
<1>14. CASE RemRrc
  <2>1. UniqueRach' /\ RachPending' = RachPending
    BY <1>14, SameTasks DEF RemRrc
  <2>2. RachPending \subseteq Rnti
    BY DEF RachPending
  <2> QED
    BY <1>14, <2>1, <2>2
    DEF RemRrc, Tti, RachIsFresh, RemovalOrder, MacHasRlc, GeneratesForMacUser, TypeOK
<1> QED
  BY <1>1, <1>2, <1>5, <1>6, <1>7, <1>8, <1>9, <1>10, <1>11, <1>12, <1>13, <1>14 DEF StackStep

\* WorkerInv holds throughout every behaviour without reuse of RNTIs in use.
LEMMA WorkerInvariance ==
  ASSUME ~InUseAgain
  PROVE  Spec => []WorkerInv
<1>1. Init => WorkerInv
  BY DEF Init, WorkerInv, UniqueRach, RachIsFresh, RemovalOrder, MacHasRlc, GeneratesForMacUser,
         RachPending, Idle
<1>2. Typed /\ WorkerInv /\ [Next]_vars => WorkerInv'
  <2>1. ASSUME Typed, WorkerInv, Next PROVE WorkerInv'
    BY <2>1, EnvironmentWorkerInv, StackWorkerInv DEF Next
  <2>2. ASSUME WorkerInv, UNCHANGED vars PROVE WorkerInv'
    BY <2>2, SameTasks DEF vars, WorkerInv, RachIsFresh, RemovalOrder, MacHasRlc, GeneratesForMacUser
  <2> QED
    BY <2>1, <2>2
<1> QED
  BY <1>1, <1>2, TypedInvariance, PTL DEF Spec

(***************************************************************************)
(* While the PHY worker generates a PDU, the RLC has the user: rem_user    *)
(* waits for the worker at the MAC's write lock before it comes to the     *)
(* RLC, and a scheduling result that outlives its user finds the MAC       *)
(* without it.  This holds as long as allocate_rnti does not come round to *)
(* an RNTI that is still in use.                                           *)
(***************************************************************************)
THEOREM WorkerFindsRlcUser ==
  ASSUME ~InUseAgain
  PROVE  Spec => []GeneratesForKnownUser
<1>1. WorkerInv => GeneratesForKnownUser
  BY DEF WorkerInv, GeneratesForKnownUser, GeneratesForMacUser, MacHasRlc, RachIsFresh
<1> QED
  BY <1>1, WorkerInvariance, PTL

=============================================================================
