-------------------------- MODULE DlBuffersProofs --------------------------
(***************************************************************************)
(* Proofs about DlBuffers, for any sizes of SDUs and any capacity of the   *)
(* queue: the types, that a grant has room for what it promises, that a    *)
(* connection setup is never cut, and that it never precedes the           *)
(* contention resolution.                                                  *)
(***************************************************************************)
EXTENDS DlBuffers, TLAPS

-----------------------------------------------------------------------------
(* The inductive invariant *)

\* The most that is ever reported for a bearer
Limit(l) == IF l = SRB0 THEN 76 ELSE Capacity + 3

Flags == asked \in BOOLEAN /\ pending_ces \in BOOLEAN /\ ce \in BOOLEAN /\ resolved \in BOOLEAN

\* Buffers and reports on both sides
RlcSizes == rlc \in [Lcid -> Nat] /\ rlc[SRB0] <= 76 /\ rlc[SRB1bis] <= Capacity
SchedSizes == buf_tx \in [Lcid -> Nat] /\ \A l \in Lcid : buf_tx[l] <= Limit(l)
StackSizes ==
  /\ stack \in [at : StackPc, lcid : Lcid, tx_queue : Nat]
  /\ IF stack.at = "report" THEN stack.tx_queue <= Limit(stack.lcid) ELSE stack.tx_queue = 0
WorkerSizes ==
  /\ reading \in [lcid : Lcid, sdu_len : Nat, n : Nat, tx_queue : Nat]
  /\ reading.tx_queue <= Limit(reading.lcid)
  /\ mac_msg_dl \in [rem_len : Nat, sdus : Nat]
Sizes == RlcSizes /\ SchedSizes /\ StackSizes /\ WorkerSizes

\* Bytes of the transport block that are allocated
CeBytes == IF ce THEN ConResSize ELSE 0
SduBytes(n) == IF n = 0 THEN 0 ELSE n + 2
Used == CeBytes + SduBytes(pdu[SRB0]) + SduBytes(pdu[SRB1bis])

(***************************************************************************)
(* What is allocated and what is left make up the transport block while    *)
(* the scheduler fills it, and a bearer is not allocated to twice.         *)
(***************************************************************************)
Granted ==
  /\ worker \in WorkerPc /\ pass \in {"dl", "ul"} /\ i_sf \in {0, 2}
  /\ tbs \in 0..MaxTbs /\ rem_tbs \in 0..MaxTbs
  /\ pdu \in [Lcid -> 0..MaxTbs]
  /\ Used <= tbs
  /\ worker = "mac_ces" => Used = 0 /\ rem_tbs = tbs /\ ~ce
  /\ worker = "mac_sdus" => /\ Used + rem_tbs = tbs
                            /\ \A l \in Lcid : pdu[l] > 0 => buf_tx[l] = 0 \/ rem_tbs < MinMacSdu

\* The connection setup is written once.
WrittenOnce ==
  /\ stack.at = "write_sdu" => asked /\ rlc[SRB0] = 0 /\ stack.lcid = SRB0
  /\ ~asked => rlc[SRB0] = 0

(***************************************************************************)
(* While the PDU is filled, what SRB0 took of it is within its part of the *)
(* grant: one SDU, since no second setup is written.                       *)
(***************************************************************************)
Filled ==
  /\ mac_msg_dl.rem_len <= MaxTbs
  /\ reading.sdu_len <= MaxTbs /\ reading.n <= MaxTbs
  /\ worker \in {"allocate_sdu", "read_pdu", "get_state", "report"} =>
       /\ reading.lcid = SRB0 \/ worker = "allocate_sdu" =>
            \/ mac_msg_dl.sdus = 0 /\ mac_msg_dl.rem_len = tbs - CeBytes
            \/ /\ mac_msg_dl.sdus > 0 /\ pdu[SRB0] > 0
               /\ mac_msg_dl.rem_len + 1 + pdu[SRB0] >= tbs - CeBytes
               /\ rlc[SRB0] = 0 /\ asked /\ stack.at # "write_sdu"
       /\ reading.lcid = SRB0 /\ worker = "allocate_sdu" => mac_msg_dl.sdus = 0
       /\ reading.lcid = SRB0 /\ worker # "allocate_sdu" => reading.sdu_len <= pdu[SRB0]

(***************************************************************************)
(* In the downlink pass the transport block has room for all of SRB0's     *)
(* data besides the contention resolution.                                 *)
(***************************************************************************)
RoomForSrb0 ==
  pass = "dl" /\ buf_tx[SRB0] > 0 =>
    /\ worker = "mac_ces" =>
         tbs >= buf_tx[SRB0] + 2 + (IF pending_ces THEN ConResSize ELSE 0)
    /\ worker = "mac_sdus" => pdu[SRB0] = 0 /\ rem_tbs >= buf_tx[SRB0] + 2

(***************************************************************************)
(* Until the contention is resolved the worker has not got beyond the      *)
(* first grant, which has the control element.                             *)
(***************************************************************************)
Unresolved ==
  /\ ~asked => /\ worker = "dl_sched" /\ ~pending_ces
               /\ buf_tx[SRB0] = 0 /\ buf_tx[SRB1bis] = 0
               /\ stack.at = "idle"
  /\ asked /\ ~resolved =>
       \/ worker = "dl_sched" /\ pending_ces
       \/ worker = "mac_ces" /\ pending_ces /\ pass = "dl" /\ tbs >= ConResSize
       \/ worker \in {"mac_sdus", "generate_pdu"} /\ ce /\ pass = "dl"

IInv == Flags /\ Sizes /\ Granted /\ WrittenOnce /\ Filled /\ RoomForSrb0 /\ Unresolved

-----------------------------------------------------------------------------
(* The operators *)

\* The smaller and the larger of two numbers.
LEMMA LeastMost ==
  ASSUME NEW m \in Int, NEW n \in Int
  PROVE  /\ Least(m, n) \in {m, n} /\ Least(m, n) <= m /\ Least(m, n) <= n
         /\ Most(m, n) \in {m, n} /\ Most(m, n) >= m /\ Most(m, n) >= n
  BY DEF Least, Most

\* tbs_table_nbiot: the sizes, and the largest of a row.
LEMMA TbsRange ==
  ASSUME NEW i \in {0, 2}, NEW mcs \in Mcs
  PROVE  /\ TbsBytes(i, mcs) \in 1..MaxTbs
         /\ mcs = 12 => TbsBytes(i, mcs) = IF i = 0 THEN 26 ELSE 85
  <1>1. mcs \in {0, 1, 2, 3, 4, 5, 6, 7, 8, 9, 10, 11, 12}
    BY DEF Mcs
  <1>2. CASE i = 0
    BY <1>1, <1>2 DEF TbsBytes, TbsTable, MaxTbs
  <1>3. CASE i = 2
    BY <1>1, <1>3 DEF TbsBytes, TbsTable, MaxTbs
  <1>4. QED
    BY <1>2, <1>3

\* What the scheduler asks for is a number, at least what SRB0 and the
\* contention resolution need.
LEMMA Requested ==
  ASSUME Sizes, Flags
  PROVE  /\ RequestedDlBytes \in Nat
         /\ buf_tx[SRB0] > 0 => RequestedDlBytes >= buf_tx[SRB0] + 2 + (IF pending_ces THEN ConResSize ELSE 0)
         /\ pending_ces => RequestedDlBytes >= ConResSize
  <1>1. buf_tx[SRB0] \in 0..76 /\ buf_tx[SRB1bis] \in Nat
    BY DlBuffersAssumption DEF Sizes, SchedSizes, Lcid, Limit, SRB0, SRB1bis
  <1>2. SduTotalBytes(SRB0) = IF buf_tx[SRB0] = 0 THEN 0 ELSE buf_tx[SRB0] + 2
    BY <1>1 DEF SduTotalBytes, SubheaderSize, SRB0
  <1>3. SduTotalBytes(SRB1bis) \in Nat
    BY <1>1 DEF SduTotalBytes, SubheaderSize, Most, MinMacSdu, SRB0, SRB1bis
  <1>4. QED
    BY <1>1, <1>2, <1>3 DEF RequestedDlBytes, ConResSize

\* generate_formatN1 in the downlink pass: the transport block is larger than
\* what is asked for, or the largest of three subframes.
LEMMA DlTbs ==
  ASSUME NEW i, i = IF RequestedDlBytes > 20 THEN 2 ELSE 0, RequestedDlBytes \in Nat,
         NEW mcs \in Mcs, IsMcs(i, mcs)
  PROVE  TbsBytes(i, mcs) > RequestedDlBytes \/ TbsBytes(i, mcs) = MaxTbs
  <1>1. i \in {0, 2}
    OBVIOUS
  <1>2. CASE TbsBytes(i, mcs) > RequestedDlBytes
    BY <1>2
  <1>3. CASE mcs = 12
    BY <1>1, <1>3, TbsRange DEF MaxTbs
  <1>4. QED
    BY <1>2, <1>3 DEF IsMcs

-----------------------------------------------------------------------------
(* Each part of the invariant is kept *)

\* Nothing was asked for, written or granted at the start.
LEMMA InitIInv == Init => IInv
  <1> SUFFICES ASSUME Init PROVE IInv
    OBVIOUS
  <1> USE DlBuffersAssumption DEF Init, SRB0, SRB1bis, Lcid, NoGrant, NoPdu, NoRead
  <1>1. Flags
    BY DEF Flags
  <1>2. Sizes
    BY DEF Sizes, RlcSizes, SchedSizes, StackSizes, WorkerSizes, Limit, StackPc
  <1>3. Granted
    BY DEF Granted, WorkerPc, MaxTbs, Used, CeBytes, SduBytes
  <1>4. WrittenOnce /\ Filled /\ RoomForSrb0 /\ Unresolved
    BY DEF WrittenOnce, Filled, RoomForSrb0, Unresolved, MaxTbs
  <1>5. QED
    BY <1>1, <1>2, <1>3, <1>4 DEF IInv

\* The flags stay Boolean.
LEMMA NextFlags == Flags /\ [Next]_vars => Flags'
  <1> SUFFICES ASSUME Flags, [Next]_vars PROVE Flags'
    OBVIOUS
  <1> USE DEF Flags, ueVars, grantVars, pduVars
  <1>1. CASE Arrivals
    BY <1>1, Zenon DEF Arrivals, ConnectionRequest, WritePdu, WriteSdu
  <1>2. CASE StackStep
    BY <1>2, Zenon DEF StackStep, SendDlCcch, StackGetState, StackReport
  <1>3. CASE DlSched \/ UlSched
    BY <1>3, Zenon DEF DlSched, UlSched, GenerateFormatN1
  <1>4. CASE AllocateMacCes
    BY <1>4, Zenon DEF AllocateMacCes
  <1>5. CASE (\E l \in Lcid : AllocRlcPdu(l)) \/ SchedEnds
    BY <1>5, Zenon DEF AllocRlcPdu, SchedEnds
  <1>6. CASE GeneratePdu
    BY <1>6, Zenon DEF GeneratePdu
  <1>7. CASE AllocateSdu \/ ReadPdu \/ WorkerGetState \/ WorkerReport \/ NextSdu
    BY <1>7, Zenon DEF AllocateSdu, ReadPdu, WorkerGetState, WorkerReport, NextSdu
  <1>8. CASE UNCHANGED vars
    BY <1>8, Zenon DEF vars
  <1>9. QED
    BY <1>1, <1>2, <1>3, <1>4, <1>5, <1>6, <1>7, <1>8 DEF Next, WorkerStep

\* What rlc::read_pdu takes fits into the PDU and was in the queue.
LEMMA Taken ==
  ASSUME RlcSizes, NEW l \in Lcid, NEW len \in Nat
  PROVE  /\ BytesTaken(l, len) \in 0..rlc[l]
         /\ l = SRB0 => BytesTaken(l, len) <= len /\ BytesTaken(l, len) \in {0, rlc[l]}
         /\ l # SRB0 /\ BytesTaken(l, len) > 0 => BytesTaken(l, len) + 2 <= len
  BY DEF BytesTaken, RlcSizes, Least

\* A report is within the limit of its bearer.
LEMMA StateLimit ==
  ASSUME RlcSizes, NEW l \in Lcid
  PROVE  BufferState(l) \in Nat /\ BufferState(l) <= Limit(l)
  BY DlBuffersAssumption DEF BufferState, RlcSizes, Limit, Lcid, SRB0, SRB1bis

\* The bearers and their limits.
LEMMA Bearers ==
  /\ SRB0 \in Lcid /\ SRB1bis \in Lcid /\ SRB0 # SRB1bis
  /\ \A l \in Lcid : (l = SRB0 \/ l = SRB1bis) /\ Limit(l) \in Nat
  /\ Limit(SRB0) = 76 /\ Limit(SRB1bis) = Capacity + 3
  BY DlBuffersAssumption DEF Lcid, SRB0, SRB1bis, Limit

\* What one call of read_pdu, within the space of the PDU, leaves.
LEMMA ReadFacts ==
  ASSUME Sizes, ReadPdu
  PROVE  LET l == reading.lcid
             taken == BytesTaken(l, reading.sdu_len)
             n == reading'.n
         IN /\ l \in Lcid /\ taken \in 0..rlc[l] /\ n \in 0..reading.sdu_len
            /\ n = IF l = SRB0 \/ taken = 0 THEN taken ELSE taken + 2
            /\ SduSpace \in Int /\ SduSpace - n \in Nat
            /\ reading.sdu_len >= 2
            /\ rlc' = [rlc EXCEPT ![l] = @ - taken]
            /\ reading' = [reading EXCEPT !.sdu_len = @ - n, !.n = n]
            /\ n > 0 => mac_msg_dl' = [rem_len |-> SduSpace - n, sdus |-> mac_msg_dl.sdus + 1]
            /\ n = 0 => mac_msg_dl' = mac_msg_dl
  <1> DEFINE l == reading.lcid
             taken == BytesTaken(l, reading.sdu_len)
             n == IF l = SRB0 \/ taken = 0 THEN taken ELSE taken + 2
  <1>1. l \in Lcid /\ reading.sdu_len \in Nat /\ rlc[l] \in Nat
    BY DEF Sizes, WorkerSizes, RlcSizes
  <1>2. taken \in 0..rlc[l] /\ n \in 0..reading.sdu_len
    BY <1>1, Taken DEF Sizes
  <1>3. ReadsMore /\ SduSpace \in Int
    BY DEF ReadPdu, SduSpace, Sizes, WorkerSizes
  <1>4. SduSpace - n \in Nat
    BY <1>1, <1>2, <1>3 DEF ReadsMore
  <1>5. /\ rlc' = [rlc EXCEPT ![l] = @ - taken]
        /\ reading' = [reading EXCEPT !.sdu_len = @ - n, !.n = n]
        /\ mac_msg_dl' = IF n > 0 THEN [rem_len |-> SduSpace - n, sdus |-> mac_msg_dl.sdus + 1]
                                 ELSE mac_msg_dl
    BY DEF ReadPdu
  <1> HIDE DEF taken
  <1>6. reading'.n = n
    BY <1>5 DEF Sizes, WorkerSizes
  <1>7. QED
    BY <1>1, <1>2, <1>3, <1>4, <1>5, <1>6 DEF ReadsMore, taken

\* The RLC's queues keep their bounds.
LEMMA NextRlcSizes == Sizes /\ [Next]_vars => RlcSizes'
  <1> SUFFICES ASSUME Sizes, [Next]_vars PROVE RlcSizes'
    OBVIOUS
  <1> USE DlBuffersAssumption, Bearers DEF Sizes, RlcSizes
  <1>1. ASSUME NEW n \in SduSizes, WriteSdu(n) PROVE RlcSizes'
    BY <1>1 DEF WriteSdu
  <1>2. ASSUME NEW n \in SetupSizes, SendDlCcch(n) PROVE RlcSizes'
    BY <1>2 DEF SendDlCcch
  <1>3. CASE ReadPdu
    <2>1. reading.lcid \in Lcid /\ BytesTaken(reading.lcid, reading.sdu_len) \in 0..rlc[reading.lcid]
          /\ rlc' = [rlc EXCEPT ![reading.lcid] = @ - BytesTaken(reading.lcid, reading.sdu_len)]
      BY <1>3, ReadFacts
    <2>2. QED
      BY <2>1
  <1>4. CASE UNCHANGED rlc
    BY <1>4
  <1>5. QED
    BY <1>1, <1>2, <1>3, <1>4
       DEF Next, Arrivals, StackStep, WorkerStep, ConnectionRequest, WritePdu, StackGetState,
           StackReport, DlSched, UlSched, AllocateMacCes, AllocRlcPdu, SchedEnds, GeneratePdu,
           AllocateSdu, WorkerGetState, WorkerReport, NextSdu, vars

\* So does what the scheduler believes.
LEMMA NextSchedSizes == Sizes /\ Granted /\ [Next]_vars => SchedSizes'
  <1> SUFFICES ASSUME Sizes, Granted, [Next]_vars PROVE SchedSizes'
    OBVIOUS
  <1> USE Bearers DEF Sizes, SchedSizes
  <1>1. CASE StackReport
    BY <1>1 DEF StackReport, StackSizes
  <1>2. ASSUME NEW l \in Lcid, AllocRlcPdu(l) PROVE SchedSizes'
    <2> DEFINE n == Least(buf_tx[l], MaxSduBytes)
    <2>1. MaxSduBytes \in Nat
      BY <1>2 DEF AllocRlcPdu, MaxSduBytes, SubheaderSize, Granted, MaxTbs, MinMacSdu
    <2>2. n \in 0..buf_tx[l]
      BY <2>1 DEF Least
    <2>3. buf_tx' = [buf_tx EXCEPT ![l] = @ - n]
      BY <1>2 DEF AllocRlcPdu
    <2> HIDE DEF n
    <2>4. QED
      BY <2>2, <2>3
  <1>3. CASE WorkerReport
    BY <1>3 DEF WorkerReport, WorkerSizes
  <1>4. CASE UNCHANGED buf_tx
    BY <1>4
  <1>5. QED
    BY <1>1, <1>2, <1>3, <1>4
       DEF Next, Arrivals, StackStep, WorkerStep, ConnectionRequest, WritePdu, WriteSdu, SendDlCcch,
           StackGetState, DlSched, UlSched, AllocateMacCes, SchedEnds, GeneratePdu, ReadPdu,
           AllocateSdu, WorkerGetState, NextSdu, vars, ueVars

\* And the report that the stack thread is making.
LEMMA NextStackSizes == Sizes /\ [Next]_vars => StackSizes'
  <1> SUFFICES ASSUME Sizes, [Next]_vars PROVE StackSizes'
    OBVIOUS
  <1> USE Bearers DEF Sizes, StackSizes, StackPc
  <1>1. CASE ConnectionRequest
    BY <1>1 DEF ConnectionRequest
  <1>2. CASE WritePdu \/ \E n \in SduSizes : WriteSdu(n)
    <2>1. stack.at = "idle" /\ stack' = [stack EXCEPT !.at = "get_state", !.lcid = SRB1bis]
      BY <1>2 DEF WritePdu, WriteSdu
    <2>2. QED
      BY <2>1
  <1>3. CASE \E n \in SetupSizes : SendDlCcch(n)
    BY <1>3 DEF SendDlCcch
  <1>4. CASE StackGetState
    <2>1. BufferState(stack.lcid) \in Nat /\ BufferState(stack.lcid) <= Limit(stack.lcid)
      BY StateLimit
    <2>2. QED
      BY <1>4, <2>1 DEF StackGetState
  <1>5. CASE StackReport
    BY <1>5 DEF StackReport
  <1>6. CASE UNCHANGED stack
    BY <1>6
  <1>7. QED
    BY <1>1, <1>2, <1>3, <1>4, <1>5, <1>6
       DEF Next, Arrivals, StackStep, WorkerStep, DlSched, UlSched, AllocateMacCes, AllocRlcPdu,
           SchedEnds, GeneratePdu, ReadPdu, AllocateSdu, WorkerGetState, WorkerReport, NextSdu, vars

\* And what the worker reads.
LEMMA NextWorkerSizes == Sizes /\ Granted /\ [Next]_vars => WorkerSizes'
  <1> SUFFICES ASSUME Sizes, Granted, [Next]_vars PROVE WorkerSizes'
    OBVIOUS
  <1> USE Bearers DEF Sizes, WorkerSizes
  <1>1. CASE GeneratePdu
    <2>1. IF ce THEN tbs - ConResSize \in Nat ELSE tbs \in Nat
      <3>1. SduBytes(pdu[SRB0]) \in Nat /\ SduBytes(pdu[SRB1bis]) \in Nat
        BY DEF SduBytes, Granted
      <3>2. QED
        BY <3>1 DEF Granted, Used, CeBytes, ConResSize, MaxTbs
    <2>2. mac_msg_dl' \in [rem_len : Nat, sdus : Nat]
      BY <1>1, <2>1 DEF GeneratePdu
    <2>3. QED
      BY <1>1, <2>2 DEF GeneratePdu, NoRead
  <1>2. CASE AllocateSdu
    <2>1. pdu[reading.lcid] \in Nat /\ SduSpace \in Int
      BY DEF Granted, SduSpace, MaxTbs
    <2>2. Least(pdu[reading.lcid], Most(SduSpace, 0)) \in Nat
      BY <2>1 DEF Least, Most
    <2>3. QED
      BY <1>2, <2>2 DEF AllocateSdu
  <1>3. CASE ReadPdu
    <2> DEFINE n == reading'.n
    <2>1. /\ n \in 0..reading.sdu_len /\ SduSpace - n \in Nat
          /\ reading' = [reading EXCEPT !.sdu_len = @ - n, !.n = n]
          /\ n > 0 => mac_msg_dl' = [rem_len |-> SduSpace - n, sdus |-> mac_msg_dl.sdus + 1]
          /\ n = 0 => mac_msg_dl' = mac_msg_dl
      BY <1>3, ReadFacts
    <2> HIDE DEF n
    <2>2. reading' \in [lcid : Lcid, sdu_len : Nat, n : Nat, tx_queue : Nat]
          /\ reading'.tx_queue <= Limit(reading'.lcid)
      <3>1. n \in Nat /\ reading.sdu_len - n \in Nat
        BY <2>1
      <3>2. reading' = [reading EXCEPT !.sdu_len = @ - n, !.n = n]
        BY <2>1
      <3>3. reading'.lcid = reading.lcid /\ reading'.tx_queue = reading.tx_queue
        BY <3>2
      <3>4. QED
        BY <3>1, <3>2, <3>3
    <2>3. mac_msg_dl' \in [rem_len : Nat, sdus : Nat]
      <3>1. CASE n = 0
        BY <2>1, <3>1
      <3>2. CASE n > 0
        <4>1. mac_msg_dl.sdus + 1 \in Nat
          OBVIOUS
        <4>2. QED
          BY <2>1, <3>2, <4>1
      <3>3. QED
        BY <2>1, <3>1, <3>2
    <2>4. QED
      BY <2>2, <2>3
  <1>4. CASE WorkerGetState
    <2>1. BufferState(reading.lcid) \in Nat /\ BufferState(reading.lcid) <= Limit(reading.lcid)
      BY StateLimit
    <2>2. QED
      BY <1>4, <2>1 DEF WorkerGetState
  <1>5. CASE WorkerReport
    BY <1>5 DEF WorkerReport
  <1>6. CASE NextSdu
    <2>1. CASE reading.lcid = SRB0
      BY <1>6, <2>1 DEF NextSdu, NoRead
    <2>2. CASE reading.lcid # SRB0
      BY <1>6, <2>2 DEF NextSdu, NoRead, NoPdu
    <2>3. QED
      BY <2>1, <2>2
  <1>7. CASE UNCHANGED <<reading, mac_msg_dl>>
    BY <1>7
  <1>8. QED
    BY <1>1, <1>2, <1>3, <1>4, <1>5, <1>6, <1>7
       DEF Next, Arrivals, StackStep, WorkerStep, ConnectionRequest, WritePdu, WriteSdu, SendDlCcch,
           StackGetState, StackReport, DlSched, UlSched, AllocateMacCes, AllocRlcPdu, SchedEnds,
           vars, pduVars

\* All sizes together.
LEMMA NextSizes == Sizes /\ Granted /\ [Next]_vars => Sizes'
  BY NextRlcSizes, NextSchedSizes, NextStackSizes, NextWorkerSizes DEF Sizes

\* The start of a grant.
LEMMA GrantStarts ==
  ASSUME NEW i \in {0, 2}, GenerateFormatN1(i)
  PROVE  /\ tbs' \in 1..MaxTbs /\ rem_tbs' = tbs'
         /\ pdu' = NoGrant /\ ce' = FALSE /\ worker' = "mac_ces"
  BY TbsRange DEF GenerateFormatN1

\* One SDU of the grant: how many bytes it gets, and what is left.
LEMMA AllocFacts ==
  ASSUME Sizes, Granted, NEW l \in Lcid, AllocRlcPdu(l)
  PROVE  \E n \in 1..MaxTbs :
           /\ worker = "mac_sdus" /\ worker' = worker /\ rem_tbs >= MinMacSdu
           /\ buf_tx[l] > 0 /\ \A k \in Lcid : k < l => buf_tx[k] = 0
           /\ pdu[l] = 0 /\ pdu' = [pdu EXCEPT ![l] = n]
           /\ buf_tx' = [buf_tx EXCEPT ![l] = @ - n]
           /\ rem_tbs' = rem_tbs - (n + 2) /\ rem_tbs' \in 0..MaxTbs
           /\ (n = buf_tx[l] /\ n <= rem_tbs - 2) \/ (n < buf_tx[l] /\ rem_tbs' = 0)
  <1> DEFINE n == Least(buf_tx[l], MaxSduBytes)
  <1>1. rem_tbs \in MinMacSdu..MaxTbs /\ buf_tx[l] \in Nat \ {0}
    BY DEF AllocRlcPdu, FirstWithData, Granted, Sizes, SchedSizes, MinMacSdu, MaxTbs
  <1>2. MaxSduBytes = rem_tbs - 2
    BY <1>1 DEF MaxSduBytes, SubheaderSize, MaxTbs, MinMacSdu
  <1>3. n \in 1..MaxTbs /\ n <= rem_tbs - 2 /\ n \in {buf_tx[l], rem_tbs - 2} /\ n <= buf_tx[l]
    BY <1>1, <1>2 DEF Least, MaxTbs, MinMacSdu
  <1>4. SubheaderSize(n) = 2
    BY <1>3 DEF SubheaderSize, MaxTbs
  <1>5. pdu[l] = 0
    BY <1>1 DEF Granted, AllocRlcPdu, FirstWithData, MaxTbs, MinMacSdu
  <1>6. /\ worker = "mac_sdus" /\ worker' = worker /\ rem_tbs >= MinMacSdu
        /\ buf_tx[l] > 0 /\ \A k \in Lcid : k < l => buf_tx[k] = 0
        /\ pdu' = [pdu EXCEPT ![l] = n]
        /\ buf_tx' = [buf_tx EXCEPT ![l] = @ - n]
        /\ rem_tbs' = rem_tbs - (n + SubheaderSize(n))
    BY DEF AllocRlcPdu, FirstWithData
  <1> HIDE DEF n
  <1>7. /\ rem_tbs' = rem_tbs - (n + 2) /\ rem_tbs' \in 0..MaxTbs
        /\ (n = buf_tx[l] /\ n <= rem_tbs - 2) \/ (n < buf_tx[l] /\ rem_tbs' = 0)
    BY <1>1, <1>3, <1>4, <1>6 DEF MaxTbs, MinMacSdu
  <1>8. QED
    BY <1>3, <1>5, <1>6, <1>7

\* The account of the transport block stays right.
LEMMA NextGranted == Flags /\ Sizes /\ Granted /\ [Next]_vars => Granted'
  <1> SUFFICES ASSUME Flags, Sizes, Granted, [Next]_vars PROVE Granted'
    OBVIOUS
  <1> USE Bearers
  <1>1. CASE DlSched \/ UlSched
    <2>1. i_sf' \in {0, 2} /\ GenerateFormatN1(i_sf') /\ pass' \in {"dl", "ul"}
      BY <1>1 DEF DlSched, UlSched, Granted
    <2>2. /\ tbs' \in 1..MaxTbs /\ rem_tbs' = tbs'
          /\ pdu' = NoGrant /\ ce' = FALSE /\ worker' = "mac_ces"
      BY <2>1, GrantStarts
    <2>3. Used' = 0
      BY <2>2 DEF Used, CeBytes, SduBytes, NoGrant
    <2>4. QED
      BY <2>1, <2>2, <2>3 DEF Granted, WorkerPc, NoGrant, MaxTbs
  <1>2. CASE AllocateMacCes
    <2>1. /\ worker = "mac_ces" /\ worker' = "mac_sdus" /\ tbs' = tbs /\ pdu' = pdu
          /\ pass' = pass /\ i_sf' = i_sf
          /\ \/ ce' = TRUE /\ rem_tbs >= ConResSize /\ rem_tbs' = rem_tbs - ConResSize
             \/ ce' = ce /\ rem_tbs' = rem_tbs
      BY <1>2 DEF AllocateMacCes
    <2>2. pdu[SRB0] = 0 /\ pdu[SRB1bis] = 0 /\ rem_tbs = tbs /\ ~ce
      <3>1. pdu[SRB0] \in Nat /\ pdu[SRB1bis] \in Nat
        BY DEF Granted, MaxTbs
      <3>2. QED
        BY <2>1, <3>1 DEF Granted, Used, CeBytes, SduBytes
    <2>3. Used' = CeBytes'
      BY <2>1, <2>2 DEF Used, SduBytes, CeBytes, ConResSize
    <2>4. Used' + rem_tbs' = tbs' /\ Used' <= tbs' /\ rem_tbs' \in 0..MaxTbs
      BY <2>1, <2>2, <2>3 DEF CeBytes, ConResSize, Granted, MaxTbs
    <2>5. QED
      BY <2>1, <2>2, <2>4 DEF Granted, WorkerPc
  <1>3. ASSUME NEW l \in Lcid, AllocRlcPdu(l) PROVE Granted'
    <2>1. PICK n \in 1..MaxTbs :
           /\ worker = "mac_sdus" /\ worker' = worker /\ rem_tbs >= MinMacSdu
           /\ buf_tx[l] > 0 /\ \A k \in Lcid : k < l => buf_tx[k] = 0
           /\ pdu[l] = 0 /\ pdu' = [pdu EXCEPT ![l] = n]
           /\ buf_tx' = [buf_tx EXCEPT ![l] = @ - n]
           /\ rem_tbs' = rem_tbs - (n + 2) /\ rem_tbs' \in 0..MaxTbs
           /\ (n = buf_tx[l] /\ n <= rem_tbs - 2) \/ (n < buf_tx[l] /\ rem_tbs' = 0)
      BY <1>3, AllocFacts
    <2>2. ce' = ce /\ tbs' = tbs /\ pass' = pass /\ i_sf' = i_sf
      BY <1>3 DEF AllocRlcPdu
    <2>3. pdu' \in [Lcid -> 0..MaxTbs] /\ pdu'[l] = n /\ \A k \in Lcid \ {l} : pdu'[k] = pdu[k]
      BY <2>1 DEF Granted, MaxTbs
    <2>4. SduBytes(pdu[SRB0]) \in Nat /\ SduBytes(pdu[SRB1bis]) \in Nat /\ CeBytes \in Nat
      BY DEF Granted, SduBytes, CeBytes, ConResSize, MaxTbs
    <2>5. Used' = Used + (n + 2)
      <3>1. CeBytes' = CeBytes
        BY <2>2 DEF CeBytes
      <3>2. SduBytes(pdu'[l]) = n + 2 /\ SduBytes(pdu[l]) = 0
        BY <2>1, <2>3 DEF SduBytes, MaxTbs
      <3>3. Used' = CeBytes' + SduBytes(pdu'[SRB0]) + SduBytes(pdu'[SRB1bis])
        BY DEF Used
      <3>4. CASE l = SRB0
        <4>1. pdu'[SRB1bis] = pdu[SRB1bis]
          BY <2>3, <3>4
        <4>2. QED
          BY <2>4, <3>1, <3>2, <3>3, <3>4, <4>1 DEF Used
      <3>5. CASE l = SRB1bis
        <4>1. pdu'[SRB0] = pdu[SRB0]
          BY <2>3, <3>5
        <4>2. QED
          BY <2>4, <3>1, <3>2, <3>3, <3>5, <4>1 DEF Used
      <3>6. QED
        BY <3>4, <3>5
    <2>6. Used \in Nat /\ Used + rem_tbs = tbs /\ tbs \in 0..MaxTbs /\ rem_tbs \in 0..MaxTbs
      BY <2>1, <2>4 DEF Granted, Used
    <2>7. Used' + rem_tbs' = tbs' /\ Used' <= tbs'
      BY <2>1, <2>2, <2>5, <2>6 DEF MaxTbs
    <2>8. ASSUME NEW k \in Lcid, pdu'[k] > 0 PROVE buf_tx'[k] = 0 \/ rem_tbs' < MinMacSdu
      <3>1. CASE k = l
        BY <2>1, <3>1 DEF Sizes, SchedSizes, MinMacSdu
      <3>2. CASE k # l
        BY <2>1, <2>3, <2>6, <2>8, <3>2 DEF Sizes, SchedSizes, Granted, MinMacSdu, MaxTbs
      <3>3. QED
        BY <3>1, <3>2
    <2>9. QED
      BY <2>1, <2>2, <2>3, <2>7, <2>8 DEF Granted, WorkerPc
  <1>4. CASE SchedEnds
    <2>1. CASE pass = "dl"
      <3>1. worker' = "generate_pdu" /\ rem_tbs' = 0 /\ UNCHANGED <<i_sf, tbs, pdu, ce, pass>>
        BY <1>4, <2>1 DEF SchedEnds
      <3>2. Used' = Used
        BY <3>1 DEF Used, CeBytes, SduBytes
      <3>3. QED
        BY <3>1, <3>2 DEF Granted, WorkerPc, MaxTbs
    <2>2. CASE pass # "dl"
      <3>1. /\ worker' = "dl_sched" /\ rem_tbs' = 0 /\ pass' = pass /\ i_sf' = 0 /\ tbs' = 0
            /\ pdu' = NoGrant /\ ce' = FALSE
        BY <1>4, <2>2 DEF SchedEnds
      <3>2. Used' = 0
        BY <3>1 DEF Used, CeBytes, SduBytes, NoGrant
      <3>3. QED
        BY <3>1, <3>2 DEF Granted, WorkerPc, NoGrant, MaxTbs
    <2>3. QED
      BY <2>1, <2>2
  <1>5. ASSUME UNCHANGED grantVars,
               worker' \in WorkerPc,
               worker' \in {"mac_ces", "mac_sdus"} => worker' = worker /\ buf_tx' = buf_tx
        PROVE  Granted'
    <2>1. Used' = Used
      BY <1>5 DEF Used, CeBytes, SduBytes, grantVars
    <2>2. QED
      BY <1>5, <2>1 DEF Granted, grantVars
  <1>6. CASE Arrivals \/ StackStep
    <2>1. UNCHANGED <<worker, grantVars>> /\ (Locked => buf_tx' = buf_tx)
      BY <1>6 DEF Arrivals, StackStep, ConnectionRequest, WritePdu, WriteSdu, SendDlCcch,
                  StackGetState, StackReport, ueVars
    <2>2. QED
      BY <1>5, <2>1 DEF Locked, Granted
  <1>7. CASE GeneratePdu \/ AllocateSdu \/ ReadPdu \/ WorkerGetState \/ WorkerReport \/ NextSdu
    <2>1. UNCHANGED grantVars
          /\ worker' \in {"allocate_sdu", "read_pdu", "get_state", "report", "ul_sched"}
      BY <1>7 DEF GeneratePdu, AllocateSdu, ReadPdu, WorkerGetState, WorkerReport, NextSdu
    <2>2. QED
      BY <1>5, <2>1 DEF WorkerPc
  <1>8. CASE UNCHANGED vars
    BY <1>5, <1>8 DEF vars, ueVars, Granted
  <1>9. QED
    BY <1>1, <1>2, <1>3, <1>4, <1>6, <1>7, <1>8 DEF Next, WorkerStep

\* The connection setup stays the only one.
LEMMA NextWrittenOnce == Sizes /\ WrittenOnce /\ [Next]_vars => WrittenOnce'
  <1> SUFFICES ASSUME Sizes, WrittenOnce, [Next]_vars PROVE WrittenOnce'
    OBVIOUS
  <1> USE Bearers DEF Sizes, RlcSizes, StackSizes, WrittenOnce
  <1>1. CASE ConnectionRequest
    BY <1>1 DEF ConnectionRequest
  <1>2. ASSUME NEW n \in SetupSizes, SendDlCcch(n) PROVE WrittenOnce'
    BY <1>2 DEF SendDlCcch
  <1>3. ASSUME NEW n \in SduSizes, WriteSdu(n) PROVE WrittenOnce'
    BY <1>3 DEF WriteSdu
  <1>4. CASE WritePdu \/ StackGetState \/ StackReport
    <2>1. stack'.at # "write_sdu"
      <3>1. CASE WritePdu
        BY <3>1 DEF WritePdu
      <3>2. CASE StackGetState
        BY <3>2 DEF StackGetState
      <3>3. CASE StackReport
        BY <3>3 DEF StackReport
      <3>4. QED
        BY <1>4, <3>1, <3>2, <3>3
    <2>2. UNCHANGED <<asked, rlc>>
      BY <1>4 DEF WritePdu, StackGetState, StackReport
    <2>3. QED
      BY <2>1, <2>2
  <1>5. CASE ReadPdu
    <2>1. /\ reading.lcid \in Lcid
          /\ BytesTaken(reading.lcid, reading.sdu_len) \in 0..rlc[reading.lcid]
          /\ rlc' = [rlc EXCEPT ![reading.lcid] = @ - BytesTaken(reading.lcid, reading.sdu_len)]
      BY <1>5, ReadFacts
    <2>2. rlc[SRB0] = 0 => rlc'[SRB0] = 0
      BY <2>1
    <2>3. asked' = asked /\ stack' = stack
      BY <1>5 DEF ReadPdu
    <2>4. QED
      BY <2>2, <2>3
  <1>6. CASE UNCHANGED <<asked, rlc, stack>>
    BY <1>6
  <1>7. QED
    BY <1>1, <1>2, <1>3, <1>4, <1>5, <1>6
       DEF Next, Arrivals, StackStep, WorkerStep, DlSched, UlSched, AllocateMacCes, AllocRlcPdu,
           SchedEnds, GeneratePdu, AllocateSdu, WorkerGetState, WorkerReport, NextSdu, vars

\* The stack thread adds nothing to SRB0 once the setup is written, and never
\* touches what the worker has.
LEMMA StackFacts ==
  ASSUME Sizes, Arrivals \/ StackStep
  PROVE  /\ UNCHANGED <<worker, grantVars, pduVars>>
         /\ asked => asked'
         /\ Locked => UNCHANGED ueVars
         /\ asked => pending_ces' = pending_ces
         /\ asked /\ stack.at # "write_sdu" => stack'.at # "write_sdu" /\ rlc'[SRB0] = rlc[SRB0]
  <1> USE Bearers DEF Sizes, RlcSizes, StackSizes, ueVars
  <1>1. CASE ConnectionRequest
    BY <1>1 DEF ConnectionRequest
  <1>2. CASE WritePdu
    BY <1>2 DEF WritePdu
  <1>3. ASSUME NEW n \in SduSizes, WriteSdu(n)
        PROVE  /\ UNCHANGED <<worker, grantVars, pduVars, ueVars, asked>>
               /\ stack'.at # "write_sdu" /\ rlc'[SRB0] = rlc[SRB0]
    BY <1>3 DEF WriteSdu
  <1>4. ASSUME NEW n \in SetupSizes, SendDlCcch(n)
        PROVE  UNCHANGED <<worker, grantVars, pduVars, ueVars, asked>> /\ stack.at = "write_sdu"
    BY <1>4 DEF SendDlCcch
  <1>5. CASE StackGetState
    BY <1>5 DEF StackGetState
  <1>6. CASE StackReport
    BY <1>6 DEF StackReport
  <1>7. QED
    BY <1>1, <1>2, <1>3, <1>4, <1>5, <1>6 DEF Arrivals, StackStep

\* The parts of the grant and of the PDU that Filled compares.
LEMMA GrantTypes ==
  ASSUME Granted, Sizes
  PROVE  /\ pdu[SRB0] \in 0..MaxTbs /\ pdu[SRB1bis] \in 0..MaxTbs /\ tbs \in 0..MaxTbs
         /\ CeBytes \in Nat /\ tbs - CeBytes \in 0..MaxTbs
         /\ mac_msg_dl.rem_len \in Nat /\ mac_msg_dl.sdus \in Nat
         /\ reading.sdu_len \in Nat /\ reading.n \in Nat /\ reading.lcid \in Lcid
  <1>1. pdu[SRB0] \in 0..MaxTbs /\ pdu[SRB1bis] \in 0..MaxTbs /\ tbs \in 0..MaxTbs
    BY Bearers DEF Granted
  <1>2. CeBytes \in Nat /\ SduBytes(pdu[SRB0]) \in Nat /\ SduBytes(pdu[SRB1bis]) \in Nat
    BY <1>1 DEF CeBytes, SduBytes, ConResSize, MaxTbs
  <1>3. tbs - CeBytes \in 0..MaxTbs
    BY <1>1, <1>2 DEF Granted, Used, MaxTbs
  <1>4. QED
    BY <1>1, <1>2, <1>3 DEF Sizes, WorkerSizes

\* What SRB0 took stays within its part of the grant.
LEMMA NextFilled == Sizes /\ Granted /\ WrittenOnce /\ Filled /\ [Next]_vars => Filled'
  <1> SUFFICES ASSUME Sizes, Granted, WrittenOnce, Filled, [Next]_vars PROVE Filled'
    OBVIOUS
  <1> USE Bearers, GrantTypes
  <1>1. CASE Arrivals \/ StackStep
    <2>1. /\ UNCHANGED <<worker, pdu, tbs, mac_msg_dl, reading>> /\ CeBytes' = CeBytes
          /\ asked /\ stack.at # "write_sdu" =>
               asked' /\ stack'.at # "write_sdu" /\ rlc'[SRB0] = rlc[SRB0]
      BY <1>1, StackFacts DEF CeBytes, grantVars, pduVars
    <2>2. QED
      BY <2>1 DEF Filled
  <1>2. CASE DlSched \/ UlSched \/ AllocateMacCes \/ (\E l \in Lcid : AllocRlcPdu(l)) \/ SchedEnds
    <2>1. UNCHANGED pduVars
      BY <1>2 DEF DlSched, UlSched, AllocateMacCes, AllocRlcPdu, SchedEnds
    <2>2. worker' \notin {"allocate_sdu", "read_pdu", "get_state", "report"}
      BY <1>2 DEF DlSched, UlSched, GenerateFormatN1, AllocateMacCes, AllocRlcPdu, SchedEnds
    <2>3. QED
      BY <2>1, <2>2 DEF Filled, pduVars
  <1>3. CASE GeneratePdu
    <2>1. /\ CeBytes' = CeBytes /\ worker' = "allocate_sdu" /\ UNCHANGED <<tbs, pdu>>
          /\ mac_msg_dl' = [rem_len |-> tbs - CeBytes, sdus |-> 0]
          /\ reading' = NoRead
      <3>1. mac_msg_dl' = [rem_len |-> IF ce THEN tbs - ConResSize ELSE tbs, sdus |-> 0]
            /\ ce' = ce /\ UNCHANGED <<tbs, pdu>> /\ worker' = "allocate_sdu"
        BY <1>3 DEF GeneratePdu, grantVars
      <3>2. (IF ce THEN tbs - ConResSize ELSE tbs) = tbs - CeBytes
        BY DEF CeBytes, MaxTbs
      <3>3. reading' = NoRead
        BY <1>3 DEF GeneratePdu, NoRead
      <3>4. QED
        BY <3>1, <3>2, <3>3 DEF CeBytes
    <2>2. mac_msg_dl'.rem_len = tbs - CeBytes /\ mac_msg_dl'.sdus = 0
          /\ reading'.lcid = SRB0 /\ reading'.sdu_len = 0 /\ reading'.n = 0
      BY <2>1 DEF NoRead
    <2>3. QED
      BY <2>1, <2>2 DEF Filled, MaxTbs
  <1>4. CASE AllocateSdu
    <2> DEFINE n == Least(pdu[reading.lcid], Most(SduSpace, 0))
    <2>1. SduSpace \in Int /\ pdu[reading.lcid] \in 0..MaxTbs
      BY DEF SduSpace, Granted
    <2>2. n \in 0..pdu[reading.lcid] /\ n <= MaxTbs
      BY <2>1 DEF Least, Most, MaxTbs
    <2>3. reading' = [reading EXCEPT !.sdu_len = n, !.n = 1] /\ worker = "allocate_sdu"
          /\ worker' = "read_pdu" /\ CeBytes' = CeBytes
          /\ UNCHANGED <<tbs, pdu, mac_msg_dl, asked, rlc, stack>>
      BY <1>4 DEF AllocateSdu, CeBytes, grantVars
    <2> HIDE DEF n
    <2>4. reading'.lcid = reading.lcid /\ reading'.sdu_len = n /\ reading'.n = 1
      BY <2>3 DEF Sizes, WorkerSizes
    <2>5. reading'.n <= MaxTbs /\ reading'.sdu_len <= MaxTbs
      BY <2>2, <2>4 DEF MaxTbs
    <2>6. reading'.lcid = SRB0 => reading'.sdu_len <= pdu[SRB0]
      BY <2>1, <2>2, <2>4 DEF MaxTbs
    <2>7. QED
      BY <2>3, <2>4, <2>5, <2>6 DEF Filled
  <1>5. CASE ReadPdu
    <2> DEFINE n == reading'.n
               taken == BytesTaken(reading.lcid, reading.sdu_len)
    <2>1. /\ taken \in 0..rlc[reading.lcid] /\ n \in 0..reading.sdu_len
          /\ n = IF reading.lcid = SRB0 \/ taken = 0 THEN taken ELSE taken + 2
          /\ SduSpace - n \in Nat
          /\ rlc' = [rlc EXCEPT ![reading.lcid] = @ - taken]
          /\ reading' = [reading EXCEPT !.sdu_len = @ - n, !.n = n]
          /\ n > 0 => mac_msg_dl' = [rem_len |-> SduSpace - n, sdus |-> mac_msg_dl.sdus + 1]
          /\ n = 0 => mac_msg_dl' = mac_msg_dl
      BY <1>5, ReadFacts
    <2>2. reading.lcid = SRB0 => taken \in {0, rlc[SRB0]}
      BY Taken DEF Sizes
    <2>3. /\ worker = "read_pdu" /\ worker' = "get_state" /\ CeBytes' = CeBytes
          /\ UNCHANGED <<tbs, pdu, asked, stack>>
      BY <1>5 DEF ReadPdu, CeBytes, grantVars
    <2> HIDE DEF n, taken
    <2>4. reading'.lcid = reading.lcid /\ reading'.sdu_len = reading.sdu_len - n
      BY <2>1 DEF Sizes, WorkerSizes
    <2>5. n > 0 => mac_msg_dl'.rem_len = SduSpace - n /\ mac_msg_dl'.sdus = mac_msg_dl.sdus + 1
      BY <2>1
    <2>6. SduSpace <= mac_msg_dl.rem_len /\ SduSpace \in Int
          /\ (mac_msg_dl.sdus = 0 => SduSpace = mac_msg_dl.rem_len - 1)
      BY DEF SduSpace
    <2>7. mac_msg_dl'.rem_len <= MaxTbs /\ reading'.sdu_len <= MaxTbs /\ reading'.n <= MaxTbs
      <3>1. n \in Nat /\ n <= MaxTbs /\ reading.sdu_len - n <= MaxTbs
        BY <2>1 DEF Filled, MaxTbs
      <3>2. CASE n = 0
        BY <2>1, <2>4, <3>1, <3>2 DEF Filled, n
      <3>3. CASE n > 0
        BY <2>4, <2>5, <2>6, <3>1, <3>3 DEF Filled, MaxTbs, n
      <3>4. QED
        BY <3>1, <3>2, <3>3
    <2>8. CASE reading.lcid # SRB0
      BY <2>3, <2>4, <2>7, <2>8 DEF Filled
    <2>9. CASE reading.lcid = SRB0
      <3>1. n = taken /\ rlc'[SRB0] = rlc[SRB0] - n /\ rlc[SRB0] \in Nat /\ n \in Nat
        BY <2>1, <2>9 DEF Sizes, RlcSizes
      <3>2. reading'.sdu_len <= pdu[SRB0] /\ n <= pdu[SRB0]
        BY <2>1, <2>3, <2>4, <2>9, <3>1 DEF Filled, MaxTbs
      <3>3. CASE n = 0
        <4>1. mac_msg_dl' = mac_msg_dl /\ rlc'[SRB0] = rlc[SRB0]
          BY <2>1, <3>1, <3>3
        <4>2. QED
          BY <2>3, <2>4, <2>7, <2>9, <3>2, <4>1 DEF Filled
      <3>4. CASE n > 0
        <4>1. rlc[SRB0] = n /\ rlc'[SRB0] = 0
          BY <2>2, <2>9, <3>1, <3>4
        <4>2. asked /\ stack.at # "write_sdu"
          BY <3>4, <4>1 DEF WrittenOnce
        <4>3. mac_msg_dl.sdus = 0 /\ mac_msg_dl.rem_len = tbs - CeBytes
          BY <2>3, <2>9, <3>4, <4>1 DEF Filled
        <4>4. mac_msg_dl'.sdus > 0 /\ mac_msg_dl'.rem_len = tbs - CeBytes - 1 - n
          BY <2>5, <2>6, <3>4, <4>3, <3>1
        <4>5. pdu[SRB0] > 0 /\ mac_msg_dl'.rem_len + 1 + pdu[SRB0] >= tbs - CeBytes
          <5>1. pdu[SRB0] \in Nat /\ tbs - CeBytes \in Nat
            BY DEF MaxTbs
          <5>2. QED
            BY <3>1, <3>2, <3>4, <4>4, <5>1
        <4>6. QED
          BY <2>3, <2>4, <2>7, <2>9, <3>2, <4>1, <4>2, <4>4, <4>5 DEF Filled
      <3>5. QED
        BY <3>1, <3>3, <3>4
    <2>10. QED
      BY <2>8, <2>9
  <1>6. CASE WorkerGetState \/ WorkerReport
    <2>1. /\ worker \in {"get_state", "report"} /\ worker' \in {"report", "read_pdu"}
          /\ CeBytes' = CeBytes /\ UNCHANGED <<tbs, pdu, asked, stack, rlc, mac_msg_dl>>
          /\ \E q : reading' = [reading EXCEPT !.tx_queue = q]
      BY <1>6 DEF WorkerGetState, WorkerReport, CeBytes, grantVars
    <2>2. reading'.lcid = reading.lcid /\ reading'.sdu_len = reading.sdu_len /\ reading'.n = reading.n
      BY <2>1 DEF Sizes, WorkerSizes
    <2>3. QED
      BY <2>1, <2>2 DEF Filled
  <1>7. CASE NextSdu
    <2>1. worker = "read_pdu" /\ CeBytes' = CeBytes /\ UNCHANGED <<tbs, pdu, asked, stack, rlc>>
      BY <1>7 DEF NextSdu, CeBytes, grantVars
    <2>2. CASE reading.lcid = SRB0
      <3>1. /\ worker' = "allocate_sdu" /\ mac_msg_dl' = mac_msg_dl
            /\ reading'.lcid = SRB1bis /\ reading'.sdu_len = 0 /\ reading'.n = 0
        BY <1>7, <2>2 DEF NextSdu, NoRead
      <3>2. QED
        BY <2>1, <2>2, <3>1 DEF Filled, MaxTbs
    <2>3. CASE reading.lcid # SRB0
      BY <1>7, <2>3 DEF NextSdu, NoRead, NoPdu, Filled, MaxTbs
    <2>4. QED
      BY <2>2, <2>3
  <1>8. CASE UNCHANGED vars
    <2>1. /\ UNCHANGED <<worker, tbs, pdu, asked, stack, rlc, mac_msg_dl, reading>>
          /\ CeBytes' = CeBytes
      BY <1>8 DEF vars, grantVars, pduVars, CeBytes
    <2>2. QED
      BY <2>1 DEF Filled
  <1>9. QED
    BY <1>1, <1>2, <1>3, <1>4, <1>5, <1>6, <1>7, <1>8 DEF Next, WorkerStep

\* The downlink pass leaves room for all of SRB0.
LEMMA NextRoomForSrb0 ==
  Flags /\ Sizes /\ Granted /\ RoomForSrb0 /\ [Next]_vars => RoomForSrb0'
  <1> SUFFICES ASSUME Flags, Sizes, Granted, RoomForSrb0, [Next]_vars PROVE RoomForSrb0'
    OBVIOUS
  <1> USE Bearers
  <1>1. buf_tx[SRB0] \in 0..76 /\ rem_tbs \in Nat /\ tbs \in Nat
    BY DEF Sizes, SchedSizes, Granted, MaxTbs
  <1>2. CASE DlSched
    <2>1. PICK mcs \in Mcs : IsMcs(i_sf', mcs) /\ tbs' = TbsBytes(i_sf', mcs)
      BY <1>2 DEF DlSched, GenerateFormatN1
    <2>2. i_sf' = IF RequestedDlBytes > 20 THEN 2 ELSE 0
      BY <1>2 DEF DlSched
    <2>3. tbs' > RequestedDlBytes \/ tbs' = MaxTbs
      BY <2>1, <2>2, Requested, DlTbs
    <2>4. tbs' \in Nat
      BY <2>1, <2>2, TbsRange DEF MaxTbs
    <2>5. UNCHANGED <<buf_tx, pending_ces>> /\ worker' = "mac_ces"
      BY <1>2 DEF DlSched, GenerateFormatN1, ueVars
    <2>6. buf_tx[SRB0] > 0 => tbs' >= buf_tx[SRB0] + 2 + (IF pending_ces THEN ConResSize ELSE 0)
      BY <1>1, <2>3, <2>4, Requested DEF MaxTbs, ConResSize
    <2>7. QED
      BY <2>5, <2>6 DEF RoomForSrb0
  <1>3. CASE UlSched
    BY <1>3 DEF UlSched, RoomForSrb0
  <1>4. CASE AllocateMacCes
    <2>1. worker = "mac_ces" /\ worker' = "mac_sdus" /\ UNCHANGED <<buf_tx, pdu, pass>>
      BY <1>4 DEF AllocateMacCes
    <2>2. pdu[SRB0] = 0 /\ rem_tbs = tbs
      <3>1. pdu[SRB0] \in Nat /\ pdu[SRB1bis] \in Nat
        BY DEF Granted, MaxTbs
      <3>2. QED
        BY <2>1, <3>1 DEF Granted, Used, CeBytes, SduBytes
    <2>3. IF pending_ces /\ rem_tbs >= ConResSize THEN rem_tbs' = rem_tbs - ConResSize
                                                  ELSE rem_tbs' = rem_tbs
      BY <1>4 DEF AllocateMacCes
    <2>4. pass = "dl" /\ buf_tx[SRB0] > 0 => rem_tbs' >= buf_tx[SRB0] + 2
      BY <1>1, <2>1, <2>2, <2>3 DEF RoomForSrb0, ConResSize
    <2>5. QED
      BY <2>1, <2>2, <2>4 DEF RoomForSrb0
  <1>5. ASSUME NEW l \in Lcid, AllocRlcPdu(l) PROVE RoomForSrb0'
    <2>1. PICK n \in 1..MaxTbs :
           /\ worker = "mac_sdus" /\ worker' = worker /\ rem_tbs >= MinMacSdu
           /\ buf_tx[l] > 0 /\ \A k \in Lcid : k < l => buf_tx[k] = 0
           /\ pdu[l] = 0 /\ pdu' = [pdu EXCEPT ![l] = n]
           /\ buf_tx' = [buf_tx EXCEPT ![l] = @ - n]
           /\ rem_tbs' = rem_tbs - (n + 2) /\ rem_tbs' \in 0..MaxTbs
           /\ (n = buf_tx[l] /\ n <= rem_tbs - 2) \/ (n < buf_tx[l] /\ rem_tbs' = 0)
      BY <1>5, AllocFacts
    <2>2. pass' = pass
      BY <1>5 DEF AllocRlcPdu
    <2>3. CASE l = SRB0 /\ pass = "dl"
      <3>1. rem_tbs >= buf_tx[SRB0] + 2
        BY <2>1, <2>3 DEF RoomForSrb0
      <3>2. buf_tx'[SRB0] = 0
        BY <1>1, <2>1, <2>3, <3>1 DEF Sizes, SchedSizes, MaxTbs
      <3>3. QED
        BY <3>2 DEF RoomForSrb0
    <2>4. CASE l = SRB1bis
      <3>1. buf_tx[SRB0] = 0
        BY <2>1, <2>4 DEF SRB0, SRB1bis
      <3>2. buf_tx'[SRB0] = 0
        BY <2>1, <2>4, <3>1 DEF Sizes, SchedSizes
      <3>3. QED
        BY <3>2 DEF RoomForSrb0
    <2>5. CASE pass # "dl"
      BY <2>2, <2>5 DEF RoomForSrb0
    <2>6. QED
      BY <2>3, <2>4, <2>5
  <1>6. CASE Arrivals \/ StackStep
    BY <1>6, StackFacts DEF RoomForSrb0, Locked, ueVars, grantVars
  <1>7. CASE SchedEnds \/ GeneratePdu \/ AllocateSdu \/ ReadPdu \/ WorkerGetState \/ WorkerReport
             \/ NextSdu
    <2>1. worker' \notin {"mac_ces", "mac_sdus"}
      BY <1>7 DEF SchedEnds, GeneratePdu, AllocateSdu, ReadPdu, WorkerGetState, WorkerReport, NextSdu
    <2>2. QED
      BY <2>1 DEF RoomForSrb0
  <1>8. CASE UNCHANGED vars
    BY <1>8 DEF vars, ueVars, grantVars, RoomForSrb0
  <1>9. QED
    BY <1>2, <1>3, <1>4, <1>5, <1>6, <1>7, <1>8 DEF Next, WorkerStep

\* Nothing is granted to a user that has asked for nothing.
LEMMA IdleUser ==
  ASSUME ~pending_ces, buf_tx[SRB0] = 0, buf_tx[SRB1bis] = 0
  PROVE  RequestedDlBytes = 0
  BY DEF RequestedDlBytes, SduTotalBytes

\* The contention resolution is in the first grant.
LEMMA NextUnresolved ==
  Flags /\ Sizes /\ Granted /\ Unresolved /\ [Next]_vars => Unresolved'
  <1> SUFFICES ASSUME Flags, Sizes, Granted, Unresolved, [Next]_vars PROVE Unresolved'
    OBVIOUS
  <1> USE Bearers
  <1>1. CASE ConnectionRequest
    BY <1>1 DEF ConnectionRequest, Unresolved
  <1>2. CASE asked /\ (Arrivals \/ StackStep)
    BY <1>2, StackFacts DEF Unresolved, grantVars, pduVars
  <1>3. CASE ~asked /\ WorkerStep
    <2>1. worker = "dl_sched" /\ RequestedDlBytes = 0
      BY <1>3, IdleUser DEF Unresolved, Flags
    <2>2. QED
      BY <1>3, <2>1
         DEF WorkerStep, DlSched, UlSched, AllocateMacCes, AllocRlcPdu, SchedEnds, GeneratePdu,
             AllocateSdu, ReadPdu, WorkerGetState, WorkerReport, NextSdu
  <1>4. CASE asked /\ resolved /\ WorkerStep
    <2>1. asked' /\ resolved'
      BY <1>4
         DEF WorkerStep, DlSched, UlSched, AllocateMacCes, AllocRlcPdu, SchedEnds, GeneratePdu,
             AllocateSdu, ReadPdu, WorkerGetState, WorkerReport, NextSdu, pduVars
    <2>2. QED
      BY <2>1 DEF Unresolved
  <1>5. CASE asked /\ ~resolved /\ WorkerStep
    <2> USE <1>5
    <2>1. CASE DlSched
      <3>1. PICK mcs \in Mcs : IsMcs(i_sf', mcs) /\ tbs' = TbsBytes(i_sf', mcs)
        BY <2>1 DEF DlSched, GenerateFormatN1
      <3>2. i_sf' = IF RequestedDlBytes > 20 THEN 2 ELSE 0
        BY <2>1 DEF DlSched
      <3>3. tbs' > RequestedDlBytes \/ tbs' = MaxTbs
        BY <3>1, <3>2, Requested, DlTbs
      <3>4. tbs' \in Nat
        BY <3>1, <3>2, TbsRange DEF MaxTbs
      <3>5. pending_ces
        BY <2>1 DEF Unresolved, DlSched
      <3>6. tbs' >= ConResSize
        BY <3>3, <3>4, <3>5, Requested DEF MaxTbs, ConResSize
      <3>7. /\ worker' = "mac_ces" /\ pass' = "dl"
            /\ UNCHANGED <<pending_ces, asked, resolved>>
        BY <2>1 DEF DlSched, GenerateFormatN1, ueVars, pduVars
      <3>8. QED
        BY <3>5, <3>6, <3>7 DEF Unresolved
    <2>2. CASE AllocateMacCes
      <3>1. pending_ces /\ pass = "dl" /\ rem_tbs >= ConResSize
        BY <2>2 DEF Unresolved, AllocateMacCes, Granted
      <3>2. QED
        BY <2>2, <3>1 DEF AllocateMacCes, Unresolved, pduVars
    <2>3. CASE \E l \in Lcid : AllocRlcPdu(l)
      BY <2>3 DEF AllocRlcPdu, Unresolved, pduVars
    <2>4. CASE SchedEnds
      BY <2>4 DEF SchedEnds, Unresolved, pduVars
    <2>5. CASE GeneratePdu
      <3>1. ce
        BY <2>5 DEF GeneratePdu, Unresolved
      <3>2. QED
        BY <2>5, <3>1 DEF GeneratePdu, Unresolved
    <2>6. CASE UlSched \/ AllocateSdu \/ ReadPdu \/ WorkerGetState \/ WorkerReport \/ NextSdu
      BY <2>6
         DEF Unresolved, UlSched, AllocateSdu, ReadPdu, WorkerGetState, WorkerReport, NextSdu
    <2>7. QED
      BY <2>1, <2>2, <2>3, <2>4, <2>5, <2>6 DEF WorkerStep
  <1>6. CASE ~asked /\ (Arrivals \/ StackStep)
    <2>1. ConnectionRequest
      BY <1>6 DEF Unresolved, Arrivals, StackStep, WritePdu, WriteSdu, SendDlCcch, StackGetState,
                  StackReport
    <2>2. QED
      BY <1>1, <2>1
  <1>7. CASE UNCHANGED vars
    BY <1>7 DEF vars, ueVars, grantVars, pduVars, Unresolved
  <1>8. QED
    BY <1>2, <1>3, <1>4, <1>5, <1>6, <1>7 DEF Next

-----------------------------------------------------------------------------
(* The theorems *)

(***************************************************************************)
(* The account of buffers, grant and PDU, as one inductive invariant: the  *)
(* scheduler's side (scheduler_ue.cc) against that of ue::generate_pdu.    *)
(***************************************************************************)
THEOREM Invariance == Spec => []IInv
  <1>1. IInv /\ [Next]_vars => IInv'
    BY NextFlags, NextSizes, NextGranted, NextWrittenOnce, NextFilled, NextRoomForSrb0,
       NextUnresolved
       DEF IInv
  <1>2. QED
    BY InitIInv, <1>1, PTL DEF Spec

\* The invariant bounds what TypeOK bounds.
LEMMA TypesOfIInv == IInv => TypeOK
  <1> SUFFICES ASSUME IInv PROVE TypeOK
    OBVIOUS
  <1> USE Bearers, DlBuffersAssumption
  <1>1. MaxBuf \in Nat /\ MaxBuf >= 85 /\ MaxBuf >= Capacity + 3
    BY DEF MaxBuf, Most, MaxTbs
  <1>2. \A l \in Lcid : Limit(l) <= MaxBuf
    BY <1>1
  <1>3. Flags /\ Sizes /\ Granted /\ Filled
    BY DEF IInv
  <1>4. rlc \in [Lcid -> 0..MaxBuf] /\ buf_tx \in [Lcid -> 0..MaxBuf]
    <2>1. \A l \in Lcid : rlc[l] \in 0..MaxBuf /\ buf_tx[l] \in 0..MaxBuf
      BY <1>1, <1>2, <1>3 DEF Sizes, RlcSizes, SchedSizes
    <2>2. QED
      BY <1>3, <2>1 DEF Sizes, RlcSizes, SchedSizes
  <1>5. stack \in [at : StackPc, lcid : Lcid, tx_queue : 0..MaxBuf]
    <2>1. stack.lcid \in Lcid /\ stack.tx_queue \in 0..MaxBuf
      BY <1>1, <1>2, <1>3 DEF Sizes, StackSizes
    <2>2. QED
      BY <1>3, <2>1 DEF Sizes, StackSizes
  <1>6. mac_msg_dl \in [rem_len : 0..MaxTbs, sdus : Nat]
    <2>1. mac_msg_dl.rem_len \in 0..MaxTbs
      BY <1>3 DEF Sizes, WorkerSizes, Filled, MaxTbs
    <2>2. QED
      BY <1>3, <2>1 DEF Sizes, WorkerSizes
  <1>7. reading \in [lcid : Lcid, sdu_len : 0..MaxTbs, n : 0..MaxTbs, tx_queue : 0..MaxBuf]
    <2>1. reading.lcid \in Lcid /\ reading.tx_queue \in 0..MaxBuf
      BY <1>1, <1>2, <1>3 DEF Sizes, WorkerSizes
    <2>2. reading.sdu_len \in 0..MaxTbs /\ reading.n \in 0..MaxTbs
      BY <1>3 DEF Sizes, WorkerSizes, Filled, MaxTbs
    <2>3. QED
      BY <1>3, <2>1, <2>2 DEF Sizes, WorkerSizes
  <1>8. QED
    BY <1>3, <1>4, <1>5, <1>6, <1>7 DEF TypeOK, Flags, Granted

(***************************************************************************)
(* No buffer exceeds what was written, and nothing allocated, put into a   *)
(* PDU or read exceeds the largest transport block: no subtraction of      *)
(* scheduler_ue.cc or ue.cc wraps around.                                  *)
(***************************************************************************)
THEOREM TypeCorrect == Spec => []TypeOK
  BY Invariance, TypesOfIInv, PTL

(***************************************************************************)
(* What allocate_mac_sdus promised to a bearer fits into the PDU when      *)
(* ue::allocate_sdu comes to it, for SRB1bis even if SRB0's SDU is already *)
(* in the PDU.                                                             *)
(***************************************************************************)
THEOREM GrantIsEnough == Spec => []GrantHasRoom
  <1>1. IInv => GrantHasRoom
    <2> SUFFICES ASSUME IInv, worker = "allocate_sdu", pdu[reading.lcid] > 0
                 PROVE  SduSpace >= pdu[reading.lcid]
      BY DEF GrantHasRoom
    <2> USE Bearers, GrantTypes
    <2>1. Sizes /\ Granted /\ Filled
      BY DEF IInv
    <2>2. CeBytes + SduBytes(pdu[SRB0]) + SduBytes(pdu[SRB1bis]) <= tbs
      BY <2>1 DEF Granted, Used
    <2>3. /\ pdu[SRB0] \in Nat /\ pdu[SRB1bis] \in Nat /\ tbs \in Nat /\ CeBytes \in Nat
          /\ mac_msg_dl.rem_len \in Nat /\ reading.lcid \in Lcid
      BY <2>1 DEF MaxTbs
    <2>4. CASE mac_msg_dl.sdus = 0 /\ mac_msg_dl.rem_len = tbs - CeBytes
      <3>1. SduSpace = tbs - CeBytes - 1
        BY <2>3, <2>4 DEF SduSpace
      <3>2. CASE reading.lcid = SRB0
        BY <2>2, <2>3, <3>1, <3>2 DEF SduBytes
      <3>3. CASE reading.lcid = SRB1bis
        BY <2>2, <2>3, <3>1, <3>3 DEF SduBytes
      <3>4. QED
        BY <2>3, <3>2, <3>3
    <2>5. CASE /\ mac_msg_dl.sdus > 0 /\ pdu[SRB0] > 0
               /\ mac_msg_dl.rem_len + 1 + pdu[SRB0] >= tbs - CeBytes
               /\ reading.lcid = SRB1bis
      <3>1. SduSpace = mac_msg_dl.rem_len - 2
        BY <2>3, <2>5 DEF SduSpace
      <3>2. SduBytes(pdu[SRB0]) = pdu[SRB0] + 2 /\ SduBytes(pdu[SRB1bis]) = pdu[SRB1bis] + 2
        BY <2>3, <2>5 DEF SduBytes
      <3>3. QED
        BY <2>2, <2>3, <2>5, <3>1, <3>2
    <2>6. QED
      BY <2>1, <2>3, <2>4, <2>5 DEF Filled
  <1>2. QED
    BY Invariance, <1>1, PTL

(***************************************************************************)
(* A downlink grant never cuts SRB0's SDU, which the RLC in transparent    *)
(* mode could not deliver in parts: 76 bytes, two for the subheader and    *)
(* seven for the contention resolution are just the largest block.         *)
(***************************************************************************)
THEOREM SetupIsWhole == Spec => []Srb0Whole
  <1>1. IInv => Srb0Whole
    <2> SUFFICES ASSUME IInv, worker = "mac_sdus", pass = "dl", pdu[SRB0] > 0
                 PROVE  buf_tx[SRB0] = 0
      BY DEF Srb0Whole
    <2>1. buf_tx[SRB0] \in Nat
      BY Bearers DEF IInv, Sizes, SchedSizes
    <2>2. QED
      BY <2>1 DEF IInv, RoomForSrb0
  <1>2. QED
    BY Invariance, <1>1, PTL

(***************************************************************************)
(* SRB0 is read only after the contention resolution was put into a PDU,   *)
(* wherever the worker runs between ue_set_crnti and send_dl_ccch.         *)
(***************************************************************************)
THEOREM ContentionFirst == Spec => ResolvedFirst
  <1>1. IInv /\ [Next]_vars => [rlc'[SRB0] < rlc[SRB0] => resolved]_vars
    <2> SUFFICES ASSUME IInv, Next, rlc'[SRB0] < rlc[SRB0] PROVE resolved
      OBVIOUS
    <2> USE Bearers
    <2>1. /\ Sizes /\ WrittenOnce /\ Unresolved /\ Flags
          /\ rlc[SRB0] \in Nat /\ rlc \in [Lcid -> Nat]
      BY DEF IInv, Sizes, RlcSizes
    <2>2. ASSUME NEW n \in SetupSizes, SendDlCcch(n) PROVE FALSE
      BY <2>1, <2>2, DlBuffersAssumption DEF SendDlCcch, WrittenOnce
    <2>3. ASSUME NEW n \in SduSizes, WriteSdu(n) PROVE FALSE
      BY <2>1, <2>3 DEF WriteSdu
    <2>4. rlc' # rlc
      BY <2>1
    <2>5. ReadPdu
      BY <2>2, <2>3, <2>4
         DEF Next, Arrivals, StackStep, WorkerStep, ConnectionRequest, WritePdu, StackGetState,
             StackReport, DlSched, UlSched, AllocateMacCes, AllocRlcPdu, SchedEnds, GeneratePdu,
             AllocateSdu, WorkerGetState, WorkerReport, NextSdu
    <2>6. worker = "read_pdu"
      BY <2>5 DEF ReadPdu
    <2>7. QED
      BY <2>1, <2>6 DEF Unresolved
  <1>2. QED
    BY Invariance, <1>1, PTL DEF Spec, ResolvedFirst

=============================================================================
