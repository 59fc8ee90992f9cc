----------------------------- MODULE EnbProofs -----------------------------
(***************************************************************************)
(* Proofs about Enb, for any period, any number of hyper frames, any       *)
(* NPRACH configuration and any sizes of pool and queue.                   *)
(***************************************************************************)
EXTENDS Enb, SequenceTheorems, TLAPS

\* The worker has a subframe that is not on air yet.
Busy == worker.status \in {"START_WORK", "SCHED", "TX"}

\* That subframe.
Sends == [tti |-> TxTti(worker.tti), hfn |-> worker.hfn]

\* The last subframe handed out by the TX/RX thread.
Given == IF Busy THEN Sends ELSE air

\* The subframe that follows a on the radio clock.
After(a) ==
  IF a.tti = Period - 1
    THEN [tti |-> 0, hfn |-> IF a.hfn = Hyper - 1 THEN 0 ELSE a.hfn + 1]
    ELSE [tti |-> a.tti + 1, hfn |-> a.hfn]

\* The hyper frame of the subframe on air while h and t are those of reception.
Ahead(t, h) == IF t >= Period - 4 THEN (h + 1) % Hyper ELSE h

\* Types of what is not a sequence, and the semaphore.
Types ==
  /\ main \in MainPc /\ txrx \in ThreadPc
  /\ tti \in Tti /\ hfn \in Hfn /\ tx_hfn \in Hfn
  /\ worker \in [status : Status, tti : Tti, hfn : Hfn]
  /\ bch_payload \in [sfn : Nat, hfn : 0..3]
  /\ semaphore = IF Busy THEN 1 ELSE 0
  /\ air \in [tti : Tti, hfn : Hfn]
  /\ nprach \in ThreadPc
  /\ stack \in {"none", "runs", "ended"}
  /\ sync \in 0..QueueSize

Flags ==
  /\ radio_ok \in BOOLEAN /\ running \in BOOLEAN /\ nprach_on \in BOOLEAN
  /\ mac_started \in BOOLEAN /\ sibs \in BOOLEAN /\ stop_task \in BOOLEAN

\* Which threads live at each place of the main thread.
Life ==
  /\ main \in {"args", "radio", "phy"} =>
       txrx = "none" /\ worker.status = "none" /\ nprach = "none"
  /\ main \notin {"args", "radio", "phy", "end"} => txrx # "none"
  /\ main \in {"run", "join_txrx", "wait_all", "join_worker", "nprach", "join_nprach"} => radio_ok
  /\ main \in {"wait_all", "join_worker", "nprach", "join_nprach"} => txrx = "ended"
  /\ main \in {"nprach", "join_nprach"} => worker.status = "ended"
  /\ StackOutlivesPhy

(***************************************************************************)
(* The radio clock in the program.  What the TX/RX thread hands out is     *)
(* four subframes ahead of its counters, the subframe it is about to hand  *)
(* out follows the last one, and so does the one the worker is to send.    *)
(***************************************************************************)
ClockInv ==
  /\ txrx # "wait" => Given = [tti |-> TxTti(tti), hfn |-> Ahead(tti, hfn)]
  /\ txrx = "wait" => /\ tx_hfn = Ahead(tti, hfn)
                      /\ After(Given) = [tti |-> TxTti(tti), hfn |-> tx_hfn]
  /\ Busy => After(air) = Sends

\* Before anything was sent the payload is void, but the next subframe packs it.
MibInv ==
  /\ MibOnAir
  /\ worker.status # "TX" => bch_payload = MibPack(air.hfn, air.tti) \/ air.tti = Period - 1

Wrap(a, P) == IF a < P THEN a ELSE a - P

\* nprach_worker::stop was called after a good start.
Told == radio_ok /\ main \in {"join_nprach", "stack", "join_stack", "end"} /\ txrx # "none"

\* Buffers with the TX/RX thread and with the detector.
Filling == IF sf_cnt > 0 THEN 1 ELSE 0
Detecting == IF nprach = "detect" THEN 1 ELSE 0
InUse == Filling + Detecting

(***************************************************************************)
(* Every buffer is accounted for.  The null pointer that ends the thread   *)
(* is the last element of the queue and no buffer.                         *)
(***************************************************************************)
PoolInv ==
  /\ sf_cnt \in 0..NprachSfs - 1 /\ buffer_pool \in Nat
  /\ current \in Seq(Tti) /\ pending \in Seq(Seq(Tti))
  /\ ~Told => /\ PoolSize = buffer_pool + Len(pending) + InUse
              /\ \A i \in 1..Len(pending) : pending[i] # <<>>
              /\ nprach \in {"loop", "detect"} => nprach_on
  /\ Told => /\ pending # <<>> => pending[Len(pending)] = <<>>
             /\ buffer_pool + (IF pending = <<>> THEN 0 ELSE Len(pending) - 1) + InUse <= PoolSize

\* b has the first n subframes of an occasion.
Samples(b, n) ==
  /\ Len(b) = n
  /\ IsOccasion(b[1])
  /\ \A k \in 1..n : b[k] = Wrap(b[1] + k - 1, Period)

\* What is being filled ends with the subframe received last.
OccInv ==
  /\ sf_cnt > 0 =>
       /\ Samples(current, sf_cnt)
       /\ tti = Wrap(current[1] + sf_cnt - (IF txrx \in {"wait", "nprach"} THEN 0 ELSE 1), Period)
  /\ \A i \in 1..Len(pending) : pending[i] # <<>> => Samples(pending[i], NprachSfs)

-----------------------------------------------------------------------------
(* Arithmetic *)

\* The remainder of a number below twice the divisor.
LEMMA ModWrap ==
  \A P \in Nat \ {0} : \A a \in Nat :
    a < 2 * P => a % P = Wrap(a, P)
  <1> SUFFICES ASSUME NEW P \in Nat \ {0}, NEW a \in Nat, a < 2 * P
               PROVE  a % P = IF a < P THEN a ELSE a - P
    BY DEF Wrap
  <1>1. CASE a < P
    BY <1>1
  <1>2. CASE a >= P
    BY <1>2
  <1>3. QED
    BY <1>1, <1>2

\* What taking an element off a queue leaves.
LEMMA TailFacts ==
  ASSUME NEW S, NEW s \in Seq(S), s # <<>>
  PROVE  /\ Tail(s) \in Seq(S) /\ Len(s) \in Nat /\ Len(s) # 0
         /\ Len(Tail(s)) = Len(s) - 1
         /\ Head(s) = s[1]
         /\ \A i \in 1..Len(s) - 1 : Tail(s)[i] = s[i + 1]
         /\ Tail(s) = <<>> <=> Len(s) = 1
  <1>1. /\ Tail(s) \in Seq(S) /\ Len(s) \in Nat /\ Len(s) # 0
        /\ Len(Tail(s)) = Len(s) - 1
        /\ Head(s) = s[1]
        /\ \A i \in 1..Len(s) - 1 : Tail(s)[i] = s[i + 1]
    OBVIOUS
  <1>2. Tail(s) = <<>> <=> Len(Tail(s)) = 0
    BY <1>1, EmptySeq
  <1>3. QED
    BY <1>1, <1>2

\* Two neighbours are in the same block unless a block begins between them.
LEMMA SameBlock ==
  ASSUME NEW N \in Nat \ {0}, NEW t \in Nat \ {0}, t % N # 0
  PROVE  (t - 1) \div N = t \div N
  <1> DEFINE q == t \div N
             r == t % N
  <1>1. q \in Nat /\ r \in 0..N - 1 /\ t = N * q + r
    OBVIOUS
  <1>2. r - 1 \in 0..N - 1 /\ t - 1 = N * q + (r - 1)
    BY <1>1
  <1> HIDE DEF q, r
  <1>3. (t - 1) \div N = q
    BY <1>1, <1>2, Z3
  <1>4. QED
    BY <1>3 DEF q

\* The counters stay in their ranges, and TxTti is four ahead, wrapped.
LEMMA Counters ==
  ASSUME NEW t \in Tti, NEW h \in Hfn
  PROVE  /\ TxTti(t) = IF t < Period - 4 THEN t + 4 ELSE t + 4 - Period
         /\ (t + 1) % Period = IF t < Period - 1 THEN t + 1 ELSE 0
         /\ (h + 1) % Hyper = IF h < Hyper - 1 THEN h + 1 ELSE 0
         /\ TxTti(t) \in Tti /\ (t + 1) % Period \in Tti /\ (h + 1) % Hyper \in Hfn
         /\ Ahead(t, h) \in Hfn
  <1>1. /\ Period \in Nat \ {0} /\ Hyper \in Nat \ {0}
        /\ t + 4 \in Nat /\ t + 4 < 2 * Period
        /\ t + 1 \in Nat /\ t + 1 < 2 * Period
        /\ h + 1 \in Nat /\ h + 1 < 2 * Hyper
    BY EnbAssumption DEF Tti, Hfn
  <1>a. (t + 4) % Period = Wrap(t + 4, Period)
    BY <1>1, ModWrap
  <1>b. (t + 1) % Period = Wrap(t + 1, Period)
    BY <1>1, ModWrap
  <1>c. (h + 1) % Hyper = Wrap(h + 1, Hyper)
    BY <1>1, ModWrap
  <1>3. QED
    BY <1>1, <1>a, <1>b, <1>c, EnbAssumption DEF TxTti, Tti, Hfn, Ahead, Wrap

-----------------------------------------------------------------------------
(* Types and lifetimes *)

\* At the start counters, threads and queues have their types, and nothing runs.
LEMMA InitTypes == Init => Types /\ Life
  <1> SUFFICES ASSUME Init PROVE Types /\ Life
    OBVIOUS
  <1>1. /\ Period - 5 \in Tti /\ Period - 1 \in Tti /\ 0 \in Tti
        /\ Hyper - 1 \in Hfn /\ 0 \in Hfn /\ 0 \in 0..QueueSize
    BY EnbAssumption DEF Tti, Hfn
  <1>2. Types
    BY <1>1 DEF Init, Types, MainPc, ThreadPc, Status, Busy
  <1>3. Life
    BY DEF Init, Life, StackOutlivesPhy
  <1>4. QED
    BY <1>2, <1>3

\* A MIB has the bits of the hyper frame number that srslte_npbch_mib_pack puts in it.
LEMMA MibPackType ==
  ASSUME NEW h \in Hfn, NEW t \in Tti
  PROVE  MibPack(h, t) \in [sfn : Nat, hfn : 0..3]
  BY EnbAssumption DEF MibPack, Hfn, Tti

\* No step of any thread takes a counter or a queue out of its range.
LEMMA NextTypes == Types /\ Life /\ [Next]_vars => Types'
  <1> SUFFICES ASSUME Types, Life, [Next]_vars PROVE Types'
    OBVIOUS
  <1> USE DEF Types, Busy, mainVars, txrxVars, workVars, nprachVars, stackVars
  <1>a. tti \in Tti /\ hfn \in Hfn /\ worker.tti \in Tti /\ worker.hfn \in Hfn
    OBVIOUS
  <1>1. CASE TxRxTick
    <2>1. tti' \in Tti /\ hfn' \in Hfn /\ tx_hfn' \in Hfn
      BY <1>1, <1>a, Counters DEF TxRxTick
    <2>2. QED
      BY <1>1, <2>1 DEF TxRxTick, ThreadPc
  <1>2. CASE TxRxStart \/ NewTti \/ TxRxEnd
    BY <1>2 DEF TxRxStart, NewTti, TxRxEnd, ThreadPc, Status
  <1>3. CASE WorkerStart \/ WorkerEnd \/ WorkerStops
    <2>1. TxTti(worker.tti) \in Tti
      BY <1>a, Counters
    <2>2. QED
      BY <1>3, <2>1, EnbAssumption DEF WorkerStart, WorkerEnd, WorkerStops, Status
  <1>4. ASSUME NEW sib \in BOOLEAN, WorkerSched(sib) PROVE Types'
    <2>1. bch_payload' \in [sfn : Nat, hfn : 0..3]
      BY <1>4, <1>a, Counters, MibPackType DEF WorkerSched, PutBase
    <2>2. QED
      BY <1>4, <2>1 DEF WorkerSched, Status, MainPc
  <1>5. CASE Nprach
    BY <1>5 DEF Nprach, NprachStart, NprachPop, RunTti, ThreadPc
  <1>6. CASE TtiClockImpl \/ StopImpl
    BY <1>6, EnbAssumption DEF TtiClockImpl, StopImpl
  <1>7. CASE Start
    BY <1>7 DEF Start, ParseArgs, RadioInit, PhyInit, MacInit, RrcInit, StackStart, MainPc,
                ThreadPc, Status, Life
  <1>8. CASE Signal \/ JoinTxRx \/ JoinWorker \/ NprachStop \/ JoinNprach \/ StackStop \/ Destroy
    BY <1>8 DEF Signal, JoinTxRx, JoinWorker, NprachStop, JoinNprach, StackStop, Destroy, MainPc
  <1>9. CASE PoolStop
    BY <1>9 DEF PoolStop, MainPc, Status
  <1>10. CASE UNCHANGED vars
    BY <1>10 DEF vars
  <1>11. QED
    BY <1>1, <1>2, <1>3, <1>4, <1>5, <1>6, <1>7, <1>8, <1>9, <1>10
       DEF Next, TxRx, Worker, Stop

\* No step takes the stack down while a thread of the PHY is left after a good start.
LEMMA NextLife == Types /\ Life /\ [Next]_vars => Life'
  <1> SUFFICES ASSUME Types, Life, [Next]_vars PROVE Life'
    OBVIOUS
  <1> USE DEF Types, Life, StackOutlivesPhy, mainVars, txrxVars, workVars, nprachVars, stackVars
  <1>1. CASE TxRx
    BY <1>1 DEF TxRx, TxRxTick, TxRxStart, NewTti, TxRxEnd, Next
  <1>2. CASE Worker
    <2>1. CASE WorkerStart \/ WorkerEnd \/ WorkerStops
      BY <2>1 DEF WorkerStart, WorkerEnd, WorkerStops
    <2>2. ASSUME NEW sib \in BOOLEAN, WorkerSched(sib) PROVE Life'
      <3>1. /\ main' \in {main, "crashed"} /\ worker.status = "SCHED" /\ worker'.status = "TX"
            /\ UNCHANGED <<radio_ok, txrx, nprach>>
        BY <2>2 DEF WorkerSched
      <3>2. main # "end"
        BY <2>2 DEF WorkerSched, Next, vars
      <3>3. QED
        BY <3>1, <3>2
    <2>3. QED
      BY <1>2, <2>1, <2>2 DEF Worker
  <1>3. CASE Nprach
    BY <1>3 DEF Nprach, NprachStart, NprachPop, RunTti
  <1>4. CASE TtiClockImpl \/ StopImpl
    BY <1>4 DEF TtiClockImpl, StopImpl
  <1>5. CASE Start
    BY <1>5 DEF Start, ParseArgs, RadioInit, PhyInit, MacInit, RrcInit, StackStart
  <1>6. CASE Signal \/ Stop
    BY <1>6 DEF Signal, Stop, JoinTxRx, PoolStop, JoinWorker, NprachStop, JoinNprach, StackStop,
                Destroy
  <1>7. CASE UNCHANGED vars
    BY <1>7 DEF vars
  <1>8. QED
    BY <1>1, <1>2, <1>3, <1>4, <1>5, <1>6, <1>7 DEF Next

\* The flags are Boolean.
LEMMA FlagsInv == Flags /\ [Next]_vars => Flags'
  <1> SUFFICES ASSUME Flags, [Next]_vars PROVE Flags'
    OBVIOUS
  <1> USE DEF Flags, mainVars, txrxVars, workVars, nprachVars, stackVars
  <1>1. CASE TxRx
    BY <1>1, Zenon DEF TxRx, TxRxTick, TxRxStart, NewTti, TxRxEnd
  <1>2. CASE Worker
    BY <1>2, Zenon DEF Worker, WorkerStart, WorkerSched, WorkerEnd, WorkerStops
  <1>3. CASE Nprach
    BY <1>3, Zenon DEF Nprach, NprachStart, NprachPop, RunTti
  <1>4. CASE TtiClockImpl \/ StopImpl
    BY <1>4, Zenon DEF TtiClockImpl, StopImpl
  <1>5. CASE Start
    BY <1>5, Zenon DEF Start, ParseArgs, RadioInit, PhyInit, MacInit, RrcInit, StackStart
  <1>6. CASE Signal \/ Stop
    BY <1>6, Zenon DEF Signal, Stop, JoinTxRx, PoolStop, JoinWorker, NprachStop, JoinNprach,
                       StackStop, Destroy
  <1>7. CASE UNCHANGED vars
    BY <1>7, Zenon DEF vars
  <1>8. QED
    BY <1>1, <1>2, <1>3, <1>4, <1>5, <1>6, <1>7 DEF Next

-----------------------------------------------------------------------------
(* The clock *)

\* The first subframe sent will be number 0 of hyper frame 0 ("Set TTI so that first TX is at
\* tti=0"), and no MIB was sent yet.
LEMMA InitClock == Init => ClockInv /\ MibInv
  <1> SUFFICES ASSUME Init PROVE ClockInv /\ MibInv
    OBVIOUS
  <1>1. TxTti(Period - 5) = Period - 1
    BY EnbAssumption, Counters DEF Tti, Hfn
  <1>2. QED
    BY <1>1, EnbAssumption DEF Init, ClockInv, MibInv, MibOnAir, Busy, Given, Ahead

\* One step of the counters is one step of the clock.
LEMMA TickClock ==
  ASSUME NEW t \in Tti, NEW h \in Hfn
  PROVE  LET th == IF t >= Period - 5 THEN (h + 1) % Hyper ELSE h
             nh == IF t >= Period - 1 THEN th ELSE h
             nt == (t + 1) % Period
         IN /\ th = Ahead(nt, nh)
            /\ After([tti |-> TxTti(t), hfn |-> Ahead(t, h)]) = [tti |-> TxTti(nt), hfn |-> th]
  <1> DEFINE nt == (t + 1) % Period
  <1>1. /\ nt = IF t < Period - 1 THEN t + 1 ELSE 0
        /\ nt \in Tti
        /\ TxTti(t) = IF t < Period - 4 THEN t + 4 ELSE t + 4 - Period
        /\ (h + 1) % Hyper = IF h < Hyper - 1 THEN h + 1 ELSE 0
    BY Counters
  <1>2. TxTti(nt) = IF nt < Period - 4 THEN nt + 4 ELSE nt + 4 - Period
    BY <1>1, Counters
  <1> HIDE DEF nt
  <1>3. QED
    BY <1>1, <1>2, EnbAssumption DEF Ahead, After, Tti, Hfn, nt

\* The subframe that comes next on air is the successor of the last, in whichever thread it is.
LEMMA NextClock == Types /\ Life /\ ClockInv /\ [Next]_vars => ClockInv'
  <1> SUFFICES ASSUME Types, Life, ClockInv, [Next]_vars PROVE ClockInv'
    OBVIOUS
  <1> USE DEF mainVars, txrxVars, workVars, nprachVars, stackVars
  <1>a. ASSUME UNCHANGED <<txrxVars, worker, air>> PROVE ClockInv'
    BY <1>a DEF ClockInv, Busy, Given, Sends
  <1>1. CASE TxRxTick
    <2>1. Given = [tti |-> TxTti(tti), hfn |-> Ahead(tti, hfn)] /\ Given' = Given
          /\ Busy' = Busy /\ Sends' = Sends /\ After(air)' = After(air)
      BY <1>1 DEF TxRxTick, ClockInv, Given, Busy, Sends, After
    <2>2. tx_hfn' = Ahead(tti', hfn') /\ After(Given) = [tti |-> TxTti(tti'), hfn |-> tx_hfn']
      BY <1>1, <2>1, TickClock DEF TxRxTick, Types
    <2>3. QED
      BY <1>1, <2>1, <2>2 DEF TxRxTick, ClockInv, After
  <1>2. CASE TxRxStart
    BY <1>2 DEF TxRxStart, ClockInv, Given, Busy, Sends, After, Types
  <1>3. CASE NewTti \/ TxRxEnd
    BY <1>3 DEF NewTti, TxRxEnd, ClockInv, Given, Busy, Sends, After
  <1>4. ASSUME NEW s \in Status, s \in {"SCHED", "TX"}, Busy,
               worker' = [worker EXCEPT !.status = s], UNCHANGED <<txrxVars, air>>
        PROVE  ClockInv'
    BY <1>4 DEF ClockInv, Given, Busy, Sends, After, Types
  <1>5. CASE WorkerEnd
    BY <1>5 DEF WorkerEnd, ClockInv, Given, Busy, Sends, After, Types
  <1>6. ASSUME NEW s \in {"IDLE", "STOP", "ended"}, ~Busy,
               worker' = [worker EXCEPT !.status = s], UNCHANGED <<tti, hfn, tx_hfn, air>>,
               txrx' = txrx \/ (txrx = "none" /\ txrx' = "loop")
        PROVE  ClockInv'
    BY <1>6 DEF ClockInv, Given, Busy, Sends, After, Types
  <1>7. CASE Worker
    BY <1>4, <1>5, <1>6, <1>7 DEF Worker, WorkerStart, WorkerSched, WorkerStops, Busy, Status
  <1>8. CASE Start
    <2>1. CASE PhyInit
      BY <1>6, <2>1 DEF PhyInit, Life, Busy
    <2>2. QED
      BY <1>8, <1>a, <2>1 DEF Start, ParseArgs, RadioInit, MacInit, RrcInit, StackStart
  <1>9. CASE Signal
    BY <1>9 DEF Signal, ClockInv, Given, Busy, Sends, After
  <1>10. CASE PoolStop
    BY <1>6, <1>10 DEF PoolStop, Types, Busy
  <1>11. CASE Stop
    BY <1>a, <1>10, <1>11 DEF Stop, JoinTxRx, JoinWorker, NprachStop, JoinNprach, StackStop, Destroy
  <1>12. CASE Nprach \/ TtiClockImpl \/ StopImpl \/ UNCHANGED vars
    BY <1>a, <1>12 DEF Nprach, NprachStart, NprachPop, RunTti, TtiClockImpl, StopImpl, vars
  <1>13. QED
    BY <1>1, <1>2, <1>3, <1>7, <1>8, <1>9, <1>11, <1>12 DEF Next, TxRx

\* The MIB is that of the subframe on air, for the next one too unless it
\* begins a block and packs its own.
LEMMA NextMib == Types /\ Life /\ ClockInv /\ MibInv /\ [Next]_vars => MibInv'
  <1> SUFFICES ASSUME Types, Life, ClockInv, MibInv, [Next]_vars PROVE MibInv'
    OBVIOUS
  <1> USE DEF mainVars, txrxVars, workVars, nprachVars, stackVars
  <1>a. ASSUME UNCHANGED <<worker, air, bch_payload>> PROVE MibInv'
    BY <1>a DEF MibInv, MibOnAir
  <1>b. ASSUME UNCHANGED <<air, bch_payload>>, worker.status # "TX", worker'.status # "TX"
        PROVE  MibInv'
    BY <1>b DEF MibInv, MibOnAir
  <1>1. CASE TxRx
    BY <1>1, <1>a, <1>b DEF TxRx, TxRxTick, TxRxStart, NewTti, TxRxEnd, Types
  <1>2. ASSUME NEW sib \in BOOLEAN, WorkerSched(sib) PROVE MibInv'
    <2> DEFINE t == TxTti(worker.tti)
               h == worker.hfn
    <2>1. /\ worker.status = "SCHED" /\ worker' = [worker EXCEPT !.status = "TX"]
          /\ bch_payload' = PutBase(h, t)
      BY <1>2 DEF WorkerSched
    <2>2. t \in Tti /\ h \in Hfn /\ TxTti(worker'.tti) = t /\ worker'.hfn = h
      BY <2>1, Counters DEF Types
    <2>3. bch_payload' = MibPack(h, t)
      <3>1. CASE t % NpbchPeriod = 0
        BY <2>1, <3>1 DEF PutBase
      <3>2. CASE t % NpbchPeriod # 0
        <4>1. After(air) = [tti |-> t, hfn |-> h]
          BY <2>1 DEF ClockInv, Busy, Sends
        <4>2. t # 0
          BY <3>2, EnbAssumption
        <4>3. air.tti = t - 1 /\ air.hfn = h /\ air.tti # Period - 1
          BY <4>1, <4>2 DEF After, Types, Tti
        <4>4. bch_payload = MibPack(h, t - 1)
          BY <2>1, <4>3 DEF MibInv
        <4>5. (t - 1) \div NpbchPeriod = t \div NpbchPeriod
          BY <2>2, <3>2, <4>2, SameBlock, EnbAssumption DEF Tti
        <4>6. QED
          BY <2>1, <3>2, <4>4, <4>5 DEF PutBase, MibPack
      <3>3. QED
        BY <3>1, <3>2
    <2>4. QED
      BY <2>1, <2>2, <2>3 DEF MibInv, MibOnAir, Types
  <1>3. CASE WorkerEnd
    BY <1>3 DEF WorkerEnd, MibInv, MibOnAir, Types
  <1>4. CASE WorkerStart \/ WorkerStops
    BY <1>4, <1>b DEF WorkerStart, WorkerStops, Types
  <1>5. CASE PhyInit \/ PoolStop
    <2>1. worker.status # "TX"
      BY <1>5 DEF PhyInit, Life, PoolStop, Types, Busy
    <2>2. QED
      BY <1>5, <1>b, <2>1 DEF PhyInit, PoolStop, Types
  <1>6. QED
    BY <1>a, <1>1, <1>2, <1>3, <1>4, <1>5
       DEF Next, Worker, Start, Signal, Stop, Nprach, NprachStart, NprachPop, RunTti,
           TtiClockImpl, StopImpl, ParseArgs, RadioInit, MacInit, RrcInit, StackStart, JoinTxRx,
           JoinWorker, NprachStop, JoinNprach, StackStop, Destroy, vars

-----------------------------------------------------------------------------
(* The buffers of the NPRACH worker *)

\* At the start every buffer is in the pool, and none is being filled.
LEMMA InitPool == Init => PoolInv /\ OccInv
  <1> SUFFICES ASSUME Init PROVE PoolInv /\ OccInv
    OBVIOUS
  <1>1. sf_cnt = 0 /\ Len(pending) = 0 /\ pending \in Seq(Seq(Tti)) /\ current \in Seq(Tti)
    BY DEF Init
  <1>2. QED
    BY <1>1, EnbAssumption DEF Init, PoolInv, OccInv, Told, InUse, Filling, Detecting

\* No step loses a buffer of the NPRACH pool or gives one out twice.
LEMMA NextPool == Types /\ Life /\ PoolInv /\ [Next]_vars => PoolInv'
  <1> SUFFICES ASSUME Types, Life, PoolInv, [Next]_vars PROVE PoolInv'
    OBVIOUS
  <1> USE DEF mainVars, txrxVars, workVars, nprachVars, stackVars
  <1>p. PoolSize \in Nat
    BY EnbAssumption
  <1>a. ASSUME UNCHANGED <<sf_cnt, current, buffer_pool, pending>>, InUse' = InUse, Told' = Told,
               nprach' \in {"loop", "detect"} =>
                 nprach_on' \/ (nprach \in {"loop", "detect"} /\ nprach_on' = nprach_on)
        PROVE  PoolInv'
    BY <1>a DEF PoolInv
  <1>1. CASE TxRxTick \/ TxRxStart \/ TxRxEnd
    BY <1>1, <1>a DEF TxRxTick, TxRxStart, TxRxEnd, InUse, Filling, Detecting, Told
  <1>2. CASE NewTti
    <2>1. ~Told /\ ~Told' /\ txrx = "nprach" /\ UNCHANGED <<nprach, nprach_on>>
      BY <1>2 DEF NewTti, Told, Life, StackOutlivesPhy
    <2>2. CASE UNCHANGED <<sf_cnt, current, buffer_pool, pending>>
      BY <2>1, <2>2 DEF PoolInv, InUse, Filling, Detecting
    <2> DEFINE begin == sf_cnt = 0 /\ IsOccasion(tti)
               samples == IF begin THEN <<tti>> ELSE Append(current, tti)
    <2>3. CASE /\ ~(sf_cnt = 0 /\ (~begin \/ buffer_pool = 0))
               /\ buffer_pool' = IF begin THEN buffer_pool - 1 ELSE buffer_pool
               /\ sf_cnt' = IF sf_cnt + 1 = NprachSfs THEN 0 ELSE sf_cnt + 1
               /\ current' = samples
               /\ pending' = IF sf_cnt + 1 = NprachSfs THEN Append(pending, samples) ELSE pending
      <3>1. samples \in Seq(Tti)
        BY DEF PoolInv, Types
      <3>2. /\ pending' \in Seq(Seq(Tti))
            /\ Len(pending') = Len(pending) + (IF sf_cnt + 1 = NprachSfs THEN 1 ELSE 0)
        BY <2>3, <3>1 DEF PoolInv
      <3>3. sf_cnt' \in 0..NprachSfs - 1 /\ buffer_pool' \in Nat
        BY <2>3, EnbAssumption DEF PoolInv
      <3>4. PoolSize = buffer_pool' + Len(pending') + InUse'
        <4>1. /\ Len(pending) \in Nat /\ sf_cnt \in Nat /\ buffer_pool \in Nat
              /\ sf_cnt < NprachSfs /\ NprachSfs \in Nat
              /\ PoolSize = buffer_pool + Len(pending) + InUse
          BY <2>1, EnbAssumption DEF PoolInv
        <4>2. /\ Detecting' = Detecting /\ Detecting \in 0..1
              /\ Filling = (IF sf_cnt = 0 THEN 0 ELSE 1)
              /\ Filling' = (IF sf_cnt + 1 = NprachSfs THEN 0 ELSE 1)
              /\ buffer_pool' = (IF sf_cnt = 0 THEN buffer_pool - 1 ELSE buffer_pool)
          BY <2>1, <2>3, <4>1 DEF Filling, Detecting
        <4>3. /\ InUse = Filling + Detecting /\ InUse' = Filling' + Detecting'
              /\ Len(pending') = Len(pending) + (IF sf_cnt + 1 = NprachSfs THEN 1 ELSE 0)
          BY <3>2 DEF InUse
        <4>4. CASE sf_cnt = 0 /\ sf_cnt + 1 = NprachSfs
          BY <4>1, <4>2, <4>3, <4>4
        <4>5. CASE sf_cnt # 0 /\ sf_cnt + 1 = NprachSfs
          BY <4>1, <4>2, <4>3, <4>5
        <4>6. CASE sf_cnt = 0 /\ sf_cnt + 1 # NprachSfs
          BY <4>1, <4>2, <4>3, <4>6
        <4>7. CASE sf_cnt # 0 /\ sf_cnt + 1 # NprachSfs
          BY <4>1, <4>2, <4>3, <4>7
        <4>8. QED
          BY <4>4, <4>5, <4>6, <4>7
      <3>5. \A i \in 1..Len(pending') : pending'[i] # <<>>
        <4>1. samples # <<>>
          <5>1. current \in Seq(Tti) /\ tti \in Tti
            BY DEF PoolInv, Types
          <5>2. Append(current, tti) # <<>>
            BY <5>1, AppendProperties
          <5>3. QED
            BY <5>2
        <4> HIDE DEF samples
        <4>2. QED
          BY <2>1, <2>3, <3>1, <4>1 DEF PoolInv
      <3>6. QED
        BY <2>1, <2>3, <3>1, <3>2, <3>3, <3>4, <3>5 DEF PoolInv
    <2>4. QED
      BY <1>2, <2>2, <2>3 DEF NewTti
  <1>3. CASE Worker
    <2>1. Told' = Told
      BY <1>3 DEF Worker, WorkerStart, WorkerSched, WorkerEnd, WorkerStops, Told, Life,
                  StackOutlivesPhy
    <2>2. UNCHANGED nprachVars
      BY <1>3 DEF Worker, WorkerStart, WorkerSched, WorkerEnd, WorkerStops
    <2>3. QED
      BY <1>a, <2>1, <2>2 DEF InUse, Filling, Detecting
  <1>4. CASE NprachStart
    BY <1>4, <1>a DEF NprachStart, InUse, Filling, Detecting, Told
  <1>5. CASE NprachPop
    <2>1. /\ pending # <<>> /\ pending' = Tail(pending) /\ nprach = "loop"
          /\ UNCHANGED <<sf_cnt, current, buffer_pool>> /\ Told' = Told
          /\ \/ nprach' = "ended" /\ ~(nprach_on /\ Head(pending) # <<>>)
             \/ nprach' = "detect" /\ Head(pending) # <<>> /\ nprach_on'
      BY <1>5 DEF NprachPop, Told
    <2>2. pending \in Seq(Seq(Tti)) /\ Len(pending) \in Nat /\ Len(pending) # 0
          /\ Head(pending) = pending[1]
      BY <2>1 DEF PoolInv
    <2>3. /\ pending' \in Seq(Seq(Tti)) /\ Len(pending') = Len(pending) - 1
          /\ \A i \in 1..Len(pending') : pending'[i] = pending[i + 1]
          /\ pending' = <<>> <=> Len(pending') = 0
      <3>1. pending # <<>>
        BY <2>1
      <3>2. QED
        BY <2>1, <2>2, <3>1, TailFacts
    <2>4. CASE ~Told
      <3>1. nprach' = "detect" /\ nprach_on'
        BY <2>1, <2>2, <2>4 DEF PoolInv
      <3>2. \A i \in 1..Len(pending') : pending'[i] # <<>>
        BY <2>2, <2>3, <2>4 DEF PoolInv
      <3>3. PoolSize = buffer_pool' + Len(pending') + InUse'
        <4>1. /\ Filling' = Filling /\ Filling \in 0..1 /\ Detecting = 0 /\ Detecting' = 1
              /\ buffer_pool \in Nat /\ PoolSize = buffer_pool + Len(pending) + InUse
          BY <2>1, <2>4, <3>1 DEF PoolInv, Filling, Detecting
        <4>2. QED
          BY <2>1, <2>2, <2>3, <4>1 DEF InUse
      <3>4. QED
        BY <2>1, <2>3, <2>4, <3>1, <3>2, <3>3 DEF PoolInv
    <2>5. CASE Told
      <3>1. pending' # <<>> => pending'[Len(pending')] = <<>>
        BY <2>1, <2>2, <2>3, <2>5 DEF PoolInv
      <3>2. Len(pending) = 1 => nprach' = "ended"
        BY <2>1, <2>2, <2>5 DEF PoolInv
      <3>3. buffer_pool' + (IF pending' = <<>> THEN 0 ELSE Len(pending') - 1) + InUse' <= PoolSize
        <4>1. /\ Filling' = Filling /\ Filling \in 0..1 /\ Detecting = 0
              /\ Detecting' \in 0..1 /\ (Len(pending) = 1 => Detecting' = 0)
              /\ buffer_pool \in Nat /\ buffer_pool + (Len(pending) - 1) + InUse <= PoolSize
          BY <2>1, <2>5, <3>2 DEF PoolInv, Filling, Detecting
        <4>2. /\ InUse = Filling + Detecting /\ InUse' = Filling' + Detecting'
              /\ buffer_pool' = buffer_pool /\ Len(pending') = Len(pending) - 1
              /\ Len(pending) \in Nat \ {0} /\ (pending' = <<>> <=> Len(pending') = 0)
          BY <2>1, <2>2, <2>3 DEF InUse
        <4>3. CASE Len(pending) = 1
          BY <1>p, <4>1, <4>2, <4>3
        <4>4. CASE Len(pending) # 1
          BY <1>p, <4>1, <4>2, <4>4
        <4>5. QED
          BY <4>3, <4>4
      <3>4. QED
        BY <2>1, <2>3, <2>5, <3>1, <3>3 DEF PoolInv
    <2>6. QED
      BY <2>4, <2>5
  <1>6. CASE RunTti
    <2>1. /\ buffer_pool' = buffer_pool + 1 /\ Told' = Told
          /\ UNCHANGED <<sf_cnt, current, pending, nprach_on>>
          /\ nprach = "detect" /\ (nprach' = "ended" \/ (nprach' = "loop" /\ nprach_on))
      BY <1>6 DEF RunTti, Told
    <2>2. ~Told => nprach' = "loop" /\ nprach_on'
      BY <1>6, <2>1 DEF RunTti, PoolInv
    <2>3. Filling' = Filling /\ Filling \in 0..1 /\ Detecting = 1 /\ Detecting' = 0
          /\ buffer_pool \in Nat /\ InUse' = InUse - 1 /\ InUse \in Nat
      BY <2>1 DEF PoolInv, Filling, Detecting, InUse
    <2>4. CASE Told
      <3>1. Len(pending) \in Nat /\ (pending # <<>> => Len(pending) # 0)
        BY EmptySeq DEF PoolInv
      <3>2. buffer_pool' + (IF pending = <<>> THEN 0 ELSE Len(pending) - 1) + InUse' <= PoolSize
        <4>1. buffer_pool + (IF pending = <<>> THEN 0 ELSE Len(pending) - 1) + InUse <= PoolSize
          BY <2>4 DEF PoolInv
        <4>2. CASE pending = <<>>
          BY <1>p, <2>1, <2>3, <4>1, <4>2
        <4>3. CASE pending # <<>>
          BY <1>p, <2>1, <2>3, <3>1, <4>1, <4>3
        <4>4. QED
          BY <4>2, <4>3
      <3>3. pending' = pending /\ Told' /\ buffer_pool' \in Nat
        BY <2>1, <2>3, <2>4
      <3>4. QED
        BY <2>1, <2>4, <3>2, <3>3 DEF PoolInv
    <2>5. CASE ~Told
      <3>1. PoolSize = buffer_pool' + Len(pending) + InUse'
        BY <1>p, <2>1, <2>3, <2>5 DEF PoolInv
      <3>2. QED
        BY <2>1, <2>2, <2>3, <2>5, <3>1 DEF PoolInv
    <2>6. QED
      BY <2>4, <2>5
  <1>7. CASE NprachStop
    <2>1. /\ pending' = Append(pending, <<>>) /\ main = "nprach" /\ main' = "join_nprach"
          /\ UNCHANGED <<nprach, sf_cnt, current, buffer_pool, radio_ok, txrx>>
      BY <1>7 DEF NprachStop
    <2>2. /\ pending' \in Seq(Seq(Tti)) /\ Len(pending') = Len(pending) + 1
          /\ pending'[Len(pending')] = <<>> /\ pending' # <<>>
      <3>1. <<>> \in Seq(Tti) /\ pending \in Seq(Seq(Tti))
        BY DEF PoolInv
      <3>2. QED
        BY <2>1, <3>1, AppendProperties
    <2>3. QED
      BY <2>1, <2>2 DEF PoolInv, InUse, Filling, Detecting, Told, Life
  <1>8. CASE Start \/ Signal
    BY <1>8, <1>a DEF Start, ParseArgs, RadioInit, PhyInit, MacInit, RrcInit, StackStart, Signal,
                      InUse, Filling, Detecting, Told, Life
  <1>9. CASE JoinTxRx \/ PoolStop \/ JoinWorker \/ JoinNprach \/ StackStop \/ Destroy
    BY <1>9, <1>a DEF JoinTxRx, PoolStop, JoinWorker, JoinNprach, StackStop, Destroy, InUse, Filling, Detecting, Told
  <1>10. CASE TtiClockImpl \/ StopImpl \/ UNCHANGED vars
    BY <1>10, <1>a DEF TtiClockImpl, StopImpl, vars, InUse, Filling, Detecting, Told
  <1>11. QED
    BY <1>1, <1>2, <1>3, <1>4, <1>5, <1>6, <1>7, <1>8, <1>9, <1>10 DEF Next, TxRx, Nprach, Stop

\* Buffers are filled with consecutive subframes from the start of an occasion on.
LEMMA NextOcc == Types /\ Life /\ PoolInv /\ OccInv /\ [Next]_vars => OccInv'
  <1> SUFFICES ASSUME Types, Life, PoolInv, OccInv, [Next]_vars PROVE OccInv'
    OBVIOUS
  <1> USE DEF mainVars, txrxVars, workVars, nprachVars, stackVars
  <1> DEFINE Behind == IF txrx \in {"wait", "nprach"} THEN 0 ELSE 1
             Waiting == \A i \in 1..Len(pending) : pending[i] # <<>> => Samples(pending[i], NprachSfs)
  <1>p. /\ Period \in Nat /\ Period > 5 /\ NprachSfs \in Nat \ {0} /\ NprachSfs <= Period
        /\ sf_cnt \in Nat /\ sf_cnt < NprachSfs /\ tti \in 0..Period - 1
    BY EnbAssumption DEF PoolInv, Types, Tti
  <1>q. current \in Seq(Tti) /\ pending \in Seq(Seq(Tti)) /\ tti \in Tti
    BY DEF PoolInv, Types
  <1>a. ASSUME UNCHANGED <<sf_cnt, current, pending, tti>>, Behind' = Behind PROVE OccInv'
    BY <1>a DEF OccInv, Samples
  <1>1. CASE TxRxTick
    <2>1. UNCHANGED <<sf_cnt, current, pending>> /\ Behind = 1 /\ Behind' = 0
          /\ tti' = (IF tti < Period - 1 THEN tti + 1 ELSE 0)
      BY <1>1, Counters DEF TxRxTick, Types
    <2>2. CASE sf_cnt = 0
      BY <2>1, <2>2 DEF OccInv, Samples
    <2>3. CASE sf_cnt > 0
      <3>1. Len(current) = sf_cnt /\ current[1] \in 0..Period - 1
            /\ tti = Wrap(current[1] + sf_cnt - 1, Period)
        BY <1>p, <1>q, <2>1, <2>3 DEF OccInv, Samples, Tti
      <3>2. tti' = Wrap(current[1] + sf_cnt, Period)
        BY <1>p, <2>1, <2>3, <3>1 DEF Wrap
      <3>3. tti' = Wrap(current[1] + sf_cnt - 0, Period)
        BY <1>p, <3>1, <3>2
      <3>4. QED
        BY <2>1, <2>3, <3>3 DEF OccInv, Samples
    <2>4. QED
      BY <1>p, <2>2, <2>3
  <1>2. CASE NewTti
    <2>1. txrx = "nprach" /\ txrx' = "loop" /\ tti' = tti
      BY <1>2 DEF NewTti
    <2>2. CASE UNCHANGED <<sf_cnt, current, pending>> /\ sf_cnt = 0
      BY <2>1, <2>2 DEF OccInv, Samples
    <2> DEFINE begin == sf_cnt = 0 /\ IsOccasion(tti)
               samples == IF begin THEN <<tti>> ELSE Append(current, tti)
    <2>3. CASE /\ ~(sf_cnt = 0 /\ ~begin)
               /\ sf_cnt' = IF sf_cnt + 1 = NprachSfs THEN 0 ELSE sf_cnt + 1
               /\ current' = samples
               /\ pending' = IF sf_cnt + 1 = NprachSfs THEN Append(pending, samples) ELSE pending
      <3>1. /\ samples \in Seq(Tti) /\ Samples(samples, sf_cnt + 1)
            /\ tti = Wrap(samples[1] + sf_cnt, Period)
        <4>1. CASE sf_cnt = 0
          <5>1. samples = <<tti>> /\ IsOccasion(tti) /\ tti + 0 = tti /\ Wrap(tti, Period) = tti
            BY <1>p, <2>3, <4>1 DEF Wrap
          <5>2. Len(<<tti>>) = 1 /\ <<tti>>[1] = tti /\ <<tti>> \in Seq(Tti)
            BY <1>q
          <5>3. Samples(<<tti>>, 1)
            BY <1>p, <5>1, <5>2 DEF Samples
          <5>4. QED
            BY <4>1, <5>1, <5>2, <5>3
        <4>2. CASE sf_cnt > 0
          <5>1. /\ Len(current) = sf_cnt /\ IsOccasion(current[1])
                /\ \A k \in 1..sf_cnt : current[k] = Wrap(current[1] + k - 1, Period)
                /\ tti = Wrap(current[1] + sf_cnt - 0, Period)
            BY <2>1, <4>2 DEF OccInv, Samples
          <5>2. samples = Append(current, tti)
            BY <1>p, <4>2
          <5>3. /\ samples \in Seq(Tti) /\ Len(samples) = sf_cnt + 1
                /\ \A k \in 1..sf_cnt : samples[k] = current[k]
                /\ samples[sf_cnt + 1] = tti
            BY <1>q, <5>1, <5>2, AppendProperties
          <5>4. current[1] \in 0..Period - 1 /\ samples[1] = current[1]
            BY <1>p, <1>q, <4>2, <5>1, <5>3 DEF Tti
          <5> HIDE DEF samples
          <5>5. tti = Wrap(current[1] + sf_cnt, Period)
            BY <1>p, <5>1, <5>4
          <5>6. ASSUME NEW k \in 1..sf_cnt + 1
                PROVE  samples[k] = Wrap(samples[1] + k - 1, Period)
            <6>1. CASE k = sf_cnt + 1
              <7>1. samples[1] + k - 1 = current[1] + sf_cnt
                BY <1>p, <5>4, <6>1
              <7>2. QED
                BY <5>3, <5>5, <6>1, <7>1
            <6>2. CASE k # sf_cnt + 1
              <7>1. k \in 1..sf_cnt
                BY <1>p, <6>2
              <7>2. QED
                BY <5>1, <5>3, <5>4, <7>1
            <6>3. QED
              BY <6>1, <6>2
          <5>7. QED
            BY <5>1, <5>3, <5>4, <5>5, <5>6 DEF Samples
        <4>3. QED
          BY <1>p, <4>1, <4>2
      <3> HIDE DEF samples
      <3>2. Waiting'
        <4>1. CASE sf_cnt + 1 = NprachSfs
          <5>1. pending' = Append(pending, samples) /\ Samples(samples, NprachSfs)
            BY <2>3, <3>1, <4>1
          <5>2. /\ Len(pending') = Len(pending) + 1 /\ Len(pending) \in Nat
                /\ \A i \in 1..Len(pending) : pending'[i] = pending[i]
                /\ pending'[Len(pending) + 1] = samples
            BY <1>q, <3>1, <5>1, AppendProperties
          <5>3. ASSUME NEW i \in 1..Len(pending')
                PROVE  pending'[i] # <<>> => Samples(pending'[i], NprachSfs)
            <6>1. CASE i = Len(pending) + 1
              BY <5>1, <5>2, <6>1
            <6>2. CASE i \in 1..Len(pending)
              BY <5>2, <6>2 DEF OccInv
            <6>3. QED
              BY <5>2, <6>1, <6>2
          <5>4. QED
            BY <5>3 DEF Samples
        <4>2. CASE sf_cnt + 1 # NprachSfs
          BY <2>3, <4>2 DEF OccInv, Samples
        <4>3. QED
          BY <4>1, <4>2
      <3>3. sf_cnt' > 0 => /\ Samples(current', sf_cnt')
                          /\ tti' = Wrap(current'[1] + sf_cnt' - Behind', Period)
        <4>1. SUFFICES ASSUME sf_cnt' > 0
                       PROVE  /\ Samples(current', sf_cnt')
                              /\ tti' = Wrap(current'[1] + sf_cnt' - Behind', Period)
          OBVIOUS
        <4>2. sf_cnt' = sf_cnt + 1 /\ current' = samples /\ Behind' = 1
          BY <2>1, <2>3, <4>1
        <4>3. samples[1] \in Int
          BY <1>p, <3>1 DEF Samples, Tti
        <4>4. samples[1] + (sf_cnt + 1) - 1 = samples[1] + sf_cnt
          BY <1>p, <4>3
        <4>5. QED
          BY <2>1, <3>1, <4>2, <4>4
      <3>4. QED
        BY <3>2, <3>3 DEF OccInv, Samples
    <2>4. QED
      BY <1>2, <2>2, <2>3 DEF NewTti
  <1>3. CASE TxRxStart \/ TxRxEnd
    BY <1>3, <1>a DEF TxRxStart, TxRxEnd
  <1>4. CASE NprachPop
    <2>1. pending # <<>> /\ pending' = Tail(pending) /\ UNCHANGED <<sf_cnt, current, tti, txrx>>
      BY <1>4 DEF NprachPop
    <2>2. /\ Len(pending') = Len(pending) - 1 /\ Len(pending) \in Nat
          /\ \A i \in 1..Len(pending) - 1 : pending'[i] = pending[i + 1]
      BY <1>q, <2>1, TailFacts
    <2>3. ASSUME NEW i \in 1..Len(pending')
          PROVE  pending'[i] # <<>> => Samples(pending'[i], NprachSfs)
      BY <2>2 DEF OccInv
    <2>4. QED
      BY <2>1, <2>3 DEF OccInv, Samples
  <1>5. CASE NprachStop
    <2>1. pending' = Append(pending, <<>>) /\ UNCHANGED <<sf_cnt, current, tti, txrx>>
      BY <1>5 DEF NprachStop
    <2>2. /\ Len(pending') = Len(pending) + 1 /\ Len(pending) \in Nat
          /\ \A i \in 1..Len(pending) : pending'[i] = pending[i]
          /\ pending'[Len(pending) + 1] = <<>>
      <3>1. <<>> \in Seq(Tti)
        OBVIOUS
      <3>2. QED
        BY <1>q, <2>1, <3>1, AppendProperties
    <2>3. ASSUME NEW i \in 1..Len(pending'), pending'[i] # <<>>
          PROVE  Samples(pending'[i], NprachSfs)
      BY <2>2, <2>3 DEF OccInv
    <2>4. QED
      BY <2>1, <2>3 DEF OccInv, Samples
  <1>6. CASE Worker \/ NprachStart \/ RunTti \/ TtiClockImpl \/ StopImpl \/ UNCHANGED vars
    BY <1>6, <1>a DEF Worker, WorkerStart, WorkerSched, WorkerEnd, WorkerStops, NprachStart, RunTti,
                      TtiClockImpl, StopImpl, vars
  <1>7. CASE PhyInit
    <2>1. UNCHANGED <<sf_cnt, current, pending, tti>> /\ txrx' = "loop"
      BY <1>7 DEF PhyInit
    <2>2. QED
      BY <1>7, <1>a, <2>1 DEF PhyInit, Life
  <1>8. CASE Start \/ Signal
    BY <1>7, <1>8, <1>a DEF Start, ParseArgs, RadioInit, MacInit, RrcInit, StackStart, Signal
  <1>9. CASE Stop
    BY <1>5, <1>9, <1>a DEF Stop, JoinTxRx, PoolStop, JoinWorker, JoinNprach, StackStop, Destroy
  <1>10. QED
    BY <1>1, <1>2, <1>3, <1>4, <1>5, <1>6, <1>8, <1>9 DEF Next, TxRx, Nprach

-----------------------------------------------------------------------------
(* The theorems *)

EnbInv == Types /\ Flags /\ Life /\ ClockInv /\ MibInv /\ PoolInv /\ OccInv

\* EnbInv holds throughout every behaviour, fair or not.
THEOREM EnbInvariance == Spec => []EnbInv
  <1>1. Init => EnbInv
    <2>1. Init => Flags
      BY DEF Init, Flags
    <2>2. QED
      BY <2>1, InitTypes, InitClock, InitPool DEF EnbInv
  <1>2. EnbInv /\ [Next]_vars => EnbInv'
    BY NextTypes, FlagsInv, NextLife, NextClock, NextMib, NextPool, NextOcc DEF EnbInv
  <1>3. QED
    BY <1>1, <1>2, PTL DEF Spec

(***************************************************************************)
(* The queue of buffers never holds more than the pool and the null        *)
(* pointer, the queue of ticks never more than its capacity, and the       *)
(* counters of the TX/RX thread never leave their ranges.                  *)
(***************************************************************************)
THEOREM EnbTypes == Spec => []TypeOK
  <1>1. EnbInv => TypeOK
    <2> SUFFICES ASSUME EnbInv PROVE TypeOK
      OBVIOUS
    <2>1. PoolSize \in Nat /\ Filling \in 0..1 /\ Detecting \in 0..1 /\ InUse \in Nat
      BY EnbAssumption DEF Filling, Detecting, InUse
    <2>2. Len(pending) \in Nat /\ (pending # <<>> => Len(pending) # 0)
          /\ (pending = <<>> => Len(pending) = 0)
      BY EmptySeq DEF EnbInv, PoolInv
    <2>3. buffer_pool \in 0..PoolSize /\ Len(pending) <= PoolSize + 1
      <3>1. CASE Told
        <4>1. /\ buffer_pool \in Nat
              /\ buffer_pool + (IF pending = <<>> THEN 0 ELSE Len(pending) - 1) + InUse <= PoolSize
          BY <3>1 DEF EnbInv, PoolInv
        <4>2. CASE pending = <<>>
          BY <2>1, <2>2, <4>1, <4>2
        <4>3. CASE pending # <<>>
          BY <2>1, <2>2, <4>1, <4>3
        <4>4. QED
          BY <4>2, <4>3
      <3>2. CASE ~Told
        BY <2>1, <2>2, <3>2 DEF EnbInv, PoolInv
      <3>3. QED
        BY <3>1, <3>2
    <2>4. semaphore \in 0..1
      BY DEF EnbInv, Types
    <2>5. QED
      BY <2>3, <2>4 DEF EnbInv, Types, Flags, PoolInv, TypeOK
  <1>2. QED
    BY <1>1, EnbInvariance, PTL

(***************************************************************************)
(* The three threads implement the radio clock: every subframe given to    *)
(* the radio is the successor of the one before, in TTI and hyper frame.   *)
(***************************************************************************)
THEOREM EnbImplementsClock == Spec => OnAir
  <1>1. Init => Clock!Init
    BY DEF Init, Clock!Init
  <1>2. EnbInv /\ [Next]_vars => [Clock!Tick]_<<air.hfn, air.tti>>
    <2> SUFFICES ASSUME EnbInv, [Next]_vars
                 PROVE  Clock!Tick \/ UNCHANGED <<air.hfn, air.tti>>
      OBVIOUS
    <2>1. CASE WorkerEnd
      <3>1. air' = After(air)
        BY <2>1 DEF WorkerEnd, EnbInv, ClockInv, Busy, Sends
      <3>2. QED
        BY <3>1, EnbAssumption DEF EnbInv, Types, After, Clock!Tick, Tti, Hfn
    <2>2. CASE ~WorkerEnd
      <3>1. UNCHANGED air
        BY <2>2 DEF Next, TxRx, TxRxTick, TxRxStart, NewTti, TxRxEnd, Worker, WorkerStart,
             WorkerSched, WorkerStops, Nprach, NprachStart, NprachPop, RunTti, TtiClockImpl,
             StopImpl, Start, ParseArgs, RadioInit, PhyInit, MacInit, RrcInit, StackStart, Signal,
             Stop, JoinTxRx, PoolStop, JoinWorker, NprachStop, JoinNprach, StackStop, Destroy,
             workVars, vars
      <3>2. QED
        BY <3>1
    <2>3. QED
      BY <2>1, <2>2
  <1>3. QED
    BY <1>1, <1>2, EnbInvariance, PTL DEF Spec, OnAir, Clock!Spec

(***************************************************************************)
(* The MIB in every subframe names the frames and the hyper frame on air.  *)
(***************************************************************************)
THEOREM MibIsOnAir == Spec => []MibOnAir
  BY EnbInvariance, PTL DEF EnbInv, MibInv

(***************************************************************************)
(* No buffer of the NPRACH pool is lost or given out twice.                *)
(***************************************************************************)
THEOREM NoBufferIsLost == Spec => []NoBufferLost
  <1>1. EnbInv => NoBufferLost
    <2> SUFFICES ASSUME EnbInv, main \notin {"join_nprach", "stack", "join_stack", "end"}
                 PROVE  PoolSize = buffer_pool + Len(pending) + (IF sf_cnt > 0 THEN 1 ELSE 0)
                                     + (IF nprach = "detect" THEN 1 ELSE 0)
      BY DEF NoBufferLost
    <2>1. PoolSize = buffer_pool + Len(pending) + (Filling + Detecting)
          /\ buffer_pool \in Nat /\ Len(pending) \in Nat
      BY DEF EnbInv, PoolInv, Told, InUse
    <2>2. QED
      BY <2>1 DEF Filling, Detecting
  <1>2. QED
    BY <1>1, EnbInvariance, PTL

(***************************************************************************)
(* Every buffer that waits for the detector has a whole occasion, and      *)
(* nothing else, whichever occasions were skipped.                         *)
(***************************************************************************)
THEOREM OccasionsAreWhole == Spec => []WholeOccasions
  <1>1. EnbInv => WholeOccasions
    <2> SUFFICES ASSUME EnbInv, NEW i \in 1..Len(pending), pending[i] # <<>>
                 PROVE  /\ Len(pending[i]) = NprachSfs
                        /\ IsOccasion(pending[i][1])
                        /\ \A k \in 1..NprachSfs : pending[i][k] = (pending[i][1] + k - 1) % Period
      BY DEF WholeOccasions
    <2>1. Samples(pending[i], NprachSfs) /\ pending[i] \in Seq(Tti)
      BY DEF EnbInv, OccInv, PoolInv
    <2>2. pending[i][1] \in Tti
      BY <2>1, EnbAssumption DEF Samples
    <2>3. ASSUME NEW k \in 1..NprachSfs
          PROVE  (pending[i][1] + k - 1) % Period = Wrap(pending[i][1] + k - 1, Period)
      <3> DEFINE a == pending[i][1] + k - 1
      <3>1. a \in Nat /\ a < 2 * Period /\ Period \in Nat \ {0}
        BY <2>2, EnbAssumption DEF Tti
      <3> HIDE DEF a
      <3>2. a % Period = Wrap(a, Period)
        BY <3>1, ModWrap
      <3>3. QED
        BY <3>2 DEF a
    <2>4. QED
      BY <2>1, <2>3 DEF Samples
  <1>2. QED
    BY <1>1, EnbInvariance, PTL

(***************************************************************************)
(* After a good start the stack is taken down only when no thread of the   *)
(* PHY is left.                                                            *)
(***************************************************************************)
THEOREM StackIsLast == Spec => []StackOutlivesPhy
  BY EnbInvariance, PTL DEF EnbInv, Life

=============================================================================
