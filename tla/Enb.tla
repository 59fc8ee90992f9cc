-------------------------------- MODULE Enb --------------------------------
(***************************************************************************)
(* The program from start to end (main.cc, enb_nb.cc) and the threads of   *)
(* the PHY: the TX/RX thread, which keeps the time (phy/txrx.cc), the one  *)
(* worker of the pool (phy/phy.cc starts one), and the NPRACH thread       *)
(* (phy/nprach_worker.cc), which gets the samples of an occasion in        *)
(* buffers of a pool.  The PHY runs from phy::init on, before the stack    *)
(* below which it works is initialised, and until phy::stop, after which   *)
(* the stack is stopped.                                                   *)
(*                                                                         *)
(* What the worker does in a subframe is the subject of SfWorker; here it  *)
(* asks the MAC for a schedule, transmits, and ticks the stack.            *)
(***************************************************************************)
EXTENDS Integers, Sequences

CONSTANTS
  Period,          \* TTIs until the numbering starts again (10240)
  Hyper,           \* hyper frames (1024)
  NpbchPeriod,     \* TTIs for which a MIB is valid (640)
  NprachPeriod,    \* TTIs from one NPRACH occasion to the next (160)
  NprachOffset,    \* the first TTI of an occasion (64)
  NprachSfs,       \* subframes of an occasion (7)
  PoolSize,        \* sample buffers of the NPRACH worker (8)
  QueueSize        \* capacity of the stack's queue of TTIs (8192)

ASSUME EnbAssumption ==
  /\ Period \in Nat /\ Period > 5
  /\ Hyper \in Nat \ {0}
  /\ NpbchPeriod \in Nat \ {0} /\ Period % NpbchPeriod = 0
  /\ NprachPeriod \in Nat \ {0} /\ NprachOffset \in 0..NprachPeriod - 1
  /\ NprachSfs \in Nat \ {0} /\ NprachSfs <= Period
  /\ PoolSize \in Nat /\ QueueSize \in Nat \ {0}

VARIABLES
  main,          \* where the main thread is
  radio_ok,      \* did radio::init succeed?
  running,       \* txrx::running
  txrx,          \* where the TX/RX thread is
  tti, hfn,      \* its counters
  tx_hfn,        \* its local variable
  worker,        \* status of the worker in the pool, with the time it was set
  bch_payload,   \* the MIB in enb_dl
  semaphore,     \* elements in phy_common::semaphore
  air,           \* the last subframe given to the radio
  nprach,        \* where the NPRACH thread is
  nprach_on,     \* nprach_worker::running
  sf_cnt,        \* subframes in current_buffer
  current,       \* the TTIs whose samples it has
  buffer_pool,   \* free buffers
  pending,       \* pending_buffers; << >> is the null pointer
  mac_started,   \* mac::started
  sibs,          \* has rrc::generate_sibs filled the buffers?
  stack,         \* where the stack thread is
  sync,          \* tasks in sync_queue
  stop_task      \* is stop_impl in enb_queue?

mainVars == <<main, radio_ok>>
txrxVars == <<running, txrx, tti, hfn, tx_hfn>>
workVars == <<worker, bch_payload, semaphore, air>>
nprachVars == <<nprach, nprach_on, sf_cnt, current, buffer_pool, pending>>
stackVars == <<mac_started, sibs, stack, sync, stop_task>>
vars == <<mainVars, txrxVars, workVars, nprachVars, stackVars>>

Tti == 0..Period - 1
Hfn == 0..Hyper - 1

MainPc == {"args", "radio", "phy", "mac", "rrc", "s1ap", "run", "join_txrx", "wait_all",
           "join_worker", "nprach", "join_nprach", "stack", "join_stack", "end", "crashed"}
ThreadPc == {"none", "loop", "wait", "nprach", "start", "detect", "ended"}
Status == {"none", "IDLE", "START_WORK", "SCHED", "TX", "STOP", "ended"}

\* "TTI+4": FDD_HARQ_DELAY_UL_MS
TxTti(t) == (t + 4) % Period

\* srslte_npbch_mib_pack: the MSBs of the frame number, the two LSBs of the HFN
MibPack(h, t) == [sfn |-> t \div NpbchPeriod, hfn |-> h % 4]

(***************************************************************************)
(* Threads, counters and queues stay in their ranges: at most PoolSize     *)
(* buffers and the null pointer wait for the NPRACH thread, at most        *)
(* QueueSize ticks for the stack, at most one worker for the radio.        *)
(***************************************************************************)
TypeOK ==
  /\ main \in MainPc /\ radio_ok \in BOOLEAN
  /\ running \in BOOLEAN /\ txrx \in ThreadPc
  /\ tti \in Tti /\ hfn \in Hfn /\ tx_hfn \in Hfn
  /\ worker \in [status : Status, tti : Tti, hfn : Hfn]
  /\ bch_payload \in [sfn : Nat, hfn : 0..3]
  /\ semaphore \in 0..1
  /\ air \in [tti : Tti, hfn : Hfn]
  /\ nprach \in ThreadPc /\ nprach_on \in BOOLEAN
  /\ sf_cnt \in 0..NprachSfs - 1
  /\ current \in Seq(Tti)
  /\ buffer_pool \in 0..PoolSize
  /\ pending \in Seq(Seq(Tti)) /\ Len(pending) <= PoolSize + 1
  /\ mac_started \in BOOLEAN /\ sibs \in BOOLEAN
  /\ stack \in {"none", "runs", "ended"}
  /\ sync \in 0..QueueSize /\ stop_task \in BOOLEAN

-----------------------------------------------------------------------------
(* The TX/RX thread *)

\* Mutant: the new hyper frame begins when the counter itself wraps.
TickLate ==
  /\ txrx = "loop" /\ running
  /\ tx_hfn' = IF tti >= Period - 1 THEN (hfn + 1) % Hyper ELSE hfn
  /\ hfn' = tx_hfn'
  /\ tti' = (tti + 1) % Period
  /\ txrx' = "wait"
  /\ UNCHANGED <<running, mainVars, workVars, nprachVars, stackVars>>

\* The start of the loop: "The HFN passed to SF worker is the Tx HFN".
TxRxTick ==
  /\ txrx = "loop" /\ running
  /\ tx_hfn' = IF tti >= Period - 5 THEN (hfn + 1) % Hyper ELSE hfn
  /\ hfn' = IF tti >= Period - 1 THEN tx_hfn' ELSE hfn
  /\ tti' = (tti + 1) % Period
  /\ txrx' = "wait"
  /\ UNCHANGED <<running, mainVars, workVars, nprachVars, stackVars>>

\* wait_worker, rx_now, set_time and start_worker.  The pool closes only after
\* this thread has ended, so wait_worker returns a worker.
TxRxStart ==
  /\ txrx = "wait" /\ worker.status = "IDLE"
  /\ worker' = [status |-> "START_WORK", tti |-> tti, hfn |-> tx_hfn]
  /\ semaphore' = semaphore + 1
  /\ txrx' = "nprach"
  /\ UNCHANGED <<running, tti, hfn, tx_hfn, bch_payload, air, mainVars, nprachVars, stackVars>>

TxRxEnd ==
  /\ txrx = "loop" /\ ~running
  /\ txrx' = "ended"
  /\ UNCHANGED <<running, tti, hfn, tx_hfn, mainVars, workVars, nprachVars, stackVars>>

IsOccasion(t) == t % NprachPeriod = NprachOffset

\* Mutant: the occasion begins in any of its subframes in which a buffer is free.
NewTtiLate ==
  LET t == tti
      begin == sf_cnt = 0 /\ \E k \in 0..NprachSfs - 1 : t >= k /\ IsOccasion(t - k)
      samples == IF begin THEN <<t>> ELSE Append(current, t)
      skip == sf_cnt = 0 /\ (~begin \/ buffer_pool = 0)
  IN /\ txrx = "nprach"
     /\ txrx' = "loop"
     /\ IF skip
          THEN UNCHANGED <<sf_cnt, current, buffer_pool, pending>>
          ELSE /\ buffer_pool' = IF begin THEN buffer_pool - 1 ELSE buffer_pool
               /\ sf_cnt' = (sf_cnt + 1) % NprachSfs
               /\ current' = samples
               /\ pending' = IF sf_cnt' = 0 THEN Append(pending, samples) ELSE pending
     /\ UNCHANGED <<running, tti, hfn, tx_hfn, nprach, nprach_on, mainVars, workVars, stackVars>>

(***************************************************************************)
(* nprach_worker::new_tti.  Without a free buffer the whole occasion is    *)
(* skipped.  The other error returns of the code are never taken:          *)
(* current_buffer was allocated with the first subframe, and a buffer has  *)
(* room for one subframe more than an occasion.                            *)
(***************************************************************************)
NewTti ==
  LET begin == sf_cnt = 0 /\ IsOccasion(tti)
      samples == IF begin THEN <<tti>> ELSE Append(current, tti)
      skip == sf_cnt = 0 /\ (~begin \/ buffer_pool = 0)
  IN /\ txrx = "nprach"
     /\ txrx' = "loop"
     /\ IF skip
          THEN UNCHANGED <<sf_cnt, current, buffer_pool, pending>>
          ELSE /\ buffer_pool' = IF begin THEN buffer_pool - 1 ELSE buffer_pool
               /\ sf_cnt' = IF sf_cnt + 1 = NprachSfs THEN 0 ELSE sf_cnt + 1
               /\ current' = samples
               /\ pending' = IF sf_cnt + 1 = NprachSfs THEN Append(pending, samples) ELSE pending
     /\ UNCHANGED <<running, tti, hfn, tx_hfn, nprach, nprach_on, mainVars, workVars, stackVars>>

TxRx == TxRxTick \/ TxRxStart \/ NewTti \/ TxRxEnd

-----------------------------------------------------------------------------
(* The worker *)

\* thread_pool::worker::run_thread
WorkerStart ==
  /\ worker.status = "START_WORK"
  /\ worker' = [worker EXCEPT !.status = "SCHED"]
  /\ UNCHANGED <<bch_payload, semaphore, air, mainVars, txrxVars, nprachVars, stackVars>>

\* Mutant: the MIB is packed at the start of a hyper frame only.
PutBaseSeldom(h, t) == IF t = 0 THEN MibPack(h, t) ELSE bch_payload

\* sonica_enb_dl_nbiot_put_base packs the MIB every SRSLTE_NPBCH_NUM_FRAMES frames.
PutBase(h, t) == IF t % NpbchPeriod = 0 THEN MibPack(h, t) ELSE bch_payload

(***************************************************************************)
(* mac::get_dl_sched and get_ul_sched do nothing until the MAC is started; *)
(* afterwards the subframe may be one of a SIB, whose buffer               *)
(* (rrc::read_pdu_bcch_dlsch) does not exist before rrc::init: the null    *)
(* pointer ends the program.  sf_worker::work_dl starts with put_base.     *)
(***************************************************************************)
WorkerSched(sib) ==
  /\ worker.status = "SCHED"
  /\ worker' = [worker EXCEPT !.status = "TX"]
  /\ main' = IF mac_started /\ sib /\ ~sibs THEN "crashed" ELSE main
  /\ bch_payload' = PutBase(worker.hfn, TxTti(worker.tti))
  /\ UNCHANGED <<semaphore, air, radio_ok, txrxVars, nprachVars, stackVars>>

\* Mutant: the semaphore is not released.
WorkerEndKeepsSemaphore ==
  /\ worker.status = "TX" /\ sync < QueueSize
  /\ air' = [tti |-> TxTti(worker.tti), hfn |-> worker.hfn]
  /\ sync' = sync + 1
  /\ worker' = [worker EXCEPT !.status = "IDLE"]
  /\ UNCHANGED <<bch_payload, semaphore, mac_started, sibs, stack, stop_task, mainVars, txrxVars,
                 nprachVars>>

\* phy_common::worker_end: transmit, and tick the stack; the push waits while
\* the queue is full.
WorkerEnd ==
  /\ worker.status = "TX" /\ sync < QueueSize
  /\ air' = [tti |-> TxTti(worker.tti), hfn |-> worker.hfn]
  /\ sync' = sync + 1
  /\ semaphore' = semaphore - 1
  /\ worker' = [worker EXCEPT !.status = "IDLE"]
  /\ UNCHANGED <<bch_payload, mac_started, sibs, stack, stop_task, mainVars, txrxVars, nprachVars>>

WorkerStops ==
  /\ worker.status = "STOP"
  /\ worker' = [worker EXCEPT !.status = "ended"]
  /\ UNCHANGED <<bch_payload, semaphore, air, mainVars, txrxVars, nprachVars, stackVars>>

Worker == WorkerStart \/ (\E sib \in BOOLEAN : WorkerSched(sib)) \/ WorkerEnd \/ WorkerStops

-----------------------------------------------------------------------------
(* The NPRACH thread *)

NprachStart ==
  /\ nprach = "start"
  /\ nprach' = "loop"
  /\ nprach_on' = TRUE
  /\ UNCHANGED <<sf_cnt, current, buffer_pool, pending, mainVars, txrxVars, workVars, stackVars>>

\* nprach_worker::run_thread: wait_pop, then run_tti or the end of the thread.
NprachPop ==
  /\ nprach = "loop" /\ pending # <<>>
  /\ pending' = Tail(pending)
  /\ nprach' = IF nprach_on /\ Head(pending) # <<>> THEN "detect" ELSE "ended"
  /\ nprach_on' = (nprach_on /\ Head(pending) # <<>>)
  /\ UNCHANGED <<sf_cnt, current, buffer_pool, mainVars, txrxVars, workVars, stackVars>>

\* Mutant: the buffer is not given back.
RunTtiKeepsBuffer ==
  /\ nprach = "detect"
  /\ nprach' = IF nprach_on THEN "loop" ELSE "ended"
  /\ UNCHANGED <<buffer_pool, nprach_on, sf_cnt, current, pending, mainVars, txrxVars, workVars, stackVars>>

\* run_tti, reset and deallocate; the random access it reports to the MAC is
\* the subject of UeContext.
RunTti ==
  /\ nprach = "detect"
  /\ buffer_pool' = buffer_pool + 1
  /\ nprach' = IF nprach_on THEN "loop" ELSE "ended"
  /\ UNCHANGED <<nprach_on, sf_cnt, current, pending, mainVars, txrxVars, workVars, stackVars>>

Nprach == NprachStart \/ NprachPop \/ RunTti

-----------------------------------------------------------------------------
(* The stack thread, enb_stack_nb::run_thread *)

TtiClockImpl ==
  /\ stack = "runs" /\ sync > 0
  /\ sync' = sync - 1
  /\ UNCHANGED <<mac_started, sibs, stack, stop_task, mainVars, txrxVars, workVars, nprachVars>>

StopImpl ==
  /\ stack = "runs" /\ stop_task
  /\ mac_started' = FALSE
  /\ sync' = 0
  /\ stop_task' = FALSE
  /\ stack' = "ended"
  /\ UNCHANGED <<sibs, mainVars, txrxVars, workVars, nprachVars>>

-----------------------------------------------------------------------------
(* The main thread *)

\* parse_args of main.cc and of enb_nb: any error ends the program.
ParseArgs(ok) ==
  /\ main = "args"
  /\ main' = IF ok THEN "radio" ELSE "end"
  /\ UNCHANGED <<radio_ok, txrxVars, workVars, nprachVars, stackVars>>

\* enb_nb::init goes on after an error of the radio.
RadioInit(ok) ==
  /\ main = "radio"
  /\ main' = "phy"
  /\ radio_ok' = ok
  /\ UNCHANGED <<txrxVars, workVars, nprachVars, stackVars>>

\* phy::init: the worker, the NPRACH thread, and last the TX/RX thread
PhyInit ==
  /\ main = "phy"
  /\ main' = "mac"
  /\ worker' = [worker EXCEPT !.status = "IDLE"]
  /\ nprach' = "start"
  /\ txrx' = "loop"
  /\ running' = TRUE
  /\ UNCHANGED <<radio_ok, tti, hfn, tx_hfn, bch_payload, semaphore, air, nprach_on, sf_cnt,
                 current, buffer_pool, pending, stackVars>>

\* enb_stack_nb::init: mac.init, rrc.init (rlc.init and pdcp.init start
\* nothing), then s1ap.init and the thread
MacInit ==
  /\ main = "mac"
  /\ main' = "rrc"
  /\ mac_started' = TRUE
  /\ UNCHANGED <<radio_ok, sibs, stack, sync, stop_task, txrxVars, workVars, nprachVars>>

RrcInit ==
  /\ main = "rrc"
  /\ main' = "s1ap"
  /\ sibs' = TRUE
  /\ UNCHANGED <<radio_ok, mac_started, stack, sync, stop_task, txrxVars, workVars, nprachVars>>

\* The end of enb_nb::init: started, or back to main with an error
StackStart ==
  /\ main = "s1ap"
  /\ main' = IF radio_ok THEN "run" ELSE "stack"
  /\ stack' = "runs"
  /\ UNCHANGED <<radio_ok, mac_started, sibs, sync, stop_task, txrxVars, workVars, nprachVars>>

\* Mutant: the stack is stopped first.
SignalStopsStack ==
  /\ main = "run"
  /\ main' = "stack"
  /\ running' = FALSE
  /\ UNCHANGED <<radio_ok, txrx, tti, hfn, tx_hfn, workVars, nprachVars, stackVars>>

\* A signal ends the loop of main; enb_nb::stop calls phy::stop, txrx::stop.
Signal ==
  /\ main = "run"
  /\ main' = "join_txrx"
  /\ running' = FALSE
  /\ UNCHANGED <<radio_ok, txrx, tti, hfn, tx_hfn, workVars, nprachVars, stackVars>>

JoinTxRx ==
  /\ main = "join_txrx" /\ txrx = "ended"
  /\ main' = "wait_all"
  /\ UNCHANGED <<radio_ok, txrxVars, workVars, nprachVars, stackVars>>

(***************************************************************************)
(* phy_common::stop waits until the semaphore is empty; thread_pool::stop  *)
(* sets the status of the worker, whatever it is, and waits for its end.   *)
(* The worker is then idle: between worker_end and finished() nothing      *)
(* happens that another thread could see.                                  *)
(***************************************************************************)
PoolStop ==
  /\ main = "wait_all" /\ semaphore = 0
  /\ main' = "join_worker"
  /\ worker' = [worker EXCEPT !.status = "STOP"]
  /\ UNCHANGED <<radio_ok, bch_payload, semaphore, air, txrxVars, nprachVars, stackVars>>

JoinWorker ==
  /\ main = "join_worker" /\ worker.status = "ended"
  /\ main' = "nprach"
  /\ UNCHANGED <<radio_ok, txrxVars, workVars, nprachVars, stackVars>>

\* Mutant: nothing wakes the NPRACH thread.
NprachStopSilent ==
  /\ main = "nprach"
  /\ main' = "join_nprach"
  /\ nprach_on' = FALSE
  /\ UNCHANGED <<radio_ok, nprach, sf_cnt, current, buffer_pool, pending, txrxVars,
                 workVars, stackVars>>

\* nprach_worker::stop
NprachStop ==
  /\ main = "nprach"
  /\ main' = "join_nprach"
  /\ nprach_on' = FALSE
  /\ pending' = Append(pending, <<>>)
  /\ UNCHANGED <<radio_ok, nprach, sf_cnt, current, buffer_pool, txrxVars, workVars,
                 stackVars>>

JoinNprach ==
  /\ main = "join_nprach" /\ nprach = "ended"
  /\ main' = "stack"
  /\ UNCHANGED <<radio_ok, txrxVars, workVars, nprachVars, stackVars>>

\* enb_stack_nb::stop, which after a failed init is called by ~enb_nb
StackStop ==
  /\ main = "stack"
  /\ main' = "join_stack"
  /\ stop_task' = TRUE
  /\ UNCHANGED <<radio_ok, mac_started, sibs, stack, sync, txrxVars, workVars, nprachVars>>

\* ~enb_nb deletes the stack and cleans up the pool of buffers.
Destroy ==
  /\ main = "join_stack" /\ stack = "ended"
  /\ main' = "end"
  /\ UNCHANGED <<radio_ok, txrxVars, workVars, nprachVars, stackVars>>

Start ==
  \/ \E ok \in BOOLEAN : ParseArgs(ok) \/ RadioInit(ok)
  \/ PhyInit \/ MacInit \/ RrcInit \/ StackStart

Stop ==
  \/ JoinTxRx \/ PoolStop \/ JoinWorker \/ NprachStop \/ JoinNprach \/ StackStop \/ Destroy

-----------------------------------------------------------------------------

Init ==
  /\ main = "args" /\ radio_ok = TRUE
  /\ running = FALSE /\ txrx = "none"
  /\ tti = Period - 5 /\ hfn = Hyper - 1 /\ tx_hfn = Hyper - 1
  /\ worker = [status |-> "none", tti |-> 0, hfn |-> 0]
  /\ bch_payload = [sfn |-> 0, hfn |-> 0]
  /\ semaphore = 0
  /\ air = [tti |-> Period - 1, hfn |-> Hyper - 1]
  /\ nprach = "none" /\ nprach_on = FALSE
  /\ sf_cnt = 0 /\ current = <<>> /\ buffer_pool = PoolSize /\ pending = <<>>
  /\ mac_started = FALSE /\ sibs = FALSE
  /\ stack = "none" /\ sync = 0 /\ stop_task = FALSE

\* Nothing moves any more when the program has crashed or ended.
Next ==
  /\ main \notin {"end", "crashed"}
  /\ Start \/ Signal \/ Stop \/ TxRx \/ Worker \/ Nprach \/ TtiClockImpl \/ StopImpl

\* Every thread runs; the stack thread takes its queues in turn.
Fairness ==
  /\ WF_vars(Start) /\ WF_vars(Stop)
  /\ WF_vars(TxRx) /\ WF_vars(Worker) /\ WF_vars(Nprach)
  /\ WF_vars(TtiClockImpl) /\ WF_vars(StopImpl)

Spec == Init /\ [][Next]_vars /\ Fairness

-----------------------------------------------------------------------------

(***************************************************************************)
(* The subframes that the three threads put on air are the ones of the     *)
(* radio clock: "The HFN passed to SF worker is the Tx HFN", although it   *)
(* is computed four subframes ahead, from a counter that wraps later.      *)
(***************************************************************************)
Clock == INSTANCE RadioClock WITH hfn <- air.hfn, tti <- air.tti

OnAir == Clock!Spec

(***************************************************************************)
(* The MIB in a subframe names the hyper frame and the frames on air,      *)
(* though it is packed once for 64 frames and put in all of them, with a   *)
(* hyper frame number from the clock of another thread (put_base).         *)
(***************************************************************************)
MibOnAir ==
  worker.status = "TX" => bch_payload = MibPack(worker.hfn, TxTti(worker.tti))

(***************************************************************************)
(* No buffer of the NPRACH pool is lost or used twice: each one is free,   *)
(* being filled, waiting, or with the detector, until the thread is told   *)
(* to end (nprach_worker.cc).                                              *)
(***************************************************************************)
NoBufferLost ==
  main \notin {"join_nprach", "stack", "join_stack", "end"} =>
    PoolSize = buffer_pool + Len(pending) + (IF sf_cnt > 0 THEN 1 ELSE 0)
                 + (IF nprach = "detect" THEN 1 ELSE 0)

(***************************************************************************)
(* The detector gets whole occasions: a buffer that waits has the samples  *)
(* of NprachSfs subframes in a row, from the first of an occasion, also    *)
(* after occasions that were skipped for lack of buffers (new_tti).        *)
(***************************************************************************)
WholeOccasions ==
  \A i \in 1..Len(pending) :
    pending[i] # <<>> =>
      /\ Len(pending[i]) = NprachSfs
      /\ IsOccasion(pending[i][1])
      /\ \A k \in 1..NprachSfs : pending[i][k] = (pending[i][1] + k - 1) % Period

(***************************************************************************)
(* After a start without errors no thread of the PHY is alive when the     *)
(* stack is asked to stop (enb_nb::stop, phy::stop): none calls a layer    *)
(* that is being taken down.                                               *)
(***************************************************************************)
StackOutlivesPhy ==
  radio_ok /\ main \in {"stack", "join_stack", "end"} /\ txrx # "none" =>
    txrx = "ended" /\ worker.status = "ended" /\ nprach = "ended"

(***************************************************************************)
(* A signal ends the program: no thread waits for another for good, in     *)
(* whatever place each was (main.cc, phy::stop, enb_stack_nb::stop).       *)
(***************************************************************************)
StopEnds == (main = "join_txrx") ~> (main = "end")

=============================================================================
