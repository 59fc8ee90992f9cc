# A verification project for sonica, an NB-IoT eNodeB

`sonica_enb` is an open-source base station for NB-IoT.  This directory holds TLA+ models of the parts of
it that are hard to test, the TLC runs that check them on small instances, and TLAPS proofs of the most
important invariants for every value of the constants.  The repository also has receiver applications
(`src/src/apps/framework`) that follow an NB-IoT cell; they are modelled too.

Paths below are relative to `src/sonica_enb/` unless they start with `src/`.

## 1. The system

### Threads

| thread | what it runs |
|---|---|
| TX/RX (`phy/txrx.cc`) | counts TTIs (0..10239) and hyper frames, hands each subframe to a worker |
| PHY worker (`phy/sf_worker.cc`) | per TTI: `mac::get_dl_sched`, `mac::get_ul_sched`, `mac::crc_info`; generates and decodes the signal |
| NPRACH worker (`phy/nprach_worker.cc`) | detects preambles, calls `mac::rach_detected` |
| stack (`stack/enb_stack_nb.cc`) | takes tasks from its queues in turn: MAC tasks, S1AP packets, `tti_clock` |
| socket (`rx_multisocket_handler`) | reads S1AP packets and queues them for the stack thread |

### Components

| component | state | operations | who it talks to | what is hard |
|---|---|---|---|---|
| MME connection (`stack/upper/s1ap.cc`) | socket, `mme_connected`, the procedure `s1setup_proc`, two timers | `init`, timer expiries, `handle_mme_rx_msg` | MME; socket thread through a queue | packets of a closed socket still queued; timeout against answer; giving up |
| S1AP users (`s1ap.cc`) | `user_list`, `next_enb_ue_s1ap_id` | `initial_ue`, `write_pdu`, handlers of all UE-associated messages | RRC by calls, MME by messages | two identities per UE, learned at different times; MME restarts; late messages |
| RRC (`stack/rrc/rrc.cc`) | `users` with their states, `rx_pdu_queue` | connection request, setup complete, UL information, release, removal | all layers, by calls | a removal takes several steps while the worker runs |
| RLC, PDCP (`stack/upper/rlc.cc`, `pdcp.cc`) | `users` with their buffers | write SDU, write PDU, read PDU, add and remove users | MAC (buffer reports), RRC | two threads report the buffer state |
| MAC (`stack/mac/mac.cc`, `ue.cc`) | `ue_db`, `last_rnti`, PDU buffers | RACH, received PDUs, scheduling results, PDUs to send, removal | scheduler, RLC, stack queue | lookups and use in different locked sections |
| scheduler (`stack/mac/scheduler*.cc`) | `dl_sched_table`, `ul_sched_table`, a ring of 40 `sf_sched`, pending RARs, buffers and timers per user | downlink pass, uplink pass, reports | MAC, PHY worker | books ahead, in rings that wrap; system information, RARs and users compete |
| PHY worker (`phy/sf_worker.cc`) | SIB1 and NPDSCH being sent, queue of pending NPDSCH grants, one NPUSCH grant | `work_imp`, `work_dl`, `work_ul` | scheduler through MAC | grants at times that other code computed |
| TX/RX thread (`phy/txrx.cc`, `phy_common.cc`) | TTI and hyper frame number, semaphore | the receive loop | worker, NPRACH worker, radio | numbers four subframes ahead of a counter that wraps |
| NPRACH worker (`phy/nprach_worker.cc`) | pool of sample buffers, the one being filled, a queue | `new_tti`, `run_thread` | TX/RX thread, MAC | the pool runs out |
| the program (`main.cc`, `enb_nb.cc`) | which layers run | start, failure to start, stop | all threads | threads run before the stack is ready; joins in the right order |
| receiver (`src/src/apps/framework`) | receiver state, frame number, MIB decoder, grant, uplink recording, burst | one subframe, loss of synchronisation | a cell, the radio | starts again with old state at any time |
| configuration, signal processing, vendored code | | | | see section 7 |

### What makes the components correct

* MME connection: procedure, timeout, socket and `mme_connected` agree; an attempt ends; a lost
  connection is restored.
* S1AP users: an RNTI and each identity name at most one user; a release removes the UE that is meant; MME
  and eNodeB do not forget a UE one-sidedly.
* UE context: between tasks all layers have the same users; nobody uses a context of a lower layer that
  was removed; a release ends.
* Scheduler and PHY worker: a subframe has one use; scheduler and worker agree on SIB1; a
  RAR goes out in time; what was booked is sent; the PHY listens when a UE sends, and knows who it is.
* Buffers: data in the RLC is known to the scheduler and is sent in the end; a grant has room for what is
  promised; a connection setup is whole and does not precede the contention resolution.
* Time: every subframe goes on air once, in order, with the right numbers and the right MIB.
* Start and stop: no thread outlives what it uses; shutdown ends.
* Receiver: the frame number is that of the cell; what is sent is not late by more than the drift; the
  uplink is decoded at the right time; system information is acquired; no grant keeps the receiver busy for good.

`PROJECT.json` lists the hazards line by line, with the properties that cover them.

## 2. The modules

| module | models | proofs | runs |
|---|---|---|---|
| `S1apSetup` | MME connection | `S1apSetupProofs` | `s1_setup`, `s1_setup_restart` |
| `S1apUsers` | S1AP users, with the MME as environment | `S1apUsersProofs` | `s1ap_users` |
| `UeContext` | MAC, scheduler, RLC, RRC and S1AP contexts, three threads; it composes the layers | `UeContextProofs`, `UeLayersProofs` | `ue_context` |
| `SchedGrid` | the carrier scheduler | `SfWorkerProofs` | `sched_msg3` |
| `SfWorker` | the PHY worker composed with `SchedGrid`, and the uplink buffers of the MAC | `SfWorkerProofs` | `sched_phy`, `phy_blocked`, `phy_grants` |
| `DlBuffers` | the downlink of one user: RLC, scheduler and MAC PDU | `DlBuffersProofs` | `dl_buffers`, `dl_forgotten` |
| `RadioClock` | abstract: the sequence of subframes that the UEs are promised | | |
| `Enb` | the program's start and stop, TX/RX thread, worker pool, MIB, NPRACH worker; implements `RadioClock` | `EnbProofs` | `enb` |
| `NbFramework` | the receiver applications, with the cell as environment | `NbFrameworkProofs` | `nb_framework` |

The `MC...` modules give values to constants that a `.cfg` cannot write.  Definitions whose comment starts
with "Mutant:" are faulty variants of the operator after them; no specification uses them.  They document
which mistake each property would notice.

### S1apSetup

`conn` collects the members of class `s1ap`; `rxQueue` is the stack thread's queue of S1AP packets.  One
action per task: `S1apInit`, `ConnectTimerExpires`, `SetupTimeoutExpires`, `HandleMmeRxMsg`, and
`ReadSocket` for the socket thread.  `Launch` and `Trigger` are `proc_t::launch` and `proc_t::trigger` with
the procedure's `init`, `react` and `then`.  `connect_mme` and `setup_s1` fail at will.  A queued packet
does not know the socket it came from (nor does the code), so packets of a closed socket meet the next one.

### S1apUsers

`users` is `user_list::users`.  Everything runs on the stack thread, so each handler is one action.  The MME
keeps one context per UE, frees its identity with `UEContextReleaseComplete`, and forgets everything when
the association breaks.  All UEs share one SCTP stream, so each direction is a FIFO.  A UE may complete RRC
connection setup again on an RNTI that S1AP knows (a "tmp hack" in `initial_ue` allows it); the history
variable `again` has the eNB identities of such UEs.

### UeContext

One variable per layer's user map, the three queues, and a program counter for the stack thread (`stack`)
and for the worker (`worker`).  A step is one section under one lock: `get_dl_sched` is `DlSched` (under
`sched_mutex`), `TakeDlResult` and `GeneratePdu` (under the MAC's read lock, which keeps `RemMac` out);
`rem_user` is `RemSched`, `RemMac`, `RemRlc`, `RemRrc`.  `InUseAgain` says whether `allocate_rnti`, which
does not look at the users, may come round to an RNTI in use: 55903 allocations while a UE stays.  With
it, only `TypeOK` and `PendingIsScheduled` hold.

### SchedGrid and SfWorker

`dl` is `dl_sched_table` with the purpose of each mark; bookings for an uplink DCI are in it too, although
the code marks those in `ul_sched_table` (`Marked` leaves them out, as the code does not see them).
`DlPass` is one downlink call of `generate_tti_result`: clear, system information, RAR and Msg3, user data;
`UlPass` the uplink call that follows.  `npusch` records what the UEs were told to send, and whether the PHY
was told to listen at that TTI.  The MAC begins to schedule in any TTI of `FirstTtis`: `enb_nb::init` starts
the radio first, and `mac::get_dl_sched` returns at once until the MAC is started.

`SfWorker` extends it by what the worker does with the result in the same TTI: `WorkImp` is the uplink pass,
`work_ul` and `work_dl`.  `sib1_cfg` and `npdsch` are the configurations of the NPDSCH encoders,
`dl_pending_grants` the queue, `ugrant` the members `has_ugrant`, `npusch_start`, `npusch_rnti` and
`npusch_data` (the only slot), `enb_ul` the reception.  `pending_buffers` and `pdus` are the buffers of
`mac/ue.cc`; `ProcessPdu` is the stack thread, which reports what the PDU says to the scheduler.
`sib1_cfg` (and `Sib1SfIdx`, its value when a subframe is sent) is `sf_idx`, as the code counts it: over all
repetitions, from wherever it began.  Which symbols the encoder finds there is not modelled (section 4).

### DlBuffers

`rlc` is what the RLC has queued on SRB0 and SRB1bis, `buf_tx` what the scheduler believes.  `rlc.cc` reads
the buffer state and reports it in two calls under a read lock, so both threads have a step between the two.
`sched_mutex` is `Locked`.  A grant is made step by step: `DlSched` chooses subframes, MCS and transport
block by the tables of the code, `AllocateMacCes` and `AllocRlcPdu` fill it; `GeneratePdu`, `AllocateSdu`
and `ReadPdu` build the PDU from the RLC, with the MAC's own reckoning of subheaders.  `UlSched` does the
scheduler's part once more in the uplink pass of the TTI: `generate_tti_result` compares the TTI with
`sf_result->tti_params.tti_rx`, which nobody sets.

### Enb and RadioClock

One program counter per thread: `main`, `txrx`, the `status` of the worker in the pool, `nprach`, `stack`.
`TxRxTick`, `TxRxStart` and `NewTti` are one turn of the loop in `txrx::run_thread`.  `WorkerSched` asks the
MAC and puts the MIB; it crashes when the MAC is started, the subframe is one of a SIB and `rrc::init` has
not run, which the order of `enb_nb::init` makes possible.  `WorkerEnd` sends (`air`), releases the
semaphore and ticks the stack.  `Start` is `main` and `enb_nb::init` with their failures, `Signal` and `Stop`
are `enb_nb::stop`, `phy::stop` and `~enb_nb`, one action per join.  The refinement mapping takes `air` to
the variables of `RadioClock`.

### NbFramework

`Subframe` is one turn of `NBFramework::run` with a synchronised subframe: `DecodeMib`, `DecodeSib` or
`DecodeNpdsch` by `state`, then the frame number, then `HandleTx`.  `Find` and `SyncLost` are turns without
(ue_sync checks the NPSS in subframe 5, and finds it anew).  `ue_mib` and `grant` are the state that
`srslte_ue_mib_nbiot` and `srslte_nbiot_ue_dl` keep, modelled from how the loop uses them.  The model keeps
the subframes 0, 1, 4, 5 and 9 of a frame: NPBCH, a plain one, SIB1, NPSS, NSSS.  `args` covers the command
line (SI-RNTI, skip SIB2) and the applications: `nb_basic`, `nb_ul_decode`, and "forging", any application
that derives from the framework and sets `xmit_enable`.  `missed`, `wrong`, `torn` and the fields `due`
and `late` of `ul` are history.  A MIB decoder that misses the frame in which the MIB changes takes the
content for new one frame group late, which the receiver cannot notice.
`due` counts the subframes up to the end of the uplink block
as they pass on the air, while the handler counts `skip` and `left`; they part when a downlink DCI that
cannot be converted makes the handler return early (`nb_ul_decode.cc:118`), which sets `late`.

## 3. The runs

| run | expected | properties | shows |
|---|---|---|---|
| `s1_setup` | pass | `TypeOK OngoingIsTimed IdleIsClosed ConnectedHasSocket SetupEnds` | stale packets, timers and failures in any order leave procedure, timeout, socket and `mme_connected` consistent |
| `s1_setup_restart` | violation | `LostConnectionIsRestarted` | one unanswered request after a lost connection and the eNodeB never tries again |
| `s1ap_users` | pass | `TypeOK RntiUnique MmeIdUniqueUntilRestart NoForgottenContext EnbIdNeverReused ReleaseIsExact` | identities are unique through repeated setups, late messages and an MME restart (the MME's identity until the restart); the MME keeps no context of a UE that the eNodeB forgot |
| `ue_context` | pass | `TypeOK GeneratesForKnownUser LayersAgree QueuedHasUser PendingIsScheduled ReleaseCompletes` | the layers agree, the worker never works for a UE that the RLC dropped, releases end |
| `sched_phy` | pass | `PhyTypeOK DciAlone DataAlone Sib1InStep RarInTime` | subframes have one use, SIB1 is sent alone in all its subframes and scheduler and worker agree on where it begins, a RAR waits less than 32 TTIs |
| `sched_msg3` | violation | `Msg3Heard` | the PHY listens for Msg3 two TTIs too early |
| `phy_blocked` | violation | `QueuedIsSent` | a grant whose start has passed stays at the head of the queue and blocks it |
| `phy_grants` | violation | `PduFromUser` | a PDU is attributed to a user that did not send it |
| `dl_buffers` | pass | `TypeOK GrantHasRoom Srb0Whole ResolvedFirst TrafficIsServed` | grants and PDUs fit each other, Msg4 is whole and in order, data is sent while SDUs are written |
| `dl_forgotten` | violation | `NothingForgotten` | the scheduler forgets a connection setup |
| `enb` | pass | `TypeOK MibOnAir NoBufferLost WholeOccasions StackOutlivesPhy OnAir StopEnds` | the radio clock is implemented, the MIB is right, NPRACH buffers are not lost, shutdown ends and in order |
| `nb_framework` | pass | `TypeOK SfnRight DelayBounded UlOnTime SiAcquired NotDeaf` | the receiver recovers from losing the cell, but for three cases that the properties name: the MIB decoder missed a change of the MIB (`wrong`), the cell was lost between SIB1 and SIB2 (`torn`), a data grant starts in a subframe of SIB1; samples go out at most one drift late; the uplink is decoded from the right subframes, or late (`late`), never early |

### Bounds, and why they are enough

* `s1_setup`: `MaxQueue = 4` (8192 in the code).  Two sockets' answers and a stale packet behind the one
  that closes its socket fit.
* `s1ap_users`: two RNTIs, two MME identities (so that one is freed and given to the other UE), four eNB
  identities (both UEs leave and come back), two associations, two messages in flight each way.  `MaxEnbId`,
  `MaxAssoc` and `MaxFlight` stop the environment, so the run does not check for deadlock.  `s1_setup` does
  not either: when `setup_s1` fails the code stops for good.
* `ue_context`: two RNTIs, so that one UE is released while the other arrives; two tasks in each queue, one
  PDU per UE.
* `sched_phy`: eight frames are a period (80 instead of 10240 TTIs), with one SIB2 and one SIB1 of four
  parts in each.  The patterns of NPBCH, NPSS, NSSS and SIB1 repeat every two frames, the search spaces
  every 8 and 16 TTIs, so 80 TTIs contain every combination and the wrap.  The MAC is started in TTI 0 or 30;
  from 30 on the count of SIB1 is not aligned with the frames.  User 1 has downlink data, user 2
  comes by random access and has uplink data.  `WaitTime` is 2 (30 in the code): only whether it has run out
  matters.  New data arrives while fewer than `MaxGrants` grants wait, so that the queue stays finite (see
  `phy_blocked`).
* `sched_msg3`, `phy_blocked` and `phy_grants` use the numbers of the code and violate their property after
  a few TTIs.
* `dl_buffers`: the tables of the code.  A connection setup of 16 bytes fits one subframe with the
  contention resolution only in part of the cases, one of 30 never; an SDU of 88 bytes needs two of the
  largest transport blocks and fills the queue, so that another one is discarded.
* `enb`: 16 TTIs and 3 hyper frames, two MIBs and two NPRACH occasions per period; two buffers and two ticks,
  so that pool and queue run out.  It does not check for deadlock, since the program ends.
* `nb_framework`: four frames, two MIBs, one SIB1 and one SIB2 per hyper frame.  Drift of one of two samples
  per subframe.  The loop may end, so no deadlock check.

### Fairness

* `S1apSetup`: weak fairness of timers and packet tasks, all run by the stack thread, which steps its
  timers every TTI.  Nothing is assumed of the network.
* `UeContext`: the stack thread and the worker run when they can.  `task_multiqueue::wait_pop` turns from
  queue to queue, hence strong fairness of each queue's tasks; the write lock of `ue_rem` is granted in the
  end because the worker releases the read lock in every subframe.  UEs and MME may stop.
* `DlBuffers`: both threads run; a user with data gets a subframe in the end.  Writing SDUs is not fair:
  `TrafficIsServed` assumes it in its premise, and that not every report of the stack thread falls between
  the two passes of a TTI.
* `Enb`: every thread runs.  Nothing makes a signal come.
* `NbFramework`: subframes come while there is synchronisation.  Receptions are independent: a MIB or a block
  that is sent again and again is decoded once (strong fairness).  Nothing is assumed of synchronisation;
  the liveness properties have it in their premise.
* `S1apUsers` and `SfWorker` are checked for safety only.

## 4. Disagreements between code and comments

1. `s1ap.cc:506` "Restart MME connection procedure if we lost connection": `s1setup_timeout` closes the
   socket, ends the procedure and starts no timer (`s1ap.cc:250`).  Only a failed `connect` is retried.
2. `scheduler_carrier.cc:291` "Schedule Msg3 grants in UL based on allocated RARs": the PHY listens 13 TTIs
   after the nominal subframe of the RAR, the UE sends 13 TTIs after the real one.  The same line does not
   wrap `tti_rx+9`, so that a Msg3 within 9 TTIs of the wrap is dropped; `Msg3Heard` fails there as well.
3. `scheduler_carrier.cc:349` "if it is the first time tti is run, reset vars": it always is, as the TTI is
   never stored, and the downlink grants of a TTI are generated twice.
4. `sf_worker.cc:402` "transmit DCI immediately and queue the data": a queued grant whose first subframe
   falls into a SIB2 or another NPDSCH is neither sent nor removed.
5. `mac.cc:284` "push the pdu through the queue if received correctly": the slot for an uplink grant is
   overwritten by the next one, and the scheduler lets transmissions overlap, since `scheduler_grid.cc:497`
   ("Check UL DATA TTIs (4 continuous sub frames)") looks at the first subframe four times.

Seen while modelling, without a run of their own:

* After an MME restart two users may have the same MME identity, although `s1ap.cc:1123` speaks of "avoiding
  any rnti, enb_s1ap_id, mme_s1ap_id duplication": users survive the loss of the MME, and `find_s1apmsg_user`
  stores an MME identity without a look at the other users.  Hence `MmeIdUniqueUntilRestart`.
* A receiver that loses the cell between SIB1 and SIB2 keeps `have_sib1`, and after the new MIB waits for a
  grant for SIB1 that it no longer looks at (`torn` in `NbFramework`).
* A downlink grant for a receiver that starts in a subframe of SIB1 never ends (`NotDeaf` excepts it).
* A receiver that misses the frame in which the MIB changes takes a later one for the first of the new MIB
  and has the wrong frame number from then on (`wrong`; `SfnRight` excepts it).
* SIB1 as the UEs receive it.  `scheduler_carrier.cc:46` says "in each period, the SIB is transmitted
  nrep-times over 16 consecutive frames in every second frame".  Eight subframes of symbols are encoded, but
  `srslte_npdsch_encode_seq` takes them at `sf_idx`, which only notices the end of a repetition in `rep_idx`
  and counts on (`npdsch.c:736-741`); the worker starts again after all repetitions (`sf_worker.cc:380`).  The
  count begins when the MAC is started (`enb_nb.cc:89-94`, `mac.cc:375`) and not with a frame number, so a new
  SIB1 need not begin where the UEs look for it.  And SIB2 is sent with `has_bcch` too (`sf_worker.cc:395`),
  for which `npdsch.c:618` encodes it into `sib_symbols`, although `npdsch.h:64` has them as an "extra buffer
  for SIB1 symbols as they may be interleaved with other NPDSCH".  `Sib1InStep` claims none of this: it is
  about the agreement of scheduler and worker.
* `nbframework.cc:676` "Trim the first past_nsamples": `sample_offset` is computed, but line 710 sends from
  the first sample.  On an overlap the first samples go out late and the last ones are dropped; `DelayBounded`
  says by how much at most.
* A downlink DCI whose transport block size is not in the table makes `NBULDecode::subframe_handler` return
  before it counts the recording (`nb_ul_decode.cc:118`): a block that is being received is then decoded from
  later subframes than its own (`late` in `UlOnTime`).

## 5. What is proved

All for every value of the constants that the modules' `ASSUME`s allow (they only state types: natural
numbers, sets and Booleans; for `Enb` and `NbFramework` also that periods divide each other, for `DlBuffers`
the size of a connection setup, for `SchedGrid` that a period is a multiple of eight frames, after which the
search spaces and the valid subframes repeat, of at most the 1024 frames of the code, and that the
wait between two downlink allocations is at least nine TTIs and 20 less than a period; the code has 25 of 10240).

* **S1apSetupProofs** - `TypeOK`, `OngoingIsTimed`, `IdleIsClosed`, `ConnectedHasSocket`.  None is inductive
  alone.  `IInv` adds that a procedure is not under way when connected (else a timeout would close the
  socket of a good connection), and that an open socket belongs to a running component.  The lemmas show
  that `Launch` and `Trigger`, the two operations on the procedure, preserve the part of `IInv` about
  `conn`; the actions follow.
* **S1apUsersProofs** - `TypeOK`, `RntiUnique` and the action property `EnbIdNeverReused`.  `IInv` says that
  every eNB identity that anybody knows (users, contexts of the MME, messages in both directions) is below
  `next_enb_ue_s1ap_id`; a new user gets exactly that number.  Until the MME restarts, also
  `MmeIdUniqueUntilRestart` and the action property `ReleaseIsExact`.  Uniqueness is not inductive: a message
  in flight may give a user an identity that another user still has.  `IdInv` says that the messages repair
  this in order: whoever has an identity (or is given it by an earlier message) that a message gives to
  another user is renamed by a message before that one (`InOrder`), or by a later one if it is not what the
  MME has (`UpToDate`); the MME frees an identity only when its UE is renamed or gone (`ReleasedIsGone`).
  Over any number of restarts, `NoForgottenContext`: a UE announced once has one context, and the identity
  in the command, in the list and at the MME is the same (`OneIdentity`), so that the answer to the command
  frees just that context.
* **UeContextProofs** - `TypeOK` and `PendingIsScheduled` without assumption on RNTIs, and, when an RNTI in
  use is not allocated again (`~InUseAgain`), `GeneratesForKnownUser`.  `WorkerInv` follows a removal through
  its steps: RACH tasks in the queue are distinct and for RNTIs that only the MAC knows; outside a removal
  every user of the MAC, but those, is in the RLC; while the worker generates, the MAC has the user, since
  `RemMac` waits for its lock; and `RemRlc` comes after `RemMac`.
* **UeLayersProofs** - under the same hypothesis, `LayersAgree` and `QueuedHasUser`.  `LayersInv` says through
  the steps of `rem_user` which layer lacks the user already (`Agree`), that the removal is the last thing
  `rx_pdu_queue` has for a user and that a user is released once (`RemovedLast`), and that S1AP gets a user
  by one RrcConnectionSetupComplete and loses it with the release (`SetupOnce`, `UeIsThere`).
* **DlBuffersProofs** - `TypeOK`, `GrantHasRoom`, `Srb0Whole` and the action property `ResolvedFirst`, for
  connection setups of up to 76 bytes (with the two of the subheader and the seven of the contention
  resolution just the largest transport block, 85; the code never checks it), other SDUs of any size, and
  any capacity of the queue.  `IInv` keeps three accounts.  `Granted`: while the scheduler fills a transport
  block, what is allocated and what is left add up to it, and a bearer is allocated to once, because either
  its buffer is empty then or the block is full.  `Filled`: what SRB0 took of the PDU is within its part of the grant,
  since no second setup is written (`WrittenOnce`); the MAC spends one byte less on the subheaders than the
  scheduler reckoned.  `RoomForSrb0`: in the downlink pass there is room for all of SRB0.  `Unresolved` says
  how far the worker can get before the contention resolution is in a PDU.
* **NbFrameworkProofs** - `TypeOK`, `SfnRight`, `DelayBounded` and `UlOnTime`, for hyperframes, MIB and SI
  periods, blocks, subframes and drifts of any length.  `Seen` is behind the frame number: a decoder that
  holds a MIB and missed no change of it holds that of the cell, or the frame on the air is the one that
  brings the change.  `Timed` is behind the uplink: unless the handler
  returned early, the block ends `skip + left` subframes from now, and the recording lasts beyond it, so that
  nothing is left when the next starts; if it did return, the end is nearer.  `Sending` is behind the delay: a
  transmission always ends with its subframe, so that only the last drift can delay the next.
* **SfWorkerProofs** - of `SchedGrid`: `TypeOK`, `DciAlone`, `DataAlone`, `RarInTime`; that `SfWorker`
  implements it (`PhySpec => Spec`), so that these hold under the worker; and of `SfWorker`: `PhyTypeOK` and
  `Sib1InStep`.  That nothing collides is not inductive: the next pass books subframes which the table does not
  show as taken, the RAR without a look at it.  `GridInv` says where bookings can be.  `Came`: each kind is
  ahead of the last pass by no more than its delay, in subframes that are known modulo 80 (`RarFrom`,
  `DataFrom`, `Sib2Sfs`); the sets for what is not looked up are disjoint.  `DataRecent`: data ahead is of the
  last allocation, since the gap is longer than the longest delay.  `RarWaits`: subframes 18, 36,
  52 and 66 of the 80 (`FreeSfs`) are free in every pass, so the wait is bounded by the gaps between them.
  `DataOfDci` bounds what the worker finds for a DCI to three subframes, and `SlotUser` says that its uplink
  slot and its receiver belong to users; both are behind `PhyTypeOK`.  `Sib1Agrees` relates
  the counter of the scheduler to that of the worker, without the TTI: both count the subframes of SIB1, from
  the same one, and start again together.
* **EnbProofs** - `TypeOK`, `MibOnAir`, `NoBufferLost`, `WholeOccasions`, `StackOutlivesPhy`, and that `Enb`
  implements `RadioClock` (`OnAir`).  `ClockInv` says where the next subframe on air is: in the counters of
  the TX/RX thread or with the worker, and that it is the successor of the last; its core is `TickClock`,
  that the two counters, which wrap at different TTIs, advance together like the clock.  `MibInv` adds that
  the cached MIB belongs to the subframe sent last.  `PoolInv` and `OccInv` follow the buffers, the null
  pointer at the end included; `Life` says which threads are alive in which phase of start and stop.

## 6. What is only model-checked

Liveness (`SetupEnds`, `ReleaseCompletes`, `TrafficIsServed`, `StopEnds`, `SiAcquired`, `NotDeaf`), which is
out of the prover's reach.  The five properties of section 4 that the code violates have no theorem.  Every
other invariant and action property of the runs is proved.

## 7. What is not modelled, and why

* PDCP passes everything on in the same call.
* Configuration (`enb_cfg_parser.cc`, `parser.cc`) translates files to structures before there are threads.
* Signal processing is floating-point arithmetic on samples.
* srsLTE, srsEPC and openairinterface are vendored; what the program needs of them is inside the models
  (procedures, timers, queues, the RLC's buffer, MAC PDUs, thread pool, synchroniser, MIB decoder, the MME).
* Handover: `s1ap.cc` has its messages, but the NB-IoT RRC never launches it.
* The contents of messages and samples, the MCS of an uplink grant, SRB configuration, statistics, the
  hyper frame number of the receiver (written, used for nothing but the start of long SI periods), a
  malformed SIB or DCI in the receiver.
* Memory.  A few hazards are about single accesses and outside of what a state of the models tells apart:
  `nprach_worker::stop` frees the detector before it joins the thread that uses it (`nprach_worker.cc:59`);
  for a Msg3 `ue::process_pdu` moves the pointer before it gives the buffer back, and gives it back before it
  reads the control elements (`mac/ue.cc:173`); `rlc::add_user` inserts into a map under a read lock
  (`rlc.cc:58`).
* Queues that need 8192 elements to matter: `crc_info` pushes while it holds the read lock that `ue_rem`
  waits for (`mac.cc:288`), and `stop_impl` joins the socket thread from the thread that empties its queue
  (`enb_stack_nb.cc:158`).

## 8. What could come next

1. An abstract specification of a UE's life (arrives, is connected, is released) that `UeContext`
   implements under a refinement mapping.
2. The removal of a user in `SchedGrid`, between two TTIs.
3. A proof of that refinement, on top of `LayersInv`.
