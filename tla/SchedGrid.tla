----------------------------- MODULE SchedGrid -----------------------------
(***************************************************************************)
(* The carrier scheduler (mac/scheduler_carrier.cc, scheduler_grid.cc): in *)
(* every TTI the PHY worker runs a downlink pass (sched::dl_sched) and an  *)
(* uplink pass (sched::ul_sched) under sched_mutex, which book subframes   *)
(* in dl_sched_table and ul_sched_table.  The downlink pass schedules the  *)
(* system information, then a random access response and its Msg3, then    *)
(* data of one user; the uplink pass a grant for one user.  Between the    *)
(* passes the other threads report data (dl_rlc_buffer_state, ul_bsr) and  *)
(* preambles (dl_rach_info).                                               *)
(*                                                                         *)
(* nprach_worker reports one preamble per NPRACH occasion, so a pending    *)
(* RAR has one grant.  Users are not removed here (see UeContext).         *)
(***************************************************************************)
EXTENDS Integers, Sequences, FiniteSets

CONSTANTS
  Period,        \* TTIs after which the numbering starts again (10240)
  Sib1NumSf,     \* subframes of one transmission of SIB1 (128)
  Sib2Period,    \* SIB2 is sent in the first frames of each period (512)
  Sib2Window,    \* how many (16)
  WaitTime,      \* msg_wait_timer after downlink data (30)
  AllocGap,      \* TTIs between two allocations of downlink data (25)
  Rnti,          \* RNTIs, numbers because ue_db is ordered by them
  Connected,     \* the users at the start
  FirstTtis,     \* where the TTI counter may stand when the MAC is started
  DlData,        \* bound: the downlink data that arrives, <<user, subframes>>
  UlUsers        \* bound: the users that report uplink data

\* Sib1Sfn covers 1024 frames; the calendar repeats every eight of them.  Data
\* is sent within nine subframes of its DCI, so that the next allocation, which
\* waits for longer than AllocGap, cannot meet it (the code has 25 of 10240).
ASSUME SchedGridAssumption ==
  /\ Period \in 1..10240 /\ Period % 80 = 0
  /\ Sib1NumSf \in Nat /\ Sib1NumSf > 1
  /\ Sib2Period \in Nat \ {0} /\ Sib2Window \in Nat
  /\ WaitTime \in Nat /\ AllocGap \in 9..Period - 20
  /\ Rnti \subseteq Nat \ {0} /\ IsFiniteSet(Rnti)
  /\ Connected \subseteq Rnti
  /\ FirstTtis \subseteq 0..Period - 1 /\ FirstTtis # {}
  /\ DlData \subseteq Rnti \X {1, 3} /\ UlUsers \subseteq Rnti

VARIABLES
  tti_rx,          \* the TTI being worked on
  pass,            \* which pass comes next
  users,           \* keys of ue_db
  dl,              \* bookings of downlink subframes, see Booking
  ul_sched_table,  \* the uplink subframes marked as occupied
  npusch,          \* NPUSCH transmissions that UEs were told to make
  sib1_sf_idx,     \* the part of SIB1 that comes next
  pending_rars,    \* RNTIs of ra_sched::pending_rars
  rar_wait,        \* for how many TTIs the first of them has waited
  dl_sfs,          \* subframes that the user's downlink data needs, 0 if none
  ul_pending,      \* users with uplink data (bsr)
  msg_wait_timer,  \* per user
  last_alloc,      \* TTI of the last downlink data; NoAlloc: not alloc_active
  msg3             \* Msg3 allocations in the sf_scheds of later TTIs

vars == <<tti_rx, pass, users, dl, ul_sched_table, npusch, sib1_sf_idx, pending_rars,
          rar_wait, dl_sfs, ul_pending, msg_wait_timer, last_alloc, msg3>>

Tti == 0..Period - 1
NoAlloc == -1
NofSfScheds == 40          \* size of the ring sf_scheds
NofUlSfs == 4              \* subframes of an NPUSCH transmission
Sib2NumSf == 8             \* sib2_num_sf
MaxSpan == 30              \* bound on the search for free subframes

\* Mutant: the TTI counter does not wrap.
PlusUnwrapped(t, k) == t + k

Plus(t, k) == (t + k) % Period
TtiTxDl == Plus(tti_rx, 4)   \* FDD_HARQ_DELAY_UL_MS
TtiTxUl == Plus(tti_rx, 13)  \* FDD_DELAY_UL_NB_MS + FDD_HARQ_DELAY_DL_MS

\* Nobody's booking has RNTI 0.  dl_sched_table has every booking but "ul_dci".
Dci == {"rar_dci", "dl_dci", "ul_dci"}
Broadcast == {"sib1", "sib2"}
Booking == [tti : Tti, what : Dci \cup Broadcast \cup {"rar", "data"}, rnti : Rnti \cup {0}]

Book(t, what, r) == [tti |-> t, what |-> what, rnti |-> r]

\* dl_sched_table, for a set of bookings
Marked(bookings) == {b.tti : b \in {c \in bookings : c.what # "ul_dci"}}

(***************************************************************************)
(* Bookings name a TTI, a purpose and a user; timers and counters stay in  *)
(* their ranges; a RAR is pending for a user of ue_db only.                *)
(***************************************************************************)
TypeOK ==
  /\ tti_rx \in Tti /\ pass \in {"dl", "ul"}
  /\ users \subseteq Rnti /\ ul_pending \subseteq users
  /\ dl \subseteq Booking
  /\ ul_sched_table \subseteq Tti
  /\ npusch \subseteq [tti : Tti, rnti : Rnti, heard : BOOLEAN]
  /\ sib1_sf_idx \in 0..Sib1NumSf - 1
  /\ pending_rars \in Seq(users)
  /\ rar_wait \in Nat
  /\ dl_sfs \in [Rnti -> {0, 1, 3}]
  /\ msg_wait_timer \in [Rnti -> 0..WaitTime]
  /\ last_alloc \in Tti \cup {NoAlloc}
  /\ msg3 \subseteq [tti : 0..Period + 8, rnti : users]

-----------------------------------------------------------------------------
(* Subframes *)

\* srslte_ra_nbiot_is_valid_dl_sf: not NPBCH, NPSS or NSSS
IsValidDlSf(t) == ~(t % 10 = 0 \/ t % 10 = 5 \/ (t % 10 = 9 /\ (t \div 10) % 2 = 0))

\* bc_sched::bc_sched: the frames in which repetitions of SIB1 start
Sib1Sfn == {k * 256 + 1 + i * 16 : k \in 0..3, i \in 0..15}

IsSib1Sf(t) ==
  LET sfn == t \div 10
  IN /\ t % 10 = 4
     /\ \E s \in Sib1Sfn : sfn >= s /\ sfn < s + 16 /\ (sfn + 1) % 2 = 0

IsSib2Start(t) ==
  LET sfn == t \div 10
  IN t % 10 = 1 /\ sfn % Sib2Period < Sib2Window /\ sfn % 4 = 0

\* The first n subframes from t on that are valid and not taken.
FirstGood(t, n, taken) ==
  LET good == {k \in 0..MaxSpan : IsValidDlSf(Plus(t, k)) /\ Plus(t, k) \notin taken}
  IN {Plus(t, k) : k \in {j \in good : Cardinality({i \in good : i < j}) < n}}

\* Where the RAR goes whose DCI is in t, and where the UE answers with Msg3
RarTxTti(t) == CHOOSE x \in FirstGood(Plus(t, 5), 1, {}) : TRUE
Msg3RxTti(t) == Plus(RarTxTti(t), 13)

UlSfs(t) == {Plus(t, k) : k \in 0..NofUlSfs - 1}

-----------------------------------------------------------------------------
(* Users *)

\* Round robin: how many users come before u when user number i is first
Turn(u, i) == (Cardinality({v \in users : v < u}) + Cardinality(users) - i) % Cardinality(users)

FirstOf(candidates, i) ==
  {u \in candidates : \A v \in candidates : Turn(u, i) <= Turn(v, i)}

-----------------------------------------------------------------------------
(* The downlink pass, step by step; each step sees the bookings so far. *)

\* Mutant: system information does not ask whether the subframe is taken.
AllocSibsUnchecked(t, bookings) ==
  IF IsSib1Sf(t) THEN {Book(t, "sib1", 0)}
  ELSE IF IsValidDlSf(t) /\ IsSib2Start(t)
    THEN {Book(x, "sib2", 0) : x \in FirstGood(t, Sib2NumSf, {})}
    ELSE {}

\* bc_sched::alloc_sibs
AllocSibs(t, bookings) ==
  IF t \in Marked(bookings) THEN {}
  ELSE IF IsSib1Sf(t) THEN {Book(t, "sib1", 0)}
  ELSE IF IsValidDlSf(t) /\ IsSib2Start(t)
    THEN {Book(x, "sib2", 0) : x \in FirstGood(t, Sib2NumSf, {})}
    ELSE {}

\* Mutant: only every other common search space is used.
RarFitsSeldom(t, bookings) ==
  /\ pending_rars # <<>>
  /\ IsValidDlSf(t)
  /\ t \notin Marked(bookings)
  /\ t % 32 < 8

\* ra_sched::dl_sched: is the subframe good for the DCI of the first RAR?
RarFits(t, bookings) ==
  /\ pending_rars # <<>>
  /\ IsValidDlSf(t)
  /\ t \notin Marked(bookings)
  /\ t % 16 < 8

\* The subframe of the RAR itself is booked without a look at the table.
RarBookings(t, r) == {Book(t, "rar_dci", r), Book(RarTxTti(t), "rar", r)}

\* ra_sched::ul_sched, alloc_msg3: may the four subframes of Msg3 be marked?
Msg3Fits(t) == UlSfs(Msg3RxTti(t)) \cap ul_sched_table = {}

\* allocate_user: while an allocation is recent nobody gets another; the user
\* that finds it old gives its turn away.
DlCandidates(t) ==
  LET old == (t + Period - last_alloc) % Period > AllocGap
  IN {u \in users : /\ dl_sfs[u] > 0
                    /\ \/ last_alloc = NoAlloc
                       \/ old /\ Turn(u, t % Cardinality(users)) > 0}

\* alloc_dl_user: is the subframe good for the DCI?
DlDciFits(t, bookings) ==
  IsValidDlSf(t) /\ t \notin Marked(bookings) /\ t % 8 < 2 /\ ~IsSib1Sf(t)

\* alloc_dl_user: the DCI and the subframes of the data
DlDataBookings(t, u, bookings) ==
  LET taken == Marked(bookings) \cup {x \in Tti : IsSib1Sf(x)}
  IN {Book(t, "dl_dci", u)}
       \cup {Book(x, "data", u) : x \in FirstGood(Plus(t, 5), dl_sfs[u], taken)}

(***************************************************************************)
(* generate_tti_result for the downlink.  Msg3 goes to the sf_sched of     *)
(* tti_rx + 9, which is not reduced modulo the period; get_sf_sched clears *)
(* an sf_sched that was prepared for another TTI.                          *)
(***************************************************************************)
DlPass ==
  LET t        == TtiTxDl
      cleared  == {b \in dl : b.tti # tti_rx}
      withSibs == cleared \cup AllocSibs(t, cleared)
      sendRar  == RarFits(t, withSibs)
      r        == Head(pending_rars)
      withRar  == IF sendRar THEN withSibs \cup RarBookings(t, r) ELSE withSibs
      takers   == IF users # {} /\ DlDciFits(t, withRar)
                    THEN FirstOf(DlCandidates(t), t % Cardinality(users))
                    ELSE {}
      kept     == {m \in msg3 : m.tti % NofSfScheds = tti_rx % NofSfScheds => m.tti = tti_rx}
      gotMsg3  == sendRar /\ Msg3Fits(t)
      expired  == users # {} /\ last_alloc # NoAlloc /\ (t + Period - last_alloc) % Period > AllocGap
  IN /\ pass = "dl"
     /\ pass' = "ul"
     /\ dl' = withRar \cup UNION {DlDataBookings(t, u, withRar) : u \in takers}
     /\ sib1_sf_idx' = IF Book(t, "sib1", 0) \in withSibs THEN (sib1_sf_idx + 1) % Sib1NumSf
                                                      ELSE sib1_sf_idx
     /\ pending_rars' = IF sendRar THEN Tail(pending_rars) ELSE pending_rars
     /\ rar_wait' = IF sendRar \/ pending_rars = <<>> THEN 0 ELSE rar_wait + 1
     /\ ul_sched_table' = IF gotMsg3 THEN ul_sched_table \cup UlSfs(Msg3RxTti(t)) ELSE ul_sched_table
     /\ msg3' = IF gotMsg3 THEN kept \cup {[tti |-> tti_rx + 9, rnti |-> r]} ELSE kept
     /\ npusch' = {n \in npusch : tti_rx # Plus(n.tti, NofUlSfs)}
                    \cup (IF sendRar THEN {[tti |-> Msg3RxTti(t), rnti |-> r, heard |-> FALSE]} ELSE {})
     /\ last_alloc' = IF takers # {} THEN t ELSE IF expired THEN NoAlloc ELSE last_alloc
     /\ dl_sfs' = [u \in Rnti |-> IF u \in takers THEN 0 ELSE dl_sfs[u]]
     /\ ul_pending' = ul_pending \cup takers
     /\ msg_wait_timer' = [u \in Rnti |-> IF u \in takers THEN WaitTime ELSE msg_wait_timer[u]]
     /\ UNCHANGED <<tti_rx, users>>

-----------------------------------------------------------------------------
(* The uplink pass *)

\* alloc_ul: users whose data may be granted now
UlCandidates ==
  {u \in ul_pending : /\ msg_wait_timer[u] = 0
                      /\ ~\E m \in msg3 : m.tti = tti_rx /\ m.rnti = u}

\* Mutant: the subframe of the DCI is not looked up in dl_sched_table.
UlFitsUnchecked(t, table) ==
  /\ IsValidDlSf(t)
  /\ t % 8 < 2
  /\ TtiTxUl \notin table

\* alloc_ul: are the subframes of the DCI and of the NPUSCH good?  Of the four
\* subframes of the NPUSCH only the first is looked up.
UlFits(t, table) ==
  /\ IsValidDlSf(t)
  /\ t \notin Marked(dl)
  /\ t % 8 < 2
  /\ TtiTxUl \notin table

(***************************************************************************)
(* generate_tti_result for the uplink.  A grant marks the first subframe   *)
(* of the NPUSCH and, in the same table, the one of its DCI.  The PHY will *)
(* listen for the grants of this TTI, Msg3 included, at TtiTxUl.           *)
(***************************************************************************)
UlPass ==
  LET t      == TtiTxDl
      table  == ul_sched_table \ {tti_rx}
      takers == IF users # {} /\ UlFits(t, table)
                  THEN FirstOf(UlCandidates, TtiTxUl % Cardinality(users))
                  ELSE {}
      waits  == {u \in ul_pending : /\ msg_wait_timer[u] > 0
                                    /\ ~\E m \in msg3 : m.tti = tti_rx /\ m.rnti = u}
      handed == {m \in msg3 : m.tti = tti_rx}
  IN /\ pass = "ul"
     /\ pass' = "dl"
     /\ tti_rx' = Plus(tti_rx, 1)
     /\ ul_sched_table' = IF takers = {} THEN table ELSE table \cup {TtiTxUl, t}
     /\ dl' = dl \cup {Book(t, "ul_dci", u) : u \in takers}
     /\ npusch' = {IF n.tti = TtiTxUl /\ \E m \in handed : m.rnti = n.rnti
                     THEN [n EXCEPT !.heard = TRUE]
                     ELSE n : n \in npusch}
                    \cup {[tti |-> TtiTxUl, rnti |-> u, heard |-> TRUE] : u \in takers}
     /\ msg3' = msg3 \ handed
     /\ ul_pending' = ul_pending \ takers
     /\ msg_wait_timer' = [u \in Rnti |-> IF u \in waits THEN msg_wait_timer[u] - 1
                                                       ELSE msg_wait_timer[u]]
     /\ UNCHANGED <<users, sib1_sf_idx, pending_rars, rar_wait, dl_sfs, last_alloc>>

-----------------------------------------------------------------------------
(* What the other threads report *)

\* ue_cfg and dl_rach_info, in the task of mac::rach_detected
DlRachInfo(r) ==
  /\ r \notin users
  /\ users' = users \cup {r}
  /\ pending_rars' = Append(pending_rars, r)
  /\ UNCHANGED <<tti_rx, pass, dl, ul_sched_table, npusch, sib1_sf_idx, rar_wait, dl_sfs,
                 ul_pending, msg_wait_timer, last_alloc, msg3>>

\* dl_rlc_buffer_state: one subframe for up to 20 bytes, three for more
DlRlcBufferState(u, n) ==
  /\ u \in users
  /\ dl_sfs[u] # n
  /\ dl_sfs' = [dl_sfs EXCEPT ![u] = n]
  /\ UNCHANGED <<tti_rx, pass, users, dl, ul_sched_table, npusch, sib1_sf_idx, pending_rars,
                 rar_wait, ul_pending, msg_wait_timer, last_alloc, msg3>>

\* ul_bsr with a report of data or of none, and ul_wait_timer after the data
\* volume report of a Msg3 (ue::process_pdu)
UlBsr(u, data, wait) ==
  /\ u \in users
  /\ wait => data
  /\ ul_pending' = IF data THEN ul_pending \cup {u} ELSE ul_pending \ {u}
  /\ msg_wait_timer' = [msg_wait_timer EXCEPT ![u] = IF wait THEN WaitTime ELSE @]
  /\ UNCHANGED <<tti_rx, pass, users, dl, ul_sched_table, npusch, sib1_sf_idx, pending_rars,
                 rar_wait, dl_sfs, last_alloc, msg3>>

-----------------------------------------------------------------------------

\* The radio runs before the stack: mac::get_dl_sched does nothing until the MAC
\* is started, so that the scheduler begins to count in any TTI.
Init ==
  /\ tti_rx \in FirstTtis /\ pass = "dl"
  /\ users = Connected
  /\ dl = {} /\ ul_sched_table = {} /\ npusch = {} /\ msg3 = {}
  /\ sib1_sf_idx = 0
  /\ pending_rars = <<>> /\ rar_wait = 0
  /\ dl_sfs = [u \in Rnti |-> 0]
  /\ ul_pending = {}
  /\ msg_wait_timer = [u \in Rnti |-> 0]
  /\ last_alloc = NoAlloc

Reports ==
  \/ \E r \in Rnti : DlRachInfo(r)
  \/ \E d \in DlData : DlRlcBufferState(d[1], d[2])
  \/ \E u \in UlUsers, data, wait \in BOOLEAN : UlBsr(u, data, wait)

Next == DlPass \/ UlPass \/ Reports

Spec == Init /\ [][Next]_vars

-----------------------------------------------------------------------------

(***************************************************************************)
(* A subframe with a DCI carries nothing else: mac::get_dl_sched calls     *)
(* more than one item in a TTI a "scheduling conflict".                    *)
(***************************************************************************)
DciAlone ==
  \A b, c \in dl : b.what \in Dci /\ b.tti = c.tti => b = c

(***************************************************************************)
(* A subframe with data of a user carries no system information and no     *)
(* data of another user (alloc_dl_user, alloc_sibs).                       *)
(***************************************************************************)
DataAlone ==
  \A b, c \in dl : b.what = "data" /\ c.what # "rar" /\ b.tti = c.tti => b = c

(***************************************************************************)
(* "We schedule the oldest RAR which is still within the window" (ra_sched *)
(* ::dl_sched): the code has no window, but whatever SIBs and users take,  *)
(* the first pending RAR waits less than two periods of the search space.  *)
(***************************************************************************)
RarInTime == rar_wait < 32

(***************************************************************************)
(* "Schedule Msg3 grants in UL based on allocated RARs": when the UE sends *)
(* Msg3, the PHY was told to listen (ra_sched::ul_sched).                  *)
(***************************************************************************)
Msg3Heard ==
  \A n \in npusch : n.tti = tti_rx => n.heard

=============================================================================
