---------------------------- MODULE NbFramework ----------------------------
(***************************************************************************)
(* The receiver applications (apps/framework): NBFramework::run, a loop    *)
(* that takes one subframe from the synchroniser (ue_sync) at a time,      *)
(* looks for the MIB, then for SIB1 and SIB2, then hands every subframe to *)
(* subframe_handler, and sends what the application wants to transmit.     *)
(* When synchronisation is lost it starts again with the MIB.              *)
(*                                                                         *)
(* The cell is the environment: `air` is the subframe it is sending.  Of   *)
(* the ten subframes of a frame the model keeps the ones in SfIdx, and a   *)
(* hyperframe has SFNS frames.  Receiving a block may fail at any time.    *)
(***************************************************************************)
EXTENDS Integers, Sequences

CONSTANTS
  SFNS,         \* frames of a hyperframe (1024)
  MIB_FRAMES,   \* frames with the same MIB (SRSLTE_NPBCH_NUM_FRAMES, 64)
  SIB1_TTI,     \* frames from one SIB1 to the next (SIB1_NB_TTI, 256)
  SIB1_REP,     \* its repetitions, each of one subframe here
  SI_PERIOD,    \* si_periodicity; SIB2 starts in the second frame of each
  SIB2_SF,      \* subframes of a SIB2
  Delays,       \* subframes from a downlink DCI to its block
  K0s,          \* subframes from an uplink DCI to its block, k0
  UlSfs,        \* subframes of an uplink block
  SAMPLES,      \* sf_n_samples
  MAX_DRIFT     \* samples by which a subframe may be early or late

ASSUME NbFrameworkAssumption ==
  /\ {SFNS, MIB_FRAMES, SIB1_TTI, SI_PERIOD, SIB1_REP, SIB2_SF, SAMPLES} \subseteq Nat \ {0}
  /\ MIB_FRAMES < SFNS /\ SFNS % MIB_FRAMES = 0
  /\ SFNS % SIB1_TTI = 0 /\ SIB1_TTI % 2 = 0
  /\ SFNS % SI_PERIOD = 0 /\ SI_PERIOD > 1
  /\ Delays \subseteq Nat \ {0} /\ K0s \subseteq Nat /\ UlSfs \subseteq Nat \ {0}
  /\ MAX_DRIFT \in 0..(SAMPLES - 1)

VARIABLES
  args,         \* rnti = SIRNTI? skip_sib2? which application
  tracking,     \* ue_sync is in SF_TRACK and the loop is running
  exited,       \* the loop has ended
  air,          \* the subframe on the air
  state, have_sib1, have_sib2, system_frame_number,
  ue_mib,       \* the MIB decoder: its frame_cnt and last_bch_payload
  grant,        \* the downlink grant of ue_dl
  ul,           \* ul_record_* and the grant of enb_ul
  first_xmit,
  burst,        \* end_of_burst_time, from the time of the last subframe
  sent,         \* what the last handle_tx sent
  missed,       \* the decoder holds a MIB and missed the first of the next
  wrong,        \* so it did when it gave the MIB that is used
  torn          \* synchronisation was lost between SIB1 and SIB2

rxVars == <<state, have_sib1, have_sib2, system_frame_number, ue_mib, grant>>
txVars == <<first_xmit, burst, sent>>
vars == <<args, tracking, exited, air, rxVars, ul, txVars, missed, wrong, torn>>

SfIdx == <<0, 1, 4, 5, 9>>
NSF == Len(SfIdx)
Ttis == 0..(NSF * SFNS - 1)
Frame(t) == t \div NSF
Sf(t) == SfIdx[(t % NSF) + 1]
FrameAfter(t) == (NSF * (Frame(t) + 1)) % (NSF * SFNS)

\* The subframe as the receiver numbers it
tti == NSF * system_frame_number + (air % NSF)

\* With the SI-RNTI, the default, the applications do not differ: their handlers
\* are not called.  -U falls through to -r, so that it sets an RNTI as well.
Args == {a \in [si : BOOLEAN, skip_sib2 : BOOLEAN,
                app : {"nb_basic", "nb_ul_decode", "forging"}] : a.si => a.app = "nb_basic"}

NoGrant == [kind |-> "none", start |-> 0, num_sf |-> 0]
NoMib == [frame_cnt |-> 0, last |-> -1]
NoRecord == [start |-> FALSE, cnt |-> 0, skip |-> 0, left |-> 0, due |-> 0, late |-> FALSE]
NoneSent == [zeros |-> 0, at |-> 0, first |-> 0, len |-> 0]

\* Subframes of a block, repetitions included
LastOf(kind) == CASE kind = "sib1" -> SIB1_REP [] kind = "sib2" -> SIB2_SF [] OTHER -> 1

(***************************************************************************)
(* The counters of the receiver stay in their ranges: a grant is released  *)
(* when its last subframe is in, the MIB decoder is reset after as many    *)
(* frames as a MIB is sent in, and the recording of an uplink block ends.  *)
(***************************************************************************)
TypeOK ==
  /\ args \in Args
  /\ {tracking, exited, have_sib1, have_sib2, first_xmit, missed, wrong, torn} \subseteq BOOLEAN
  /\ air \in Ttis
  /\ state \in {"DECODE_MIB", "DECODE_SIB", "DECODE_NPDSCH"}
  /\ system_frame_number \in 0..(SFNS - 1)
  /\ ue_mib.frame_cnt \in 0..(MIB_FRAMES + 1)
  /\ ue_mib.last \in -1..(SFNS \div MIB_FRAMES - 1)
  /\ grant.kind \in {"none", "sib1", "sib2", "data"}
  /\ grant.start \in Ttis
  /\ grant.num_sf < LastOf(grant.kind)
  /\ ul.start = (ul.cnt > 0)
  /\ ul.skip <= ul.cnt

Init ==
  /\ args \in Args
  /\ air \in {t \in Ttis : t % NSF = 0}
  /\ tracking = FALSE /\ exited = FALSE
  /\ state = "DECODE_MIB" /\ have_sib1 = FALSE /\ have_sib2 = FALSE
  /\ system_frame_number = 0
  /\ ue_mib = NoMib /\ grant = NoGrant /\ ul = NoRecord
  /\ first_xmit = TRUE /\ burst = 0 /\ sent = NoneSent
  /\ missed = FALSE /\ wrong = FALSE /\ torn = FALSE

-----------------------------------------------------------------------------
(* The MIB decoder: it reports a MIB when the content changes, which it    *)
(* does in the first frame of the new one.                                 *)

MibOf(t) == Frame(t) \div MIB_FRAMES
FirstOfMib(t) == Sf(t) = 0 /\ Frame(t) % MIB_FRAMES = 0

\* Mutant: the first MIB received is taken.
MibFoundAtOnce(ok) == ok /\ ue_mib.frame_cnt <= MIB_FRAMES /\ MibOf(air) # ue_mib.last

\* srslte_ue_mib_nbiot_decode: a MIB that differs from one received before
MibFound(ok) == ok /\ ue_mib.frame_cnt \in 1..MIB_FRAMES /\ MibOf(air) # ue_mib.last

\* Mutant: the decoder is not reset after too many frames.
MibDecodeEndless(ok) ==
  IF MibFound(ok) THEN NoMib
  ELSE IF ok THEN [frame_cnt |-> ue_mib.frame_cnt + 1, last |-> MibOf(air)] ELSE ue_mib

\* Its state afterwards; it is reset when a MIB is found, or after as many
\* frames as a MIB is sent in.
MibDecode(ok) ==
  IF ue_mib.frame_cnt > MIB_FRAMES \/ MibFound(ok) THEN NoMib
  ELSE IF ok THEN [frame_cnt |-> ue_mib.frame_cnt + 1, last |-> MibOf(air)]
  ELSE ue_mib

-----------------------------------------------------------------------------
(* The downlink of ue_dl: grants for SIB1, SIB2 and data, and what becomes *)
(* of one in a subframe.                                                   *)

\* Not NPBCH, NPSS or NSSS; srslte_nbiot_ue_dl_is_sib1_sf
IsValidDlSf(t) == Sf(t) \notin {0, 5} /\ (Sf(t) = 9 => Frame(t) % 2 = 1)
IsSib1Sf(t) == Sf(t) = 4 /\ Frame(t) % 2 = 0
SfnSf(sfn, sf) == CHOOSE t \in Ttis : Frame(t) = sfn % SFNS /\ Sf(t) = sf

\* srslte_nbiot_ue_dl_decode_sib1: from the next transmission period on
Sib1Grant(sfn) ==
  [kind |-> "sib1", num_sf |-> 0, start |-> SfnSf(SIB1_TTI * (sfn \div SIB1_TTI + 1), 4)]

\* Mutant: the grant starts in a subframe of the NPBCH.
Sib2GrantEarly(sfn) ==
  LET ahead == CHOOSE d \in 1..SI_PERIOD : (sfn + d) % SI_PERIOD = 1
  IN [kind |-> "sib2", num_sf |-> 0, start |-> SfnSf(sfn + ahead, 0)]

\* srslte_nbiot_ue_dl_decode_sib: at the start of the next SI window
Sib2Grant(sfn) ==
  LET ahead == CHOOSE d \in 1..SI_PERIOD : (sfn + d) % SI_PERIOD = 1
  IN [kind |-> "sib2", num_sf |-> 0, start |-> SfnSf(sfn + ahead, 1)]

\* Mutant: the grant may start in any subframe.
DataGrantUnchecked(d) == [kind |-> "data", num_sf |-> 0, start |-> (tti + d) % (NSF * SFNS)]

\* The first subframe for the downlink that is at least d away
DataGrant(d) ==
  LET at(e) == (tti + e) % (NSF * SFNS)
      e0 == CHOOSE e \in d..(d + 3) : IsValidDlSf(at(e)) /\ \A f \in d..(e - 1) : ~IsValidDlSf(at(f))
  IN [kind |-> "data", num_sf |-> 0, start |-> at(e0)]

\* Does the grant use this subframe, and is the block complete after it?
Receives ==
  /\ grant.kind # "none" /\ IsValidDlSf(tti)
  /\ IsSib1Sf(tti) <=> grant.kind = "sib1"
  /\ grant.start = tti \/ grant.num_sf > 0
Tried == Receives /\ (grant.kind = "sib1" \/ grant.num_sf + 1 = LastOf(grant.kind))

Decoded(ok) == Tried /\ ok
\* What srslte_nbiot_ue_dl_decode_npdsch leaves of the grant
GrantAfter(ok) ==
  IF ~Receives THEN grant
  ELSE IF Decoded(ok) \/ grant.num_sf + 1 = LastOf(grant.kind) THEN NoGrant
  ELSE [grant EXCEPT !.num_sf = @ + 1]

-----------------------------------------------------------------------------
(* The three states of the receiver, and their part of a subframe.         *)

NextSfn ==
  system_frame_number' = IF Sf(air) = 9 THEN (system_frame_number + 1) % SFNS
                         ELSE system_frame_number

\* Mutant: the uplink grant outlives the new MIB.
UlInitKeeps == ul

\* sonica_enb_ul_nbiot_init clears the grant of enb_ul.
UlInit == [ul EXCEPT !.left = 0]

\* A MIB re-initialises ue_dl and, for nb_ul_decode, enb_ul.
DecodeMib(ok) ==
  /\ state = "DECODE_MIB"
  /\ IF Sf(air) = 0 /\ MibFound(ok)
     THEN /\ state' = "DECODE_SIB"
          /\ system_frame_number' = MibOf(air) * MIB_FRAMES
          /\ grant' = Sib1Grant(MibOf(air) * MIB_FRAMES)
          /\ ul' = UlInit
          /\ wrong' = missed
     ELSE /\ NextSfn
          /\ UNCHANGED <<state, grant, ul, wrong>>
  /\ ue_mib' = IF Sf(air) = 0 THEN MibDecode(ok) ELSE ue_mib
  /\ missed' = (ue_mib.frame_cnt # 0 /\ ue_mib'.frame_cnt # 0
                /\ (missed \/ (FirstOfMib(air) /\ ~ok)))
  /\ UNCHANGED <<have_sib1, have_sib2, torn>>

\* SIB2 is looked for outside the subframes of SIB1 only.  A block that
\* could not be decoded is waited for again, after SIB1 comes SIB2.
DecodeSib(ok) ==
  LET sfn == system_frame_number
      looks == ~have_sib1 \/ (~have_sib2 /\ ~IsSib1Sf(tti))
      after == IF looks THEN GrantAfter(ok) ELSE grant
      done == have_sib1 /\ (have_sib2' \/ args.skip_sib2)
  IN /\ state = "DECODE_SIB"
     /\ have_sib1' = (have_sib1 \/ Decoded(ok))
     /\ have_sib2' = (have_sib2 \/ (have_sib1 /\ looks /\ Decoded(ok)))
     /\ state' = IF done THEN "DECODE_NPDSCH" ELSE state
     /\ grant' = IF done /\ args.si THEN Sib1Grant(sfn)
                 ELSE IF looks /\ after = NoGrant /\ ~have_sib2'
                 THEN IF have_sib1' THEN Sib2Grant(sfn) ELSE Sib1Grant(sfn)
                 ELSE after
     /\ UNCHANGED <<ue_mib, ul, missed, wrong, torn>>

\* NBULDecode: the subframes up to and after an uplink block are counted
\* down; enb_ul decodes those that are not skipped.
UlDci == {[k0 |-> k, sfs |-> n, full |-> f] : k \in K0s, n \in UlSfs, f \in BOOLEAN}
RecordDci(dci) ==
  [start |-> TRUE, cnt |-> dci.k0 + dci.sfs + 5, skip |-> dci.k0 + 1,
   left |-> IF dci.full THEN dci.sfs ELSE ul.left,
   due |-> dci.k0 + 1 + dci.sfs, late |-> FALSE]
Decodes(u) == u.start /\ u.skip = 0 /\ u.left > 0
Recorded(u) ==
  IF ~u.start THEN u
  ELSE [u EXCEPT !.start = u.cnt > 1, !.cnt = @ - 1,
                 !.skip = IF @ > 0 THEN @ - 1 ELSE 0,
                 !.left = IF Decodes(u) THEN @ - 1 ELSE @]

\* A history of the air: `due` subframes from now the block is over, whatever
\* the handler counts.  `late`: it has returned without counting.
Elapsed(u) == [u EXCEPT !.due = IF @ > 0 THEN @ - 1 ELSE 0]

\* A downlink DCI is looked at only for the log, but one that cannot be
\* converted makes the handler return before it counts.
NbUlDecode(ok) ==
  /\ args.app = "nb_ul_decode"
  /\ grant' = GrantAfter(ok)
  /\ \/ ul' = Elapsed(Recorded(ul))
     \/ /\ grant = NoGrant /\ IsValidDlSf(tti)
        /\ \/ ~ul.start /\ \E dci \in UlDci : ul' = Elapsed(Recorded(RecordDci(dci)))
           \/ ul' = Elapsed([ul EXCEPT !.late = ul.start])

\* The handler of the framework itself
SubframeHandler(ok) ==
  /\ args.app # "nb_ul_decode"
  /\ \/ grant' = GrantAfter(ok)
     \/ grant = NoGrant /\ IsValidDlSf(tti) /\ \E d \in Delays : grant' = DataGrant(d)
  /\ UNCHANGED ul

\* With the SI-RNTI, SIB1 is received over and over.
Sib1Only(ok) ==
  /\ grant' = IF GrantAfter(ok) = NoGrant THEN Sib1Grant(system_frame_number) ELSE GrantAfter(ok)
  /\ UNCHANGED ul

DecodeNpdsch(ok) ==
  /\ state = "DECODE_NPDSCH"
  /\ IF args.si THEN Sib1Only(ok) ELSE SubframeHandler(ok) \/ NbUlDecode(ok)
  /\ UNCHANGED <<state, have_sib1, have_sib2, ue_mib, missed, wrong, torn>>

-----------------------------------------------------------------------------
(* The loop.                                                               *)

\* Mutant: the transmission is put off and not shortened.
HandleTxWhole(drift) ==
  LET eob == burst - (SAMPLES + drift)
      at == IF first_xmit \/ eob < 0 THEN 0 ELSE eob
  IN IF ~first_xmit /\ eob > SAMPLES
     THEN burst' = eob /\ UNCHANGED <<first_xmit, sent>>
     ELSE /\ sent' = [zeros |-> IF first_xmit \/ eob > 0 THEN 0 ELSE -eob,
                      at |-> at, first |-> 0, len |-> SAMPLES]
          /\ burst' = sent'.at + sent'.len
          /\ first_xmit' = FALSE

\* One subframe of samples goes out, 4 ms after the one received.  Within a
\* burst a gap is filled with zeros; on an overlap the transmission is put off
\* to the end of the last and shortened.  It starts with the first sample of the
\* subframe all the same: sample_offset is not used.  Times are relative to that
\* of this subframe.  (All of it can be overlap only if the clock goes back.)
HandleTx(drift) ==
  LET eob == burst - (SAMPLES + drift)
      at == IF first_xmit \/ eob < 0 THEN 0 ELSE eob
  IN IF ~first_xmit /\ eob > SAMPLES
     THEN burst' = eob /\ UNCHANGED <<first_xmit, sent>>
     ELSE /\ sent' = [zeros |-> IF first_xmit \/ eob > 0 THEN 0 ELSE -eob,
                      at |-> at, first |-> 0, len |-> SAMPLES - at]
          /\ burst' = sent'.at + sent'.len
          /\ first_xmit' = FALSE

\* Only an application that derives from the framework sets xmit_enable,
\* and only in its subframe handler.
MayXmit == args.app = "forging" /\ ~args.si /\ state = "DECODE_NPDSCH"

Subframe(ok) ==
  /\ tracking
  /\ state # "DECODE_MIB" /\ wrong => ~ok
  /\ \/ DecodeMib(ok)
     \/ DecodeSib(ok) /\ NextSfn
     \/ DecodeNpdsch(ok) /\ NextSfn
  /\ \/ \E drift \in -MAX_DRIFT..MAX_DRIFT : (~first_xmit \/ MayXmit) /\ HandleTx(drift)
     \/ first_xmit /\ UNCHANGED txVars
  /\ air' = (air + 1) % (NSF * SFNS)
  /\ UNCHANGED <<args, tracking, exited>>

\* No synchronisation: the MIB is looked for again, a burst ends (tx_end).
StartAgain ==
  /\ state' = "DECODE_MIB"
  /\ first_xmit' = TRUE /\ burst' = 0 /\ sent' = NoneSent
  /\ air' = FrameAfter(air)
  /\ ul' = [ul EXCEPT !.due = 0]
  /\ UNCHANGED <<args, exited, have_sib1, have_sib2, system_frame_number, ue_mib, grant, wrong>>

\* ue_sync looks for the NPSS, and if it finds it goes on with a new frame
Find ==
  /\ ~tracking /\ ~exited
  /\ tracking' \in BOOLEAN
  /\ missed' = (missed \/ (ue_mib.frame_cnt # 0 /\ FirstOfMib(air)))
  /\ StartAgain
  /\ UNCHANGED torn

\* It checks the NPSS in every subframe 5.
SyncLost ==
  /\ tracking /\ Sf(air) = 5
  /\ tracking' = FALSE
  /\ torn' = (torn \/ (state = "DECODE_SIB" /\ have_sib1 /\ ~args.skip_sib2))
  /\ StartAgain
  /\ UNCHANGED missed

\* An error of the radio or of the MIB decoder, or SIGINT: the process ends.
Exit ==
  /\ ~exited
  /\ exited' = TRUE /\ tracking' = FALSE
  /\ state' = "DECODE_MIB" /\ have_sib1' = FALSE /\ have_sib2' = FALSE
  /\ system_frame_number' = 0
  /\ ue_mib' = NoMib /\ grant' = NoGrant /\ ul' = NoRecord
  /\ first_xmit' = TRUE /\ burst' = 0 /\ sent' = NoneSent
  /\ missed' = FALSE /\ wrong' = FALSE /\ torn' = FALSE
  /\ UNCHANGED <<args, air>>

Next == Find \/ SyncLost \/ (\E ok \in BOOLEAN : Subframe(ok)) \/ Exit

\* Receptions are independent: what is sent again and again is decoded in the
\* end, be it the first MIB, one with new content, or a block.
FirstMib == state = "DECODE_MIB" /\ Sf(air) = 0 /\ ue_mib = NoMib
NewMib == state = "DECODE_MIB" /\ Sf(air) = 0 /\ MibFound(TRUE)
Block == state # "DECODE_MIB" /\ Tried

Fairness ==
  /\ WF_vars(\E ok \in BOOLEAN : Subframe(ok))
  /\ SF_vars(FirstMib /\ Subframe(TRUE))
  /\ SF_vars(NewMib /\ Subframe(TRUE))
  /\ SF_vars(Block /\ Subframe(TRUE))

Spec == Init /\ [][Next]_vars /\ Fairness

-----------------------------------------------------------------------------
(***************************************************************************)
(* The receiver counts frames by itself once it has the MIB (run): its     *)
(* system_frame_number is that of the cell however often synchronisation   *)
(* was lost and found, provided the MIB decoder has not missed the frame   *)
(* in which the MIB changed.                                               *)
(***************************************************************************)
SfnRight == state # "DECODE_MIB" /\ ~wrong => system_frame_number = Frame(air)

(***************************************************************************)
(* An overlapping transmission is sent late, not trimmed at its start      *)
(* (handle_tx), but however many subframes come early one after the other, *)
(* the delay does not add up: every sample goes out at most MAX_DRIFT      *)
(* after its time, and at most as many are lost at the end.                *)
(***************************************************************************)
DelayBounded ==
  sent # NoneSent => /\ sent.at - sent.first \in 0..MAX_DRIFT
                     /\ sent.first + sent.len >= SAMPLES - MAX_DRIFT

(***************************************************************************)
(* NBULDecode's handler gives enb_ul the subframes of the granted block    *)
(* and no others: as many are left to decode as there are left of the      *)
(* block, and an uplink grant does not outlive a loss of synchronisation,  *)
(* although the recording that it started does.  Only downlink DCIs that   *)
(* cannot be converted make the handler late, and it is never early.       *)
(***************************************************************************)
UlOnTime ==
  tracking /\ state = "DECODE_NPDSCH" /\ Decodes(ul) =>
    IF ul.late THEN ul.due < ul.left ELSE ul.due = ul.left

(***************************************************************************)
(* With lasting synchronisation and the right frame number the receiver    *)
(* gets the system information and goes on to receive data (run), unless   *)
(* synchronisation was ever lost between SIB1 and SIB2: the new MIB then   *)
(* brings a grant for SIB1, which is never received as SIB1 is no longer   *)
(* looked for, and which keeps the one for SIB2 from being set.            *)
(***************************************************************************)
SiAcquired == <>[](tracking /\ ~wrong /\ ~torn) => <>[](state = "DECODE_NPDSCH")

(***************************************************************************)
(* With lasting synchronisation every grant is received and released, so   *)
(* that the NPDCCH is looked at again (subframe_handler), unless it starts *)
(* in a subframe of SIB1.                                                  *)
(***************************************************************************)
NotDeaf ==
  <>[](tracking /\ ~wrong /\ ~torn /\ ~(grant.kind = "data" /\ IsSib1Sf(grant.start)))
     => []<>(grant.num_sf = 0 /\ (grant.kind = "none" \/ args.si \/ state # "DECODE_NPDSCH"))
=============================================================================
