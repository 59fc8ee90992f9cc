------------------------- MODULE NbFrameworkProofs -------------------------
(***************************************************************************)
(* Proofs about NbFramework, for hyperframes of any length, any periods of *)
(* the system information, any delays of the blocks and any drift of the   *)
(* clock below a subframe: the types, the frame number, the time of the    *)
(* uplink and the delay of what is sent.                                   *)
(***************************************************************************)
EXTENDS NbFramework, TLAPS

-----------------------------------------------------------------------------
(* The inductive invariant *)

Switches ==
  /\ args \in Args
  /\ tracking \in BOOLEAN /\ exited \in BOOLEAN /\ have_sib1 \in BOOLEAN /\ have_sib2 \in BOOLEAN
  /\ first_xmit \in BOOLEAN /\ missed \in BOOLEAN /\ wrong \in BOOLEAN /\ torn \in BOOLEAN

Numbers ==
  /\ air \in Ttis /\ system_frame_number \in 0..(SFNS - 1)
  /\ state \in {"DECODE_MIB", "DECODE_SIB", "DECODE_NPDSCH"}

Decoder ==
  ue_mib \in [frame_cnt : 0..(MIB_FRAMES + 1), last : -1..(SFNS \div MIB_FRAMES - 1)]

Granted ==
  /\ grant \in [kind : {"none", "sib1", "sib2", "data"}, start : Ttis, num_sf : Nat]
  /\ grant.num_sf < LastOf(grant.kind)

(***************************************************************************)
(* A MIB decoder that holds a MIB and has missed no change of it holds     *)
(* that of the cell, or the frame on the air brings the change.  It is     *)
(* empty once a MIB was taken, and synchronisation starts with a frame.    *)
(***************************************************************************)
Seen ==
  /\ state # "DECODE_MIB" => ue_mib.frame_cnt = 0
  /\ state = "DECODE_MIB" /\ ue_mib.frame_cnt # 0 /\ ~missed =>
       ue_mib.last = MibOf(air) \/ FirstOfMib(air)
  /\ ~tracking /\ ~exited => state = "DECODE_MIB" /\ air % 5 = 0

\* An uplink block is recorded to its end, and skip tells when it comes.
Counted(u) ==
  /\ u \in [start : BOOLEAN, cnt : Nat, skip : Nat, left : Nat, due : Nat, late : BOOLEAN]
  /\ u.start <=> u.cnt > 0
  /\ u.skip <= u.cnt
OnTime(u) == IF u.late THEN u.due < u.skip + u.left ELSE u.due = u.skip + u.left
Timed(u) == u.left > 0 => u.cnt >= u.skip + u.left + 4 /\ OnTime(u)
Recording == Counted(ul) /\ (state # "DECODE_MIB" => Timed(ul))

\* A transmission ends with its subframe, however late it began.
Sending ==
  /\ burst \in Int
  /\ ~first_xmit => burst = SAMPLES
  /\ DelayBounded

IInv == Switches /\ Numbers /\ Decoder /\ Granted /\ Seen /\ SfnRight /\ Recording /\ Sending

-----------------------------------------------------------------------------
(* Arithmetic *)

\* The subframes of a frame that are modelled.
LEMMA Frames ==
  /\ NSF = 5
  /\ SfIdx[1] = 0 /\ SfIdx[2] = 1 /\ SfIdx[3] = 4 /\ SfIdx[4] = 5 /\ SfIdx[5] = 9
  BY DEF NSF, SfIdx

\* A counter that wraps.
LEMMA Wrapped ==
  ASSUME NEW P \in Nat \ {0}, NEW a \in 0..(P - 1)
  PROVE  (a + 1) % P = IF a = P - 1 THEN 0 ELSE a + 1
  OBVIOUS

\* Frame and subframe of a TTI.
LEMMA FrameFacts ==
  ASSUME NEW t \in Ttis
  PROVE  /\ Frame(t) \in 0..(SFNS - 1) /\ t % 5 \in 0..4 /\ t = 5 * Frame(t) + (t % 5)
         /\ Sf(t) = 0 <=> t % 5 = 0
         /\ Sf(t) = 5 <=> t % 5 = 3
         /\ Sf(t) = 9 <=> t % 5 = 4
  <1> USE NbFrameworkAssumption, Frames
  <1>1. t \in 0..(5 * SFNS - 1)
    BY DEF Ttis
  <1>2. Frame(t) = t \div 5
    BY DEF Frame
  <1>3. t % 5 \in {0, 1, 2, 3, 4}
    BY <1>1
  <1>4. Sf(t) = SfIdx[(t % 5) + 1]
    BY DEF Sf
  <1>5. QED
    BY <1>1, <1>2, <1>3, <1>4

\* The next subframe.
LEMMA NextAir ==
  ASSUME NEW t \in Ttis, NEW u, u = (t + 1) % (NSF * SFNS)
  PROVE  /\ u \in Ttis
         /\ t % 5 = 4 => u % 5 = 0 /\ Frame(u) = (Frame(t) + 1) % SFNS
         /\ t % 5 # 4 => u % 5 = (t % 5) + 1 /\ Frame(u) = Frame(t)
  <1> USE NbFrameworkAssumption, Frames
  <1>1. t \in 0..(5 * SFNS - 1) /\ SFNS \in Nat \ {0}
    BY DEF Ttis
  <1>2. u = IF t = 5 * SFNS - 1 THEN 0 ELSE t + 1
    <2>1. 5 * SFNS \in Nat \ {0} /\ u = (t + 1) % (5 * SFNS)
      BY <1>1
    <2>2. QED
      BY <1>1, <2>1, Wrapped
  <1>3. Frame(t) \in 0..(SFNS - 1) /\ t % 5 \in 0..4 /\ t = 5 * Frame(t) + (t % 5)
    BY FrameFacts
  <1>4. (Frame(t) + 1) % SFNS = IF Frame(t) = SFNS - 1 THEN 0 ELSE Frame(t) + 1
    BY <1>1, <1>3, Wrapped
  <1>5. Frame(u) = u \div 5
    BY DEF Frame
  <1>6. u \in Ttis
    BY <1>1, <1>2 DEF Ttis
  <1>7. QED
    <2>1. CASE t = 5 * SFNS - 1
      BY <1>1, <1>2, <1>3, <1>4, <1>5, <1>6, <2>1
    <2>2. CASE t # 5 * SFNS - 1
      BY <1>1, <1>2, <1>3, <1>4, <1>5, <1>6, <2>2
    <2>3. QED
      BY <2>1, <2>2

\* The start of the next frame.
LEMMA NextFrame ==
  ASSUME NEW t \in Ttis
  PROVE  /\ FrameAfter(t) \in Ttis /\ FrameAfter(t) % 5 = 0
         /\ Frame(FrameAfter(t)) = (Frame(t) + 1) % SFNS
  <1> USE NbFrameworkAssumption, Frames
  <1> DEFINE f == Frame(t)
  <1>1. f \in 0..(SFNS - 1) /\ SFNS \in Nat \ {0}
    BY FrameFacts
  <1>2. FrameAfter(t) = (5 * (f + 1)) % (5 * SFNS)
    BY DEF FrameAfter
  <1>3. (f + 1) % SFNS = IF f = SFNS - 1 THEN 0 ELSE f + 1
    BY <1>1, Wrapped
  <1> HIDE DEF f
  <1>4. FrameAfter(t) = 5 * ((f + 1) % SFNS) 
    <2>1. CASE f = SFNS - 1
      BY <1>1, <1>2, <1>3, <2>1
    <2>2. CASE f # SFNS - 1
      <3>1. 5 * (f + 1) \in 0..(5 * SFNS - 1)
        BY <1>1, <2>2
      <3>2. QED
        BY <1>1, <1>2, <1>3, <2>2, <3>1
    <2>3. QED
      BY <2>1, <2>2
  <1>5. Frame(FrameAfter(t)) = FrameAfter(t) \div 5
    BY DEF Frame
  <1>6. QED
    BY <1>1, <1>3, <1>4, <1>5 DEF Ttis, f

\* The next frame begins a MIB or has the same.
LEMMA MibStep ==
  ASSUME NEW f \in 0..(SFNS - 1), NEW g, g = (f + 1) % SFNS
  PROVE  g % MIB_FRAMES = 0 \/ g \div MIB_FRAMES = f \div MIB_FRAMES
  <1> USE NbFrameworkAssumption
  <1> DEFINE m == MIB_FRAMES
             q == f \div m
             r == f % m
  <1>1. m \in Nat \ {0} /\ SFNS \in Nat \ {0}
    OBVIOUS
  <1>2. g = IF f = SFNS - 1 THEN 0 ELSE f + 1
    BY <1>1, Wrapped
  <1>3. q \in Nat /\ r \in 0..(m - 1) /\ f = q * m + r
    BY <1>1
  <1>4. CASE f = SFNS - 1
    BY <1>1, <1>2, <1>4
  <1>5. CASE f # SFNS - 1 /\ r # m - 1
    <2>1. r + 1 \in 0..(m - 1) /\ g = q * m + (r + 1)
      BY <1>1, <1>2, <1>3, <1>5
    <2> HIDE DEF m, q, r
    <2>2. g \div m = q
      BY <1>1, <1>3, <2>1, Z3
    <2>3. QED
      BY <2>2 DEF m, q
  <1>6. CASE f # SFNS - 1 /\ r = m - 1
    <2> HIDE DEF m, q, r
    <2> DEFINE p == q + 1
    <2>1. p \in Nat /\ g = p * m
      BY <1>1, <1>2, <1>3, <1>6
    <2> HIDE DEF p
    <2>2. 0 \in 0..(m - 1) /\ g = p * m + 0
      BY <1>1, <2>1
    <2>3. g \div m = p
      BY <1>1, <2>1, <2>2, Z3
    <2>4. g = (g \div m) * m + (g % m) /\ g % m \in Nat
      BY <1>1, <2>1
    <2>5. g % m = 0
      BY <1>1, <2>1, <2>3, <2>4
    <2>6. QED
      BY <2>5 DEF m
  <1>7. QED
    BY <1>4, <1>5, <1>6

\* A frame has the MIB of the frame in which that MIB begins.
LEMMA MibFacts ==
  ASSUME NEW t \in Ttis
  PROVE  /\ MibOf(t) \in 0..(SFNS \div MIB_FRAMES - 1)
         /\ MibOf(t) * MIB_FRAMES \in 0..(SFNS - 1)
         /\ Frame(t) % MIB_FRAMES = 0 => MibOf(t) * MIB_FRAMES = Frame(t)
  <1> USE NbFrameworkAssumption
  <1> DEFINE m == MIB_FRAMES
             f == Frame(t)
             k == MibOf(t)
             r == f % m
             q == SFNS \div m
  <1>1. m \in Nat \ {0} /\ SFNS \in Nat \ {0} /\ SFNS % m = 0
    OBVIOUS
  <1>2. f \in 0..(SFNS - 1) /\ k = f \div m
    BY FrameFacts DEF MibOf
  <1>3. q \in Nat /\ SFNS = q * m
    BY <1>1
  <1> HIDE DEF m, f, k
  <1>4. k \in Nat /\ r \in 0..(m - 1) /\ f = k * m + r
    BY <1>1, <1>2
  <1> HIDE DEF q, r
  <1>5. k * m \in Nat
    BY <1>1, <1>4
  <1>6. k < q
    <2> SUFFICES ASSUME k >= q PROVE FALSE
      BY <1>3, <1>4
    <2>1. k * m >= q * m
      BY <1>1, <1>3, <1>4
    <2> DEFINE x == k * m
    <2> HIDE DEF x
    <2>2. x \in Nat /\ x >= SFNS /\ f = x + r
      BY <1>3, <1>4, <1>5, <2>1 DEF x
    <2>3. QED
      BY <1>1, <1>2, <1>4, <2>2
  <1>7. k \in 0..(q - 1) /\ k * m \in 0..(SFNS - 1)
    BY <1>1, <1>2, <1>3, <1>4, <1>5, <1>6
  <1>8. r = 0 => k * m = f
    BY <1>1, <1>4
  <1>9. QED
    BY <1>7, <1>8 DEF m, f, k, q, r

-----------------------------------------------------------------------------
(* Each part of the invariant is kept *)

\* The steps, as the lemmas take them apart.
LEMMA Steps ==
  ASSUME [Next]_vars
  PROVE  \/ Find \/ SyncLost \/ Exit \/ UNCHANGED vars
         \/ \E ok \in BOOLEAN : Subframe(ok) /\ DecodeMib(ok)
         \/ \E ok \in BOOLEAN : Subframe(ok) /\ DecodeSib(ok) /\ NextSfn
         \/ \E ok \in BOOLEAN : Subframe(ok) /\ DecodeNpdsch(ok) /\ NextSfn
  BY DEF Next, Subframe

\* Switches stay Boolean.
LEMMA NextSwitches == Switches /\ [Next]_vars => Switches'
  <1> SUFFICES ASSUME Switches, [Next]_vars PROVE Switches'
    OBVIOUS
  <1>1. args' = args
    BY Steps, Zenon DEF Find, SyncLost, Exit, Subframe, StartAgain, vars
  <1>2. tracking' \in BOOLEAN /\ exited' \in BOOLEAN
    BY Steps, Zenon DEF Find, SyncLost, Exit, Subframe, StartAgain, vars, Switches
  <1>3. have_sib1' \in BOOLEAN /\ have_sib2' \in BOOLEAN
    BY Steps, Zenon
       DEF Find, SyncLost, Exit, DecodeMib, DecodeSib, DecodeNpdsch, StartAgain, vars, rxVars, Switches
  <1>4. first_xmit' \in BOOLEAN
    <2>1. CASE \E ok \in BOOLEAN : Subframe(ok)
      BY <2>1, Zenon DEF Subframe, HandleTx, txVars, Switches
    <2>2. CASE Find \/ SyncLost \/ Exit \/ UNCHANGED vars
      BY <2>2, Zenon DEF Find, SyncLost, Exit, StartAgain, vars, txVars, Switches
    <2>3. QED
      BY <2>1, <2>2 DEF Next
  <1>5. missed' \in BOOLEAN /\ wrong' \in BOOLEAN /\ torn' \in BOOLEAN
    BY Steps, Zenon
       DEF Find, SyncLost, Exit, DecodeMib, DecodeSib, DecodeNpdsch, StartAgain, vars, Switches
  <1>6. QED
    BY <1>1, <1>2, <1>3, <1>4, <1>5 DEF Switches

\* Where the cell is after a step.
LEMMA AirFacts ==
  ASSUME Numbers, [Next]_vars
  PROVE  /\ air' \in Ttis
         /\ Find \/ SyncLost => air' = FrameAfter(air)
         /\ \A ok \in BOOLEAN : Subframe(ok) => air' = (air + 1) % (NSF * SFNS)
         /\ Exit \/ UNCHANGED vars => air' = air
  <1>1. /\ Find \/ SyncLost => air' = FrameAfter(air)
        /\ \A ok \in BOOLEAN : Subframe(ok) => air' = (air + 1) % (NSF * SFNS)
        /\ Exit \/ UNCHANGED vars => air' = air
    BY DEF Find, SyncLost, Exit, Subframe, StartAgain, vars
  <1>2. QED
    BY <1>1, NextAir, NextFrame DEF Numbers, Next

\* The frame number stays within the hyperframe.
LEMMA NextNumbers == Numbers /\ [Next]_vars => Numbers'
  <1> SUFFICES ASSUME Numbers, [Next]_vars PROVE Numbers'
    OBVIOUS
  <1>1. air' \in Ttis
    BY AirFacts
  <1>2. state' \in {"DECODE_MIB", "DECODE_SIB", "DECODE_NPDSCH"}
    BY Steps DEF Find, SyncLost, Exit, DecodeMib, DecodeSib, DecodeNpdsch, StartAgain, vars, rxVars,
                 Numbers
  <1>3. NextSfn => system_frame_number' \in 0..(SFNS - 1)
    BY NbFrameworkAssumption DEF NextSfn, Numbers
  <1>4. MibOf(air) * MIB_FRAMES \in 0..(SFNS - 1)
    BY MibFacts DEF Numbers
  <1>5. 0 \in 0..(SFNS - 1)
    BY NbFrameworkAssumption
  <1>6. system_frame_number' \in 0..(SFNS - 1)
    BY <1>3, <1>4, <1>5, Steps
       DEF Find, SyncLost, Exit, DecodeMib, StartAgain, vars, rxVars, Numbers
  <1>7. QED
    BY <1>1, <1>2, <1>6 DEF Numbers

\* The decoder counts no further than a MIB lasts.
LEMMA NextDecoder == Numbers /\ Decoder /\ [Next]_vars => Decoder'
  <1> SUFFICES ASSUME Numbers, Decoder, [Next]_vars PROVE Decoder'
    OBVIOUS
  <1> USE NbFrameworkAssumption
  <1>1. MibOf(air) \in 0..(SFNS \div MIB_FRAMES - 1)
    BY MibFacts DEF Numbers
  <1>2. NoMib \in [frame_cnt : 0..(MIB_FRAMES + 1), last : -1..(SFNS \div MIB_FRAMES - 1)]
    <2>1. -1 \in -1..(SFNS \div MIB_FRAMES - 1) /\ 0 \in 0..(MIB_FRAMES + 1)
      BY <1>1
    <2>2. QED
      BY <2>1 DEF NoMib
  <1>3. ASSUME NEW ok \in BOOLEAN, ue_mib' = MibDecode(ok) PROVE Decoder'
    <2>1. CASE ue_mib' = NoMib \/ ue_mib' = ue_mib
      BY <1>2, <2>1 DEF Decoder
    <2>2. CASE /\ ue_mib' = [frame_cnt |-> ue_mib.frame_cnt + 1, last |-> MibOf(air)]
               /\ ~(ue_mib.frame_cnt > MIB_FRAMES)
      <3>1. ue_mib.frame_cnt + 1 \in 0..(MIB_FRAMES + 1)
        BY <2>2 DEF Decoder
      <3>2. MibOf(air) \in -1..(SFNS \div MIB_FRAMES - 1)
        BY <1>1
      <3>3. QED
        BY <2>2, <3>1, <3>2 DEF Decoder
    <2>3. QED
      BY <1>3, <2>1, <2>2 DEF MibDecode
  <1>4. CASE ue_mib' = NoMib \/ ue_mib' = ue_mib
    BY <1>2, <1>4 DEF Decoder
  <1>5. QED
    BY <1>3, <1>4, Steps
       DEF Find, SyncLost, Exit, DecodeMib, DecodeSib, DecodeNpdsch, StartAgain, vars, rxVars

\* The MIB that is held is that of the cell, unless one was missed.
LEMMA NextSeen == Switches /\ Numbers /\ Decoder /\ Seen /\ [Next]_vars => Seen'
  <1> SUFFICES ASSUME Switches, Numbers, Decoder, Seen, [Next]_vars PROVE Seen'
    OBVIOUS
  <1> DEFINE f == Frame(air)
  <1>1. /\ f \in 0..(SFNS - 1) /\ air % 5 \in 0..4
        /\ Sf(air) = 0 <=> air % 5 = 0
        /\ Sf(air) = 5 <=> air % 5 = 3
    BY FrameFacts DEF Numbers
  <1>2. air' \in Ttis /\ (Sf(air) = 0 <=> air % 5 = 0)' /\ ue_mib.frame_cnt \in Nat
    BY AirFacts, FrameFacts DEF Decoder
  <1>3. ASSUME air' = FrameAfter(air) PROVE air' % 5 = 0 /\ (MibOf(air)' = MibOf(air) \/ FirstOfMib(air)')
    <2>1. Frame(air') = (f + 1) % SFNS /\ air' % 5 = 0
      BY <1>3, NextFrame DEF Numbers
    <2>2. Frame(air') % MIB_FRAMES = 0 \/ MibOf(air)' = MibOf(air)
      BY <1>1, <2>1, MibStep DEF MibOf
    <2>3. QED
      BY <1>2, <2>1, <2>2 DEF FirstOfMib
  <1>4. ASSUME air' = (air + 1) % (NSF * SFNS) PROVE MibOf(air)' = MibOf(air) \/ FirstOfMib(air)'
    <2>1. /\ air % 5 = 4 => Frame(air') = (f + 1) % SFNS /\ air' % 5 = 0
          /\ air % 5 # 4 => Frame(air') = f
      BY <1>4, NextAir DEF Numbers
    <2>2. CASE air % 5 = 4
      <3>1. Frame(air') % MIB_FRAMES = 0 \/ MibOf(air)' = MibOf(air)
        BY <1>1, <2>1, <2>2, MibStep DEF MibOf
      <3>2. QED
        BY <1>2, <2>1, <2>2, <3>1 DEF FirstOfMib
    <2>3. CASE air % 5 # 4
      BY <2>1, <2>3 DEF MibOf
    <2>4. QED
      BY <2>2, <2>3
  <1>5. CASE Find
    <2>1. /\ state = "DECODE_MIB" /\ state' = "DECODE_MIB" /\ ue_mib' = ue_mib
          /\ missed' = (missed \/ (ue_mib.frame_cnt # 0 /\ FirstOfMib(air)))
          /\ air' = FrameAfter(air)
      BY <1>5 DEF Find, StartAgain, Seen
    <2>2. QED
      BY <1>3, <2>1 DEF Seen
  <1>6. CASE SyncLost
    <2>1. state' = "DECODE_MIB" /\ ue_mib' = ue_mib /\ missed' = missed /\ air' = FrameAfter(air)
          /\ Sf(air) = 5
      BY <1>6 DEF SyncLost, StartAgain
    <2>2. ~FirstOfMib(air)
      BY <2>1 DEF FirstOfMib
    <2>3. QED
      BY <1>3, <2>1, <2>2 DEF Seen
  <1>7. CASE Exit
    BY <1>7 DEF Exit, Seen, NoMib
  <1>8. ASSUME NEW ok \in BOOLEAN, Subframe(ok), DecodeMib(ok) PROVE Seen'
    <2>1. tracking' /\ air' = (air + 1) % (NSF * SFNS) /\ state = "DECODE_MIB"
      BY <1>8 DEF Subframe, DecodeMib
    <2>2. CASE Sf(air) = 0 /\ MibFound(ok)
      <3>1. state' = "DECODE_SIB" /\ ue_mib' = NoMib
        BY <1>8, <2>2 DEF DecodeMib, MibDecode
      <3>2. QED
        BY <2>1, <3>1 DEF Seen, NoMib
    <2>3. CASE Sf(air) # 0
      <3>1. state' = state /\ ue_mib' = ue_mib
        BY <1>8, <2>3 DEF DecodeMib
      <3>2. ~FirstOfMib(air)
        BY <2>3 DEF FirstOfMib
      <3>3. ue_mib.frame_cnt # 0 /\ ~missed' => ~missed
        BY <1>8, <3>1, <3>2 DEF DecodeMib
      <3>4. QED
        BY <1>4, <2>1, <3>1, <3>2, <3>3 DEF Seen
    <2>4. CASE Sf(air) = 0 /\ ~MibFound(ok)
      <3>1. state' = state /\ ue_mib' = MibDecode(ok)
            /\ missed' = (ue_mib.frame_cnt # 0 /\ ue_mib'.frame_cnt # 0
                          /\ (missed \/ (FirstOfMib(air) /\ ~ok)))
        BY <1>8, <2>4 DEF DecodeMib
      <3>2. CASE ue_mib.frame_cnt > MIB_FRAMES
        BY <2>1, <2>4, <3>1, <3>2 DEF MibDecode, Seen, NoMib
      <3>3. CASE ~(ue_mib.frame_cnt > MIB_FRAMES) /\ ok
        <4>1. ue_mib'.last = MibOf(air)
          BY <2>4, <3>1, <3>3 DEF MibDecode
        <4>2. QED
          BY <1>4, <2>1, <3>1, <4>1 DEF Seen
      <3>4. CASE ~(ue_mib.frame_cnt > MIB_FRAMES) /\ ~ok
        <4>1. ue_mib' = ue_mib
          BY <2>4, <3>1, <3>4 DEF MibDecode
        <4>2. ue_mib.frame_cnt # 0 /\ ~missed' => ~missed /\ ~FirstOfMib(air)
          BY <3>1, <3>4, <4>1
        <4>3. QED
          BY <1>4, <2>1, <3>1, <4>1, <4>2 DEF Seen
      <3>5. QED
        BY <3>2, <3>3, <3>4
    <2>5. QED
      BY <2>2, <2>3, <2>4
  <1>9. ASSUME NEW ok \in BOOLEAN, Subframe(ok), DecodeSib(ok) \/ DecodeNpdsch(ok) PROVE Seen'
    <2>1. tracking' /\ state # "DECODE_MIB" /\ state' # "DECODE_MIB" /\ ue_mib' = ue_mib
      BY <1>9 DEF Subframe, DecodeSib, DecodeNpdsch
    <2>2. QED
      BY <2>1 DEF Seen
  <1>10. CASE UNCHANGED vars
    BY <1>10 DEF vars, rxVars, Seen, MibOf, FirstOfMib, Sf, Frame
  <1>11. QED
    BY <1>5, <1>6, <1>7, <1>8, <1>9, <1>10, Steps

\* The receiver counts frames as the cell does.
LEMMA NextSfnRight == Switches /\ Numbers /\ Decoder /\ Seen /\ SfnRight /\ [Next]_vars => SfnRight'
  <1> SUFFICES ASSUME Switches, Numbers, Decoder, Seen, SfnRight, [Next]_vars,
                      state' # "DECODE_MIB", ~wrong'
               PROVE  system_frame_number' = Frame(air')
    BY DEF SfnRight
  <1>1. /\ Frame(air) \in 0..(SFNS - 1) /\ air % 5 \in 0..4
        /\ Sf(air) = 0 <=> air % 5 = 0
        /\ Sf(air) = 9 <=> air % 5 = 4
    BY FrameFacts DEF Numbers
  <1>2. ASSUME air' = (air + 1) % (NSF * SFNS)
        PROVE  Frame(air') = IF Sf(air) = 9 THEN (Frame(air) + 1) % SFNS ELSE Frame(air)
    BY <1>1, <1>2, NextAir DEF Numbers
  <1>3. ASSUME NEW ok \in BOOLEAN, Subframe(ok), DecodeMib(ok)
        PROVE  system_frame_number' = Frame(air')
    <2>1. /\ Sf(air) = 0 /\ MibFound(ok) /\ wrong' = missed /\ state = "DECODE_MIB"
          /\ system_frame_number' = MibOf(air) * MIB_FRAMES
      BY <1>3 DEF DecodeMib
    <2>2. ~missed /\ ue_mib.frame_cnt # 0 /\ MibOf(air) # ue_mib.last
      BY <2>1 DEF MibFound
    <2>3. FirstOfMib(air)
      BY <2>1, <2>2 DEF Seen
    <2>4. MibOf(air) * MIB_FRAMES = Frame(air)
      BY <2>3, MibFacts DEF FirstOfMib, Numbers
    <2>5. air' = (air + 1) % (NSF * SFNS)
      BY <1>3 DEF Subframe
    <2>6. QED
      BY <1>1, <1>2, <2>1, <2>4, <2>5
  <1>4. ASSUME NEW ok \in BOOLEAN, Subframe(ok), DecodeSib(ok) \/ DecodeNpdsch(ok), NextSfn
        PROVE  system_frame_number' = Frame(air')
    <2>1. state # "DECODE_MIB" /\ wrong' = wrong /\ air' = (air + 1) % (NSF * SFNS)
      BY <1>4 DEF Subframe, DecodeSib, DecodeNpdsch
    <2>2. system_frame_number = Frame(air)
      BY <2>1 DEF SfnRight
    <2>3. QED
      BY <1>2, <1>4, <2>1, <2>2 DEF NextSfn
  <1>5. ~Find /\ ~SyncLost /\ ~Exit
    BY DEF Find, SyncLost, Exit, StartAgain
  <1>6. CASE UNCHANGED vars
    BY <1>6 DEF vars, rxVars, SfnRight
  <1>7. QED
    BY <1>3, <1>4, <1>5, <1>6, Steps

\* A subframe of a frame, by its number: a TTI.
LEMMA SfnSfType ==
  ASSUME NEW s \in Nat, NEW sf \in {1, 4}
  PROVE  SfnSf(s, sf) \in Ttis
  <1> USE NbFrameworkAssumption, Frames
  <1> DEFINE g == s % SFNS
             t == 5 * g + (IF sf = 1 THEN 1 ELSE 2)
  <1>1. g \in 0..(SFNS - 1) /\ SFNS \in Nat \ {0}
    OBVIOUS
  <1> HIDE DEF g
  <1>2. t \in 0..(5 * SFNS - 1) /\ t \div 5 = g /\ t % 5 = IF sf = 1 THEN 1 ELSE 2
    BY <1>1
  <1> HIDE DEF t
  <1>3. t \in Ttis /\ Frame(t) = g /\ Sf(t) = sf
    BY <1>2 DEF Ttis, Frame, Sf
  <1>4. \E u \in Ttis : Frame(u) = s % SFNS /\ Sf(u) = sf
    BY <1>3 DEF g
  <1>5. QED
    BY <1>4 DEF SfnSf

\* The next frame number that is 1 modulo the period.
LEMMA WindowAhead ==
  ASSUME NEW P \in Nat, P > 1, NEW s \in Nat
  PROVE  \E d \in 1..P : (s + d) % P = 1
  <1> DEFINE q == s \div P
             r == s % P
             p == q + 1
  <1>1. q \in Nat /\ r \in 0..(P - 1) /\ s = q * P + r
    OBVIOUS
  <1> HIDE DEF q, r
  <1>2. CASE r = 0
    <2>1. s + 1 = q * P + 1 /\ 1 \in 0..(P - 1)
      BY <1>1, <1>2
    <2>2. (s + 1) \div P = q
      BY <1>1, <2>1, Z3
    <2>3. (s + 1) % P = 1
      <3>1. s + 1 = ((s + 1) \div P) * P + ((s + 1) % P)
        BY <1>1
      <3>2. QED
        BY <1>1, <2>1, <2>2, <3>1
    <2>4. QED
      BY <2>3
  <1>3. CASE r > 0
    <2> DEFINE d == P + 1 - r
               x == s + d
    <2>1. d \in 1..P /\ p \in Nat /\ x = p * P + 1 /\ 1 \in 0..(P - 1) /\ x \in Nat
      BY <1>1, <1>3
    <2> HIDE DEF d, p, x
    <2>2. x \div P = p
      BY <2>1, Z3
    <2>3. x % P = 1
      <3>1. x = (x \div P) * P + (x % P)
        BY <2>1
      <3>2. QED
        BY <2>1, <2>2, <3>1
    <2>4. QED
      BY <2>1, <2>3 DEF x
  <1>4. QED
    BY <1>1, <1>2, <1>3

\* Among four subframes in a row there is one for the downlink.
LEMMA ValidAhead ==
  ASSUME NEW t \in Ttis, NEW d \in Nat
  PROVE  \E e \in d..(d + 3) : IsValidDlSf((t + e) % (NSF * SFNS))
  <1> USE NbFrameworkAssumption, Frames
  <1> DEFINE N == 5 * SFNS
             at(e) == (t + e) % N
  <1>1. ASSUME NEW e \in Nat PROVE at(e) \in Nat /\ at(e) % 5 = (t + e) % 5
    <2> DEFINE x == t + e
               q == x \div N
    <2>1. N \in Nat \ {0} /\ x \in Nat /\ SFNS \in Nat
      BY DEF Ttis
    <2> HIDE DEF x, N
    <2>2. q \in Nat /\ x % N \in Nat /\ x = q * N + (x % N)
      BY <2>1
    <2> DEFINE y == q * SFNS
    <2>3. y \in Nat /\ q * N = 5 * y
      BY <2>1, <2>2 DEF N
    <2> HIDE DEF q, y
    <2>4. x = 5 * y + (x % N)
      BY <2>2, <2>3
    <2>5. (x % N) % 5 = x % 5
      BY <2>1, <2>2, <2>3, <2>4
    <2>6. QED
      BY <2>2, <2>5 DEF x
  <1>2. ASSUME NEW e \in Nat, (t + e) % 5 \in {1, 2} PROVE IsValidDlSf(at(e))
    <2>1. at(e) % 5 \in {1, 2}
      BY <1>1, <1>2
    <2> HIDE DEF at
    <2>2. Sf(at(e)) \in {1, 4}
      BY <2>1 DEF Sf
    <2>3. QED
      BY <2>2 DEF IsValidDlSf
  <1>3. \E e \in d..(d + 3) : (t + e) % 5 \in {1, 2}
    <2>1. t \in Nat
      BY DEF Ttis
    <2>2. \/ (t + d) % 5 \in {1, 2} \/ (t + (d + 1)) % 5 \in {1, 2}
          \/ (t + (d + 2)) % 5 \in {1, 2} \/ (t + (d + 3)) % 5 \in {1, 2}
      BY <2>1
    <2>3. QED
      BY <2>2
  <1>4. QED
    BY <1>2, <1>3

\* Grants that are made are typed, and new.
LEMMA GrantTypes ==
  ASSUME NEW s \in 0..(SFNS - 1), Numbers
  PROVE  LET G == [kind : {"none", "sib1", "sib2", "data"}, start : Ttis, num_sf : Nat]
         IN /\ NoGrant \in G /\ Sib1Grant(s) \in G /\ Sib2Grant(s) \in G
            /\ \A d \in Delays : DataGrant(d) \in G
            /\ NoGrant.num_sf = 0 /\ Sib1Grant(s).num_sf = 0 /\ Sib2Grant(s).num_sf = 0
            /\ \A d \in Delays : DataGrant(d).num_sf = 0
  <1> USE NbFrameworkAssumption, Frames
  <1>1. 0 \in Ttis
    BY DEF Ttis
  <1>2. SfnSf(SIB1_TTI * (s \div SIB1_TTI + 1), 4) \in Ttis
    <2>1. SIB1_TTI * (s \div SIB1_TTI + 1) \in Nat
      <3>1. s \div SIB1_TTI \in Nat /\ SIB1_TTI \in Nat
        OBVIOUS
      <3>2. QED
        BY <3>1
    <2>2. QED
      BY <2>1, SfnSfType
  <1>3. SfnSf(s + (CHOOSE d \in 1..SI_PERIOD : (s + d) % SI_PERIOD = 1), 1) \in Ttis
    <2>1. \E d \in 1..SI_PERIOD : (s + d) % SI_PERIOD = 1
      <3>1. SI_PERIOD \in Nat /\ SI_PERIOD > 1 /\ s \in Nat
        OBVIOUS
      <3>2. QED
        BY <3>1, WindowAhead
    <2>2. (CHOOSE d \in 1..SI_PERIOD : (s + d) % SI_PERIOD = 1) \in 1..SI_PERIOD
      BY <2>1
    <2>3. QED
      BY <2>2, SfnSfType
  <1>4. ASSUME NEW d \in Delays PROVE DataGrant(d).start \in Ttis
    <2> DEFINE at(e) == (tti + e) % (NSF * SFNS)
               P(e) == IsValidDlSf(at(e)) /\ \A f \in d..(e - 1) : ~IsValidDlSf(at(f))
               e0 == CHOOSE e \in d..(d + 3) : P(e)
    <2>1. tti \in Ttis
      <3>1. air % 5 \in 0..4
        BY FrameFacts DEF Numbers
      <3>2. QED
        BY <3>1 DEF tti, Ttis, Numbers
    <2>2. d \in Nat /\ \E e \in d..(d + 3) : IsValidDlSf(at(e))
      BY <2>1, ValidAhead
    <2> HIDE DEF at
    <2>3. \E e \in d..(d + 3) : P(e)
      <3>1. IsValidDlSf(at(d)) \/ IsValidDlSf(at(d + 1)) \/ IsValidDlSf(at(d + 2)) \/ IsValidDlSf(at(d + 3))
        <4>1. \A e \in d..(d + 3) : e \in {d, d + 1, d + 2, d + 3}
          BY <2>2
        <4>2. QED
          BY <2>2, <4>1
      <3>2. /\ \A f \in d..(d - 1) : FALSE
            /\ \A f \in d..(d + 1 - 1) : f = d
            /\ \A f \in d..(d + 2 - 1) : f \in {d, d + 1}
            /\ \A f \in d..(d + 3 - 1) : f \in {d, d + 1, d + 2}
            /\ {d, d + 1, d + 2, d + 3} \subseteq d..(d + 3)
        BY <2>2
      <3>3. CASE IsValidDlSf(at(d))
        BY <3>2, <3>3
      <3>4. CASE ~IsValidDlSf(at(d)) /\ IsValidDlSf(at(d + 1))
        BY <3>2, <3>4
      <3>5. CASE ~IsValidDlSf(at(d)) /\ ~IsValidDlSf(at(d + 1)) /\ IsValidDlSf(at(d + 2))
        BY <3>2, <3>5
      <3>6. CASE /\ ~IsValidDlSf(at(d)) /\ ~IsValidDlSf(at(d + 1)) /\ ~IsValidDlSf(at(d + 2))
                 /\ IsValidDlSf(at(d + 3))
        BY <3>2, <3>6
      <3>7. QED
        BY <3>1, <3>3, <3>4, <3>5, <3>6
    <2> HIDE DEF P
    <2>4. e0 \in d..(d + 3)
      BY <2>3
    <2> HIDE DEF e0
    <2>5. at(e0) \in Ttis
      <3>1. tti + e0 \in Nat /\ 5 * SFNS \in Nat \ {0}
        BY <2>1, <2>2, <2>4 DEF Ttis
      <3>2. QED
        BY <3>1 DEF at, Ttis
    <2>6. DataGrant(d).start = at(e0)
      BY DEF DataGrant, at, e0, P
    <2>7. QED
      BY <2>5, <2>6
  <1>5. QED
    BY <1>1, <1>2, <1>3, <1>4 DEF NoGrant, Sib1Grant, Sib2Grant, DataGrant

\* A grant is released with the last subframe of its block.
LEMMA NextGranted == Numbers /\ Granted /\ [Next]_vars => Granted'
  <1> SUFFICES ASSUME Numbers, Granted, [Next]_vars PROVE Granted'
    OBVIOUS
  <1> DEFINE G == [kind : {"none", "sib1", "sib2", "data"}, start : Ttis, num_sf : Nat]
             Good(g) == g \in G /\ g.num_sf < LastOf(g.kind)
  <1>1. \A k : LastOf(k) \in Nat \ {0}
    BY NbFrameworkAssumption DEF LastOf
  <1>2. \A g \in G : g.num_sf = 0 => Good(g)
    BY <1>1
  <1>3. /\ Good(NoGrant) /\ \A d \in Delays : Good(DataGrant(d))
        /\ Good(Sib1Grant(system_frame_number)) /\ Good(Sib2Grant(system_frame_number))
        /\ Good(Sib1Grant(MibOf(air) * MIB_FRAMES))
    <2>1. MibOf(air) * MIB_FRAMES \in 0..(SFNS - 1) /\ system_frame_number \in 0..(SFNS - 1)
      BY MibFacts DEF Numbers
    <2> HIDE DEF Good
    <2>2. QED
      BY <1>2, <2>1, GrantTypes
  <1>4. Good(grant)
    BY DEF Granted
  <1>5. ASSUME NEW ok \in BOOLEAN PROVE Good(GrantAfter(ok))
    <2>1. CASE GrantAfter(ok) \in {grant, NoGrant}
      BY <1>3, <1>4, <2>1
    <2>2. CASE GrantAfter(ok) = [grant EXCEPT !.num_sf = @ + 1] /\ grant.num_sf + 1 # LastOf(grant.kind)
      <3> DEFINE n == grant.num_sf + 1
      <3>1. n \in Nat /\ n < LastOf(grant.kind)
        BY <1>1, <1>4, <2>2
      <3>2. GrantAfter(ok) = [grant EXCEPT !.num_sf = n]
        BY <2>2
      <3> HIDE DEF n
      <3>3. QED
        BY <1>4, <3>1, <3>2
    <2>3. QED
      BY <2>1, <2>2 DEF GrantAfter
  <1> HIDE DEF Good
  <1>6. Good(grant')
    <2>1. CASE Find \/ SyncLost \/ Exit \/ UNCHANGED vars
      BY <1>3, <1>4, <2>1 DEF Find, SyncLost, Exit, StartAgain, vars, rxVars
    <2>2. ASSUME NEW ok \in BOOLEAN, DecodeMib(ok) PROVE Good(grant')
      BY <1>3, <1>4, <2>2 DEF DecodeMib
    <2>3. ASSUME NEW ok \in BOOLEAN, DecodeSib(ok) PROVE Good(grant')
      BY <1>3, <1>4, <1>5, <2>3 DEF DecodeSib
    <2>4. ASSUME NEW ok \in BOOLEAN, DecodeNpdsch(ok) PROVE Good(grant')
      BY <1>3, <1>4, <1>5, <2>4 DEF DecodeNpdsch, Sib1Only, SubframeHandler, NbUlDecode
    <2>5. QED
      BY <2>1, <2>2, <2>3, <2>4, Steps
  <1>7. QED
    BY <1>6 DEF Good, Granted

\* The recording after the air has moved on, and after a subframe was counted
LEMMA ElapsedIs ==
  ASSUME NEW a, NEW c, NEW k, NEW l, NEW d, NEW e
  PROVE  Elapsed([start |-> a, cnt |-> c, skip |-> k, left |-> l, due |-> d, late |-> e]) =
           [start |-> a, cnt |-> c, skip |-> k, left |-> l,
            due |-> IF d > 0 THEN d - 1 ELSE 0, late |-> e]
  BY DEF Elapsed

LEMMA RecordedIs ==
  ASSUME NEW u, u.start,
         u = [start |-> u.start, cnt |-> u.cnt, skip |-> u.skip, left |-> u.left,
              due |-> u.due, late |-> u.late]
  PROVE  Recorded(u) = [start |-> u.cnt > 1, cnt |-> u.cnt - 1,
                        skip |-> IF u.skip > 0 THEN u.skip - 1 ELSE 0,
                        left |-> IF Decodes(u) THEN u.left - 1 ELSE u.left,
                        due |-> u.due, late |-> u.late]
  <1>1. Recorded(u) = [u EXCEPT !.start = u.cnt > 1, !.cnt = @ - 1,
                                !.skip = IF @ > 0 THEN @ - 1 ELSE 0,
                                !.left = IF Decodes(u) THEN @ - 1 ELSE @]
    BY DEF Recorded
  <1> HIDE DEF Recorded
  <1>2. QED
    BY <1>1

\* A subframe of the air that is counted keeps the time of the block.
LEMMA RecordedFacts ==
  ASSUME NEW u, Counted(u)
  PROVE  Counted(Elapsed(Recorded(u))) /\ (Timed(u) => Timed(Elapsed(Recorded(u))))
  <1> DEFINE v == Elapsed(Recorded(u))
             due == IF u.due > 0 THEN u.due - 1 ELSE 0
  <1>1. /\ u.cnt \in Nat /\ u.skip \in Nat /\ u.left \in Nat /\ u.due \in Nat /\ u.skip <= u.cnt
        /\ u.start \in BOOLEAN /\ (u.start <=> u.cnt > 0) /\ u.late \in BOOLEAN
        /\ u = [start |-> u.start, cnt |-> u.cnt, skip |-> u.skip, left |-> u.left,
                due |-> u.due, late |-> u.late]
    BY DEF Counted
  <1>2. due \in Nat
    BY <1>1
  <1>3. CASE ~u.start
    <2>1. v = [start |-> u.start, cnt |-> u.cnt, skip |-> u.skip, left |-> u.left,
               due |-> due, late |-> u.late]
      BY <1>1, <1>3 DEF Recorded, Elapsed
    <2> HIDE DEF v, due
    <2>2. Counted(v)
      BY <1>1, <1>2, <2>1 DEF Counted
    <2>3. u.cnt = 0 /\ v.left = u.left
      BY <1>1, <1>3, <2>1
    <2>4. Timed(u) => Timed(v)
      BY <1>1, <2>3 DEF Timed
    <2>5. QED
      BY <2>2, <2>4 DEF v
  <1>4. CASE u.start
    <2>1. v = [start |-> u.cnt > 1, cnt |-> u.cnt - 1,
               skip |-> IF u.skip > 0 THEN u.skip - 1 ELSE 0,
               left |-> IF Decodes(u) THEN u.left - 1 ELSE u.left,
               due |-> due, late |-> u.late]
      <3>1. Recorded(u) = [start |-> u.cnt > 1, cnt |-> u.cnt - 1,
                           skip |-> IF u.skip > 0 THEN u.skip - 1 ELSE 0,
                           left |-> IF Decodes(u) THEN u.left - 1 ELSE u.left,
                           due |-> u.due, late |-> u.late]
        BY <1>1, <1>4, RecordedIs
      <3>2. QED
        BY <3>1, ElapsedIs
    <2> HIDE DEF v, due
    <2>2. u.cnt \in Nat \ {0}
      BY <1>1, <1>4
    <2>3. Decodes(u) <=> u.skip = 0 /\ u.left > 0
      BY <1>4 DEF Decodes
    <2>4. v.cnt = u.cnt - 1 /\ v.start = (u.cnt > 1)
      BY <2>1
    <2>5. v.start <=> v.cnt > 0
      <3>1. v.start <=> u.cnt > 1
        BY <2>4, Zenon
      <3>2. u.cnt > 1 <=> v.cnt > 0
        BY <2>2, <2>4
      <3>3. QED
        BY <3>1, <3>2, Zenon
    <2>6. /\ v.cnt = u.cnt - 1
          /\ v.skip = IF u.skip > 0 THEN u.skip - 1 ELSE 0
          /\ v.left = IF u.skip = 0 /\ u.left > 0 THEN u.left - 1 ELSE u.left
          /\ v.due = due /\ v.late = u.late
      BY <2>1, <2>2, <2>3
    <2>7. v \in [start : BOOLEAN, cnt : Nat, skip : Nat, left : Nat, due : Nat, late : BOOLEAN]
      <3>1. /\ u.cnt - 1 \in Nat /\ (u.cnt > 1) \in BOOLEAN
            /\ (IF u.skip > 0 THEN u.skip - 1 ELSE 0) \in Nat
            /\ (IF Decodes(u) THEN u.left - 1 ELSE u.left) \in Nat
        BY <1>1, <2>2, <2>3
      <3>2. QED
        BY <1>1, <1>2, <2>1, <3>1
    <2>8. Counted(v)
      BY <1>1, <2>2, <2>6, <2>7, <2>5 DEF Counted
    <2>9. Timed(u) => Timed(v)
      BY <1>1, <2>2, <2>6 DEF Timed, OnTime, due
    <2>10. QED
      BY <2>8, <2>9 DEF v
  <1>5. QED
    BY <1>1, <1>3, <1>4

\* One that is not counted makes the handler late.
LEMMA LateFacts ==
  ASSUME NEW u, Counted(u), Timed(u)
  PROVE  LET v == Elapsed([u EXCEPT !.late = u.start]) IN Counted(v) /\ Timed(v)
  <1> DEFINE v == Elapsed([u EXCEPT !.late = u.start])
             due == IF u.due > 0 THEN u.due - 1 ELSE 0
  <1>1. /\ u.cnt \in Nat /\ u.skip \in Nat /\ u.left \in Nat /\ u.due \in Nat /\ u.skip <= u.cnt
        /\ u.start \in BOOLEAN /\ (u.start <=> u.cnt > 0) /\ u.late \in BOOLEAN
        /\ u = [start |-> u.start, cnt |-> u.cnt, skip |-> u.skip, left |-> u.left,
                due |-> u.due, late |-> u.late]
    BY DEF Counted
  <1>2. due \in Nat
    BY <1>1
  <1>3. v = [start |-> u.start, cnt |-> u.cnt, skip |-> u.skip, left |-> u.left,
             due |-> due, late |-> u.start]
    <2>1. [u EXCEPT !.late = u.start] =
            [start |-> u.start, cnt |-> u.cnt, skip |-> u.skip, left |-> u.left,
             due |-> u.due, late |-> u.start]
      BY <1>1
    <2>2. QED
      BY <2>1, ElapsedIs
  <1> HIDE DEF v, due
  <1>4. Counted(v)
    BY <1>1, <1>2, <1>3 DEF Counted
  <1>5. Timed(v)
    BY <1>1, <1>3 DEF Timed, OnTime, due
  <1>6. QED
    BY <1>4, <1>5 DEF v

\* An uplink DCI starts a recording; without an uplink grant nothing is left of
\* an earlier one.
LEMMA RecordDciFacts ==
  ASSUME Counted(ul), Timed(ul), ~ul.start, NEW dci \in UlDci
  PROVE  Counted(RecordDci(dci)) /\ Timed(RecordDci(dci))
  <1> DEFINE v == RecordDci(dci)
  <1>1. /\ dci.k0 \in Nat /\ dci.sfs \in Nat \ {0}
    BY NbFrameworkAssumption DEF UlDci
  <1>2. ul.left = 0
    BY DEF Counted, Timed
  <1>3. /\ v = [start |-> TRUE, cnt |-> dci.k0 + dci.sfs + 5, skip |-> dci.k0 + 1,
                left |-> IF dci.full THEN dci.sfs ELSE 0,
                due |-> dci.k0 + 1 + dci.sfs, late |-> FALSE]
    BY <1>2 DEF RecordDci
  <1> HIDE DEF v
  <1>4. v \in [start : BOOLEAN, cnt : Nat, skip : Nat, left : Nat, due : Nat, late : BOOLEAN]
    BY <1>1, <1>3
  <1>5. /\ v.start = TRUE /\ v.cnt = dci.k0 + dci.sfs + 5 /\ v.skip = dci.k0 + 1
        /\ v.left \in {0, dci.sfs} /\ v.due = dci.k0 + 1 + dci.sfs /\ v.late = FALSE
    BY <1>3
  <1>6. Counted(v) /\ Timed(v)
    BY <1>1, <1>4, <1>5 DEF Counted, Timed, OnTime
  <1>7. QED
    BY <1>6 DEF v

\* The recording keeps time, or its grant is gone with the next MIB.
LEMMA NextRecording == Numbers /\ Recording /\ [Next]_vars => Recording'
  <1> SUFFICES ASSUME Numbers, Recording, [Next]_vars PROVE Recording'
    OBVIOUS
  <1>1. CASE Find \/ SyncLost
    <2>1. state' = "DECODE_MIB" /\ ul' = [ul EXCEPT !.due = 0]
      BY <1>1 DEF Find, SyncLost, StartAgain
    <2>2. QED
      BY <2>1 DEF Recording, Counted
  <1>2. CASE Exit
    BY <1>2 DEF Exit, Recording, Counted, NoRecord
  <1>3. CASE UNCHANGED vars
    BY <1>3 DEF vars, rxVars, Recording
  <1>4. ASSUME NEW ok \in BOOLEAN, DecodeMib(ok) PROVE Recording'
    <2>1. CASE Sf(air) = 0 /\ MibFound(ok)
      <3>1. ul' = [ul EXCEPT !.left = 0]
        BY <1>4, <2>1 DEF DecodeMib, UlInit
      <3>2. QED
        BY <3>1 DEF Recording, Counted, Timed
    <2>2. CASE ~(Sf(air) = 0 /\ MibFound(ok))
      BY <1>4, <2>2 DEF DecodeMib, Recording
    <2>3. QED
      BY <2>1, <2>2
  <1>5. ASSUME NEW ok \in BOOLEAN, DecodeSib(ok) PROVE Recording'
    BY <1>5 DEF DecodeSib, Recording
  <1>6. ASSUME NEW ok \in BOOLEAN, DecodeNpdsch(ok) PROVE Recording'
    <2>1. Counted(ul) /\ Timed(ul) /\ state' = state
      BY <1>6 DEF DecodeNpdsch, Recording
    <2>2. CASE ul' = ul
      BY <2>1, <2>2 DEF Recording
    <2>3. CASE ul' = Elapsed(Recorded(ul))
      BY <2>1, <2>3, RecordedFacts DEF Recording
    <2>4. ASSUME NEW dci \in UlDci, ~ul.start, ul' = Elapsed(Recorded(RecordDci(dci))) PROVE Recording'
      <3>1. Counted(RecordDci(dci)) /\ Timed(RecordDci(dci))
        BY <2>1, <2>4, RecordDciFacts
      <3>2. QED
        BY <2>4, <3>1, RecordedFacts DEF Recording
    <2>5. CASE ul' = Elapsed([ul EXCEPT !.late = ul.start])
      BY <2>1, <2>5, LateFacts DEF Recording
    <2>6. QED
      BY <1>6, <2>2, <2>3, <2>4, <2>5 DEF DecodeNpdsch, Sib1Only, SubframeHandler, NbUlDecode
  <1>7. QED
    BY <1>1, <1>2, <1>3, <1>4, <1>5, <1>6, Steps

\* The delay starts anew with every subframe.
LEMMA NextSending == Sending /\ [Next]_vars => Sending'
  <1> SUFFICES ASSUME Sending, [Next]_vars PROVE Sending'
    OBVIOUS
  <1>1. CASE Find \/ SyncLost \/ Exit
    <2>1. first_xmit' = TRUE /\ burst' = 0 /\ sent' = NoneSent
      BY <1>1 DEF Find, SyncLost, Exit, StartAgain
    <2>2. QED
      BY <2>1 DEF Sending, DelayBounded
  <1>2. CASE UNCHANGED txVars
    BY <1>2 DEF txVars, Sending, DelayBounded
  <1>3. ASSUME NEW drift \in -MAX_DRIFT..MAX_DRIFT, HandleTx(drift) PROVE Sending'
    <2> DEFINE eob == burst - (SAMPLES + drift)
               at == IF first_xmit \/ eob < 0 THEN 0 ELSE eob
               zeros == IF first_xmit \/ eob > 0 THEN 0 ELSE -eob
    <2>1. SAMPLES \in Nat /\ MAX_DRIFT \in Nat /\ MAX_DRIFT < SAMPLES /\ burst \in Int
      BY NbFrameworkAssumption DEF Sending
    <2>2. ~first_xmit => eob = -drift
      BY <2>1 DEF Sending
    <2>3. ~(~first_xmit /\ eob > SAMPLES) /\ at \in 0..MAX_DRIFT
      BY <2>1, <2>2
    <2>4. /\ sent' = [zeros |-> zeros, at |-> at, first |-> 0, len |-> SAMPLES - at]
          /\ burst' = sent'.at + sent'.len /\ first_xmit' = FALSE
      BY <1>3, <2>3 DEF HandleTx
    <2> HIDE DEF eob, at, zeros
    <2>5. sent'.at = at /\ sent'.first = 0 /\ sent'.len = SAMPLES - at
      BY <2>4
    <2>6. QED
      BY <2>1, <2>3, <2>4, <2>5 DEF Sending, DelayBounded
  <1>4. QED
    BY <1>1, <1>2, <1>3 DEF Next, Subframe, vars, txVars

\* The receiver starts without synchronisation, in any frame of the cell.
LEMMA InitIInv == Init => IInv
  <1> SUFFICES ASSUME Init PROVE IInv
    OBVIOUS
  <1> USE NbFrameworkAssumption
  <1>1. Switches
    BY DEF Init, Switches
  <1>2. Numbers
    BY DEF Init, Numbers
  <1>3. Decoder /\ Seen /\ SfnRight
    <2>1. MibOf(air) \in 0..(SFNS \div MIB_FRAMES - 1)
      BY <1>2, MibFacts DEF Numbers
    <2>2. -1 \in -1..(SFNS \div MIB_FRAMES - 1) /\ 0 \in 0..(MIB_FRAMES + 1)
      BY <2>1
    <2>3. ue_mib = NoMib /\ state = "DECODE_MIB" /\ air % 5 = 0
      BY Frames DEF Init
    <2>4. Decoder
      BY <2>2, <2>3 DEF NoMib, Decoder
    <2>5. QED
      BY <2>3, <2>4 DEF NoMib, Seen, SfnRight
  <1>4. Granted
    <2>1. 0 \in Ttis
      BY Frames DEF Ttis
    <2>2. QED
      BY <2>1 DEF Init, NoGrant, Granted, LastOf
  <1>5. Recording
    BY DEF Init, Recording, Counted, Timed, NoRecord
  <1>6. Sending
    BY DEF Init, Sending, DelayBounded
  <1>7. QED
    BY <1>1, <1>2, <1>3, <1>4, <1>5, <1>6 DEF IInv

-----------------------------------------------------------------------------
(* The theorems *)

(***************************************************************************)
(* The inductive invariant holds however often NBFramework::run loses and  *)
(* finds the cell, and whatever it fails to receive.                       *)
(***************************************************************************)
THEOREM Invariance == Spec => []IInv
  <1>1. IInv /\ [Next]_vars => IInv'
    BY NextSwitches, NextNumbers, NextDecoder, NextGranted, NextSeen, NextSfnRight, NextRecording,
       NextSending
       DEF IInv
  <1>2. QED
    BY InitIInv, <1>1, PTL DEF Spec

(***************************************************************************)
(* The counters of the receiver stay in their ranges: the MIB decoder's,   *)
(* those of the grant and those of the uplink recording.                   *)
(***************************************************************************)
THEOREM TypeCorrect == Spec => []TypeOK
  <1>1. IInv => TypeOK
    <2> SUFFICES ASSUME IInv PROVE TypeOK
      OBVIOUS
    <2>1. Switches /\ Numbers /\ Decoder /\ Granted /\ Counted(ul)
      BY DEF IInv, Recording
    <2>2. ul.start = (ul.cnt > 0)
      <3>1. ul.start \in BOOLEAN /\ (ul.start <=> ul.cnt > 0)
        BY <2>1 DEF Counted
      <3>2. CASE ul.cnt > 0
        <4>1. ul.start = TRUE /\ (ul.cnt > 0) = TRUE
          BY <3>1, <3>2, Zenon
        <4>2. QED
          BY <4>1, Zenon
      <3>3. CASE ~(ul.cnt > 0)
        <4>1. ul.start = FALSE
          BY <3>1, <3>3
        <4>2. (ul.cnt > 0) = FALSE
          BY <3>3
        <4>3. QED
          BY <4>1, <4>2, Zenon
      <3>4. QED
        BY <3>2, <3>3, Zenon
    <2>3. {tracking, exited, have_sib1, have_sib2, first_xmit, missed, wrong, torn} \subseteq BOOLEAN
      BY <2>1, Zenon DEF Switches
    <2>4. args \in Args
      BY <2>1 DEF Switches
    <2>5. QED
      BY <2>1, <2>2, <2>3, <2>4 DEF TypeOK, Numbers, Decoder, Granted, Counted
  <1>2. QED
    BY Invariance, <1>1, PTL

(***************************************************************************)
(* The system_frame_number of run() is that of the cell, for hyperframes   *)
(* and MIB periods of any length, as long as the decoder missed no change  *)
(* of the MIB.                                                             *)
(***************************************************************************)
THEOREM FrameNumberIsRight == Spec => []SfnRight
  <1>1. IInv => SfnRight
    BY DEF IInv
  <1>2. QED
    BY Invariance, <1>1, PTL

(***************************************************************************)
(* What handle_tx sends is never more than one drift late, and never more  *)
(* samples are lost than that, for any length of a subframe, any drift     *)
(* below it and however long a burst lasts.                                *)
(***************************************************************************)
THEOREM DelayIsBounded == Spec => []DelayBounded
  <1>1. IInv => DelayBounded
    BY DEF IInv, Sending
  <1>2. QED
    BY Invariance, <1>1, PTL

(***************************************************************************)
(* NBULDecode decodes the subframes of the granted uplink block and no     *)
(* others, for any delay and length of a block, and whatever was lost or   *)
(* left over before; after a downlink DCI that makes its handler return    *)
(* early it is late, never early.                                          *)
(***************************************************************************)
THEOREM UplinkIsOnTime == Spec => []UlOnTime
  <1>1. IInv => UlOnTime
    BY DEF IInv, Recording, Counted, Timed, OnTime, Decodes, UlOnTime
  <1>2. QED
    BY Invariance, <1>1, PTL

=============================================================================
