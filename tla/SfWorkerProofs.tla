--------------------------- MODULE SfWorkerProofs ---------------------------
(***************************************************************************)
(* Proofs about SchedGrid and SfWorker, for any period, any length and     *)
(* window of the system information, any set of users and any reports.     *)
(***************************************************************************)
EXTENDS SfWorker, FiniteSetTheorems, SequenceTheorems, TLAPS

-----------------------------------------------------------------------------
(* The inductive invariant *)

\* How far ahead of TTI now a subframe is, and, from tti_rx, the last one that
\* was scheduled.
Offset(now, x) == IF x >= now THEN x - now ELSE x + Period - now
LastPass == IF pass = "dl" THEN 3 ELSE 4

\* The subframes of a SIB2 that starts in a frame that is a multiple of four
Sib2Sfs == {1, 2, 3, 4, 6, 7, 8, 11}

(***************************************************************************)
(* Where a RAR and data can be: the search spaces repeat every 16 and 8    *)
(* subframes, the valid subframes every 20.  x is d subframes after a      *)
(* subframe for the DCI of a RAR, or of data.                              *)
(***************************************************************************)
RarFrom(x, d) ==
  \E s \in 0..79 :
    /\ x % 80 = (s + d) % 80
    /\ IsValidDlSf(s) /\ s % 16 < 8
    /\ IsValidDlSf(s + d) /\ \A i \in 5..d - 1 : ~IsValidDlSf(s + i)

DataDelays(s) ==
  CASE s \in {1, 16, 17, 32} -> {5, 6, 7}
    [] s = 8  -> {5, 8, 9}
    [] s = 24 -> {7, 8, 9}
    [] s = 33 -> {5, 6, 8}
    [] OTHER  -> {}

DataFrom(x, d) == \E s \in 0..39 : x % 40 = (s + d) % 40 /\ d \in DataDelays(s)

\* A booking was made in a pass for a subframe at most last after now.
Came(now, last, b) ==
  LET ahead == Offset(now, b.tti) - last
  IN /\ b.what \in Dci => ahead <= 0
     /\ b.what = "sib1" => b.tti % 20 = 14 /\ ahead <= 0
     /\ b.what = "sib2" => b.tti % 40 \in Sib2Sfs /\ ahead <= (b.tti % 40) - 1
     /\ b.what = "rar"  => \E d \in 5..7 : RarFrom(b.tti, d) /\ ahead <= d
     /\ b.what = "data" => \E d \in 5..9 : DataFrom(b.tti, d) /\ ahead <= d

\* After a downlink pass nothing is booked for tti_rx, and no uplink DCI for
\* TtiTxDl yet.
AllCame ==
  \A b \in dl : /\ Came(tti_rx, LastPass, b)
                /\ pass = "ul" => b.tti # tti_rx
                /\ b.what = "ul_dci" => Offset(tti_rx, b.tti) <= 3

\* A DCI is for a user of ue_db.
DciUser == \A b \in dl : b.what \in Dci => b.rnti \in users

\* Data that is ahead was allocated last, and not longer ago than AllocGap.
DataRecent ==
  /\ last_alloc # NoAlloc =>
       /\ users # {}
       /\ \E e \in 0..AllocGap : Plus(tti_rx, LastPass) = Plus(last_alloc, e)
  /\ \A b \in dl : b.what = "data" =>
       \/ Offset(tti_rx, b.tti) <= LastPass
       \/ last_alloc # NoAlloc /\ \E d \in 5..9 : b.tti = Plus(last_alloc, d)

\* What the DCI of this TTI announces, and nothing more, is ahead.
DataOfDci ==
  pass = "ul" => \A b, c \in dl :
    b.what = "dl_dci" /\ b.tti = TtiTxDl /\ c.what = "data" =>
      \/ Offset(tti_rx, c.tti) <= 4
      \/ \E d \in DataDelays(TtiTxDl % 40) : c.tti = Plus(TtiTxDl, d)

\* The first RAR has waited since a subframe that is always free for its DCI.
FreeSfs == {18, 36, 52, 66}
WaitBound(r) == IF r <= 18 THEN r + 13 ELSE IF r <= 36 THEN r - 19 ELSE IF r <= 52 THEN r - 37
                ELSE IF r <= 66 THEN r - 53 ELSE r - 67
RarWaits ==
  /\ pending_rars = <<>> => rar_wait = 0
  /\ rar_wait <= WaitBound(Plus(tti_rx, LastPass + 1) % 80)

(***************************************************************************)
(* The inductive invariant of the scheduler                                *)
(***************************************************************************)
GridInv ==
  TypeOK /\ AllCame /\ DciUser /\ DataRecent /\ DataOfDci /\ RarWaits /\ DciAlone /\ DataAlone

\* The worker has sent what the scheduler has counted, up to the SIB1 of this TTI.
Sib1Agrees ==
  /\ sib1_cfg \in 0..Sib1NumSf - 1
  /\ pass = "dl" => sib1_sf_idx = sib1_cfg
  /\ pass = "ul" => /\ sib1_sf_idx = IF Sib1Now THEN (sib1_cfg + 1) % Sib1NumSf ELSE sib1_cfg
                    /\ TtiTxDl % 20 = 14 => Sib1Now

\* The worker's slot and receiver belong to users.
SlotUser ==
  /\ ugrant.on => ugrant.rnti # Nobody
  /\ ugrant.rnti # Nobody => ugrant.rnti \in users
  /\ enb_ul.left > 0 => enb_ul.rnti # Nobody

-----------------------------------------------------------------------------
(* The calendar *)

\* A period is a number of times eight frames.
LEMMA PeriodIs == Period \in Nat /\ Period >= 80 /\ \E p \in Nat : Period = 80 * p
BY SchedGridAssumption

\* Counting on within a period.
LEMMA PlusIs ==
  ASSUME NEW t \in Tti, NEW k \in 0..Period
  PROVE  /\ Plus(t, k) \in Tti
         /\ Plus(t, k) = IF t + k < Period THEN t + k ELSE t + k - Period
<1>1. Period \in Nat \ {0} /\ t \in 0..Period - 1
  BY PeriodIs DEF Tti
<1>2. CASE t + k < Period
  BY <1>1, <1>2 DEF Plus, Tti
<1>3. CASE ~(t + k < Period)
  <2> DEFINE x == t + k - Period
  <2>1. x \in 0..Period - 1 /\ t + k = x + Period
    BY <1>1, <1>3
  <2>2. (t + k) % Period = x
    BY <1>1, <2>1
  <2> QED
    BY <1>1, <1>3, <2>1, <2>2 DEF Plus, Tti
<1> QED
  BY <1>2, <1>3

\* All that repeats within eight frames goes on through the wrap.
LEMMA PlusMod ==
  ASSUME NEW t \in Tti, NEW k \in 0..Period
  PROVE  Plus(t, k) % 80 = (t + k) % 80
<1>1. PICK p \in Nat : Period = 80 * p
  BY PeriodIs
<1>2. Plus(t, k) = IF t + k < Period THEN t + k ELSE t + k - Period
  BY PlusIs
<1>3. t \in Nat /\ k \in Nat /\ t + k \in Nat /\ Period \in Nat
  BY PeriodIs DEF Tti
<1>4. CASE t + k < Period
  BY <1>2, <1>4
<1>5. CASE ~(t + k < Period)
  <2>1. \A x, y \in Nat : x >= 80 * y => (x - 80 * y) % 80 = x % 80
    OBVIOUS
  <2>2. Plus(t, k) = (t + k) - 80 * p /\ t + k >= 80 * p
    BY <1>1, <1>2, <1>3, <1>5
  <2> QED
    BY <1>3, <2>1, <2>2
<1> QED
  BY <1>4, <1>5

\* What eight frames say of shorter cycles.
LEMMA Cycles ==
  ASSUME NEW x \in Nat
  PROVE  /\ x % 80 \in 0..79
         /\ x % 40 = (x % 80) % 40 /\ x % 20 = (x % 80) % 20 /\ x % 10 = (x % 80) % 10
         /\ x % 16 = (x % 80) % 16 /\ x % 8 = (x % 80) % 8
OBVIOUS

\* The valid subframes repeat every other frame,
LEMMA ValidIs ==
  ASSUME NEW x \in Nat
  PROVE  IsValidDlSf(x) <=> x % 20 \notin {0, 5, 9, 10, 15}
<1>1. /\ x % 20 \in 0..19 /\ x % 10 = (x % 20) % 10
      /\ (x \div 10) % 2 = 0 <=> x % 20 < 10
  OBVIOUS
<1> QED
  BY <1>1 DEF IsValidDlSf

\* so do those of SIB1, while there are frames,
LEMMA Sib1Is ==
  ASSUME NEW x \in Nat
  PROVE  /\ IsSib1Sf(x) => x % 20 = 14
         /\ x < 10240 /\ x % 20 = 14 => IsSib1Sf(x)
<1>1. x % 10 = 4 /\ ((x \div 10) + 1) % 2 = 0 <=> x % 20 = 14
  OBVIOUS
<1>2. ASSUME x < 10240, x % 20 = 14
      PROVE  \E s \in Sib1Sfn : (x \div 10) >= s /\ (x \div 10) < s + 16
  <2> DEFINE f == x \div 10
             k == (f - 1) \div 256
             i == ((f - 1) % 256) \div 16
             s == k * 256 + 1 + i * 16
  <2>1. f \in 1..1023
    BY <1>2
  <2>2. k \in 0..3 /\ i \in 0..15
    BY <2>1
  <2>3. f >= s /\ f < s + 16
    BY <2>1
  <2>4. s \in Sib1Sfn
    BY <2>2 DEF Sib1Sfn
  <2> QED
    BY <2>3, <2>4
<1> QED
  BY <1>1, <1>2 DEF IsSib1Sf

\* and SIB2 starts in every fourth frame at most.
LEMMA Sib2Is ==
  ASSUME NEW x \in Nat, IsSib2Start(x)
  PROVE  x % 40 = 1
<1>1. x % 10 = 1 /\ (x \div 10) % 4 = 0
  BY DEF IsSib2Start
<1> QED
  BY <1>1

\* Subframes seen from tti_rx, and from the next TTI.
LEMMA Offsets ==
  ASSUME NEW now \in Tti
  PROVE  /\ \A k \in 0..Period - 1 : Plus(now, k) \in Tti /\ Offset(now, Plus(now, k)) = k
         /\ \A x \in Tti : /\ Offset(now, x) \in 0..Period - 1
                           /\ Plus(now, Offset(now, x)) = x
                           /\ x % 80 = (now + Offset(now, x)) % 80
                           /\ x # now => Offset(Plus(now, 1), x) = Offset(now, x) - 1
<1>1. now \in 0..Period - 1 /\ Period \in Nat /\ Period >= 80
  BY PeriodIs DEF Tti
<1>2. ASSUME NEW k \in 0..Period - 1 PROVE Plus(now, k) \in Tti /\ Offset(now, Plus(now, k)) = k
  <2>1. Plus(now, k) \in Tti /\ Plus(now, k) = IF now + k < Period THEN now + k ELSE now + k - Period
    BY <1>1, PlusIs
  <2> QED
    BY <1>1, <2>1 DEF Offset
<1>3. ASSUME NEW x \in Tti
      PROVE  /\ Offset(now, x) \in 0..Period - 1 /\ Plus(now, Offset(now, x)) = x
             /\ x % 80 = (now + Offset(now, x)) % 80
  <2>1. x \in 0..Period - 1
    BY DEF Tti
  <2>2. Offset(now, x) \in 0..Period - 1
    BY <1>1, <2>1 DEF Offset
  <2>3. Plus(now, Offset(now, x)) = x
    <3>1. Plus(now, Offset(now, x)) = IF now + Offset(now, x) < Period THEN now + Offset(now, x)
                                                                    ELSE now + Offset(now, x) - Period
      BY <1>1, <2>2, PlusIs
    <3> QED
      BY <1>1, <2>1, <3>1 DEF Offset
  <2>4. Plus(now, Offset(now, x)) % 80 = (now + Offset(now, x)) % 80
    BY <1>1, <2>2, PlusMod
  <2> QED
    BY <2>2, <2>3, <2>4
<1>4. ASSUME NEW x \in Tti, x # now PROVE Offset(Plus(now, 1), x) = Offset(now, x) - 1
  <2>1. x \in 0..Period - 1
    BY DEF Tti
  <2>2. Plus(now, 1) = IF now + 1 < Period THEN now + 1 ELSE now + 1 - Period
    BY <1>1, PlusIs
  <2> QED
    BY <1>1, <1>4, <2>1, <2>2 DEF Offset
<1> QED
  BY <1>2, <1>3, <1>4

\* From TtiTxDl on.
LEMMA FromTxDl ==
  ASSUME NEW now \in Tti, NEW k \in 0..60
  PROVE  /\ Plus(now, 4) \in Tti
         /\ Plus(Plus(now, 4), k) = Plus(now, 4 + k)
         /\ Plus(Plus(now, 4), k) \in Tti
         /\ Offset(now, Plus(Plus(now, 4), k)) = 4 + k
<1>1. now \in 0..Period - 1 /\ Period \in Nat /\ Period >= 80
  BY PeriodIs DEF Tti
<1>2. Plus(now, 4) \in Tti /\ Plus(now, 4) = IF now + 4 < Period THEN now + 4 ELSE now + 4 - Period
  BY <1>1, PlusIs
<1>3. Plus(now, 4 + k) = IF now + (4 + k) < Period THEN now + (4 + k) ELSE now + (4 + k) - Period
  BY <1>1, PlusIs
<1>4. Plus(Plus(now, 4), k) = IF Plus(now, 4) + k < Period THEN Plus(now, 4) + k ELSE Plus(now, 4) + k - Period
  BY <1>1, <1>2, PlusIs
<1>5. Plus(Plus(now, 4), k) = Plus(now, 4 + k)
  BY <1>1, <1>2, <1>3, <1>4
<1>6. 4 + k \in 0..Period - 1
  BY <1>1
<1> QED
  BY <1>2, <1>5, <1>6, Offsets

-----------------------------------------------------------------------------
(* The search for free subframes *)

\* Intervals of numbers.
LEMMA Intervals ==
  /\ IsFiniteSet(0..30)
  /\ IsFiniteSet(0..3) /\ Cardinality(0..3) = 4
  /\ IsFiniteSet(5..7) /\ Cardinality(5..7) = 3
<1>1. \A a, b \in Int : IsFiniteSet(a..b) /\ Cardinality(a..b) = IF a > b THEN 0 ELSE b - a + 1
  BY FS_Interval
<1>2. /\ 0 \in Int /\ 3 \in Int /\ 5 \in Int /\ 7 \in Int /\ 30 \in Int
      /\ ~(0 > 3) /\ 3 - 0 + 1 = 4 /\ ~(5 > 7) /\ 7 - 5 + 1 = 3
  OBVIOUS
<1> QED
  BY <1>1, <1>2, Zenon

\* What is found is good.
LEMMA FirstGoodFinds ==
  ASSUME NEW t, NEW n, NEW taken, NEW x \in FirstGood(t, n, taken)
  PROVE  \E k \in 0..30 : x = Plus(t, k) /\ IsValidDlSf(x) /\ x \notin taken
BY DEF FirstGood, MaxSpan

\* The search ends with n good subframes.
LEMMA FirstGoodEnds ==
  ASSUME NEW t, NEW n \in Nat, NEW taken, NEW S, IsFiniteSet(S), Cardinality(S) >= n, NEW c \in Nat,
         \A i \in S : i \in 0..30 /\ i <= c /\ IsValidDlSf(Plus(t, i)) /\ Plus(t, i) \notin taken,
         NEW x \in FirstGood(t, n, taken)
  PROVE  \E k \in 0..30 : k <= c /\ x = Plus(t, k) /\ IsValidDlSf(x) /\ x \notin taken
<1> DEFINE good == {k \in 0..30 : IsValidDlSf(Plus(t, k)) /\ Plus(t, k) \notin taken}
<1>1. PICK k \in good : x = Plus(t, k) /\ Cardinality({i \in good : i < k}) < n
  BY DEF FirstGood, MaxSpan
<1>2. k <= c
  <2> SUFFICES ASSUME ~(k <= c) PROVE FALSE
    OBVIOUS
  <2> DEFINE below == {i \in good : i < k}
  <2>1. IsFiniteSet(0..30)
    BY Intervals
  <2>2. IsFiniteSet(below) /\ Cardinality(below) \in Nat
    BY <2>1, FS_Subset, FS_CardinalityType
  <2>3. S \subseteq below
    OBVIOUS
  <2>4. Cardinality(S) <= Cardinality(below) /\ Cardinality(S) \in Nat
    BY <2>2, <2>3, FS_Subset, FS_CardinalityType
  <2>5. Cardinality(below) < n
    BY <1>1
  <2> QED
    BY <2>2, <2>4, <2>5
<1> QED
  BY <1>1, <1>2

\* The first good subframe.
LEMMA FirstGoodOne ==
  ASSUME NEW t, NEW taken, NEW k \in 0..30,
         IsValidDlSf(Plus(t, k)), Plus(t, k) \notin taken,
         \A i \in 0..k - 1 : ~(IsValidDlSf(Plus(t, i)) /\ Plus(t, i) \notin taken)
  PROVE  FirstGood(t, 1, taken) = {Plus(t, k)}
<1> DEFINE good == {i \in 0..30 : IsValidDlSf(Plus(t, i)) /\ Plus(t, i) \notin taken}
<1>1. k \in good /\ \A i \in good : i >= k
  OBVIOUS
<1>2. FirstGood(t, 1, taken) = {Plus(t, j) : j \in {j \in good : Cardinality({i \in good : i < j}) < 1}}
  BY DEF FirstGood, MaxSpan
<1>3. {i \in good : i < k} = {}
  BY <1>1
<1>4. Cardinality({i \in good : i < k}) < 1
  BY <1>3, FS_EmptySet
<1>5. ASSUME NEW j \in good, Cardinality({i \in good : i < j}) < 1 PROVE j = k
  <2>1. IsFiniteSet(0..30)
    BY Intervals
  <2>2. IsFiniteSet({i \in good : i < j})
    BY <2>1, FS_Subset
  <2>3. Cardinality({i \in good : i < j}) \in Nat
    BY <2>2, FS_CardinalityType
  <2>4. Cardinality({i \in good : i < j}) = 0
    BY <1>5, <2>3
  <2>5. {i \in good : i < j} = {}
    BY <2>2, <2>4, FS_EmptySet
  <2> QED
    BY <1>1, <2>5
<1> HIDE DEF good
<1> QED
  BY <1>1, <1>2, <1>4, <1>5

\* Three numbers are three; eight are eight.
LEMMA Three ==
  ASSUME NEW a, NEW b, NEW c, a # b, a # c, b # c
  PROVE  IsFiniteSet({a, b, c}) /\ Cardinality({a, b, c}) = 3
<1>1. IsFiniteSet({a}) /\ Cardinality({a}) = 1
  BY FS_Singleton
<1>2. IsFiniteSet({a} \cup {b}) /\ Cardinality({a} \cup {b}) = 2
  BY <1>1, FS_AddElement
<1>3. b \in {a} \cup {b} /\ c \notin {a} \cup {b}
  OBVIOUS
<1>4. IsFiniteSet(({a} \cup {b}) \cup {c}) /\ Cardinality(({a} \cup {b}) \cup {c}) = 3
  BY <1>2, <1>3, FS_AddElement
<1>5. ({a} \cup {b}) \cup {c} = {a, b, c}
  OBVIOUS
<1> QED
  BY <1>4, <1>5

\* The places of the eight subframes of SIB2 are eight.
LEMMA Eight ==
  IsFiniteSet((0..3 \cup 5..7) \cup {10}) /\ Cardinality((0..3 \cup 5..7) \cup {10}) = 8
<1>1. /\ IsFiniteSet(0..3) /\ Cardinality(0..3) = 4
      /\ IsFiniteSet(5..7) /\ Cardinality(5..7) = 3
  BY Intervals
<1>2. 0..3 \cap 5..7 = {}
  OBVIOUS
<1>3. IsFiniteSet(0..3 \cup 5..7) /\ Cardinality(0..3 \cup 5..7) = 7
  <2>1. /\ IsFiniteSet(0..3 \cup 5..7)
        /\ Cardinality(0..3 \cup 5..7) = Cardinality(0..3) + Cardinality(5..7) - Cardinality(0..3 \cap 5..7)
    BY <1>1, FS_Union
  <2> QED
    BY <1>1, <1>2, <2>1, FS_EmptySet
<1>4. 10 \notin 0..3 \cup 5..7
  OBVIOUS
<1> QED
  BY <1>3, <1>4, FS_AddElement

-----------------------------------------------------------------------------
(* Where things are booked *)

\* Subframes after t, by the place of t in the eight frames
LEMMA After ==
  ASSUME NEW t \in Tti, NEW k \in 0..60
  PROVE  /\ Plus(t, k) \in Tti /\ Plus(t, k) \in Nat /\ t % 80 \in 0..79
         /\ Plus(t, k) % 80 = ((t % 80) + k) % 80
         /\ Plus(t, k) % 40 = ((t % 80) + k) % 40
         /\ Plus(t, k) % 20 = ((t % 80) + k) % 20
         /\ IsValidDlSf(Plus(t, k)) <=> ((t % 80) + k) % 20 \notin {0, 5, 9, 10, 15}
         /\ IsSib1Sf(Plus(t, k)) <=> ((t % 80) + k) % 20 = 14
         /\ \A j \in 0..20 : Plus(Plus(t, j), k) = Plus(t, j + k)
<1>1. t \in 0..Period - 1 /\ Period \in Nat /\ Period >= 80 /\ t \in Nat /\ Period <= 10240
  BY PeriodIs, SchedGridAssumption DEF Tti
<1>0. k \in 0..Period
  BY <1>1
<1>2. Plus(t, k) \in Tti /\ Plus(t, k) % 80 = (t + k) % 80
  BY <1>0, PlusIs, PlusMod
<1>3. Plus(t, k) \in Nat /\ Plus(t, k) < 10240
  BY <1>1, <1>2 DEF Tti
<1> DEFINE x == Plus(t, k)
           r == t % 80
<1>4. r \in 0..79 /\ x % 80 = (r + k) % 80
  BY <1>1, <1>2
<1>5. x % 40 = (x % 80) % 40 /\ x % 20 = (x % 80) % 20
  BY <1>3, Cycles
<1>6. IsValidDlSf(x) <=> x % 20 \notin {0, 5, 9, 10, 15}
  BY <1>3, ValidIs
<1>7. IsSib1Sf(x) <=> x % 20 = 14
  BY <1>3, Sib1Is
<1>8. ASSUME NEW j \in 0..20 PROVE Plus(Plus(t, j), k) = Plus(t, j + k)
  <2>0. j \in 0..Period /\ j + k \in 0..Period
    BY <1>1
  <2>1. Plus(t, j) \in Tti /\ Plus(t, j) = IF t + j < Period THEN t + j ELSE t + j - Period
    BY <2>0, PlusIs
  <2>2. Plus(t, j + k) = IF t + (j + k) < Period THEN t + (j + k) ELSE t + (j + k) - Period
    BY <2>0, PlusIs
  <2>3. Plus(Plus(t, j), k) = IF Plus(t, j) + k < Period THEN Plus(t, j) + k ELSE Plus(t, j) + k - Period
    BY <1>0, <2>1, PlusIs
  <2> QED
    BY <1>1, <2>1, <2>2, <2>3
<1> HIDE DEF x, r
<1>9. x % 40 = (r + k) % 40 /\ x % 20 = (r + k) % 20
  BY <1>4, <1>5
<1> QED
  BY <1>2, <1>3, <1>4, <1>6, <1>7, <1>8, <1>9 DEF x, r

\* The RAR is in the first valid subframe, five or more after its DCI.
LEMMA RarLands ==
  ASSUME NEW t \in Tti
  PROVE  \E d \in 5..7 : /\ RarTxTti(t) = Plus(t, d)
                         /\ IsValidDlSf(t) /\ t % 16 < 8 => RarFrom(RarTxTti(t), d)
<1> DEFINE r == t % 80
           Bad == {0, 5, 9, 10, 15}
<1>1. t \in Nat /\ r \in 0..79
  BY After, PeriodIs DEF Tti
<1>2. PICK d \in 5..7 : (r + d) % 20 \notin Bad /\ \A i \in 5..d - 1 : (r + i) % 20 \in Bad
  <2>1. (r + 5) % 20 \notin Bad \/ (r + 6) % 20 \notin Bad \/ (r + 7) % 20 \notin Bad
    BY <1>1
  <2>2. CASE (r + 5) % 20 \notin Bad
    BY <2>2
  <2>3. CASE (r + 5) % 20 \in Bad /\ (r + 6) % 20 \notin Bad
    BY <2>3
  <2>4. CASE (r + 5) % 20 \in Bad /\ (r + 6) % 20 \in Bad /\ (r + 7) % 20 \notin Bad
    BY <2>4
  <2> QED
    BY <2>1, <2>2, <2>3, <2>4
<1>3. ASSUME NEW k \in 0..2
      PROVE  /\ Plus(Plus(t, 5), k) = Plus(t, 5 + k)
             /\ IsValidDlSf(Plus(t, 5 + k)) <=> (r + (5 + k)) % 20 \notin Bad
  <2>1. k \in 0..60 /\ 5 + k \in 0..60 /\ 5 \in 0..20
    OBVIOUS
  <2> QED
    BY <2>1, After, Zenon
<1>4. FirstGood(Plus(t, 5), 1, {}) = {Plus(t, d)}
  <2> DEFINE k == d - 5
  <2>1. k \in 0..2 /\ 5 + k = d
    OBVIOUS
  <2>2. IsValidDlSf(Plus(Plus(t, 5), k))
    BY <1>2, <1>3, <2>1
  <2>3. ASSUME NEW i \in 0..k - 1 PROVE ~IsValidDlSf(Plus(Plus(t, 5), i))
    <3>1. i \in 0..2 /\ 5 + i \in 5..d - 1
      OBVIOUS
    <3> QED
      BY <1>2, <1>3, <3>1
  <2>4. FirstGood(Plus(t, 5), 1, {}) = {Plus(Plus(t, 5), k)}
    BY <2>1, <2>2, <2>3, FirstGoodOne
  <2> QED
    BY <1>3, <2>1, <2>4
<1>5. RarTxTti(t) = Plus(t, d)
  BY <1>4 DEF RarTxTti
<1>6. ASSUME IsValidDlSf(t), t % 16 < 8 PROVE RarFrom(Plus(t, d), d)
  <2>0. d \in 0..60
    OBVIOUS
  <2>1. Plus(t, d) % 80 = (r + d) % 80
    BY <2>0, After, Zenon
  <2>2. \A s \in Nat : IsValidDlSf(s) <=> s % 20 \notin Bad
    BY ValidIs
  <2>3. r % 20 = t % 20 /\ r % 16 = t % 16
    BY <1>1, Cycles
  <2>4. IsValidDlSf(r) /\ r % 16 < 8
    BY <1>1, <1>6, <2>2, <2>3
  <2>5. IsValidDlSf(r + d) /\ \A i \in 5..d - 1 : ~IsValidDlSf(r + i)
    BY <1>1, <1>2, <2>2
  <2> QED
    BY <1>1, <2>1, <2>4, <2>5 DEF RarFrom
<1> QED
  BY <1>5, <1>6

\* SIB2 takes eight subframes of the first twelve.
LEMMA Sib2Lands ==
  ASSUME NEW t \in Tti, t % 40 = 1, NEW x \in FirstGood(t, Sib2NumSf, {})
  PROVE  \E k \in 0..10 : x = Plus(t, k) /\ k + 1 \in Sib2Sfs /\ x % 40 = k + 1
<1> DEFINE S == (0..3 \cup 5..7) \cup {10}
           r == t % 80
<1>1. r \in 0..79 /\ r % 40 = 1
  BY After, PeriodIs, Cycles DEF Tti
<1>2. ASSUME NEW k \in 0..30
      PROVE  /\ IsValidDlSf(Plus(t, k)) <=> (r + k) % 20 \notin {0, 5, 9, 10, 15}
             /\ Plus(t, k) % 40 = (r + k) % 40
  <2>1. k \in 0..60
    OBVIOUS
  <2> QED
    BY <2>1, After, Zenon
<1>3. \A i \in S : i \in 0..30 /\ i <= 10 /\ IsValidDlSf(Plus(t, i)) /\ Plus(t, i) \notin {}
  <2>1. ASSUME NEW i \in S PROVE i \in 0..30 /\ i <= 10 /\ (r + i) % 20 \notin {0, 5, 9, 10, 15}
    <3>1. i \in 0..10 /\ i \notin {4, 8, 9}
      OBVIOUS
    <3>2. r \in {1, 41}
      BY <1>1
    <3> HIDE DEF r, S
    <3> QED
      BY <3>1, <3>2
  <2> QED
    BY <1>2, <2>1
<1>4. PICK k \in 0..30 : k <= 10 /\ x = Plus(t, k) /\ IsValidDlSf(x)
  <2>1. IsFiniteSet(S) /\ Cardinality(S) >= 8
    BY Eight
  <2>2. 8 \in Nat /\ 10 \in Nat /\ x \in FirstGood(t, 8, {})
    BY DEF Sib2NumSf
  <2> HIDE DEF S
  <2> QED
    BY <1>3, <2>1, <2>2, FirstGoodEnds
<1>5. (r + k) % 20 \notin {0, 5, 9, 10, 15} /\ x % 40 = (r + k) % 40
  BY <1>2, <1>4
<1>6. k + 1 \in Sib2Sfs /\ (r + k) % 40 = k + 1
  BY <1>1, <1>4, <1>5 DEF Sib2Sfs
<1> QED
  BY <1>4, <1>5, <1>6

\* The subframes that can have the DCI of data
LEMMA DataDci ==
  ASSUME NEW t \in Tti, IsValidDlSf(t), t % 8 < 2
  PROVE  t % 40 \in {1, 8, 16, 17, 24, 32, 33} /\ (t % 80) % 40 = t % 40
<1>1. t \in Nat
  BY PeriodIs DEF Tti
<1>2. t % 20 \notin {0, 5, 9, 10, 15}
  BY <1>1, ValidIs
<1>3. t % 20 = (t % 40) % 20 /\ t % 8 = (t % 40) % 8 /\ t % 40 \in 0..39
  BY <1>1
<1>4. \A s \in 0..39 : s % 8 < 2 /\ s % 20 \notin {0, 5, 9, 10, 15} => s \in {1, 8, 16, 17, 24, 32, 33}
  OBVIOUS
<1> QED
  BY <1>1, <1>2, <1>3, <1>4, Cycles

(***************************************************************************)
(* Data is in the first three subframes, five or more after its DCI, that  *)
(* are valid and not of SIB1, when nobody else has these.                  *)
(***************************************************************************)
LEMMA DataLands ==
  ASSUME NEW t \in Tti, IsValidDlSf(t), t % 8 < 2, NEW n \in {0, 1, 3}, NEW taken,
         \A x \in Tti : IsSib1Sf(x) => x \in taken,
         \A d \in DataDelays(t % 40) : Plus(t, d) \notin taken,
         NEW x \in FirstGood(Plus(t, 5), n, taken)
  PROVE  \E d \in DataDelays(t % 40) : d \in 5..9 /\ x = Plus(t, d) /\ DataFrom(x, d)
<1> DEFINE r == t % 80
           s == t % 40
<1>1. r \in 0..79 /\ r % 40 = s /\ s \in {1, 8, 16, 17, 24, 32, 33}
  BY After, DataDci
<1>2. ASSUME NEW k \in 0..50
      PROVE  /\ IsValidDlSf(Plus(t, k)) <=> (r + k) % 20 \notin {0, 5, 9, 10, 15}
             /\ IsSib1Sf(Plus(t, k)) <=> (r + k) % 20 = 14
             /\ Plus(t, k) \in Tti /\ Plus(t, k) % 40 = (r + k) % 40
  <2>1. k \in 0..60
    OBVIOUS
  <2>2. IsValidDlSf(Plus(t, k)) <=> (r + k) % 20 \notin {0, 5, 9, 10, 15}
    BY <2>1, After, Zenon
  <2>3. IsSib1Sf(Plus(t, k)) <=> (r + k) % 20 = 14
    BY <2>1, After, Zenon
  <2>4. Plus(t, k) \in Tti /\ Plus(t, k) % 40 = (r + k) % 40
    BY <2>1, After, Zenon
  <2> QED
    BY <2>2, <2>3, <2>4
<1>3. \A k \in 0..50 : (r + k) % 20 = (s + k) % 20 /\ (r + k) % 40 = (s + k) % 40
  BY <1>1
<1>4. ASSUME NEW k \in 0..30 PROVE Plus(Plus(t, 5), k) = Plus(t, 5 + k)
  <2>1. k \in 0..60 /\ 5 \in 0..20
    OBVIOUS
  <2> QED
    BY <2>1, After, Zenon
<1> HIDE DEF r, s
<1>5. PICK a, b, c \in 5..9 : /\ DataDelays(s) = {a, b, c} /\ a < b /\ b < c
                              /\ \A k \in 5..c : (s + k) % 20 \notin {0, 5, 9, 10, 14, 15} => k \in {a, b, c}
                              /\ \A k \in {a, b, c} : (s + k) % 20 \notin {0, 5, 9, 10, 14, 15}
  <2>1. CASE s \in {1, 16, 17, 32}
    <3>1. DataDelays(s) = {5, 6, 7}
      BY <2>1 DEF DataDelays
    <3> QED
      BY <2>1, <3>1
  <2>2. CASE s = 8
    <3>1. DataDelays(s) = {5, 8, 9}
      BY <2>2 DEF DataDelays
    <3> QED
      BY <2>2, <3>1
  <2>3. CASE s = 24
    <3>1. DataDelays(s) = {7, 8, 9}
      BY <2>3 DEF DataDelays
    <3> QED
      BY <2>3, <3>1
  <2>4. CASE s = 33
    <3>1. DataDelays(s) = {5, 6, 8}
      BY <2>4 DEF DataDelays
    <3> QED
      BY <2>4, <3>1
  <2> QED
    BY <1>1, <2>1, <2>2, <2>3, <2>4
<1>6. \E k \in 0..30 : k <= c - 5 /\ x = Plus(Plus(t, 5), k) /\ IsValidDlSf(x) /\ x \notin taken
  <2> DEFINE S == {a - 5, b - 5, c - 5}
             start == Plus(t, 5)
             end == c - 5
  <2>1. IsFiniteSet(S) /\ Cardinality(S) = 3
    <3>1. a - 5 # b - 5 /\ a - 5 # c - 5 /\ b - 5 # c - 5
      BY <1>5
    <3> QED
      BY <3>1, Three, Zenon
  <2>2. ASSUME NEW i \in S
        PROVE  i \in 0..30 /\ i <= c - 5 /\ IsValidDlSf(Plus(Plus(t, 5), i)) /\ Plus(Plus(t, 5), i) \notin taken
    <3>1. i \in 0..30 /\ i <= c - 5 /\ 5 + i \in {a, b, c} /\ 5 + i \in 0..50
      BY <1>5
    <3>2. Plus(Plus(t, 5), i) = Plus(t, 5 + i)
      BY <1>4, <3>1
    <3>3. IsValidDlSf(Plus(t, 5 + i))
      BY <1>2, <1>3, <1>5, <3>1
    <3>4. Plus(t, 5 + i) \notin taken
      BY <1>5, <3>1 DEF s
    <3> QED
      BY <3>1, <3>2, <3>3, <3>4
  <2>3. n \in Nat /\ n <= 3 /\ c - 5 \in Nat
    BY <1>5
  <2> HIDE DEF S
  <2>4. Cardinality(S) >= n
    BY <2>1, <2>3
  <2>5. \A i \in S : i \in 0..30 /\ i <= end /\ IsValidDlSf(Plus(start, i)) /\ Plus(start, i) \notin taken
    BY <2>2
  <2>6. x \in FirstGood(start, n, taken) /\ end \in Nat
    BY <2>3
  <2> SUFFICES \E k \in 0..30 : k <= end /\ x = Plus(start, k) /\ IsValidDlSf(x) /\ x \notin taken
    OBVIOUS
  <2> HIDE DEF start, end
  <2> QED
    BY <2>1, <2>3, <2>4, <2>5, <2>6, FirstGoodEnds
<1>7. PICK k \in 0..30 : k <= c - 5 /\ x = Plus(Plus(t, 5), k) /\ IsValidDlSf(x) /\ x \notin taken
  BY <1>6
<1>8. x = Plus(t, 5 + k) /\ 5 + k \in 5..c /\ 5 + k \in 0..50
  BY <1>4, <1>5, <1>7
<1>9. (s + (5 + k)) % 20 \notin {0, 5, 9, 10, 14, 15} /\ x % 40 = (s + (5 + k)) % 40
  BY <1>2, <1>3, <1>7, <1>8
<1>10. 5 + k \in DataDelays(s)
  BY <1>5, <1>8, <1>9
<1>11. 5 + k \in 5..9
  BY <1>5, <1>8
<1>12. s \in 0..39
  BY <1>1
<1>13. DataFrom(x, 5 + k)
  BY <1>9, <1>10, <1>12 DEF DataFrom
<1> QED
  BY <1>8, <1>10, <1>11, <1>13 DEF s

-----------------------------------------------------------------------------
(* What cannot meet: the calendar keeps things apart that are booked       *)
(* without a look at the table.                                            *)

\* A booking seen from TtiTxDl
LEMMA Seen ==
  ASSUME NEW now \in Tti, NEW k \in 0..60, NEW b, b.tti = Plus(Plus(now, 4), k)
  PROVE  /\ Plus(now, 4) \in Tti /\ b.tti \in Tti /\ b.tti \in Nat
         /\ Offset(now, b.tti) = 4 + k
         /\ Plus(now, 4) % 80 \in 0..79
         /\ b.tti % 80 = ((Plus(now, 4) % 80) + k) % 80
         /\ b.tti % 40 = ((Plus(now, 4) % 80) + k) % 40
         /\ b.tti % 20 = ((Plus(now, 4) % 80) + k) % 20
<1> DEFINE t == Plus(now, 4)
<1>1. t \in Tti /\ Offset(now, Plus(t, k)) = 4 + k
  BY FromTxDl, Zenon
<1> HIDE DEF t
<1>2. /\ Plus(t, k) \in Tti /\ Plus(t, k) \in Nat /\ t % 80 \in 0..79
      /\ Plus(t, k) % 80 = ((t % 80) + k) % 80
      /\ Plus(t, k) % 40 = ((t % 80) + k) % 40
      /\ Plus(t, k) % 20 = ((t % 80) + k) % 20
  <2>1. Plus(t, k) \in Tti /\ Plus(t, k) \in Nat /\ t % 80 \in 0..79
    BY <1>1, After, Zenon
  <2>2. Plus(t, k) % 80 = ((t % 80) + k) % 80
    BY <1>1, After, Zenon
  <2>3. Plus(t, k) % 40 = ((t % 80) + k) % 40 /\ Plus(t, k) % 20 = ((t % 80) + k) % 20
    BY <1>1, After, Zenon
  <2> QED
    BY <2>1, <2>2, <2>3
<1> QED
  BY <1>1, <1>2 DEF t

\* The DCI of a RAR, in numbers
LEMMA RarFromIs ==
  ASSUME NEW x \in Nat, NEW d \in 5..7, RarFrom(x, d)
  PROVE  \E s \in 0..79 : /\ x % 80 = (s + d) % 80
                          /\ s % 20 \notin {0, 5, 9, 10, 15} /\ s % 16 < 8
                          /\ (s + d) % 20 \notin {0, 5, 9, 10, 15}
                          /\ d > 5 => (s + 5) % 20 \in {0, 5, 9, 10, 15}
                          /\ d > 6 => (s + 6) % 20 \in {0, 5, 9, 10, 15}
<1>1. PICK s \in 0..79 : /\ x % 80 = (s + d) % 80
                         /\ IsValidDlSf(s) /\ s % 16 < 8
                         /\ IsValidDlSf(s + d) /\ \A i \in 5..d - 1 : ~IsValidDlSf(s + i)
  BY DEF RarFrom
<1>2. s \in Nat /\ s + d \in Nat /\ s + 5 \in Nat /\ s + 6 \in Nat
  OBVIOUS
<1>3. /\ IsValidDlSf(s) <=> s % 20 \notin {0, 5, 9, 10, 15}
      /\ IsValidDlSf(s + d) <=> (s + d) % 20 \notin {0, 5, 9, 10, 15}
      /\ IsValidDlSf(s + 5) <=> (s + 5) % 20 \notin {0, 5, 9, 10, 15}
      /\ IsValidDlSf(s + 6) <=> (s + 6) % 20 \notin {0, 5, 9, 10, 15}
  BY <1>2, ValidIs
<1>4. /\ d > 5 => ~IsValidDlSf(s + 5)
      /\ d > 6 => ~IsValidDlSf(s + 6)
  <2>1. d > 5 => 5 \in 5..d - 1
    OBVIOUS
  <2>2. d > 6 => 6 \in 5..d - 1
    OBVIOUS
  <2> QED
    BY <1>1, <2>1, <2>2
<1> QED
  BY <1>1, <1>3, <1>4

\* The subframes that data can be in
LEMMA DataFromIs ==
  ASSUME NEW x \in Nat, NEW d \in 5..9, DataFrom(x, d)
  PROVE  /\ x % 40 \in {1, 6, 7, 8, 13, 16, 17, 21, 22, 23, 24, 31, 32, 33, 37, 38, 39}
         /\ x % 40 = 6 => d = 5
         /\ x % 40 = 7 => d = 6
         /\ x % 40 = 8 => d = 7
<1>1. PICK s \in 0..39 : x % 40 = (s + d) % 40 /\ d \in DataDelays(s)
  BY DEF DataFrom
<1>2. \/ s \in {1, 16, 17, 32} /\ d \in {5, 6, 7}
      \/ s = 8 /\ d \in {5, 8, 9}
      \/ s = 24 /\ d \in {7, 8, 9}
      \/ s = 33 /\ d \in {5, 6, 8}
  BY <1>1 DEF DataDelays
<1> QED
  BY <1>1, <1>2

\* SIB1 finds its subframe free.
LEMMA Sib1Free ==
  ASSUME NEW now \in Tti, Plus(now, 4) % 20 = 14, NEW b \in Booking, Came(now, 3, b)
  PROVE  b.tti # Plus(now, 4)
<1> SUFFICES ASSUME b.tti = Plus(now, 4) PROVE FALSE
  OBVIOUS
<1>1. b.tti \in Nat /\ Offset(now, b.tti) = 4 /\ b.tti % 20 = 14
  <2>1. Plus(now, 4) \in Tti /\ Offset(now, Plus(now, 4)) = 4
    <3>1. 4 \in 0..Period - 1
      BY PeriodIs
    <3> QED
      BY <3>1, Offsets
  <2> QED
    BY <2>1, PeriodIs DEF Tti
<1>2. b.what \in Dci \cup {"sib1", "sib2", "rar", "data"}
  BY DEF Booking, Broadcast
<1>3. CASE b.what \in Dci \cup {"sib1"}
  BY <1>1, <1>3 DEF Came
<1>4. CASE b.what = "sib2"
  <2>1. b.tti % 40 \in Sib2Sfs
    BY <1>4 DEF Came
  <2> QED
    BY <1>1, <2>1 DEF Sib2Sfs
<1>5. CASE b.what = "rar"
  <2>1. PICK d \in 5..7 : RarFrom(b.tti, d)
    BY <1>5 DEF Came
  <2>2. PICK s \in 0..79 : /\ b.tti % 80 = (s + d) % 80
                           /\ s % 20 \notin {0, 5, 9, 10, 15}
                           /\ d > 5 => (s + 5) % 20 \in {0, 5, 9, 10, 15}
                           /\ d > 6 => (s + 6) % 20 \in {0, 5, 9, 10, 15}
    BY <1>1, <2>1, RarFromIs
  <2>3. (s + d) % 20 = 14
    BY <1>1, <2>2
  <2>4. CASE d = 5
    BY <2>2, <2>3, <2>4
  <2>5. CASE d = 6
    BY <2>2, <2>3, <2>5
  <2>6. CASE d = 7
    BY <2>2, <2>3, <2>6
  <2> QED
    BY <2>4, <2>5, <2>6
<1>6. CASE b.what = "data"
  <2>1. PICK d \in 5..9 : DataFrom(b.tti, d)
    BY <1>6 DEF Came
  <2>2. b.tti % 40 \in {1, 6, 7, 8, 13, 16, 17, 21, 22, 23, 24, 31, 32, 33, 37, 38, 39}
    BY <1>1, <2>1, DataFromIs
  <2> QED
    BY <1>1, <2>2
<1> QED
  BY <1>2, <1>3, <1>4, <1>5, <1>6

\* Four subframes of the common search space are always free for the DCI of a
\* RAR.
LEMMA FreeForRar ==
  ASSUME NEW now \in Tti, Plus(now, 4) % 80 \in FreeSfs
  PROVE  /\ IsValidDlSf(Plus(now, 4)) /\ Plus(now, 4) % 16 < 8
         /\ ~IsSib1Sf(Plus(now, 4)) /\ ~IsSib2Start(Plus(now, 4))
         /\ \A b \in Booking : Came(now, 3, b) => b.tti # Plus(now, 4)
<1> DEFINE t == Plus(now, 4)
<1>1. t \in Nat /\ Offset(now, t) = 4
  <2>1. Plus(now, 4) \in Tti /\ Offset(now, Plus(now, 4)) = 4
    <3>1. 4 \in 0..Period - 1
      BY PeriodIs
    <3> QED
      BY <3>1, Offsets
  <2> QED
    BY <2>1, PeriodIs DEF Tti
<1>2. t % 80 \in {18, 36, 52, 66}
  BY DEF FreeSfs
<1> HIDE DEF t
<1>3. t % 20 \in {18, 16, 12, 6} /\ t % 16 \in {2, 4} /\ t % 40 \in {18, 36, 12, 26}
  BY <1>1, <1>2
<1>4. IsValidDlSf(t)
  BY <1>1, <1>3, ValidIs
<1>5. ~IsSib1Sf(t)
  BY <1>1, <1>3, Sib1Is
<1>6. ~IsSib2Start(t)
  BY <1>1, <1>3, Sib2Is
<1>7. ASSUME NEW b \in Booking, Came(now, 3, b), b.tti = t PROVE FALSE
  <2>1. Offset(now, b.tti) = 4 /\ b.tti \in Nat
    BY <1>1, <1>7
  <2>2. b.what \in Dci \cup {"sib1", "sib2", "rar", "data"}
    BY DEF Booking, Broadcast
  <2>3. CASE b.what \in Dci \cup {"sib1"}
    BY <1>7, <2>1, <2>3 DEF Came
  <2>4. CASE b.what = "sib2"
    <3>1. b.tti % 40 \in Sib2Sfs
      BY <1>7, <2>4 DEF Came
    <3> QED
      BY <1>3, <1>7, <3>1 DEF Sib2Sfs
  <2>5. CASE b.what = "rar"
    <3>1. PICK d \in 5..7 : RarFrom(b.tti, d)
      BY <1>7, <2>5 DEF Came
    <3>2. PICK s \in 0..79 : /\ b.tti % 80 = (s + d) % 80
                             /\ s % 16 < 8
                             /\ d > 5 => (s + 5) % 20 \in {0, 5, 9, 10, 15}
                             /\ d > 6 => (s + 6) % 20 \in {0, 5, 9, 10, 15}
      BY <2>1, <3>1, RarFromIs
    <3>3. (s + d) % 80 \in {18, 36, 52, 66}
      BY <1>2, <1>7, <3>2
    <3>4. CASE d = 5
      BY <3>2, <3>3, <3>4
    <3>5. CASE d = 6
      BY <3>2, <3>3, <3>5
    <3>6. CASE d = 7
      BY <3>2, <3>3, <3>6
    <3> QED
      BY <3>4, <3>5, <3>6
  <2>6. CASE b.what = "data"
    <3>1. PICK d \in 5..9 : DataFrom(b.tti, d)
      BY <1>7, <2>6 DEF Came
    <3>2. b.tti % 40 \in {1, 6, 7, 8, 13, 16, 17, 21, 22, 23, 24, 31, 32, 33, 37, 38, 39}
      BY <2>1, <3>1, DataFromIs
    <3> QED
      BY <1>3, <1>7, <3>2
  <2> QED
    BY <2>2, <2>3, <2>4, <2>5, <2>6
<1> QED
  BY <1>3, <1>4, <1>5, <1>6, <1>7 DEF t

\* No data is ahead in the subframes of a SIB2 that starts, but for the first.
LEMMA Sib2Free ==
  ASSUME NEW now \in Tti, Plus(now, 4) % 40 = 1, NEW k \in 1..10, k + 1 \in Sib2Sfs,
         NEW b, b.what = "data", Came(now, 3, b)
  PROVE  b.tti # Plus(Plus(now, 4), k)
<1> SUFFICES ASSUME b.tti = Plus(Plus(now, 4), k) PROVE FALSE
  OBVIOUS
<1> DEFINE r == Plus(now, 4) % 80
<1>0. k \in 0..60
  OBVIOUS
<1>1. /\ Plus(now, 4) \in Tti /\ b.tti \in Nat /\ Offset(now, b.tti) = 4 + k /\ r \in 0..79
      /\ b.tti % 40 = (r + k) % 40
  <2>1. Plus(now, 4) \in Tti /\ b.tti \in Nat /\ Offset(now, b.tti) = 4 + k
    BY <1>0, Seen
  <2>2. r \in 0..79 /\ b.tti % 40 = (r + k) % 40
    BY <1>0, Seen
  <2> QED
    BY <2>1, <2>2
<1>2. r % 40 = 1
  <2>1. Plus(now, 4) \in Nat
    BY <1>1, PeriodIs DEF Tti
  <2> QED
    BY <2>1
<1> HIDE DEF r
<1>3. b.tti % 40 = k + 1
  BY <1>1, <1>2
<1>4. PICK d \in 5..9 : DataFrom(b.tti, d) /\ Offset(now, b.tti) - 3 <= d
  BY DEF Came
<1>5. /\ b.tti % 40 \in {1, 6, 7, 8, 13, 16, 17, 21, 22, 23, 24, 31, 32, 33, 37, 38, 39}
      /\ b.tti % 40 = 6 => d = 5
      /\ b.tti % 40 = 7 => d = 6
      /\ b.tti % 40 = 8 => d = 7
  BY <1>1, <1>4, DataFromIs
<1> QED
  BY <1>1, <1>3, <1>4, <1>5

\* Where data will go there is neither system information nor a RAR.
LEMMA DataFree ==
  ASSUME NEW now \in Tti, IsValidDlSf(Plus(now, 4)), Plus(now, 4) % 8 < 2,
         NEW d \in DataDelays(Plus(now, 4) % 40),
         NEW b \in Booking, b.what # "data", Came(now, 3, b)
  PROVE  b.tti # Plus(Plus(now, 4), d)
<1> SUFFICES ASSUME b.tti = Plus(Plus(now, 4), d) PROVE FALSE
  OBVIOUS
<1> DEFINE t == Plus(now, 4)
           r == t % 80
           s == t % 40
<1>1. t \in Tti
  <2>1. 4 \in 0..Period
    BY PeriodIs
  <2> QED
    BY <2>1, PlusIs
<1>2. s \in {1, 8, 16, 17, 24, 32, 33} /\ r % 40 = s
  BY <1>1, DataDci, Zenon
<1>3. /\ d \in 5..9 /\ d \in 0..60
      /\ \/ s \in {1, 16, 17, 32} /\ d \in {5, 6, 7}
         \/ s = 8 /\ d \in {5, 8, 9}
         \/ s = 24 /\ d \in {7, 8, 9}
         \/ s = 33 /\ d \in {5, 6, 8}
  BY <1>2 DEF DataDelays
<1>4. /\ b.tti \in Nat /\ Offset(now, b.tti) = 4 + d /\ r \in 0..79
      /\ b.tti % 80 = (r + d) % 80
      /\ b.tti % 40 = (r + d) % 40
      /\ b.tti % 20 = (r + d) % 20
  <2>1. b.tti \in Nat /\ Offset(now, b.tti) = 4 + d
    BY <1>3, Seen
  <2>2. r \in 0..79 /\ b.tti % 80 = (r + d) % 80
    BY <1>3, Seen
  <2>3. b.tti % 40 = (r + d) % 40 /\ b.tti % 20 = (r + d) % 20
    BY <1>3, Seen
  <2> QED
    BY <2>1, <2>2, <2>3
<1> HIDE DEF t, r, s
<1>5. b.what \in Dci \cup {"sib1", "sib2", "rar"}
  BY DEF Booking, Broadcast
<1>6. CASE b.what \in Dci \cup {"sib1"}
  BY <1>3, <1>4, <1>6 DEF Came
<1>7. CASE b.what = "sib2"
  <2>1. b.tti % 40 \in Sib2Sfs /\ Offset(now, b.tti) - 3 <= (b.tti % 40) - 1
    BY <1>7 DEF Came
  <2>2. b.tti % 40 = (s + d) % 40
    BY <1>2, <1>3, <1>4
  <2> QED
    BY <1>3, <1>4, <2>1, <2>2 DEF Sib2Sfs
<1>8. CASE b.what = "rar"
  <2>1. PICK e \in 5..7 : RarFrom(b.tti, e) /\ Offset(now, b.tti) - 3 <= e
    BY <1>8 DEF Came
  <2>2. PICK z \in 0..79 : /\ b.tti % 80 = (z + e) % 80
                           /\ z % 20 \notin {0, 5, 9, 10, 15} /\ z % 16 < 8
                           /\ e > 5 => (z + 5) % 20 \in {0, 5, 9, 10, 15}
                           /\ e > 6 => (z + 6) % 20 \in {0, 5, 9, 10, 15}
    BY <1>4, <2>1, RarFromIs
  <2>3. e > d
    BY <1>3, <1>4, <2>1
  <2>4. (z + e) % 80 = (r + d) % 80 /\ r % 20 \in {1, 8, 16, 17, 4, 12, 13}
    BY <1>2, <1>4, <2>2
  <2>5. CASE d = 5 /\ e = 6
    <3>1. z % 20 = (r + 19) % 20 /\ (z + 5) % 20 = (r + 4) % 20
      BY <1>4, <2>4, <2>5
    <3> QED
      BY <1>4, <2>2, <2>4, <2>5, <3>1
  <2>6. CASE d = 5 /\ e = 7
    <3>1. (z + 5) % 20 = (r + 3) % 20
      BY <1>4, <2>4, <2>6
    <3> QED
      BY <1>4, <2>2, <2>4, <2>6, <3>1
  <2>7. CASE d = 6 /\ e = 7
    <3>1. z % 20 = (r + 19) % 20 /\ (z + 5) % 20 = (r + 4) % 20 /\ (z + 6) % 20 = (r + 5) % 20
      BY <1>4, <2>4, <2>7
    <3> QED
      BY <1>4, <2>2, <2>4, <2>7, <3>1
  <2> QED
    BY <1>3, <2>1, <2>3, <2>5, <2>6, <2>7
<1> QED
  BY <1>5, <1>6, <1>7, <1>8

-----------------------------------------------------------------------------
(* Whose turn it is *)

\* The time since a TTI
LEMMA Since ==
  ASSUME NEW last \in Tti, NEW e \in 0..Period - 1
  PROVE  (Plus(last, e) + Period - last) % Period = e
<1>1. Period \in Nat \ {0} /\ last \in 0..Period - 1
  BY PeriodIs DEF Tti
<1>2. e \in 0..Period
  BY <1>1
<1>3. Plus(last, e) = IF last + e < Period THEN last + e ELSE last + e - Period
  BY <1>2, PlusIs
<1>4. CASE last + e < Period
  <2>1. Plus(last, e) + Period - last = e + Period
    BY <1>1, <1>3, <1>4
  <2>2. (e + Period) % Period = e
    BY <1>1
  <2> QED
    BY <2>1, <2>2
<1>5. CASE ~(last + e < Period)
  <2>1. Plus(last, e) + Period - last = e
    BY <1>1, <1>3, <1>5
  <2> QED
    BY <1>1, <2>1
<1> QED
  BY <1>4, <1>5

\* Counting round n users
LEMMA Round ==
  ASSUME NEW n \in Nat \ {0}, NEW a \in 0..n - 1, NEW i \in 0..n - 1
  PROVE  (a + n - i) % n = IF a >= i THEN a - i ELSE a + n - i
<1>1. CASE a >= i
  <2>1. a + n - i = (a - i) + n /\ a - i \in 0..n - 1
    BY <1>1
  <2>2. ((a - i) + n) % n = a - i
    BY <2>1
  <2> QED
    BY <1>1, <2>1, <2>2
<1>2. CASE ~(a >= i)
  <2>1. a + n - i \in 0..n - 1
    BY <1>2
  <2> QED
    BY <1>2, <2>1
<1> QED
  BY <1>1, <1>2

\* Users are numbered in the order of their RNTIs.
LEMMA Ranks ==
  ASSUME NEW U, IsFiniteSet(U), U \subseteq Nat, NEW u \in U, NEW v \in U, u < v
  PROVE  /\ Cardinality({w \in U : w < u}) \in Nat /\ Cardinality({w \in U : w < v}) \in Nat
         /\ Cardinality({w \in U : w < u}) < Cardinality({w \in U : w < v})
<1> DEFINE A == {w \in U : w < u}
           B == {w \in U : w < v}
<1>0. u \in Nat /\ v \in Nat /\ \A w \in U : w \in Nat
  OBVIOUS
<1>1. A \subseteq B /\ u \in B /\ u \notin A /\ B \subseteq U
  <2>1. ASSUME NEW w \in U, w < u PROVE w < v
    BY <1>0, <2>1
  <2>2. A \subseteq B
    BY <2>1
  <2>3. u \in B /\ u \notin A
    BY <1>0
  <2>4. B \subseteq U
    OBVIOUS
  <2> QED
    BY <2>2, <2>3, <2>4
<1> HIDE DEF A, B
<1>2. IsFiniteSet(B) /\ IsFiniteSet(A)
  BY <1>1, FS_Subset
<1>3. Cardinality(A) \in Nat /\ Cardinality(B) \in Nat
  BY <1>2, FS_CardinalityType
<1>4. Cardinality(A) <= Cardinality(B) /\ Cardinality(A) # Cardinality(B)
  BY <1>1, <1>2, FS_Subset
<1>5. Cardinality(A) < Cardinality(B)
  BY <1>3, <1>4
<1> QED
  BY <1>3, <1>5 DEF A, B

\* They are numbered from zero.
LEMMA RankBound ==
  ASSUME NEW U, IsFiniteSet(U), U \subseteq Nat, NEW u \in U
  PROVE  /\ Cardinality(U) \in Nat \ {0}
         /\ Cardinality({w \in U : w < u}) \in 0..Cardinality(U) - 1
<1> DEFINE A == {w \in U : w < u}
<1>1. A \subseteq U /\ u \notin A
  OBVIOUS
<1> HIDE DEF A
<1>2. IsFiniteSet(A)
  BY <1>1, FS_Subset
<1>3. Cardinality(A) \in Nat /\ Cardinality(U) \in Nat
  BY <1>2, FS_CardinalityType
<1>4. Cardinality(A) <= Cardinality(U) /\ Cardinality(A) # Cardinality(U)
  BY <1>1, <1>2, FS_Subset
<1>5. Cardinality(A) \in 0..Cardinality(U) - 1 /\ Cardinality(U) \in Nat \ {0}
  BY <1>3, <1>4
<1> QED
  BY <1>5 DEF A

\* At most one user is the first.
LEMMA OneFirst ==
  ASSUME users \subseteq Rnti, NEW t \in Nat, NEW C, C \subseteq users,
         NEW u \in FirstOf(C, t % Cardinality(users)),
         NEW v \in FirstOf(C, t % Cardinality(users))
  PROVE  u = v
<1> DEFINE N == Cardinality(users)
           i == t % N
           rank(w) == Cardinality({x \in users : x < w})
<1>1. u \in users /\ v \in users /\ u \in C /\ v \in C
  BY DEF FirstOf
<1>2. IsFiniteSet(users) /\ users \subseteq Nat
  <2>1. Rnti \subseteq Nat /\ IsFiniteSet(Rnti)
    BY SchedGridAssumption
  <2> QED
    BY <2>1, FS_Subset
<1>3. N \in Nat \ {0} /\ rank(u) \in 0..N - 1 /\ rank(v) \in 0..N - 1
  BY <1>1, <1>2, RankBound
<1>4. Turn(u, i) = (rank(u) + N - i) % N /\ Turn(v, i) = (rank(v) + N - i) % N
  BY DEF Turn
<1>5. Turn(u, i) <= Turn(v, i) /\ Turn(v, i) <= Turn(u, i)
  BY <1>1 DEF FirstOf
<1>6. rank(u) # rank(v) \/ u = v
  <2>1. u < v => rank(u) < rank(v) /\ rank(u) \in Nat /\ rank(v) \in Nat
    BY <1>1, <1>2, Ranks
  <2>2. v < u => rank(v) < rank(u) /\ rank(u) \in Nat /\ rank(v) \in Nat
    BY <1>1, <1>2, Ranks
  <2>3. u \in Nat /\ v \in Nat
    BY <1>1, <1>2
  <2> HIDE DEF rank
  <2> QED
    BY <2>1, <2>2, <2>3
<1> HIDE DEF N, rank
<1>7. i \in 0..N - 1
  BY <1>3
<1> HIDE DEF i
<1>8. /\ Turn(u, i) = IF rank(u) >= i THEN rank(u) - i ELSE rank(u) + N - i
      /\ Turn(v, i) = IF rank(v) >= i THEN rank(v) - i ELSE rank(v) + N - i
  BY <1>3, <1>4, <1>7, Round
<1> QED
  BY <1>3, <1>5, <1>6, <1>7, <1>8

-----------------------------------------------------------------------------
(* The parts of the passes *)

Cleared == {b \in dl : b.tti # tti_rx}
WithSibs == Cleared \cup AllocSibs(TtiTxDl, Cleared)
SendRar == RarFits(TtiTxDl, WithSibs)
WithRar == IF SendRar THEN WithSibs \cup RarBookings(TtiTxDl, Head(pending_rars)) ELSE WithSibs
DlTakers == IF users # {} /\ DlDciFits(TtiTxDl, WithRar)
              THEN FirstOf(DlCandidates(TtiTxDl), TtiTxDl % Cardinality(users))
              ELSE {}
Expired ==
  users # {} /\ last_alloc # NoAlloc /\ (TtiTxDl + Period - last_alloc) % Period > AllocGap
UlTakers == IF users # {} /\ UlFits(TtiTxDl, ul_sched_table \ {tti_rx})
              THEN FirstOf(UlCandidates, TtiTxUl % Cardinality(users))
              ELSE {}

\* The downlink pass, by these names.
LEMMA DlPassIs ==
  ASSUME DlPass
  PROVE  /\ pass = "dl" /\ pass' = "ul" /\ tti_rx' = tti_rx /\ users' = users
         /\ dl' = WithRar \cup UNION {DlDataBookings(TtiTxDl, u, WithRar) : u \in DlTakers}
         /\ sib1_sf_idx' = IF Book(TtiTxDl, "sib1", 0) \in WithSibs THEN (sib1_sf_idx + 1) % Sib1NumSf
                                                                 ELSE sib1_sf_idx
         /\ pending_rars' = IF SendRar THEN Tail(pending_rars) ELSE pending_rars
         /\ rar_wait' = IF SendRar \/ pending_rars = <<>> THEN 0 ELSE rar_wait + 1
         /\ last_alloc' = IF DlTakers # {} THEN TtiTxDl ELSE IF Expired THEN NoAlloc ELSE last_alloc
BY DEF DlPass, DlTakers, Expired, WithRar, SendRar, WithSibs, Cleared

\* The uplink pass, by these names.
LEMMA UlPassIs ==
  ASSUME UlPass
  PROVE  /\ pass = "ul" /\ pass' = "dl" /\ tti_rx' = Plus(tti_rx, 1) /\ users' = users
         /\ dl' = dl \cup {Book(TtiTxDl, "ul_dci", u) : u \in UlTakers}
         /\ sib1_sf_idx' = sib1_sf_idx /\ pending_rars' = pending_rars /\ rar_wait' = rar_wait
         /\ last_alloc' = last_alloc
BY DEF UlPass, UlTakers

\* What dl_sched_table has
LEMMA MarkedIs ==
  ASSUME NEW S, NEW x
  PROVE  x \in Marked(S) <=> \E c \in S : c.what # "ul_dci" /\ c.tti = x
BY DEF Marked

\* The parts of a booking
LEMMA BookIs ==
  ASSUME NEW t, NEW what, NEW r
  PROVE  /\ Book(t, what, r).tti = t /\ Book(t, what, r).what = what /\ Book(t, what, r).rnti = r
         /\ (t \in Tti /\ what \in Dci \cup Broadcast \cup {"rar", "data"} /\ r \in Rnti \cup {0})
              => Book(t, what, r) \in Booking
BY DEF Book, Booking

\* A valid subframe is its own first good one.
LEMMA FirstIsSelf ==
  ASSUME NEW t \in Tti, IsValidDlSf(t)
  PROVE  t \in FirstGood(t, Sib2NumSf, {})
<1> DEFINE good == {k \in 0..30 : IsValidDlSf(Plus(t, k)) /\ Plus(t, k) \notin {}}
<1>1. Plus(t, 0) = t
  <2>1. 0 \in 0..Period /\ t \in 0..Period - 1 /\ Period \in Nat
    BY PeriodIs DEF Tti
  <2>2. Plus(t, 0) = IF t + 0 < Period THEN t + 0 ELSE t + 0 - Period
    BY <2>1, PlusIs
  <2> QED
    BY <2>1, <2>2
<1>2. 0 \in good
  BY <1>1
<1>3. {i \in good : i < 0} = {}
  OBVIOUS
<1>4. Cardinality({i \in good : i < 0}) < 8
  BY <1>3, FS_EmptySet
<1>5. FirstGood(t, Sib2NumSf, {}) = {Plus(t, j) : j \in {j \in good : Cardinality({i \in good : i < j}) < 8}}
  BY DEF FirstGood, MaxSpan, Sib2NumSf
<1> HIDE DEF good
<1> QED
  BY <1>1, <1>2, <1>4, <1>5

\* What bc_sched::alloc_sibs books.
LEMMA SibsAre ==
  ASSUME NEW t \in Tti, NEW S, NEW b \in AllocSibs(t, S)
  PROVE  /\ t \notin Marked(S) /\ t \in Marked(AllocSibs(t, S)) /\ b \in Booking
         /\ \/ b = Book(t, "sib1", 0) /\ t % 20 = 14
            \/ /\ b.what = "sib2" /\ b.rnti = 0 /\ t % 40 = 1
               /\ \E k \in 0..10 : b.tti = Plus(t, k) /\ k + 1 \in Sib2Sfs /\ b.tti % 40 = k + 1
<1>0. t \in Nat
  BY PeriodIs DEF Tti
<1>1. t \notin Marked(S)
  BY DEF AllocSibs
<1>2. CASE IsSib1Sf(t)
  <2>1. AllocSibs(t, S) = {Book(t, "sib1", 0)} /\ b = Book(t, "sib1", 0)
    BY <1>1, <1>2 DEF AllocSibs
  <2>2. b \in Booking /\ b.what = "sib1" /\ b.tti = t
    BY <2>1, BookIs DEF Broadcast
  <2>3. t \in Marked(AllocSibs(t, S))
    BY <2>2, MarkedIs
  <2>4. t % 20 = 14
    BY <1>0, <1>2, Sib1Is
  <2> QED
    BY <1>1, <2>1, <2>2, <2>3, <2>4
<1>3. CASE ~IsSib1Sf(t)
  <2>1. /\ AllocSibs(t, S) = {Book(x, "sib2", 0) : x \in FirstGood(t, Sib2NumSf, {})}
        /\ IsValidDlSf(t) /\ IsSib2Start(t)
    BY <1>1, <1>3 DEF AllocSibs
  <2>2. PICK x \in FirstGood(t, Sib2NumSf, {}) : b = Book(x, "sib2", 0)
    BY <2>1
  <2>3. t % 40 = 1
    BY <1>0, <2>1, Sib2Is
  <2>4. PICK k \in 0..10 : x = Plus(t, k) /\ k + 1 \in Sib2Sfs /\ x % 40 = k + 1
    BY <2>2, <2>3, Sib2Lands
  <2>5. x \in Tti
    <3>1. k \in 0..Period
      BY PeriodIs
    <3> QED
      BY <2>4, <3>1, PlusIs
  <2>6. b \in Booking /\ b.what = "sib2" /\ b.tti = x /\ b.rnti = 0
    BY <2>2, <2>5, BookIs DEF Broadcast
  <2>7. Book(t, "sib2", 0) \in AllocSibs(t, S)
    BY <2>1, FirstIsSelf
  <2>8. t \in Marked(AllocSibs(t, S))
    <3>1. Book(t, "sib2", 0).what = "sib2" /\ Book(t, "sib2", 0).tti = t
      BY BookIs
    <3> QED
      BY <2>7, <3>1, MarkedIs
  <2> QED
    BY <1>1, <2>3, <2>4, <2>6, <2>8
<1> QED
  BY <1>2, <1>3

\* What ra_sched::dl_sched books.
LEMMA RarsAre ==
  ASSUME NEW t \in Tti, NEW r \in Rnti, NEW b \in RarBookings(t, r)
  PROVE  /\ b \in Booking /\ t \in Marked(RarBookings(t, r)) /\ b.rnti = r
         /\ \/ b = Book(t, "rar_dci", r)
            \/ /\ b = Book(b.tti, "rar", r)
               /\ \E d \in 5..7 : /\ b.tti = Plus(t, d)
                                  /\ (IsValidDlSf(t) /\ t % 16 < 8) => RarFrom(b.tti, d)
<1>1. RarBookings(t, r) = {Book(t, "rar_dci", r), Book(RarTxTti(t), "rar", r)}
  BY DEF RarBookings
<1>2. t \in Marked(RarBookings(t, r))
  <2>1. Book(t, "rar_dci", r).what = "rar_dci" /\ Book(t, "rar_dci", r).tti = t
    BY BookIs
  <2> QED
    BY <1>1, <2>1, MarkedIs
<1>3. PICK d \in 5..7 : /\ RarTxTti(t) = Plus(t, d)
                        /\ (IsValidDlSf(t) /\ t % 16 < 8) => RarFrom(RarTxTti(t), d)
  BY RarLands
<1>4. RarTxTti(t) \in Tti
  <2>1. d \in 0..Period
    BY PeriodIs
  <2> QED
    BY <1>3, <2>1, PlusIs
<1>5. CASE b = Book(t, "rar_dci", r)
  BY <1>2, <1>5, BookIs DEF Dci
<1>6. CASE b = Book(RarTxTti(t), "rar", r)
  <2>1. b.tti = RarTxTti(t) /\ b.rnti = r /\ b \in Booking
    BY <1>4, <1>6, BookIs
  <2> QED
    BY <1>2, <1>3, <1>6, <2>1
<1> QED
  BY <1>1, <1>5, <1>6

\* TTIs as numbers
LEMMA TtiIs ==
  ASSUME NEW t \in Tti
  PROVE  t \in Nat /\ t \in 0..Period - 1 /\ t < Period /\ t < 10240 /\ Period \in Nat /\ Period >= 80
BY PeriodIs, SchedGridAssumption DEF Tti

\* Once an allocation is old, its data is over.
LEMMA OldAlloc ==
  ASSUME NEW now \in Tti, NEW last \in Tti, NEW e \in 0..AllocGap, Plus(now, 3) = Plus(last, e)
  PROVE  /\ Plus(now, 4) = Plus(last, e + 1)
         /\ (Plus(now, 4) + Period - last) % Period = e + 1
         /\ e = AllocGap => \A d \in 5..9 :
              /\ Offset(now, Plus(last, d)) \notin 4..20
              /\ \A c \in 5..9 : Plus(Plus(now, 4), c) # Plus(last, d)
<1>1. /\ now \in 0..Period - 1 /\ last \in 0..Period - 1 /\ Period \in Nat /\ Period >= 80
      /\ AllocGap \in Nat /\ AllocGap >= 9 /\ AllocGap <= Period - 20
  BY TtiIs, SchedGridAssumption
<1>2. 3 \in 0..Period /\ 4 \in 0..Period /\ e \in 0..Period /\ e + 1 \in 0..Period /\ e + 1 \in 0..Period - 1
  BY <1>1
<1>3. /\ Plus(now, 3) = IF now + 3 < Period THEN now + 3 ELSE now + 3 - Period
      /\ Plus(now, 4) = IF now + 4 < Period THEN now + 4 ELSE now + 4 - Period
      /\ Plus(last, e) = IF last + e < Period THEN last + e ELSE last + e - Period
      /\ Plus(last, e + 1) = IF last + (e + 1) < Period THEN last + (e + 1) ELSE last + (e + 1) - Period
      /\ Plus(now, 4) \in Tti
  BY <1>2, PlusIs
<1>4. Plus(now, 4) = Plus(last, e + 1)
  BY <1>1, <1>3
<1>5. (Plus(now, 4) + Period - last) % Period = e + 1
  BY <1>2, <1>4, Since
<1>6. ASSUME e = AllocGap, NEW d \in 5..9
      PROVE  /\ Offset(now, Plus(last, d)) \notin 4..20
             /\ \A c \in 5..9 : Plus(Plus(now, 4), c) # Plus(last, d)
  <2>1. Plus(last, d) = IF last + d < Period THEN last + d ELSE last + d - Period
    <3>1. d \in 0..Period
      BY <1>1
    <3> QED
      BY <3>1, PlusIs
  <2>2. Offset(now, Plus(last, d)) \notin 4..20
    BY <1>1, <1>3, <1>6, <2>1 DEF Offset
  <2>3. ASSUME NEW c \in 5..9 PROVE Plus(Plus(now, 4), c) # Plus(last, d)
    <3>1. c \in 0..Period
      BY <1>1
    <3>2. Plus(Plus(now, 4), c) = IF Plus(now, 4) + c < Period THEN Plus(now, 4) + c ELSE Plus(now, 4) + c - Period
      BY <1>3, <3>1, PlusIs
    <3> QED
      BY <1>1, <1>3, <1>6, <2>1, <3>2
  <2> QED
    BY <2>2, <2>3
<1> QED
  BY <1>4, <1>5, <1>6

\* TtiTxDl and TtiTxUl are TTIs.
LEMMA TxTtis ==
  ASSUME TypeOK
  PROVE  /\ tti_rx \in Tti /\ TtiTxDl \in Tti /\ TtiTxUl \in Tti
         /\ Offset(tti_rx, TtiTxDl) = 4 /\ TtiTxDl = Plus(tti_rx, 4)
         /\ Plus(tti_rx, 1) \in Tti
<1>1. tti_rx \in Tti
  BY DEF TypeOK
<1>2. /\ 4 \in 0..Period - 1 /\ 13 \in 0..Period - 1 /\ 1 \in 0..Period - 1
  BY PeriodIs
<1> QED
  BY <1>1, <1>2, Offsets DEF TtiTxDl, TtiTxUl

\* At most one user gets data, and it has some.
LEMMA DlTakersAre ==
  ASSUME TypeOK
  PROVE  /\ DlTakers \subseteq users
         /\ \A u, v \in DlTakers : u = v
         /\ \A u \in DlTakers :
              /\ DlDciFits(TtiTxDl, WithRar) /\ dl_sfs[u] \in {0, 1, 3} /\ users # {}
              /\ \/ last_alloc = NoAlloc
                 \/ (TtiTxDl + Period - last_alloc) % Period > AllocGap
<1>1. users \subseteq Rnti /\ dl_sfs \in [Rnti -> {0, 1, 3}]
  BY DEF TypeOK
<1>2. DlCandidates(TtiTxDl) \subseteq users
  BY DEF DlCandidates
<1>3. DlTakers \subseteq DlCandidates(TtiTxDl)
  BY DEF DlTakers, FirstOf
<1>4. ASSUME NEW u \in DlTakers, NEW v \in DlTakers PROVE u = v
  <2>1. /\ u \in FirstOf(DlCandidates(TtiTxDl), TtiTxDl % Cardinality(users))
        /\ v \in FirstOf(DlCandidates(TtiTxDl), TtiTxDl % Cardinality(users))
    BY DEF DlTakers
  <2>2. TtiTxDl \in Nat
    BY TxTtis, TtiIs
  <2> QED
    BY <1>1, <1>2, <2>1, <2>2, OneFirst
<1>5. ASSUME NEW u \in DlTakers
      PROVE  /\ DlDciFits(TtiTxDl, WithRar) /\ dl_sfs[u] \in {0, 1, 3} /\ users # {}
             /\ \/ last_alloc = NoAlloc
                \/ (TtiTxDl + Period - last_alloc) % Period > AllocGap
  <2>1. DlDciFits(TtiTxDl, WithRar) /\ users # {}
    BY DEF DlTakers
  <2>2. u \in DlCandidates(TtiTxDl)
    BY <1>3
  <2>3. u \in Rnti
    BY <1>1, <1>2, <2>2
  <2> QED
    BY <1>1, <2>1, <2>2, <2>3 DEF DlCandidates
<1> QED
  BY <1>2, <1>3, <1>4, <1>5

\* At most one user gets an uplink grant.
LEMMA UlTakersAre ==
  ASSUME TypeOK
  PROVE  /\ UlTakers \subseteq ul_pending /\ UlTakers \subseteq users
         /\ \A u, v \in UlTakers : u = v
         /\ UlTakers # {} => TtiTxDl \notin Marked(dl)
<1>1. users \subseteq Rnti /\ ul_pending \subseteq users
  BY DEF TypeOK
<1>2. UlCandidates \subseteq ul_pending
  BY DEF UlCandidates
<1>3. UlTakers \subseteq UlCandidates
  BY DEF UlTakers, FirstOf
<1>4. ASSUME NEW u \in UlTakers, NEW v \in UlTakers PROVE u = v
  <2>1. /\ u \in FirstOf(UlCandidates, TtiTxUl % Cardinality(users))
        /\ v \in FirstOf(UlCandidates, TtiTxUl % Cardinality(users))
    BY DEF UlTakers
  <2>2. TtiTxUl \in Nat /\ UlCandidates \subseteq users
    BY <1>1, <1>2, TxTtis, TtiIs
  <2> QED
    BY <1>1, <2>1, <2>2, OneFirst
<1>5. UlTakers # {} => TtiTxDl \notin Marked(dl)
  BY DEF UlTakers, UlFits
<1> QED
  BY <1>1, <1>2, <1>3, <1>4, <1>5

\* What was booked before the pass is not ahead where it matters.
LEMMA OldBookings ==
  ASSUME TypeOK, AllCame, pass = "dl", NEW b \in Cleared
  PROVE  /\ b \in dl /\ b \in Booking /\ b.tti # tti_rx /\ Came(tti_rx, 3, b)
         /\ b.what = "ul_dci" => Offset(tti_rx, b.tti) <= 3
<1>1. b \in dl /\ b.tti # tti_rx
  BY DEF Cleared
<1>2. LastPass = 3
  BY DEF LastPass
<1> QED
  BY <1>1, <1>2 DEF AllCame, TypeOK

\* What alloc_dl_user books: data finds three subframes in time.
LEMMA DataAre ==
  ASSUME TypeOK, AllCame, DataRecent, pass = "dl",
         NEW u \in DlTakers, NEW b \in DlDataBookings(TtiTxDl, u, WithRar)
  PROVE  /\ b \in Booking /\ b.rnti = u
         /\ \/ b = Book(TtiTxDl, "dl_dci", u)
            \/ /\ b = Book(b.tti, "data", u)
               /\ b.tti \notin Marked(WithRar)
               /\ \E d \in DataDelays(TtiTxDl % 40) :
                    d \in 5..9 /\ b.tti = Plus(TtiTxDl, d) /\ DataFrom(b.tti, d)
<1> DEFINE t == TtiTxDl
           taken == Marked(WithRar) \cup {x \in Tti : IsSib1Sf(x)}
<1>1. t \in Tti /\ tti_rx \in Tti /\ t = Plus(tti_rx, 4) /\ Offset(tti_rx, t) = 4
  BY TxTtis
<1>2. IsValidDlSf(t) /\ t \notin Marked(WithRar) /\ t % 8 < 2
  BY DlTakersAre DEF DlDciFits
<1>3. u \in users /\ u \in Rnti /\ dl_sfs[u] \in {0, 1, 3}
  BY DlTakersAre DEF TypeOK
<1>4. ASSUME NEW d \in DataDelays(t % 40), Plus(t, d) \in taken PROVE FALSE
  <2>1. t % 40 \in {1, 8, 16, 17, 24, 32, 33} /\ (t % 80) % 40 = t % 40
    BY <1>1, <1>2, DataDci
  <2>2. d \in 5..9 /\ d \in 0..60 /\ ((t % 40) + d) % 20 # 14
    <3> DEFINE s == t % 40
    <3>1. d \in DataDelays(s) /\ s \in {1, 8, 16, 17, 24, 32, 33}
      BY <2>1
    <3> HIDE DEF s
    <3>2. \/ s \in {1, 16, 17, 32} /\ d \in {5, 6, 7}
          \/ s = 8 /\ d \in {5, 8, 9}
          \/ s = 24 /\ d \in {7, 8, 9}
          \/ s = 33 /\ d \in {5, 6, 8}
      BY <3>1 DEF DataDelays
    <3>3. d \in 5..9 /\ d \in 0..60 /\ (s + d) % 20 # 14
      BY <3>2
    <3> QED
      BY <3>3 DEF s
  <2>3. ~IsSib1Sf(Plus(t, d))
    <3>1. t % 80 \in 0..79 /\ (IsSib1Sf(Plus(t, d)) <=> ((t % 80) + d) % 20 = 14)
      BY <1>1, <2>2, After
    <3> QED
      BY <2>1, <2>2, <3>1
  <2>4. PICK c \in WithRar : c.what # "ul_dci" /\ c.tti = Plus(t, d)
    BY <1>4, <2>3, MarkedIs
  <2>5. c \in WithSibs
    <3>1. CASE ~SendRar
      BY <3>1 DEF WithRar
    <3>2. CASE SendRar
      <4>1. pending_rars # <<>> /\ pending_rars \in Seq(Rnti)
        BY <3>2 DEF SendRar, RarFits, TypeOK
      <4>2. Head(pending_rars) \in Rnti
        BY <4>1
      <4>3. Book(t, "rar_dci", Head(pending_rars)) \in WithRar
        BY <3>2 DEF WithRar, RarBookings
      <4>4. t \in Marked(WithRar)
        BY <4>3, BookIs, MarkedIs
      <4> QED
        BY <1>2, <4>4
    <3> QED
      BY <3>1, <3>2
  <2>6. c \in Cleared
    <3>1. ASSUME c \in AllocSibs(t, Cleared) PROVE FALSE
      <4>1. t \in Marked(AllocSibs(t, Cleared))
        BY <1>1, <3>1, SibsAre
      <4>2. AllocSibs(t, Cleared) \subseteq WithRar
        BY DEF WithRar, WithSibs
      <4> QED
        BY <1>2, <4>1, <4>2, MarkedIs
    <3> QED
      BY <2>5, <3>1 DEF WithSibs
  <2>7. c \in dl /\ c \in Booking /\ Came(tti_rx, 3, c)
    BY <2>6, OldBookings
  <2>8. c.what = "data"
    BY <1>1, <1>2, <2>4, <2>7, DataFree
  <2>9. Offset(tti_rx, c.tti) = 4 + d
    BY <1>1, <2>2, <2>4, FromTxDl
  <2>10. /\ last_alloc # NoAlloc /\ \E a \in 5..9 : c.tti = Plus(last_alloc, a)
         /\ \E e \in 0..AllocGap : Plus(tti_rx, 3) = Plus(last_alloc, e)
    <3>1. LastPass = 3
      BY DEF LastPass
    <3>2. ~(Offset(tti_rx, c.tti) <= 3)
      BY <2>2, <2>9
    <3> QED
      BY <2>7, <2>8, <3>1, <3>2 DEF DataRecent
  <2>11. PICK a \in 5..9 : c.tti = Plus(last_alloc, a)
    BY <2>10
  <2>12. PICK e \in 0..AllocGap : Plus(tti_rx, 3) = Plus(last_alloc, e)
    BY <2>10
  <2>13. last_alloc \in Tti
    BY <2>10 DEF TypeOK
  <2>14. (t + Period - last_alloc) % Period = e + 1
    BY <1>1, <2>12, <2>13, OldAlloc
  <2>15. (t + Period - last_alloc) % Period > AllocGap
    BY <2>10, DlTakersAre
  <2>16. e = AllocGap
    BY <2>14, <2>15, SchedGridAssumption
  <2>17. Plus(t, d) # Plus(last_alloc, a)
    BY <1>1, <2>2, <2>12, <2>13, <2>16, OldAlloc
  <2> QED
    BY <2>4, <2>11, <2>17
<1>5. CASE b = Book(t, "dl_dci", u)
  BY <1>1, <1>3, <1>5, BookIs DEF Dci
<1>6. CASE \E x \in FirstGood(Plus(t, 5), dl_sfs[u], taken) : b = Book(x, "data", u)
  <2>1. PICK x \in FirstGood(Plus(t, 5), dl_sfs[u], taken) : b = Book(x, "data", u)
    BY <1>6
  <2>2. \A y \in Tti : IsSib1Sf(y) => y \in taken
    OBVIOUS
  <2>3. \A d \in DataDelays(t % 40) : Plus(t, d) \notin taken
    BY <1>4
  <2>4. x \notin taken
    BY FirstGoodFinds
  <2>5. x \notin Marked(WithRar)
    BY <2>4
  <2> HIDE DEF taken
  <2>6. PICK d \in DataDelays(t % 40) : d \in 5..9 /\ x = Plus(t, d) /\ DataFrom(x, d)
    BY <1>1, <1>2, <1>3, <2>1, <2>2, <2>3, DataLands
  <2>7. x \in Tti
    <3>1. d \in 0..Period
      BY <2>6, PeriodIs
    <3> QED
      BY <1>1, <2>6, <3>1, PlusIs
  <2>8. b \in Booking /\ b.tti = x /\ b.rnti = u
    BY <1>3, <2>1, <2>7, BookIs
  <2> QED
    BY <2>1, <2>5, <2>6, <2>8
<1>7. b = Book(t, "dl_dci", u) \/ \E x \in FirstGood(Plus(t, 5), dl_sfs[u], taken) : b = Book(x, "data", u)
  BY DEF DlDataBookings
<1> QED
  BY <1>5, <1>6, <1>7

-----------------------------------------------------------------------------
(* The downlink pass keeps the invariant. *)

\* Where a booking comes from, after the pass
LEMMA DlParts ==
  ASSUME DlPass, NEW b \in dl'
  PROVE  \/ b \in Cleared
         \/ b \in AllocSibs(TtiTxDl, Cleared)
         \/ SendRar /\ b \in RarBookings(TtiTxDl, Head(pending_rars))
         \/ \E u \in DlTakers : b \in DlDataBookings(TtiTxDl, u, WithRar)
<1>1. dl' = WithRar \cup UNION {DlDataBookings(TtiTxDl, u, WithRar) : u \in DlTakers}
  BY DlPassIs
<1>2. b \in WithRar => \/ b \in Cleared
                       \/ b \in AllocSibs(TtiTxDl, Cleared)
                       \/ SendRar /\ b \in RarBookings(TtiTxDl, Head(pending_rars))
  BY DEF WithRar, WithSibs
<1> QED
  BY <1>1, <1>2

\* The user of a RAR
LEMMA RarUser ==
  ASSUME TypeOK, SendRar
  PROVE  /\ Head(pending_rars) \in users /\ Head(pending_rars) \in Rnti /\ Tail(pending_rars) \in Seq(users)
         /\ IsValidDlSf(TtiTxDl) /\ TtiTxDl % 16 < 8 /\ TtiTxDl \notin Marked(WithSibs)
<1>1. pending_rars # <<>> /\ pending_rars \in Seq(users) /\ users \subseteq Rnti
  BY DEF SendRar, RarFits, TypeOK
<1>2. Head(pending_rars) \in users /\ Tail(pending_rars) \in Seq(users)
  BY <1>1
<1> QED
  BY <1>1, <1>2 DEF SendRar, RarFits

\* A booking that is d after TtiTxDl
LEMMA AheadOf ==
  ASSUME TypeOK, NEW d \in 0..60
  PROVE  /\ Plus(TtiTxDl, d) \in Tti /\ Offset(tti_rx, Plus(TtiTxDl, d)) = 4 + d
         /\ Plus(TtiTxDl, d) # tti_rx
<1>1. tti_rx \in Tti /\ TtiTxDl = Plus(tti_rx, 4)
  BY TxTtis
<1>2. Plus(TtiTxDl, d) \in Tti /\ Offset(tti_rx, Plus(TtiTxDl, d)) = 4 + d
  BY <1>1, FromTxDl
<1>3. Offset(tti_rx, tti_rx) = 0
  BY <1>1, TtiIs DEF Offset
<1> QED
  BY <1>2, <1>3

\* An old booking, and then a new one, comes as its kind does.
LEMMA CameLater ==
  ASSUME NEW now \in Tti, NEW b \in Booking, Came(now, 3, b)
  PROVE  Came(now, 4, b)
<1>1. Offset(now, b.tti) \in Int /\ (b.tti % 40) \in Int
  <2>1. b.tti \in Tti
    BY DEF Booking
  <2>2. b.tti \in Nat
    BY <2>1, TtiIs
  <2> QED
    BY <2>1, <2>2, TtiIs DEF Offset
<1> DEFINE o == Offset(now, b.tti)
<1> HIDE DEF o
<1>2. \A d \in Int : o - 3 <= d => o - 4 <= d
  BY <1>1 DEF o
<1>3. b.what \in Dci => o - 4 <= 0
  BY <1>2 DEF Came, o
<1>4. b.what = "sib1" => b.tti % 20 = 14 /\ o - 4 <= 0
  BY <1>2 DEF Came, o
<1>5. b.what = "sib2" => b.tti % 40 \in Sib2Sfs /\ o - 4 <= (b.tti % 40) - 1
  BY <1>1, <1>2 DEF Came, o
<1>6. b.what = "rar" => \E d \in 5..7 : RarFrom(b.tti, d) /\ o - 4 <= d
  BY <1>2 DEF Came, o
<1>7. b.what = "data" => \E d \in 5..9 : DataFrom(b.tti, d) /\ o - 4 <= d
  BY <1>2 DEF Came, o
<1> QED
  BY <1>3, <1>4, <1>5, <1>6, <1>7 DEF Came, o

\* Every booking comes as its kind does, after the pass.
LEMMA DlCame ==
  ASSUME TypeOK, AllCame, DataRecent, DlPass, NEW b \in dl'
  PROVE  /\ b \in Booking /\ Came(tti_rx, 4, b) /\ b.tti # tti_rx
         /\ b.what = "ul_dci" => Offset(tti_rx, b.tti) <= 3
         /\ b \in Cleared \/ \E d \in 0..10 : b.tti = Plus(TtiTxDl, d)
<1> DEFINE t == TtiTxDl
<1>0. pass = "dl"
  BY DlPassIs
<1>1. t \in Tti /\ tti_rx \in Tti /\ t = Plus(tti_rx, 4) /\ Offset(tti_rx, t) = 4 /\ t = Plus(t, 0)
  <2>1. t \in Tti /\ tti_rx \in Tti /\ t = Plus(tti_rx, 4) /\ Offset(tti_rx, t) = 4
    BY TxTtis
  <2>2. 0 \in 0..Period /\ t \in Nat /\ t < Period
    BY <2>1, TtiIs
  <2>3. Plus(t, 0) = IF t + 0 < Period THEN t + 0 ELSE t + 0 - Period
    BY <2>1, <2>2, PlusIs
  <2> QED
    BY <2>1, <2>2, <2>3
<1>2. t # tti_rx
  BY <1>1, AheadOf
<1>3. CASE b \in Cleared
  BY <1>0, <1>1, <1>3, OldBookings, CameLater
<1>4. CASE b \in AllocSibs(t, Cleared)
  <2>1. /\ b \in Booking
        /\ \/ b = Book(t, "sib1", 0) /\ t % 20 = 14
           \/ /\ b.what = "sib2" /\ b.rnti = 0 /\ t % 40 = 1
              /\ \E k \in 0..10 : b.tti = Plus(t, k) /\ k + 1 \in Sib2Sfs /\ b.tti % 40 = k + 1
    BY <1>1, <1>4, SibsAre
  <2>2. CASE b = Book(t, "sib1", 0) /\ t % 20 = 14
    <3>1. b.tti = t /\ b.what = "sib1"
      BY <2>2, BookIs
    <3>2. Came(tti_rx, 4, b)
      BY <1>1, <2>2, <3>1 DEF Came, Dci
    <3> QED
      BY <1>1, <1>2, <2>1, <3>1, <3>2
  <2>3. CASE b.what = "sib2" /\ \E k \in 0..10 : b.tti = Plus(t, k) /\ k + 1 \in Sib2Sfs /\ b.tti % 40 = k + 1
    <3>1. PICK k \in 0..10 : b.tti = Plus(t, k) /\ k + 1 \in Sib2Sfs /\ b.tti % 40 = k + 1
      BY <2>3
    <3>2. Offset(tti_rx, b.tti) = 4 + k /\ b.tti # tti_rx
      BY <3>1, AheadOf
    <3>3. Came(tti_rx, 4, b)
      BY <2>3, <3>1, <3>2 DEF Came, Dci
    <3> QED
      BY <2>1, <2>3, <3>1, <3>2, <3>3
  <2> QED
    BY <2>1, <2>2, <2>3
<1>5. CASE SendRar /\ b \in RarBookings(t, Head(pending_rars))
  <2> DEFINE r == Head(pending_rars)
  <2>1. r \in Rnti /\ IsValidDlSf(t) /\ t % 16 < 8
    BY <1>5, RarUser
  <2> HIDE DEF r
  <2>2. /\ b \in Booking
        /\ \/ b = Book(t, "rar_dci", r)
           \/ /\ b = Book(b.tti, "rar", r)
              /\ \E d \in 5..7 : /\ b.tti = Plus(t, d)
                                 /\ (IsValidDlSf(t) /\ t % 16 < 8) => RarFrom(b.tti, d)
    BY <1>1, <1>5, <2>1, RarsAre DEF r
  <2>3. CASE b = Book(t, "rar_dci", r)
    <3>1. b.tti = t /\ b.what = "rar_dci"
      BY <2>3, BookIs
    <3>2. Came(tti_rx, 4, b)
      BY <1>1, <3>1 DEF Came, Dci
    <3> QED
      BY <1>1, <1>2, <2>2, <3>1, <3>2
  <2>4. CASE b = Book(b.tti, "rar", r) /\ \E d \in 5..7 : b.tti = Plus(t, d) /\ RarFrom(b.tti, d)
    <3>1. PICK d \in 5..7 : b.tti = Plus(t, d) /\ RarFrom(b.tti, d)
      BY <2>4
    <3>2. b.what = "rar"
      BY <2>4, BookIs
    <3>3. Offset(tti_rx, b.tti) = 4 + d /\ b.tti # tti_rx
      BY <3>1, AheadOf
    <3>4. Came(tti_rx, 4, b)
      BY <3>1, <3>2, <3>3 DEF Came, Dci
    <3> QED
      BY <2>2, <3>1, <3>2, <3>3, <3>4
  <2> QED
    BY <2>1, <2>2, <2>3, <2>4
<1>6. CASE \E u \in DlTakers : b \in DlDataBookings(t, u, WithRar)
  <2>1. PICK u \in DlTakers : b \in DlDataBookings(t, u, WithRar)
    BY <1>6
  <2>2. /\ b \in Booking
        /\ \/ b = Book(t, "dl_dci", u)
           \/ /\ b = Book(b.tti, "data", u)
              /\ \E d \in DataDelays(t % 40) : d \in 5..9 /\ b.tti = Plus(t, d) /\ DataFrom(b.tti, d)
    BY <1>0, <2>1, DataAre
  <2>3. CASE b = Book(t, "dl_dci", u)
    <3>1. b.tti = t /\ b.what = "dl_dci"
      BY <2>3, BookIs
    <3>2. Came(tti_rx, 4, b)
      BY <1>1, <3>1 DEF Came, Dci
    <3> QED
      BY <1>1, <1>2, <2>2, <3>1, <3>2
  <2>4. CASE b = Book(b.tti, "data", u) /\ \E d \in 5..9 : b.tti = Plus(t, d) /\ DataFrom(b.tti, d)
    <3>1. PICK d \in 5..9 : b.tti = Plus(t, d) /\ DataFrom(b.tti, d)
      BY <2>4
    <3>2. b.what = "data"
      BY <2>4, BookIs
    <3>3. Offset(tti_rx, b.tti) = 4 + d /\ b.tti # tti_rx
      BY <3>1, AheadOf
    <3>4. Came(tti_rx, 4, b)
      BY <3>1, <3>2, <3>3 DEF Came, Dci
    <3> QED
      BY <2>2, <3>1, <3>2, <3>3, <3>4
  <2> QED
    BY <2>2, <2>3, <2>4
<1> QED
  BY <1>3, <1>4, <1>5, <1>6, DlParts

\* The rest of the downlink pass
LEMMA DlPassRest ==
  ASSUME DlPass
  PROVE  LET gotMsg3 == SendRar /\ Msg3Fits(TtiTxDl)
         IN /\ ul_sched_table' = IF gotMsg3 THEN ul_sched_table \cup UlSfs(Msg3RxTti(TtiTxDl)) ELSE ul_sched_table
            /\ \A m \in msg3' : m \in msg3 \/ (SendRar /\ m = [tti |-> tti_rx + 9, rnti |-> Head(pending_rars)])
            /\ \A n \in npusch' : \/ n \in npusch
                                  \/ SendRar /\ n = [tti |-> Msg3RxTti(TtiTxDl), rnti |-> Head(pending_rars), heard |-> FALSE]
            /\ dl_sfs' = [u \in Rnti |-> IF u \in DlTakers THEN 0 ELSE dl_sfs[u]]
            /\ ul_pending' = ul_pending \cup DlTakers
            /\ msg_wait_timer' = [u \in Rnti |-> IF u \in DlTakers THEN WaitTime ELSE msg_wait_timer[u]]
BY DEF DlPass, DlTakers, WithRar, SendRar, WithSibs, Cleared

\* The subframes of Msg3
LEMMA Msg3Ttis ==
  ASSUME NEW t \in Tti
  PROVE  Msg3RxTti(t) \in Tti /\ UlSfs(Msg3RxTti(t)) \subseteq Tti
<1>1. /\ 13 \in 0..Period
      /\ \A k \in 0..7 : k \in 0..Period
      /\ \A k \in 0..NofUlSfs - 1 : k \in 0..Period
  BY PeriodIs DEF NofUlSfs
<1>2. RarTxTti(t) \in Tti
  <2>1. PICK d \in 5..7 : RarTxTti(t) = Plus(t, d)
    BY RarLands
  <2>2. d \in 0..Period
    BY PeriodIs
  <2> QED
    BY <2>1, <2>2, PlusIs
<1>3. Msg3RxTti(t) \in Tti
  BY <1>1, <1>2, PlusIs DEF Msg3RxTti
<1> QED
  BY <1>1, <1>3, PlusIs DEF UlSfs

\* Types
LEMMA DlType ==
  ASSUME TypeOK, AllCame, DataRecent, DlPass
  PROVE  TypeOK'
<1> DEFINE r == Head(pending_rars)
<1>1. TtiTxDl \in Tti /\ tti_rx \in Tti
  BY TxTtis
<1>2. Msg3RxTti(TtiTxDl) \in Tti /\ UlSfs(Msg3RxTti(TtiTxDl)) \subseteq Tti
  BY <1>1, Msg3Ttis
<1>3. SendRar => r \in users /\ r \in Rnti /\ Tail(pending_rars) \in Seq(users)
  BY RarUser
<1>4. DlTakers \subseteq users
  BY DlTakersAre
<1>5. tti_rx' \in Tti /\ pass' \in {"dl", "ul"} /\ users' \subseteq Rnti /\ users' = users
  BY <1>1, DlPassIs DEF TypeOK
<1>6. ul_pending' \subseteq users'
  BY <1>4, <1>5, DlPassRest DEF TypeOK
<1>7. dl' \subseteq Booking
  BY DlCame
<1>8. ul_sched_table' \subseteq Tti
  BY <1>2, DlPassRest DEF TypeOK
<1>9. npusch' \subseteq [tti : Tti, rnti : Rnti, heard : BOOLEAN]
  <2> SUFFICES ASSUME NEW n \in npusch' PROVE n \in [tti : Tti, rnti : Rnti, heard : BOOLEAN]
    OBVIOUS
  <2>1. n \in npusch \/ (SendRar /\ n = [tti |-> Msg3RxTti(TtiTxDl), rnti |-> r, heard |-> FALSE])
    BY DlPassRest
  <2>2. CASE n \in npusch
    BY <2>2, Zenon DEF TypeOK
  <2>3. CASE SendRar /\ n = [tti |-> Msg3RxTti(TtiTxDl), rnti |-> r, heard |-> FALSE]
    <3> HIDE DEF r
    <3> QED
      BY <1>2, <1>3, <2>3
  <2> QED
    BY <2>1, <2>2, <2>3
<1>10. sib1_sf_idx' \in 0..Sib1NumSf - 1
  <2>1. Sib1NumSf \in Nat /\ Sib1NumSf > 1 /\ sib1_sf_idx \in 0..Sib1NumSf - 1
    BY SchedGridAssumption DEF TypeOK
  <2>2. (sib1_sf_idx + 1) % Sib1NumSf \in 0..Sib1NumSf - 1
    BY <2>1
  <2> QED
    BY <2>1, <2>2, DlPassIs
<1>11. pending_rars' \in Seq(users')
  BY <1>3, <1>5, DlPassIs DEF TypeOK
<1>12. rar_wait' \in Nat
  BY DlPassIs DEF TypeOK
<1>13. dl_sfs' \in [Rnti -> {0, 1, 3}]
  BY DlPassRest DEF TypeOK
<1>14. msg_wait_timer' \in [Rnti -> 0..WaitTime]
  <2>1. WaitTime \in 0..WaitTime
    BY SchedGridAssumption
  <2> QED
    BY <2>1, DlPassRest DEF TypeOK
<1>15. last_alloc' \in Tti \cup {NoAlloc}
  BY <1>1, DlPassIs DEF TypeOK
<1>16. msg3' \subseteq [tti : 0..Period + 8, rnti : users']
  <2> SUFFICES ASSUME NEW m \in msg3' PROVE m \in [tti : 0..Period + 8, rnti : users']
    OBVIOUS
  <2>1. m \in msg3 \/ (SendRar /\ m = [tti |-> tti_rx + 9, rnti |-> r])
    BY DlPassRest
  <2>2. tti_rx + 9 \in 0..Period + 8
    BY <1>1, TtiIs
  <2> QED
    BY <1>3, <1>5, <2>1, <2>2 DEF TypeOK
<1> QED
  BY <1>5, <1>6, <1>7, <1>8, <1>9, <1>10, <1>11, <1>12, <1>13, <1>14, <1>15, <1>16 DEF TypeOK

\* What is in the subframe TtiTxDl: system information and old bookings, or one
\* DCI.
LEMMA NowInDl ==
  ASSUME TypeOK, AllCame, DataRecent, DlPass
  PROVE  /\ SendRar => TtiTxDl \notin Marked(WithSibs) /\ TtiTxDl \in Marked(WithRar)
         /\ DlTakers # {} => TtiTxDl \notin Marked(WithRar) /\ TtiTxDl \notin Marked(WithSibs) /\ ~SendRar
         /\ \A b \in dl' : b.tti = TtiTxDl =>
              \/ b \in WithSibs /\ b.what \notin Dci /\ TtiTxDl \in Marked(WithSibs)
              \/ SendRar /\ b = Book(TtiTxDl, "rar_dci", Head(pending_rars))
              \/ \E u \in DlTakers : b = Book(TtiTxDl, "dl_dci", u)
<1> DEFINE t == TtiTxDl
           r == Head(pending_rars)
<1>0. pass = "dl" /\ t \in Tti /\ tti_rx \in Tti /\ Offset(tti_rx, t) = 4
  BY DlPassIs, TxTtis
<1>1. SendRar => t \notin Marked(WithSibs) /\ t \in Marked(WithRar)
  <2> HAVE SendRar
  <2>1. Book(t, "rar_dci", r) \in WithRar
    BY DEF WithRar, RarBookings
  <2> QED
    BY <2>1, BookIs, MarkedIs, RarUser
<1>2. DlTakers # {} => t \notin Marked(WithRar) /\ t \notin Marked(WithSibs) /\ ~SendRar
  <2> HAVE DlTakers # {}
  <2>1. t \notin Marked(WithRar)
    BY DlTakersAre DEF DlDciFits
  <2>2. WithSibs \subseteq WithRar
    BY DEF WithRar
  <2> QED
    BY <1>1, <2>1, <2>2, MarkedIs
<1>3. ASSUME NEW b \in dl', b.tti = t
      PROVE  \/ b \in WithSibs /\ b.what \notin Dci /\ t \in Marked(WithSibs)
             \/ SendRar /\ b = Book(t, "rar_dci", r)
             \/ \E u \in DlTakers : b = Book(t, "dl_dci", u)
  <2>1. CASE b \in Cleared
    <3>1. Came(tti_rx, 3, b) /\ b \in WithSibs
      BY <1>0, <2>1, OldBookings DEF WithSibs
    <3>2. b.what \notin Dci
      BY <1>0, <1>3, <3>1 DEF Came
    <3>3. b.what # "ul_dci"
      BY <3>2 DEF Dci
    <3> QED
      BY <1>3, <3>1, <3>2, <3>3, MarkedIs
  <2>2. CASE b \in AllocSibs(t, Cleared)
    <3>1. b.what \in {"sib1", "sib2"}
      BY <1>0, <2>2, SibsAre, BookIs
    <3>2. b \in WithSibs /\ b.what \notin Dci /\ b.what # "ul_dci"
      BY <2>2, <3>1 DEF WithSibs, Dci
    <3> QED
      BY <1>3, <3>2, MarkedIs
  <2>3. CASE SendRar /\ b \in RarBookings(t, r)
    <3>1. \/ b = Book(t, "rar_dci", r)
          \/ \E d \in 5..7 : b.tti = Plus(t, d)
      BY <1>0, <2>3, RarsAre, RarUser
    <3>2. \A d \in 5..7 : Plus(t, d) # t
      BY <1>0, AheadOf
    <3> QED
      BY <1>3, <2>3, <3>1, <3>2
  <2>4. CASE \E u \in DlTakers : b \in DlDataBookings(t, u, WithRar)
    <3>1. PICK u \in DlTakers : b \in DlDataBookings(t, u, WithRar)
      BY <2>4
    <3>2. b = Book(t, "dl_dci", u) \/ \E d \in 5..9 : b.tti = Plus(t, d)
      BY <1>0, <3>1, DataAre
    <3>3. \A d \in 5..9 : Plus(t, d) # t
      BY <1>0, AheadOf
    <3> QED
      BY <1>3, <3>1, <3>2, <3>3
  <2> QED
    BY <2>1, <2>2, <2>3, <2>4, DlParts
<1> QED
  BY <1>1, <1>2, <1>3

\* A new DCI is for a user.
LEMMA DlDciUser ==
  ASSUME TypeOK, AllCame, DataRecent, DciUser, DlPass
  PROVE  DciUser'
<1> SUFFICES ASSUME NEW b \in dl', b.what \in Dci PROVE b.rnti \in users
  BY DlPassIs DEF DciUser
<1>0. pass = "dl" /\ TtiTxDl \in Tti
  BY DlPassIs, TxTtis
<1>1. CASE b \in Cleared
  BY <1>1 DEF DciUser, Cleared
<1>2. CASE b \in AllocSibs(TtiTxDl, Cleared)
  <2>1. b.what \in {"sib1", "sib2"}
    BY <1>0, <1>2, SibsAre, BookIs
  <2> QED
    BY <2>1 DEF Dci
<1>3. CASE SendRar /\ b \in RarBookings(TtiTxDl, Head(pending_rars))
  BY <1>0, <1>3, RarsAre, RarUser
<1>4. CASE \E u \in DlTakers : b \in DlDataBookings(TtiTxDl, u, WithRar)
  BY <1>0, <1>4, DataAre, DlTakersAre
<1> QED
  BY <1>1, <1>2, <1>3, <1>4, DlParts

\* A new DCI is alone, and nothing new meets an old one.
LEMMA DlDciAlone ==
  ASSUME TypeOK, AllCame, DataRecent, DciAlone, DlPass
  PROVE  DciAlone'
<1> SUFFICES ASSUME NEW b \in dl', NEW c \in dl', b.what \in Dci, b.tti = c.tti PROVE b = c
  BY DEF DciAlone
<1>0. pass = "dl"
  BY DlPassIs
<1>1. CASE b \in Cleared
  <2>1. Offset(tti_rx, b.tti) - 3 <= 0
    BY <1>0, <1>1, OldBookings DEF Came
  <2>2. \A d \in 0..10 : Offset(tti_rx, Plus(TtiTxDl, d)) = 4 + d
    BY AheadOf
  <2>3. c \in Cleared
    BY <2>1, <2>2, DlCame
  <2> QED
    BY <1>1, <2>3 DEF DciAlone, Cleared
<1>2. CASE b \notin Cleared
  <2>1. b.tti = TtiTxDl
    <3>1. PICK d \in 0..10 : b.tti = Plus(TtiTxDl, d)
      BY <1>2, DlCame
    <3>2. Offset(tti_rx, b.tti) = 4 + d
      BY <3>1, AheadOf
    <3>3. Offset(tti_rx, b.tti) - 4 <= 0
      BY DlCame DEF Came
    <3>4. d = 0
      BY <3>2, <3>3
    <3>5. Plus(TtiTxDl, 0) = TtiTxDl
      <4>1. TtiTxDl \in Tti /\ 0 \in 0..Period /\ TtiTxDl \in Nat /\ TtiTxDl < Period
        BY TxTtis, TtiIs
      <4>2. Plus(TtiTxDl, 0) = IF TtiTxDl + 0 < Period THEN TtiTxDl + 0 ELSE TtiTxDl + 0 - Period
        BY <4>1, PlusIs
      <4> QED
        BY <4>1, <4>2
    <3> QED
      BY <3>1, <3>4, <3>5
  <2>2. /\ SendRar => TtiTxDl \notin Marked(WithSibs) /\ TtiTxDl \in Marked(WithRar)
        /\ DlTakers # {} => TtiTxDl \notin Marked(WithRar) /\ TtiTxDl \notin Marked(WithSibs) /\ ~SendRar
    BY NowInDl
  <2>3. \/ c \in WithSibs /\ c.what \notin Dci /\ TtiTxDl \in Marked(WithSibs)
        \/ SendRar /\ c = Book(TtiTxDl, "rar_dci", Head(pending_rars))
        \/ \E u \in DlTakers : c = Book(TtiTxDl, "dl_dci", u)
    BY <2>1, NowInDl
  <2>4. \/ SendRar /\ b = Book(TtiTxDl, "rar_dci", Head(pending_rars))
        \/ \E u \in DlTakers : b = Book(TtiTxDl, "dl_dci", u)
    BY <2>1, NowInDl
  <2>5. \A u, v \in DlTakers : u = v
    BY DlTakersAre
  <2> QED
    BY <2>2, <2>3, <2>4, <2>5
<1> QED
  BY <1>1, <1>2

\* New data is alone, and nothing new but a RAR meets old data.
LEMMA DlDataAlone ==
  ASSUME TypeOK, AllCame, DataRecent, DataAlone, DlPass
  PROVE  DataAlone'
<1> DEFINE t == TtiTxDl
           r == Head(pending_rars)
<1> SUFFICES ASSUME NEW b \in dl', NEW c \in dl', b.what = "data", c.what # "rar", b.tti = c.tti PROVE b = c
  BY DEF DataAlone
<1>0. pass = "dl" /\ t \in Tti /\ tti_rx \in Tti /\ t = Plus(tti_rx, 4) /\ Offset(tti_rx, t) = 4
  BY DlPassIs, TxTtis
<1>1. CASE b \in Cleared
  <2>1. b \in WithSibs /\ b \in WithRar /\ Came(tti_rx, 3, b)
    BY <1>0, <1>1, OldBookings DEF WithSibs, WithRar
  <2>2. b.tti \in Marked(Cleared) /\ b.tti \in Marked(WithSibs) /\ b.tti \in Marked(WithRar)
    BY <1>1, <2>1, MarkedIs
  <2>3. CASE c \in Cleared
    BY <1>1, <2>3 DEF DataAlone, Cleared
  <2>4. CASE c \in AllocSibs(t, Cleared)
    <3>1. t \notin Marked(Cleared)
      BY <1>0, <2>4, SibsAre
    <3>2. CASE c = Book(t, "sib1", 0)
      BY <2>2, <3>1, <3>2, BookIs
    <3>3. CASE t % 40 = 1 /\ \E k \in 0..10 : c.tti = Plus(t, k) /\ k + 1 \in Sib2Sfs
      <4>1. PICK k \in 0..10 : c.tti = Plus(t, k) /\ k + 1 \in Sib2Sfs
        BY <3>3
      <4>2. k # 0
        <5>1. t \in Nat /\ t < Period /\ 0 \in 0..Period
          BY <1>0, TtiIs
        <5>2. Plus(t, 0) = IF t + 0 < Period THEN t + 0 ELSE t + 0 - Period
          BY <1>0, <5>1, PlusIs
        <5>3. Plus(t, 0) = t
          BY <5>1, <5>2
        <5> QED
          BY <2>2, <3>1, <4>1, <5>3
      <4>3. k \in 1..10
        BY <4>2
      <4>4. b.tti # Plus(Plus(tti_rx, 4), k)
        BY <1>0, <2>1, <3>3, <4>1, <4>3, Sib2Free
      <4> QED
        BY <1>0, <4>1, <4>4
    <3>4. c = Book(t, "sib1", 0) \/ (t % 40 = 1 /\ \E k \in 0..10 : c.tti = Plus(t, k) /\ k + 1 \in Sib2Sfs)
      BY <1>0, <2>4, SibsAre
    <3> QED
      BY <3>2, <3>3, <3>4
  <2>5. CASE SendRar /\ c \in RarBookings(t, r)
    <3>1. c = Book(t, "rar_dci", r)
      BY <1>0, <2>5, RarsAre, RarUser, BookIs
    <3> QED
      BY <2>2, <2>5, <3>1, BookIs, RarUser
  <2>6. CASE \E u \in DlTakers : c \in DlDataBookings(t, u, WithRar)
    <3>1. PICK u \in DlTakers : c \in DlDataBookings(t, u, WithRar)
      BY <2>6
    <3>2. c = Book(t, "dl_dci", u) \/ c.tti \notin Marked(WithRar)
      BY <1>0, <3>1, DataAre
    <3>3. t \notin Marked(WithRar)
      BY <3>1, NowInDl
    <3> QED
      BY <2>2, <3>2, <3>3, BookIs
  <2> QED
    BY <2>3, <2>4, <2>5, <2>6, DlParts
<1>2. CASE b \notin Cleared
  <2>1. PICK u \in DlTakers : b \in DlDataBookings(t, u, WithRar)
    <3>1. b \notin AllocSibs(t, Cleared)
      BY <1>0, SibsAre, BookIs
    <3>2. SendRar => b \notin RarBookings(t, r)
      BY <1>0, RarsAre, RarUser, BookIs
    <3> QED
      BY <1>2, <3>1, <3>2, DlParts
  <2>2. PICK d \in 5..9 : b.tti = Plus(t, d) /\ b = Book(b.tti, "data", u) /\ b.tti \notin Marked(WithRar)
    BY <1>0, <2>1, DataAre, BookIs
  <2>3. Offset(tti_rx, b.tti) = 4 + d
    BY <2>2, AheadOf
  <2>4. c \notin WithRar
    <3>1. c.what # "ul_dci"
      BY <2>3, DlCame
    <3> QED
      BY <2>2, <3>1, MarkedIs
  <2>5. PICK v \in DlTakers : c \in DlDataBookings(t, v, WithRar)
    <3>1. dl' = WithRar \cup UNION {DlDataBookings(t, v, WithRar) : v \in DlTakers}
      BY DlPassIs
    <3> QED
      BY <2>4, <3>1
  <2>6. u = v
    BY DlTakersAre
  <2>7. c = Book(t, "dl_dci", v) \/ c = Book(c.tti, "data", v)
    BY <1>0, <2>5, DataAre
  <2>8. c.tti # t
    BY <1>0, <2>3
  <2>9. c # Book(t, "dl_dci", v)
    <3>1. Book(t, "dl_dci", v).tti = t
      BY DEF Book
    <3> QED
      BY <2>8, <3>1
  <2>10. c = Book(b.tti, "data", u)
    BY <2>6, <2>7, <2>9
  <2> QED
    BY <2>2, <2>10
<1> QED
  BY <1>1, <1>2

\* All of them, as the invariant says it
LEMMA DlAllCame ==
  ASSUME TypeOK, AllCame, DataRecent, DlPass
  PROVE  AllCame'
<1>1. tti_rx' = tti_rx /\ pass' = "ul" /\ LastPass' = 4
  BY DlPassIs DEF LastPass
<1>2. ASSUME NEW b \in dl'
      PROVE  /\ Came(tti_rx', LastPass', b)
             /\ pass' = "ul" => b.tti # tti_rx'
             /\ b.what = "ul_dci" => Offset(tti_rx', b.tti) <= 3
  BY <1>1, DlCame
<1> QED
  BY <1>2 DEF AllCame

\* When new data is allocated, or none may be, the old is no longer ahead.
LEMMA OldDataOver ==
  ASSUME TypeOK, AllCame, DataRecent, pass = "dl", DlTakers # {} \/ Expired,
         NEW c \in Cleared, c.what = "data"
  PROVE  Offset(tti_rx, c.tti) <= 3
<1> SUFFICES ASSUME ~(Offset(tti_rx, c.tti) <= 3) PROVE FALSE
  OBVIOUS
<1>1. tti_rx \in Tti /\ TtiTxDl = Plus(tti_rx, 4) /\ LastPass = 3
  BY TxTtis DEF LastPass
<1>2. c \in dl /\ c \in Booking /\ Came(tti_rx, 3, c)
  BY OldBookings
<1>3. /\ last_alloc # NoAlloc /\ \E d \in 5..9 : c.tti = Plus(last_alloc, d)
      /\ \E e \in 0..AllocGap : Plus(tti_rx, 3) = Plus(last_alloc, e)
  BY <1>1, <1>2 DEF DataRecent
<1>4. PICK d \in 5..9 : c.tti = Plus(last_alloc, d)
  BY <1>3
<1>5. PICK e \in 0..AllocGap : Plus(tti_rx, 3) = Plus(last_alloc, e)
  BY <1>3
<1>6. last_alloc \in Tti
  BY <1>3 DEF TypeOK
<1>7. (TtiTxDl + Period - last_alloc) % Period > AllocGap
  BY <1>3, DlTakersAre DEF Expired
<1>8. (TtiTxDl + Period - last_alloc) % Period = e + 1
  BY <1>1, <1>5, <1>6, OldAlloc
<1>9. e = AllocGap
  BY <1>7, <1>8, SchedGridAssumption
<1>10. Offset(tti_rx, c.tti) \notin 4..20
  BY <1>1, <1>4, <1>5, <1>6, <1>9, OldAlloc
<1>11. \E a \in 5..9 : Offset(tti_rx, c.tti) - 3 <= a
  BY <1>2 DEF Came
<1>12. Offset(tti_rx, c.tti) \in 0..Period - 1
  BY <1>1, <1>2, Offsets DEF Booking
<1> QED
  BY <1>10, <1>11, <1>12

\* Data that is booked in this pass
LEMMA NewData ==
  ASSUME TypeOK, AllCame, DataRecent, DlPass, NEW b \in dl', b.what = "data", b \notin Cleared
  PROVE  /\ DlTakers # {}
         /\ \E d \in DataDelays(TtiTxDl % 40) : d \in 5..9 /\ b.tti = Plus(TtiTxDl, d)
<1>0. pass = "dl" /\ TtiTxDl \in Tti
  BY DlPassIs, TxTtis
<1>1. b \notin AllocSibs(TtiTxDl, Cleared)
  BY <1>0, SibsAre, BookIs
<1>2. SendRar => b \notin RarBookings(TtiTxDl, Head(pending_rars))
  BY <1>0, RarsAre, RarUser, BookIs
<1>3. PICK u \in DlTakers : b \in DlDataBookings(TtiTxDl, u, WithRar)
  BY <1>1, <1>2, DlParts
<1>4. b # Book(TtiTxDl, "dl_dci", u)
  BY DEF Book
<1> QED
  BY <1>0, <1>3, <1>4, DataAre

\* Data that is ahead is of the last allocation.
LEMMA DlDataRecent ==
  ASSUME TypeOK, AllCame, DataRecent, DlPass
  PROVE  DataRecent'
<1>1. /\ tti_rx \in Tti /\ TtiTxDl \in Tti /\ TtiTxDl = Plus(tti_rx, 4) /\ LastPass = 3 /\ pass = "dl"
      /\ tti_rx' = tti_rx /\ users' = users /\ LastPass' = 4
      /\ last_alloc' = IF DlTakers # {} THEN TtiTxDl ELSE IF Expired THEN NoAlloc ELSE last_alloc
  BY TxTtis, DlPassIs DEF LastPass
<1>2. Plus(TtiTxDl, 0) = TtiTxDl /\ TtiTxDl # NoAlloc
  <2>1. TtiTxDl \in Nat /\ TtiTxDl < Period /\ 0 \in 0..Period
    BY <1>1, TtiIs
  <2>2. Plus(TtiTxDl, 0) = IF TtiTxDl + 0 < Period THEN TtiTxDl + 0 ELSE TtiTxDl + 0 - Period
    BY <1>1, <2>1, PlusIs
  <2> QED
    BY <2>1, <2>2 DEF NoAlloc
<1>3. ASSUME last_alloc' # NoAlloc
      PROVE  users # {} /\ \E e \in 0..AllocGap : TtiTxDl = Plus(last_alloc', e)
  <2>1. CASE DlTakers # {}
    <3>1. 0 \in 0..AllocGap
      BY SchedGridAssumption
    <3> QED
      BY <1>1, <1>2, <2>1, <3>1, DlTakersAre
  <2>2. CASE DlTakers = {}
    <3>1. ~Expired /\ last_alloc' = last_alloc
      BY <1>1, <1>3, <2>2
    <3>2. users # {} /\ \E e \in 0..AllocGap : Plus(tti_rx, 3) = Plus(last_alloc, e)
      BY <1>1, <1>3, <3>1 DEF DataRecent
    <3>3. PICK e \in 0..AllocGap : Plus(tti_rx, 3) = Plus(last_alloc, e)
      BY <3>2
    <3>4. last_alloc \in Tti
      BY <1>3, <3>1 DEF TypeOK
    <3>5. TtiTxDl = Plus(last_alloc, e + 1) /\ (TtiTxDl + Period - last_alloc) % Period = e + 1
      BY <1>1, <3>3, <3>4, OldAlloc
    <3>6. ~((TtiTxDl + Period - last_alloc) % Period > AllocGap)
      BY <1>3, <3>1, <3>2 DEF Expired
    <3>7. e + 1 \in 0..AllocGap
      BY <3>5, <3>6, SchedGridAssumption
    <3> QED
      BY <3>1, <3>2, <3>5, <3>7
  <2> QED
    BY <2>1, <2>2
<1>4. ASSUME NEW b \in dl', b.what = "data"
      PROVE  \/ Offset(tti_rx, b.tti) <= 4
             \/ last_alloc' # NoAlloc /\ \E d \in 5..9 : b.tti = Plus(last_alloc', d)
  <2>1. CASE b \notin Cleared
    BY <1>1, <1>2, <1>4, <2>1, NewData
  <2>2. CASE b \in Cleared
    <3>1. Offset(tti_rx, b.tti) \in Int
      BY <1>1, <2>2, OldBookings, Offsets DEF Booking
    <3>2. Offset(tti_rx, b.tti) <= 3 => Offset(tti_rx, b.tti) <= 4
      BY <3>1
    <3>3. CASE DlTakers # {} \/ Expired
      BY <1>1, <1>4, <2>2, <3>2, <3>3, OldDataOver
    <3>4. CASE ~(DlTakers # {} \/ Expired)
      BY <1>1, <1>4, <2>2, <3>2, <3>4 DEF DataRecent, Cleared
    <3> QED
      BY <3>3, <3>4
  <2> QED
    BY <2>1, <2>2
<1> QED
  BY <1>1, <1>3, <1>4 DEF DataRecent

\* With a DCI in this TTI it is the data of that DCI.
LEMMA DlDataOfDci ==
  ASSUME TypeOK, AllCame, DataRecent, DlPass
  PROVE  DataOfDci'
<1>1. tti_rx' = tti_rx /\ TtiTxDl' = TtiTxDl /\ pass = "dl" /\ tti_rx \in Tti
  BY DlPassIs, TxTtis DEF TtiTxDl
<1> SUFFICES ASSUME NEW b \in dl', NEW c \in dl', b.what = "dl_dci", b.tti = TtiTxDl, c.what = "data"
             PROVE  \/ Offset(tti_rx, c.tti) <= 4
                    \/ \E d \in DataDelays(TtiTxDl % 40) : c.tti = Plus(TtiTxDl, d)
  BY <1>1 DEF DataOfDci
<1>2. DlTakers # {}
  <2>1. b # Book(TtiTxDl, "rar_dci", Head(pending_rars))
    BY DEF Book
  <2> QED
    BY <2>1, NowInDl DEF Dci
<1>3. CASE c \in Cleared
  <2>1. Offset(tti_rx, c.tti) \in Int
    BY <1>1, <1>3, OldBookings, Offsets DEF Booking
  <2>2. Offset(tti_rx, c.tti) <= 3
    BY <1>1, <1>2, <1>3, OldDataOver
  <2> QED
    BY <2>1, <2>2
<1>4. CASE c \notin Cleared
  BY <1>4, NewData
<1> QED
  BY <1>3, <1>4

\* The bound grows with the wait, until the next free subframe.
LEMMA Bounds ==
  ASSUME NEW r \in 0..79
  PROVE  /\ WaitBound(r) \in 0..31
         /\ r \notin FreeSfs => WaitBound((r + 1) % 80) = WaitBound(r) + 1
<1>1. WaitBound(r) \in 0..31
  BY DEF WaitBound
<1>2. ASSUME r \notin FreeSfs PROVE WaitBound((r + 1) % 80) = WaitBound(r) + 1
  <2>1. CASE r = 79
    BY <2>1 DEF WaitBound
  <2>2. CASE r # 79
    <3>1. (r + 1) % 80 = r + 1
      BY <2>2
    <3> QED
      BY <1>2, <2>2, <3>1 DEF WaitBound, FreeSfs
  <2> QED
    BY <2>1, <2>2
<1> QED
  BY <1>1, <1>2

\* The first RAR is sent in a free subframe at the latest.
LEMMA DlRarWaits ==
  ASSUME TypeOK, AllCame, RarWaits, DlPass
  PROVE  RarWaits'
<1> DEFINE r == TtiTxDl % 80
<1>1. /\ tti_rx \in Tti /\ TtiTxDl \in Tti /\ TtiTxDl = Plus(tti_rx, 4) /\ pass = "dl"
      /\ tti_rx' = tti_rx /\ LastPass = 3 /\ LastPass' = 4
  BY TxTtis, DlPassIs DEF LastPass
<1>2. r \in 0..79 /\ Plus(tti_rx, 5) % 80 = (r + 1) % 80
  <2>0. 1 \in 0..60
    OBVIOUS
  <2>1. Plus(TtiTxDl, 1) = Plus(tti_rx, 4 + 1)
    BY <1>1, <2>0, FromTxDl
  <2>2. Plus(TtiTxDl, 1) % 80 = (r + 1) % 80 /\ r \in 0..79
    BY <1>1, <2>0, After
  <2> QED
    BY <2>1, <2>2
<1>3. rar_wait <= WaitBound(r) /\ rar_wait \in Nat
  BY <1>1 DEF RarWaits, TypeOK
<1>4. /\ pending_rars' = IF SendRar THEN Tail(pending_rars) ELSE pending_rars
      /\ rar_wait' = IF SendRar \/ pending_rars = <<>> THEN 0 ELSE rar_wait + 1
  BY DlPassIs
<1>5. pending_rars' = <<>> => rar_wait' = 0
  BY <1>4
<1>6. rar_wait' <= WaitBound((r + 1) % 80)
  <2>1. (r + 1) % 80 \in 0..79
    BY <1>2
  <2>2. CASE SendRar \/ pending_rars = <<>>
    <3> DEFINE n == (r + 1) % 80
    <3>1. n \in 0..79
      BY <2>1
    <3> HIDE DEF n
    <3>2. WaitBound(n) \in 0..31
      BY <3>1, Bounds
    <3>3. rar_wait' = 0
      BY <1>4, <2>2
    <3>4. rar_wait' <= WaitBound(n)
      BY <3>2, <3>3
    <3> QED
      BY <3>4 DEF n
  <2>3. CASE ~(SendRar \/ pending_rars = <<>>)
    <3>1. r \notin FreeSfs
      <4> SUFFICES ASSUME r \in FreeSfs PROVE SendRar
        BY <2>3
      <4>1. /\ IsValidDlSf(TtiTxDl) /\ TtiTxDl % 16 < 8 /\ ~IsSib1Sf(TtiTxDl) /\ ~IsSib2Start(TtiTxDl)
            /\ \A b \in Booking : Came(tti_rx, 3, b) => b.tti # TtiTxDl
        BY <1>1, FreeForRar
      <4>2. AllocSibs(TtiTxDl, Cleared) = {}
        BY <4>1 DEF AllocSibs
      <4>3. TtiTxDl \notin Marked(WithSibs)
        BY <1>1, <4>1, <4>2, OldBookings, MarkedIs DEF WithSibs
      <4> QED
        BY <2>3, <4>1, <4>3 DEF SendRar, RarFits
    <3>2. WaitBound((r + 1) % 80) = WaitBound(r) + 1 /\ WaitBound(r) \in 0..31
      BY <1>2, <3>1, Bounds
    <3>3. rar_wait' = rar_wait + 1
      BY <1>4, <2>3
    <3> DEFINE w == WaitBound(r)
               z == WaitBound((r + 1) % 80)
    <3>4. z = w + 1 /\ w \in 0..31 /\ rar_wait <= w
      BY <1>3, <3>2
    <3> HIDE DEF w, z
    <3>5. rar_wait' <= z
      BY <1>3, <3>3, <3>4
    <3> QED
      BY <3>5 DEF z
  <2> QED
    BY <2>2, <2>3
<1> HIDE DEF r
<1>7. Plus(tti_rx', LastPass' + 1) % 80 = (r + 1) % 80
  BY <1>1, <1>2
<1> QED
  BY <1>5, <1>6, <1>7 DEF RarWaits

-----------------------------------------------------------------------------
(* The uplink pass keeps the invariant. *)

\* The rest of the uplink pass
LEMMA UlPassRest ==
  ASSUME UlPass
  PROVE  /\ \A x \in ul_sched_table' : x \in ul_sched_table \/ x \in {TtiTxUl, TtiTxDl}
         /\ msg3' \subseteq msg3
         /\ ul_pending' = ul_pending \ UlTakers /\ dl_sfs' = dl_sfs
         /\ \A u \in Rnti : \/ msg_wait_timer'[u] = msg_wait_timer[u]
                            \/ msg_wait_timer[u] > 0 /\ msg_wait_timer'[u] = msg_wait_timer[u] - 1
         /\ msg_wait_timer' = [u \in Rnti |-> msg_wait_timer'[u]]
<1>1. /\ \A x \in ul_sched_table' : x \in ul_sched_table \/ x \in {TtiTxUl, TtiTxDl}
      /\ msg3' \subseteq msg3
      /\ ul_pending' = ul_pending \ UlTakers /\ dl_sfs' = dl_sfs
  BY DEF UlPass, UlTakers
<1> DEFINE waits == {u \in ul_pending : /\ msg_wait_timer[u] > 0
                                        /\ ~\E m \in msg3 : m.tti = tti_rx /\ m.rnti = u}
<1>2. msg_wait_timer' = [u \in Rnti |-> IF u \in waits THEN msg_wait_timer[u] - 1
                                                       ELSE msg_wait_timer[u]]
  BY DEF UlPass
<1>3. \A u \in waits : msg_wait_timer[u] > 0
  OBVIOUS
<1> HIDE DEF waits
<1> QED
  BY <1>1, <1>2, <1>3

\* What UEs were told to send
LEMMA UlNpusch ==
  ASSUME TypeOK, UlPass
  PROVE  npusch' \subseteq [tti : Tti, rnti : Rnti, heard : BOOLEAN]
<1> DEFINE T == [tti : Tti, rnti : Rnti, heard : BOOLEAN]
           heard(n) == n.tti = TtiTxUl /\ \E m \in {m \in msg3 : m.tti = tti_rx} : m.rnti = n.rnti
<1>1. npusch' = {IF heard(n) THEN [n EXCEPT !.heard = TRUE] ELSE n : n \in npusch}
                  \cup {[tti |-> TtiTxUl, rnti |-> u, heard |-> TRUE] : u \in UlTakers}
  BY DEF UlPass, UlTakers
<1>2. TtiTxUl \in Tti /\ UlTakers \subseteq Rnti /\ npusch \subseteq T
  BY TxTtis, UlTakersAre DEF TypeOK
<1>3. ASSUME NEW n \in npusch PROVE [n EXCEPT !.heard = TRUE] \in T /\ n \in T
  <2>1. n \in T
    BY <1>2
  <2>2. TRUE \in BOOLEAN
    OBVIOUS
  <2> QED
    BY <2>1, <2>2, Zenon
<1>4. ASSUME NEW u \in UlTakers PROVE [tti |-> TtiTxUl, rnti |-> u, heard |-> TRUE] \in T
  BY <1>2
<1> HIDE DEF T, heard
<1>5. npusch' \subseteq T
  BY <1>1, <1>3, <1>4
<1> QED
  BY <1>5 DEF T

\* Types
LEMMA UlType ==
  ASSUME TypeOK, UlPass
  PROVE  TypeOK'
<1>1. TtiTxDl \in Tti /\ tti_rx \in Tti /\ TtiTxUl \in Tti /\ Plus(tti_rx, 1) \in Tti
  BY TxTtis
<1>2. UlTakers \subseteq users /\ users \subseteq Rnti
  BY UlTakersAre DEF TypeOK
<1>3. tti_rx' \in Tti /\ pass' \in {"dl", "ul"} /\ users' \subseteq Rnti /\ users' = users
  BY <1>1, <1>2, UlPassIs
<1>4. ul_pending' \subseteq users' /\ dl_sfs' \in [Rnti -> {0, 1, 3}]
  BY <1>3, UlPassRest DEF TypeOK
<1>5. dl' \subseteq Booking
  <2>1. \A u \in UlTakers : Book(TtiTxDl, "ul_dci", u) \in Booking
    BY <1>1, <1>2, BookIs DEF Dci
  <2> QED
    BY <2>1, UlPassIs DEF TypeOK
<1>6. ul_sched_table' \subseteq Tti
  BY <1>1, UlPassRest DEF TypeOK
<1>7. npusch' \subseteq [tti : Tti, rnti : Rnti, heard : BOOLEAN]
  BY UlNpusch
<1>8. /\ sib1_sf_idx' \in 0..Sib1NumSf - 1 /\ pending_rars' \in Seq(users') /\ rar_wait' \in Nat
      /\ last_alloc' \in Tti \cup {NoAlloc}
  BY <1>3, UlPassIs DEF TypeOK
<1>9. msg_wait_timer' \in [Rnti -> 0..WaitTime]
  <2>1. msg_wait_timer \in [Rnti -> 0..WaitTime] /\ WaitTime \in Nat
    BY SchedGridAssumption DEF TypeOK
  <2>2. ASSUME NEW u \in Rnti PROVE msg_wait_timer'[u] \in 0..WaitTime
    <3>1. msg_wait_timer[u] \in 0..WaitTime
      BY <2>1
    <3> QED
      BY <2>1, <3>1, UlPassRest
  <2> QED
    BY <2>2, UlPassRest
<1>10. msg3' \subseteq [tti : 0..Period + 8, rnti : users']
  BY <1>3, UlPassRest DEF TypeOK
<1> QED
  BY <1>3, <1>4, <1>5, <1>6, <1>7, <1>8, <1>9, <1>10 DEF TypeOK

\* A booking seen from the next TTI
LEMMA CameNext ==
  ASSUME NEW now \in Tti, NEW b \in Booking, b.tti # now, Came(now, 4, b)
  PROVE  Came(Plus(now, 1), 3, b)
<1> DEFINE o == Offset(now, b.tti)
           p == Offset(Plus(now, 1), b.tti)
<1>1. b.tti \in Tti
  BY DEF Booking
<1>2. o \in 0..Period - 1 /\ p = o - 1
  BY <1>1, Offsets
<1> HIDE DEF o, p
<1>3. p - 3 = o - 4
  BY <1>2
<1> QED
  BY <1>3 DEF Came, o, p

\* An uplink DCI is alone when it is booked.
LEMMA UlDciIs ==
  ASSUME TypeOK, AllCame, UlPass, NEW u \in UlTakers, NEW c \in dl
  PROVE  c.tti # TtiTxDl
<1> SUFFICES ASSUME c.tti = TtiTxDl PROVE FALSE
  OBVIOUS
<1>1. Offset(tti_rx, TtiTxDl) = 4
  BY TxTtis
<1>2. c.what # "ul_dci"
  BY <1>1 DEF AllCame
<1>3. TtiTxDl \in Marked(dl)
  BY <1>2, MarkedIs
<1> QED
  BY <1>3, UlTakersAre

\* The invariant: time moves on for all bookings alike.
LEMMA UlGrid ==
  ASSUME GridInv, UlPass
  PROVE  GridInv'
<1> USE DEF GridInv
<1> DEFINE now == tti_rx
           t == TtiTxDl
<1>1. /\ now \in Tti /\ t \in Tti /\ t = Plus(now, 4) /\ Offset(now, t) = 4 /\ t # now
      /\ pass = "ul" /\ pass' = "dl" /\ tti_rx' = Plus(now, 1) /\ users' = users
      /\ LastPass = 4 /\ LastPass' = 3
  <2>1. Plus(t, 0) = t
    <3>1. t \in Tti /\ t \in Nat /\ t < Period /\ 0 \in 0..Period
      BY TxTtis, TtiIs
    <3>2. Plus(t, 0) = IF t + 0 < Period THEN t + 0 ELSE t + 0 - Period
      BY <3>1, PlusIs
    <3> QED
      BY <3>1, <3>2
  <2>2. 0 \in 0..60
    OBVIOUS
  <2>3. t # now
    BY <2>1, <2>2, AheadOf
  <2> QED
    BY <2>3, TxTtis, UlPassIs DEF LastPass
<1>2. \A b \in dl' : b \in dl \/ \E u \in UlTakers : b = Book(t, "ul_dci", u)
  BY UlPassIs
<1>3. TypeOK'
  BY UlType
<1>4. ASSUME NEW b \in dl PROVE b \in Booking /\ b.tti # now /\ Offset(tti_rx', b.tti) = Offset(now, b.tti) - 1
                                /\ Offset(now, b.tti) \in 0..Period - 1
  <2>1. b \in Booking /\ b.tti # now /\ b.tti \in Tti
    BY <1>1 DEF TypeOK, AllCame, Booking
  <2> QED
    BY <1>1, <2>1, Offsets
<1>5. AllCame'
  <2> SUFFICES ASSUME NEW b \in dl'
               PROVE  Came(tti_rx', 3, b) /\ (b.what = "ul_dci" => Offset(tti_rx', b.tti) <= 3)
    BY <1>1 DEF AllCame
  <2>1. CASE b \in dl
    <3>1. Came(now, 4, b) /\ (b.what = "ul_dci" => Offset(now, b.tti) <= 3)
      BY <1>1, <2>1 DEF AllCame
    <3>2. Came(tti_rx', 3, b)
      BY <1>1, <1>4, <2>1, <3>1, CameNext
    <3>3. b.what = "ul_dci" => Offset(tti_rx', b.tti) <= 3
      BY <1>4, <2>1, <3>1
    <3> QED
      BY <3>2, <3>3
  <2>2. CASE \E u \in UlTakers : b = Book(t, "ul_dci", u)
    <3>1. b.tti = t /\ b.what = "ul_dci"
      BY <2>2, BookIs
    <3>2. Offset(tti_rx', t) = 3
      BY <1>1, Offsets
    <3> QED
      BY <3>1, <3>2 DEF Came, Dci
  <2> QED
    BY <1>2, <2>1, <2>2
<1>6. DciUser'
  <2> SUFFICES ASSUME NEW b \in dl', b.what \in Dci PROVE b.rnti \in users
    BY <1>1 DEF DciUser
  <2>1. CASE b \in dl
    BY <2>1 DEF DciUser
  <2>2. CASE \E u \in UlTakers : b = Book(t, "ul_dci", u)
    BY <2>2, BookIs, UlTakersAre
  <2> QED
    BY <1>2, <2>1, <2>2
<1>7. Plus(tti_rx', 3) = t /\ Plus(tti_rx', 4) = Plus(now, 5)
  <2>1. 1 \in 0..20 /\ 3 \in 0..60 /\ 4 \in 0..60
    OBVIOUS
  <2>2. Plus(Plus(now, 1), 3) = Plus(now, 1 + 3) /\ Plus(Plus(now, 1), 4) = Plus(now, 1 + 4)
    BY <1>1, <2>1, After
  <2> QED
    BY <1>1, <2>2
<1>8. DataRecent'
  <2>1. last_alloc' = last_alloc
    BY UlPassIs
  <2>2. last_alloc # NoAlloc => users # {} /\ \E e \in 0..AllocGap : t = Plus(last_alloc, e)
    BY <1>1 DEF DataRecent
  <2>3. ASSUME NEW b \in dl', b.what = "data"
        PROVE  \/ Offset(tti_rx', b.tti) <= 3
               \/ last_alloc # NoAlloc /\ \E d \in 5..9 : b.tti = Plus(last_alloc, d)
    <3>1. b \in dl
      BY <1>2, <2>3, BookIs
    <3>2. Offset(now, b.tti) <= 4 => Offset(tti_rx', b.tti) <= 3
      BY <1>4, <3>1
    <3> QED
      BY <1>1, <2>3, <3>1, <3>2 DEF DataRecent
  <2> QED
    BY <1>1, <1>7, <2>1, <2>2, <2>3 DEF DataRecent
<1>9. DataOfDci'
  BY <1>1 DEF DataOfDci
<1>10. RarWaits'
  <2>1. pending_rars' = pending_rars /\ rar_wait' = rar_wait
    BY UlPassIs
  <2>2. rar_wait <= WaitBound(Plus(now, 5) % 80) /\ (pending_rars = <<>> => rar_wait = 0)
    BY <1>1 DEF RarWaits
  <2>3. Plus(tti_rx', LastPass' + 1) = Plus(now, 5)
    BY <1>1, <1>7
  <2> QED
    BY <2>1, <2>2, <2>3 DEF RarWaits
<1>11. DciAlone'
  <2> SUFFICES ASSUME NEW b \in dl', NEW c \in dl', b.what \in Dci, b.tti = c.tti PROVE b = c
    BY DEF DciAlone
  <2>1. CASE b \in dl /\ c \in dl
    BY <2>1 DEF DciAlone
  <2>2. CASE \E u \in UlTakers : b = Book(t, "ul_dci", u)
    <3>1. PICK u \in UlTakers : b = Book(t, "ul_dci", u)
      BY <2>2
    <3>2. b.tti = t
      BY <3>1, BookIs
    <3>3. c \notin dl
      BY <3>2, UlDciIs
    <3> QED
      BY <1>2, <3>1, <3>3, UlTakersAre
  <2>3. CASE b \in dl /\ \E u \in UlTakers : c = Book(t, "ul_dci", u)
    <3>1. c.tti = t
      BY <2>3, BookIs
    <3> QED
      BY <2>3, <3>1, UlDciIs
  <2> QED
    BY <1>2, <2>1, <2>2, <2>3
<1>12. DataAlone'
  <2> SUFFICES ASSUME NEW b \in dl', NEW c \in dl', b.what = "data", c.what # "rar", b.tti = c.tti PROVE b = c
    BY DEF DataAlone
  <2>1. b \in dl
    BY <1>2, BookIs
  <2>2. CASE c \in dl
    BY <2>1, <2>2 DEF DataAlone
  <2>3. CASE \E u \in UlTakers : c = Book(t, "ul_dci", u)
    <3>1. c.tti = t
      BY <2>3, BookIs
    <3> QED
      BY <2>1, <2>3, <3>1, UlDciIs
  <2> QED
    BY <1>2, <2>2, <2>3
<1> QED
  BY <1>3, <1>5, <1>6, <1>8, <1>9, <1>10, <1>11, <1>12

-----------------------------------------------------------------------------
(* The other threads keep it, and the scheduler's theorems. *)

\* The invariant holds at the start.
LEMMA GridInit ==
  ASSUME Init
  PROVE  GridInv
<1> USE DEF Init
<1>1. TypeOK
  <2>1. /\ FirstTtis \subseteq Tti /\ Connected \subseteq Rnti /\ 0 \in 0..WaitTime /\ 0 \in 0..Sib1NumSf - 1
    BY SchedGridAssumption DEF Tti
  <2>2. dl_sfs \in [Rnti -> {0, 1, 3}] /\ msg_wait_timer \in [Rnti -> 0..WaitTime]
    BY <2>1
  <2>3. pending_rars \in Seq(users)
    OBVIOUS
  <2> QED
    BY <2>1, <2>2, <2>3 DEF TypeOK
<1>2. AllCame /\ DciUser /\ DataRecent /\ DataOfDci /\ DciAlone /\ DataAlone
  BY DEF AllCame, DciUser, DataRecent, DataOfDci, DciAlone, DataAlone
<1>3. RarWaits
  <2>1. tti_rx \in Tti /\ TtiTxDl \in Tti /\ TtiTxDl = Plus(tti_rx, 4)
    BY <1>1, TxTtis
  <2>2. TtiTxDl % 80 \in 0..79
    <3>1. TtiTxDl \in Nat
      BY <2>1, TtiIs
    <3> QED
      BY <3>1
  <2>3. WaitBound(TtiTxDl % 80) \in 0..31
    BY <2>2, Bounds
  <2>4. LastPass + 1 = 4
    BY DEF LastPass
  <2>5. 0 <= WaitBound(TtiTxDl % 80)
    <3> DEFINE w == WaitBound(TtiTxDl % 80)
    <3>1. w \in 0..31
      BY <2>3
    <3> HIDE DEF w
    <3>2. 0 <= w
      BY <3>1
    <3> QED
      BY <3>2 DEF w
  <2> QED
    BY <2>1, <2>4, <2>5 DEF RarWaits
<1> QED
  BY <1>1, <1>2, <1>3 DEF GridInv

\* Reports leave the bookings and the time alone.
LEMMA ReportsType ==
  ASSUME TypeOK, Reports
  PROVE  TypeOK'
<1>1. ASSUME NEW r \in Rnti, DlRachInfo(r) PROVE TypeOK'
  <2>1. /\ users' = users \cup {r} /\ pending_rars' = Append(pending_rars, r)
        /\ pending_rars \in Seq(users) /\ users \subseteq Rnti
        /\ UNCHANGED <<tti_rx, pass, dl, ul_sched_table, npusch, sib1_sf_idx, rar_wait, dl_sfs,
                       ul_pending, msg_wait_timer, last_alloc, msg3>>
    BY <1>1 DEF DlRachInfo, TypeOK
  <2>2. pending_rars \in Seq(users')
    BY <2>1
  <2>3. pending_rars' \in Seq(users')
    BY <2>1, <2>2
  <2>4. msg3' \subseteq [tti : 0..Period + 8, rnti : users']
    BY <2>1 DEF TypeOK
  <2> QED
    BY <2>1, <2>3, <2>4 DEF TypeOK
<1>2. ASSUME NEW d \in DlData, DlRlcBufferState(d[1], d[2]) PROVE TypeOK'
  <2>1. d[1] \in Rnti /\ d[2] \in {1, 3}
    BY SchedGridAssumption
  <2>2. /\ dl_sfs' = [dl_sfs EXCEPT ![d[1]] = d[2]] /\ dl_sfs \in [Rnti -> {0, 1, 3}]
        /\ UNCHANGED <<tti_rx, pass, users, dl, ul_sched_table, npusch, sib1_sf_idx, pending_rars,
                       rar_wait, ul_pending, msg_wait_timer, last_alloc, msg3>>
    BY <1>2 DEF DlRlcBufferState, TypeOK
  <2>3. dl_sfs' \in [Rnti -> {0, 1, 3}]
    BY <2>1, <2>2
  <2> QED
    BY <2>2, <2>3 DEF TypeOK
<1>3. ASSUME NEW u \in UlUsers, NEW data \in BOOLEAN, NEW wait \in BOOLEAN, UlBsr(u, data, wait) PROVE TypeOK'
  <2>1. /\ u \in users /\ ul_pending' \subseteq ul_pending \cup {u}
        /\ msg_wait_timer' = [msg_wait_timer EXCEPT ![u] = IF wait THEN WaitTime ELSE @]
        /\ UNCHANGED <<tti_rx, pass, users, dl, ul_sched_table, npusch, sib1_sf_idx, pending_rars,
                       rar_wait, dl_sfs, last_alloc, msg3>>
    BY <1>3 DEF UlBsr
  <2>2. ul_pending' \subseteq users'
    BY <2>1 DEF TypeOK
  <2>3. msg_wait_timer' \in [Rnti -> 0..WaitTime]
    <3>1. WaitTime \in 0..WaitTime /\ msg_wait_timer \in [Rnti -> 0..WaitTime]
      BY SchedGridAssumption DEF TypeOK
    <3> QED
      BY <2>1, <3>1
  <2> QED
    BY <2>1, <2>2, <2>3 DEF TypeOK
<1> QED
  BY <1>1, <1>2, <1>3 DEF Reports

\* The invariant: the bookings stay.
LEMMA ReportsGrid ==
  ASSUME GridInv, Reports
  PROVE  GridInv'
<1>1. /\ UNCHANGED <<tti_rx, pass, dl, rar_wait, last_alloc>>
      /\ users \subseteq users'
      /\ pending_rars' = pending_rars \/ \E r \in users' : pending_rars' = Append(pending_rars, r)
  BY DEF Reports, DlRachInfo, DlRlcBufferState, UlBsr
<1>2. TypeOK'
  BY ReportsType DEF GridInv
<1>3. LastPass' = LastPass /\ TtiTxDl' = TtiTxDl
  BY <1>1 DEF LastPass, TtiTxDl
<1>4. AllCame' /\ DciUser' /\ DataOfDci' /\ DciAlone' /\ DataAlone'
  BY <1>1, <1>3 DEF GridInv, AllCame, DciUser, DataOfDci, DciAlone, DataAlone
<1>5. DataRecent'
  BY <1>1, <1>3 DEF GridInv, DataRecent
<1>6. RarWaits'
  <2>1. rar_wait <= WaitBound(Plus(tti_rx, LastPass + 1) % 80) /\ (pending_rars = <<>> => rar_wait = 0)
    BY DEF GridInv, RarWaits
  <2>2. pending_rars \in Seq(users)
    BY DEF GridInv, TypeOK
  <2>3. \A r \in users' : Append(pending_rars, r) # <<>>
    <3>1. pending_rars \in Seq(users')
      BY <1>1, <2>2
    <3> QED
      BY <3>1, AppendProperties
  <2>4. pending_rars' = <<>> => rar_wait' = 0
    BY <1>1, <2>1, <2>3
  <2> QED
    BY <1>1, <1>3, <2>1, <2>4 DEF RarWaits
<1> QED
  BY <1>2, <1>4, <1>5, <1>6 DEF GridInv

\* Every step of the scheduler keeps the invariant.
LEMMA GridStep ==
  ASSUME GridInv, [Next]_vars
  PROVE  GridInv'
<1>1. CASE DlPass
  BY <1>1, DlType, DlAllCame, DlDciUser, DlDataRecent, DlDataOfDci, DlRarWaits, DlDciAlone, DlDataAlone
     DEF GridInv
<1>2. CASE UlPass
  BY <1>2, UlGrid
<1>3. CASE Reports
  BY <1>3, ReportsGrid
<1>4. CASE UNCHANGED vars
  <2>1. LastPass' = LastPass /\ TtiTxDl' = TtiTxDl
    BY <1>4 DEF vars, LastPass, TtiTxDl
  <2>2. TypeOK'
    BY <1>4 DEF vars, GridInv, TypeOK
  <2>3. AllCame' /\ DciUser' /\ DataOfDci' /\ DciAlone' /\ DataAlone'
    BY <1>4, <2>1 DEF vars, GridInv, AllCame, DciUser, DataOfDci, DciAlone, DataAlone
  <2>4. DataRecent' /\ RarWaits'
    BY <1>4, <2>1 DEF vars, GridInv, DataRecent, RarWaits
  <2> QED
    BY <2>2, <2>3, <2>4 DEF GridInv
<1> QED
  BY <1>1, <1>2, <1>3, <1>4 DEF Next

(***************************************************************************)
(* The bookings, timers and queues of the carrier scheduler keep their     *)
(* types.                                                                  *)
(***************************************************************************)
THEOREM GridTypes == Spec => []TypeOK
<1>1. Init => GridInv
  BY GridInit
<1>2. GridInv /\ [Next]_vars => GridInv'
  BY GridStep
<1>3. GridInv => TypeOK
  BY DEF GridInv
<1> QED
  BY <1>1, <1>2, <1>3, PTL DEF Spec

(***************************************************************************)
(* A subframe with a DCI carries nothing else, whatever is reported when,  *)
(* although the RAR is booked without a look at the table and SIB2 looks   *)
(* at its first subframe only: the calendar keeps these apart from what is *)
(* looked up (get_dl_sched's "scheduling conflict").                       *)
(***************************************************************************)
THEOREM DciAlwaysAlone == Spec => []DciAlone
<1>1. Init => GridInv
  BY GridInit
<1>2. GridInv /\ [Next]_vars => GridInv'
  BY GridStep
<1>3. GridInv => DciAlone
  BY DEF GridInv
<1> QED
  BY <1>1, <1>2, <1>3, PTL DEF Spec

(***************************************************************************)
(* Data shares its subframe with no system information and with no data of *)
(* another user (alloc_dl_user, alloc_sibs).                               *)
(***************************************************************************)
THEOREM DataAlwaysAlone == Spec => []DataAlone
<1>1. Init => GridInv
  BY GridInit
<1>2. GridInv /\ [Next]_vars => GridInv'
  BY GridStep
<1>3. GridInv => DataAlone
  BY DEF GridInv
<1> QED
  BY <1>1, <1>2, <1>3, PTL DEF Spec

(***************************************************************************)
(* The first pending RAR waits less than 32 TTIs (ra_sched::dl_sched): in  *)
(* every eight frames four subframes of the common search space are free   *)
(* of whatever else is booked, and the gaps between them are short.        *)
(***************************************************************************)
THEOREM RarAlwaysInTime == Spec => []RarInTime
<1>1. Init => GridInv
  BY GridInit
<1>2. GridInv /\ [Next]_vars => GridInv'
  BY GridStep
<1>3. GridInv => RarInTime
  <2> SUFFICES ASSUME GridInv PROVE RarInTime
    OBVIOUS
  <2> DEFINE x == Plus(tti_rx, LastPass + 1)
  <2>1. tti_rx \in Tti /\ LastPass + 1 \in 0..Period
    BY PeriodIs DEF GridInv, TypeOK, LastPass
  <2>2. x \in Tti
    BY <2>1, PlusIs
  <2>3. x \in Nat
    BY <2>2, TtiIs
  <2>4. rar_wait <= WaitBound(x % 80) /\ rar_wait \in Nat
    BY DEF GridInv, RarWaits, TypeOK
  <2> HIDE DEF x
  <2>5. x % 80 \in 0..79
    BY <2>3
  <2>6. WaitBound(x % 80) \in 0..31
    BY <2>5, Bounds
  <2> DEFINE w == WaitBound(x % 80)
  <2>7. w \in 0..31 /\ rar_wait <= w
    BY <2>4, <2>6
  <2> HIDE DEF w
  <2> QED
    BY <2>4, <2>7 DEF RarInTime
<1> QED
  BY <1>1, <1>2, <1>3, PTL DEF Spec

-----------------------------------------------------------------------------
(* The subframe worker *)

\* Every step of the worker's specification is one of the scheduler's, or none.
LEMMA WorkerSteps ==
  ASSUME [PhyNext]_allVars
  PROVE  [Next]_vars
<1>1. CASE GetDlSched
  BY <1>1 DEF GetDlSched, Next
<1>2. CASE WorkImp
  BY <1>2 DEF WorkImp, Next
<1>3. CASE \E u \in Rnti : ProcessPdu(u)
  <2>1. PICK u \in Rnti : ProcessPdu(u)
    BY <1>3
  <2>2. (u \in UlUsers /\ \E data, wait \in BOOLEAN : UlBsr(u, data, wait)) \/ UNCHANGED vars
    BY <2>1 DEF ProcessPdu
  <2>3. CASE u \in UlUsers /\ \E data, wait \in BOOLEAN : UlBsr(u, data, wait)
    BY <2>3 DEF Next, Reports
  <2> QED
    BY <2>2, <2>3
<1>4. CASE OtherReports
  BY <1>4 DEF OtherReports, Next, Reports
<1>5. CASE UNCHANGED allVars
  BY <1>5 DEF allVars
<1> QED
  BY <1>1, <1>2, <1>3, <1>4, <1>5 DEF PhyNext

(***************************************************************************)
(* The scheduler under the worker (sf_worker::work_imp) behaves as the     *)
(* scheduler alone, so what is proved of it holds under the worker.        *)
(***************************************************************************)
THEOREM WorkerRunsScheduler == PhySpec => Spec
<1>1. PhyInit => Init
  BY DEF PhyInit
<1>2. [PhyNext]_allVars => [Next]_vars
  BY WorkerSteps
<1> QED
  BY <1>1, <1>2, PTL DEF PhySpec, Spec

\* A set within three elements has at most three.
LEMMA AtMostThree ==
  ASSUME NEW a, NEW b, NEW c, NEW S, S \subseteq {a, b, c}
  PROVE  Cardinality(S) \in 0..3
<1>1. IsFiniteSet({a}) /\ Cardinality({a}) = 1
  BY FS_Singleton
<1>2. IsFiniteSet({a} \cup {b}) /\ Cardinality({a} \cup {b}) \in 1..2
  BY <1>1, FS_AddElement
<1>3. IsFiniteSet(({a} \cup {b}) \cup {c}) /\ Cardinality(({a} \cup {b}) \cup {c}) \in 1..3
  BY <1>2, FS_AddElement
<1>4. S \subseteq ({a} \cup {b}) \cup {c}
  OBVIOUS
<1>5. IsFiniteSet(S) /\ Cardinality(S) <= Cardinality(({a} \cup {b}) \cup {c})
  BY <1>3, <1>4, FS_Subset
<1>6. Cardinality(S) \in Nat
  BY <1>5, FS_CardinalityType
<1> QED
  BY <1>3, <1>5, <1>6

\* A subframe between tti_rx and TtiTxDl is behind TtiTxDl.
LEMMA Behind ==
  ASSUME TypeOK, NEW x \in Tti, Offset(tti_rx, x) \in 1..3
  PROVE  ~Ahead(x)
<1> DEFINE o == Offset(tti_rx, x)
           t == TtiTxDl
<1>1. /\ tti_rx \in 0..Period - 1 /\ x \in 0..Period - 1 /\ t \in 0..Period - 1
      /\ Period \in Nat /\ Period >= 80
  BY TxTtis, TtiIs
<1>2. t = IF tti_rx + 4 < Period THEN tti_rx + 4 ELSE tti_rx + 4 - Period
  <2>1. 4 \in 0..Period /\ tti_rx \in Tti /\ t = Plus(tti_rx, 4)
    BY <1>1, TxTtis
  <2> QED
    BY <2>1, PlusIs
<1>3. o = IF x >= tti_rx THEN x - tti_rx ELSE x + Period - tti_rx
  BY DEF Offset
<1> HIDE DEF o, t
<1>4. o \in 1..3
  BY DEF o
<1>5. x + Period - t = Period + o - 4 \/ x + Period - t = (Period + o - 4) + Period
  BY <1>1, <1>2, <1>3, <1>4
<1> DEFINE p == Period + o - 4
<1>6. p \in 0..Period - 1 /\ p >= Period - 3
  BY <1>1, <1>4
<1>7. (x + Period - t) = p \/ (x + Period - t) = p + Period
  BY <1>5
<1> HIDE DEF p
<1>8. p % Period = p /\ (p + Period) % Period = p
  BY <1>1, <1>6
<1>9. (x + Period - t) % Period = p
  BY <1>7, <1>8
<1>10. ~(p < Period \div 2)
  BY <1>1, <1>6
<1> QED
  BY <1>9, <1>10 DEF Ahead, t

\* Data has three subframes at most.
LEMMA Delays ==
  ASSUME NEW s
  PROVE  \E a, b, c \in 5..9 : DataDelays(s) \subseteq {a, b, c}
<1>1. CASE s \in {1, 16, 17, 32}
  BY <1>1 DEF DataDelays
<1>2. CASE s = 8
  BY <1>2 DEF DataDelays
<1>3. CASE s = 24
  BY <1>3 DEF DataDelays
<1>4. CASE s = 33
  BY <1>4 DEF DataDelays
<1>5. CASE s \notin {1, 16, 17, 32, 8, 24, 33}
  <2>1. DataDelays(s) = {}
    BY <1>5 DEF DataDelays
  <2> QED
    BY <2>1
<1> QED
  BY <1>1, <1>2, <1>3, <1>4, <1>5

\* The grant that the worker makes of a DCI: at most three subframes are ahead.
LEMMA GrantOk ==
  ASSUME GridInv, pass = "ul", NEW b \in DciNow
  PROVE  GrantOf(b) \in Grant
<1> USE DEF GridInv
<1> DEFINE t == TtiTxDl
           S == {c \in dl : c.what = "data" /\ c.rnti = b.rnti /\ Ahead(c.tti)}
<1>1. b \in dl /\ b.tti = t /\ b.what \in {"rar_dci", "dl_dci"} /\ b.what \in Dci
  BY DEF DciNow, Dci
<1>2. b.rnti \in Rnti
  BY <1>1 DEF DciUser, TypeOK
<1>3. tti_rx \in Tti /\ t \in Tti /\ t = Plus(tti_rx, 4)
  BY TxTtis
<1>4. RarTxTti(t) \in Tti
  <2>1. PICK d \in 5..7 : RarTxTti(t) = Plus(t, d)
    BY <1>3, RarLands
  <2>2. d \in 0..Period
    BY PeriodIs
  <2> QED
    BY <1>3, <2>1, <2>2, PlusIs
<1>5. b.what = "dl_dci" => Cardinality(S) \in 0..3
  <2> HAVE b.what = "dl_dci"
  <2>1. PICK i, j, k \in 5..9 : DataDelays(t % 40) \subseteq {i, j, k}
    BY Delays
  <2> DEFINE at(d) == Book(Plus(t, d), "data", b.rnti)
  <2>2. ASSUME NEW c \in S PROVE c \in {at(i), at(j), at(k)}
    <3>1. c \in dl /\ c.what = "data" /\ c.rnti = b.rnti /\ Ahead(c.tti) /\ c \in Booking /\ c.tti \in Tti
      BY DEF TypeOK, Booking
    <3>2. ~(Offset(tti_rx, c.tti) <= 4)
      <4> SUFFICES ASSUME Offset(tti_rx, c.tti) <= 4 PROVE FALSE
        OBVIOUS
      <4>1. Offset(tti_rx, c.tti) \in 0..Period - 1 /\ Plus(tti_rx, Offset(tti_rx, c.tti)) = c.tti
        BY <1>3, <3>1, Offsets
      <4>2. c.tti # tti_rx
        BY <3>1 DEF AllCame
      <4>3. Offset(tti_rx, c.tti) # 0
        BY <1>3, <3>1, <4>2, TtiIs DEF Offset
      <4>4. Offset(tti_rx, c.tti) # 4
        <5>1. c.tti # t
          BY <1>1, <3>1 DEF DciAlone
        <5> QED
          BY <1>3, <4>1, <5>1
      <4>5. Offset(tti_rx, c.tti) \in 1..3
        BY <4>1, <4>3, <4>4
      <4> QED
        BY <3>1, <4>5, Behind
    <3>3. PICK d \in DataDelays(t % 40) : c.tti = Plus(t, d)
      BY <1>1, <3>1, <3>2 DEF DataOfDci
    <3>4. c = Book(c.tti, c.what, c.rnti)
      BY <3>1 DEF Booking, Book
    <3>5. c = at(d)
      BY <3>1, <3>3, <3>4
    <3> QED
      BY <2>1, <3>3, <3>5
  <2>3. S \subseteq {at(i), at(j), at(k)}
    BY <2>2
  <2> HIDE DEF S, at
  <2> QED
    BY <2>3, AtMostThree
<1>6. GrantOf(b).sfs \in 0..3
  <2>1. GrantOf(b).sfs = IF b.what = "rar_dci" THEN 1 ELSE Cardinality(S)
    BY DEF GrantOf
  <2> HIDE DEF S
  <2> QED
    BY <1>1, <1>5, <2>1
<1>7. /\ GrantOf(b) = [start |-> RarTxTti(t), sfs |-> GrantOf(b).sfs, rnti |-> b.rnti]
  BY DEF GrantOf
<1> QED
  BY <1>2, <1>4, <1>6, <1>7 DEF Grant

PhyInv == GridInv /\ PhyTypeOK /\ SlotUser

UgrantType == [on : BOOLEAN, start : Tti, rnti : Rnti \cup {Nobody}, data : BOOLEAN]
ReceiverType == [rnti : Rnti \cup {Nobody}, left : 0..NofUlSfs]

\* No RNTI is that of nobody.
LEMMA NotNobody == Nobody \notin Rnti
BY SchedGridAssumption DEF Nobody

\* The queue of grants
LEMMA QueuedOk ==
  ASSUME PhyInv, pass = "ul"
  PROVE  Queued \in Seq(Grant)
<1>1. dl_pending_grants \in Seq(Grant)
  BY DEF PhyInv, PhyTypeOK
<1>2. CASE DciNow = {}
  BY <1>1, <1>2 DEF Queued
<1>3. CASE DciNow # {}
  <2> DEFINE b == CHOOSE b \in DciNow : TRUE
  <2>1. b \in DciNow
    BY <1>3
  <2>2. GrantOf(b) \in Grant
    BY <2>1, GrantOk DEF PhyInv
  <2>3. Queued = Append(dl_pending_grants, GrantOf(b))
    BY <1>3 DEF Queued
  <2> QED
    BY <1>1, <2>2, <2>3
<1> QED
  BY <1>2, <1>3

\* work_dl keeps the types of what it works on.
LEMMA WorkDlTypes ==
  ASSUME PhyInv, pass = "ul", WorkDl
  PROVE  /\ dl_pending_grants' \in Seq(Grant)
         /\ npdsch' \in [rnti : Rnti \cup {Nobody}, left : 0..Sib2NumSf]
         /\ sib1_cfg' \in 0..Sib1NumSf - 1
<1> DEFINE T == [rnti : Rnti \cup {Nobody}, left : 0..8]
<1>0. npdsch \in T /\ sib1_cfg \in 0..Sib1NumSf - 1 /\ Queued \in Seq(Grant)
  BY QueuedOk DEF PhyInv, PhyTypeOK, Sib2NumSf
<1>1. Queued # <<>> => Head(Queued) \in Grant /\ Tail(Queued) \in Seq(Grant)
  BY <1>0
<1>2. dl_pending_grants' \in Seq(Grant)
  BY <1>0, <1>1 DEF WorkDl, HeadStarts
<1>3. sib1_cfg' \in 0..Sib1NumSf - 1
  <2>1. Sib1NumSf \in Nat /\ Sib1NumSf > 1
    BY SchedGridAssumption
  <2>2. Sib1SfIdx \in 0..Sib1NumSf - 1
    BY <1>0, <2>1 DEF Sib1SfIdx
  <2>3. NextSib1 \in 0..Sib1NumSf - 1
    BY <2>1, <2>2 DEF NextSib1
  <2> QED
    BY <1>0, <2>3 DEF WorkDl
<1>4. AfterSib2 \in T
  BY <1>0 DEF AfterSib2, Sib2NumSf
<1>5. AfterStart \in T
  <2>1. CASE HeadStarts
    <3>1. Head(Queued) \in Grant
      BY <1>1, <2>1 DEF HeadStarts
    <3>2. Head(Queued).rnti \in Rnti /\ Head(Queued).sfs \in 0..8
      BY <3>1 DEF Grant
    <3>3. AfterStart = [rnti |-> Head(Queued).rnti, left |-> Head(Queued).sfs]
      BY <2>1 DEF AfterStart
    <3> QED
      BY <3>2, <3>3
  <2>2. CASE ~HeadStarts
    BY <1>4, <2>2 DEF AfterStart
  <2> QED
    BY <2>1, <2>2
<1>6. npdsch' \in T
  <2>1. CASE ~SendsNpdsch
    BY <1>5, <2>1 DEF WorkDl
  <2>2. CASE SendsNpdsch /\ AfterStart.left = 1
    <3>1. npdsch' = [rnti |-> Nobody, left |-> 0]
      BY <2>2 DEF WorkDl
    <3> QED
      BY <3>1
  <2>3. CASE SendsNpdsch /\ AfterStart.left # 1
    <3>1. npdsch' = [AfterStart EXCEPT !.left = @ - 1] /\ AfterStart.left > 0
      BY <2>3 DEF WorkDl, SendsNpdsch
    <3>2. AfterStart.left \in 0..8
      BY <1>5
    <3>3. AfterStart.left - 1 \in 0..8
      BY <3>1, <3>2
    <3> QED
      BY <1>5, <3>1, <3>3
  <2> QED
    BY <2>1, <2>2, <2>3
<1> QED
  BY <1>2, <1>3, <1>6 DEF Sib2NumSf

\* The users with grants in this pass are users of ue_db.
LEMMA GrantedUsers ==
  ASSUME PhyInv, GridInv', UlPass
  PROVE  Msg3Now \cup UlDciNow \subseteq users /\ users \subseteq Rnti
<1>1. msg3 \subseteq [tti : 0..Period + 8, rnti : users] /\ users \subseteq Rnti
  BY DEF PhyInv, GridInv, TypeOK
<1>2. Msg3Now \subseteq users
  BY <1>1 DEF Msg3Now
<1>3. UlDciNow \subseteq users
  <2>1. users' = users
    BY UlPassIs
  <2>2. \A c \in dl' : c.what = "ul_dci" => c.rnti \in users
    BY <2>1 DEF GridInv, DciUser, Dci
  <2> QED
    BY <2>2 DEF UlDciNow
<1> QED
  BY <1>1, <1>2, <1>3

\* The slot for an uplink grant
LEMMA RecordedOk ==
  ASSUME PhyInv, GridInv', UlPass
  PROVE  /\ Recorded \in UgrantType
         /\ Recorded.on => Recorded.rnti # Nobody
         /\ Recorded.rnti # Nobody => Recorded.rnti \in users /\ Recorded.rnti \in Rnti
<1>1. /\ ugrant \in UgrantType /\ users \subseteq Rnti
      /\ ugrant.on => ugrant.rnti # Nobody
      /\ ugrant.rnti # Nobody => ugrant.rnti \in users
  BY Zenon DEF PhyInv, GridInv, TypeOK, PhyTypeOK, SlotUser, UgrantType
<1>2. CASE Msg3Now \cup UlDciNow = {}
  <2>1. Recorded = ugrant
    BY <1>2 DEF Recorded
  <2> QED
    BY <1>1, <2>1, Zenon
<1>3. CASE Msg3Now \cup UlDciNow # {}
  <2> DEFINE u == CHOOSE v \in IF Msg3Now # {} THEN Msg3Now ELSE UlDciNow : TRUE
  <2>1. u \in Msg3Now \cup UlDciNow
    BY <1>3
  <2>2. u \in users /\ u \in Rnti /\ u # Nobody
    BY <2>1, GrantedUsers, NotNobody
  <2>3. Recorded = [on |-> TRUE, start |-> TtiTxUl, rnti |-> u, data |-> HasBuffer(u)]
    BY <1>3 DEF Recorded
  <2> HIDE DEF u
  <2>4. TtiTxUl \in Tti
    BY TxTtis DEF PhyInv, GridInv
  <2>5. HasBuffer(u) \in BOOLEAN /\ TRUE \in BOOLEAN
    BY DEF HasBuffer
  <2>6. Recorded.rnti = u
    BY <2>3
  <2>7. Recorded \in UgrantType
    BY <2>2, <2>3, <2>4, <2>5 DEF UgrantType
  <2> QED
    BY <2>2, <2>6, <2>7
<1> QED
  BY <1>2, <1>3

\* The reception
LEMMA ReceivingOk ==
  ASSUME PhyInv, GridInv', UlPass
  PROVE  /\ Receiving \in ReceiverType
         /\ Receiving.left > 0 => Receiving.rnti # Nobody
<1>1. enb_ul \in ReceiverType /\ (enb_ul.left > 0 => enb_ul.rnti # Nobody)
  BY DEF PhyInv, PhyTypeOK, SlotUser, ReceiverType
<1>2. CASE Recorded.on /\ tti_rx = Recorded.start
  <2>1. Receiving = [rnti |-> Recorded.rnti, left |-> 4]
    BY <1>2 DEF Receiving, NofUlSfs
  <2>2. Recorded.rnti \in Rnti /\ Recorded.rnti # Nobody
    BY <1>2, RecordedOk
  <2> QED
    BY <2>1, <2>2 DEF ReceiverType, NofUlSfs
<1>3. CASE ~(Recorded.on /\ tti_rx = Recorded.start)
  BY <1>1, <1>3 DEF Receiving
<1> QED
  BY <1>2, <1>3

\* The buffers of the users
LEMMA RequestedOk ==
  ASSUME PhyInv, GridInv', UlPass
  PROVE  Requested \in [Rnti -> SUBSET (0..NofRxHarq - 1)]
<1>1. pending_buffers \in [Rnti -> SUBSET (0..NofRxHarq - 1)]
  BY DEF PhyInv, PhyTypeOK
<1>2. Slot(TtiTxUl) \in 0..NofRxHarq - 1
  <2>1. TtiTxUl \in Nat
    BY TxTtis, TtiIs DEF PhyInv, GridInv
  <2> QED
    BY <2>1 DEF Slot, NofRxHarq
<1> QED
  BY <1>1, <1>2 DEF Requested

\* work_ul keeps the types of what it works on.
LEMMA WorkUlTypes ==
  ASSUME PhyInv, GridInv', UlPass, WorkUl
  PROVE  /\ ugrant' \in UgrantType /\ enb_ul' \in ReceiverType
         /\ pending_buffers' \in [Rnti -> SUBSET (0..NofRxHarq - 1)]
         /\ pdus' \in [Rnti -> Seq(Rnti)] /\ (\A u \in Rnti \ users' : pdus'[u] = <<>>)
         /\ SlotUser'
<1>0. /\ users' = users /\ users \subseteq Rnti
      /\ pdus \in [Rnti -> Seq(Rnti)] /\ (\A u \in Rnti \ users : pdus[u] = <<>>)
  BY UlPassIs DEF PhyInv, GridInv, TypeOK, PhyTypeOK
<1>1. /\ Recorded \in UgrantType
      /\ Recorded.on => Recorded.rnti # Nobody
      /\ Recorded.rnti # Nobody => Recorded.rnti \in users /\ Recorded.rnti \in Rnti
  BY RecordedOk
<1>2. Receiving \in ReceiverType /\ (Receiving.left > 0 => Receiving.rnti # Nobody)
  BY ReceivingOk
<1>3. Requested \in [Rnti -> SUBSET (0..NofRxHarq - 1)]
  BY RequestedOk
<1>4. NoGrant \in UgrantType /\ NoGrant.on = FALSE /\ NoGrant.rnti = Nobody
  <2>1. 0 \in Tti /\ FALSE \in BOOLEAN
    BY PeriodIs DEF Tti
  <2> QED
    BY <2>1 DEF NoGrant, UgrantType
<1>5. /\ ugrant' \in UgrantType
      /\ ugrant'.on => ugrant'.rnti # Nobody
      /\ ugrant'.rnti # Nobody => ugrant'.rnti \in users
  <2>1. ugrant' = NoGrant \/ ugrant' = Recorded
    BY DEF WorkUl
  <2>2. CASE ugrant' = NoGrant
    BY <1>4, <2>2, Zenon
  <2>3. CASE ugrant' = Recorded
    BY <1>1, <2>3, Zenon
  <2> QED
    BY <2>1, <2>2, <2>3, Zenon
<1>6. enb_ul' \in ReceiverType /\ (enb_ul'.left > 0 => enb_ul'.rnti # Nobody)
  <2>1. CASE Receiving.left > 1
    <3>1. enb_ul' = [Receiving EXCEPT !.left = @ - 1]
      BY <2>1 DEF WorkUl
    <3>2. Receiving.left \in 0..4 /\ Receiving.rnti \in Rnti \cup {Nobody}
      BY <1>2 DEF ReceiverType, NofUlSfs
    <3>3. Receiving.left - 1 \in 0..4 /\ Receiving.left > 0
      BY <2>1, <3>2
    <3>4. enb_ul' \in ReceiverType
      BY <1>2, <3>1, <3>3 DEF ReceiverType, NofUlSfs
    <3>5. enb_ul'.rnti = Receiving.rnti
      BY <1>2, <3>1 DEF ReceiverType
    <3> QED
      BY <1>2, <3>3, <3>4, <3>5
  <2>2. CASE ~(Receiving.left > 1)
    <3>1. enb_ul' = [rnti |-> Nobody, left |-> 0]
      BY <2>2 DEF WorkUl, NotReceiving
    <3>2. enb_ul'.left = 0
      BY <3>1
    <3> QED
      BY <3>1, <3>2 DEF ReceiverType, NofUlSfs
  <2> QED
    BY <2>1, <2>2
<1>7. /\ pending_buffers' \in [Rnti -> SUBSET (0..NofRxHarq - 1)]
      /\ pdus' \in [Rnti -> Seq(Rnti)] /\ (\A u \in Rnti \ users : pdus'[u] = <<>>)
  <2>1. CASE Completes /\ Recorded.rnti # Nobody
    <3> DEFINE u == Recorded.rnti
    <3>1. u \in users /\ u \in Rnti
      BY <1>1, <2>1
    <3>2. PICK crc \in BOOLEAN : CrcInfo(crc)
      BY <2>1 DEF WorkUl
    <3>3. Receiving.rnti \in Rnti
      <4>1. Receiving.left = 1
        BY <2>1 DEF Completes
      <4> QED
        BY <1>2, <4>1 DEF ReceiverType
    <3>4. \E slot : pending_buffers' = [Requested EXCEPT ![u] = @ \ {slot}]
      BY <3>2 DEF CrcInfo
    <3>5. pdus' = pdus \/ pdus' = [pdus EXCEPT ![u] = Append(@, Receiving.rnti)]
      BY <3>2 DEF CrcInfo
    <3> HIDE DEF u
    <3>6. pending_buffers' \in [Rnti -> SUBSET (0..NofRxHarq - 1)]
      BY <1>3, <3>1, <3>4
    <3>7. Append(pdus[u], Receiving.rnti) \in Seq(Rnti)
      BY <1>0, <3>1, <3>3
    <3> QED
      BY <1>0, <3>1, <3>5, <3>6, <3>7
  <2>2. CASE ~(Completes /\ Recorded.rnti # Nobody)
    BY <1>0, <1>3, <2>2 DEF WorkUl
  <2> QED
    BY <2>1, <2>2
<1>8. SlotUser'
  BY <1>0, <1>5, <1>6, Zenon DEF SlotUser
<1> QED
  BY <1>0, <1>5, <1>6, <1>7, <1>8, Zenon

\* The invariant of the worker holds at the start,
LEMMA PhyStart ==
  ASSUME PhyInit
  PROVE  PhyInv
<1>1. GridInv
  BY GridInit DEF PhyInit
<1>2. NoGrant \in UgrantType /\ NoGrant.on = FALSE /\ NoGrant.rnti = Nobody
  <2>1. 0 \in Tti /\ FALSE \in BOOLEAN
    BY PeriodIs DEF Tti
  <2> QED
    BY <2>1 DEF NoGrant, UgrantType
<1>3. ugrant \in UgrantType /\ (ugrant.on => ugrant.rnti # Nobody) /\ (ugrant.rnti # Nobody => ugrant.rnti \in users)
  BY <1>2, Zenon DEF PhyInit
<1>4. enb_ul \in [rnti : Rnti \cup {Nobody}, left : 0..NofUlSfs] /\ enb_ul.left = 0
  BY DEF PhyInit, NotReceiving, NofUlSfs
<1>5. npdsch \in [rnti : Rnti \cup {Nobody}, left : 0..Sib2NumSf] /\ sib1_cfg \in 0..Sib1NumSf - 1
  BY SchedGridAssumption DEF PhyInit, Sib2NumSf
<1>6. dl_pending_grants \in Seq(Grant)
  BY DEF PhyInit
<1>7. pending_buffers \in [Rnti -> SUBSET (0..NofRxHarq - 1)]
  BY DEF PhyInit
<1>8. pdus \in [Rnti -> Seq(Rnti)] /\ \A u \in Rnti \ users : pdus[u] = <<>>
  BY DEF PhyInit
<1>9. TypeOK
  BY <1>1 DEF GridInv
<1>10. ~(enb_ul.left > 0)
  BY <1>4
<1> QED
  BY <1>1, <1>3, <1>4, <1>5, <1>6, <1>7, <1>8, <1>9, <1>10, Zenon DEF PhyInv, PhyTypeOK, SlotUser, UgrantType

\* and every step keeps it.
LEMMA PhyStep ==
  ASSUME PhyInv, [PhyNext]_allVars
  PROVE  PhyInv'
<1>1. GridInv'
  BY GridStep, WorkerSteps DEF PhyInv
<1>2. TypeOK' /\ TypeOK
  BY <1>1 DEF PhyInv, GridInv
<1>3. ASSUME UNCHANGED phyVars, users \subseteq users' PROVE PhyTypeOK' /\ SlotUser'
  BY <1>2, <1>3, Zenon DEF PhyInv, PhyTypeOK, SlotUser, phyVars
<1>4. CASE GetDlSched
  BY <1>1, <1>3, <1>4, DlPassIs DEF GetDlSched, PhyInv
<1>5. CASE WorkImp
  <2>1. UlPass /\ WorkUl /\ WorkDl /\ pass = "ul"
    BY <1>5, UlPassIs DEF WorkImp
  <2>2. /\ dl_pending_grants' \in Seq(Grant)
        /\ npdsch' \in [rnti : Rnti \cup {Nobody}, left : 0..Sib2NumSf]
        /\ sib1_cfg' \in 0..Sib1NumSf - 1
    BY <2>1, WorkDlTypes
  <2>3. /\ ugrant' \in UgrantType /\ enb_ul' \in ReceiverType
        /\ pending_buffers' \in [Rnti -> SUBSET (0..NofRxHarq - 1)]
        /\ pdus' \in [Rnti -> Seq(Rnti)] /\ (\A u \in Rnti \ users' : pdus'[u] = <<>>)
        /\ SlotUser'
    BY <1>1, <2>1, WorkUlTypes
  <2> QED
    BY <1>1, <1>2, <2>2, <2>3, Zenon DEF PhyInv, PhyTypeOK, UgrantType, ReceiverType
<1>6. CASE \E u \in Rnti : ProcessPdu(u)
  <2>1. PICK u \in Rnti : ProcessPdu(u)
    BY <1>6
  <2>2. /\ pdus[u] # <<>> /\ pdus' = [pdus EXCEPT ![u] = Tail(@)] /\ users' = users
        /\ UNCHANGED <<dl_pending_grants, npdsch, sib1_cfg, ugrant, enb_ul, pending_buffers>>
    BY <2>1 DEF ProcessPdu, UlBsr, vars
  <2>3. pdus \in [Rnti -> Seq(Rnti)] /\ \A v \in Rnti \ users : pdus[v] = <<>>
    BY DEF PhyInv, PhyTypeOK
  <2>4. Tail(pdus[u]) \in Seq(Rnti)
    BY <2>2, <2>3
  <2>5. pdus' \in [Rnti -> Seq(Rnti)] /\ \A v \in Rnti \ users' : pdus'[v] = <<>>
    BY <2>2, <2>3, <2>4
  <2> QED
    BY <1>1, <1>2, <2>2, <2>5, Zenon DEF PhyInv, PhyTypeOK, SlotUser
<1>7. CASE OtherReports
  <2>1. UNCHANGED phyVars /\ users \subseteq users'
    BY <1>7 DEF OtherReports, DlRachInfo, DlRlcBufferState
  <2> QED
    BY <1>1, <1>3, <2>1 DEF PhyInv
<1>8. CASE UNCHANGED allVars
  BY <1>1, <1>3, <1>8 DEF PhyInv, allVars, vars
<1> QED
  BY <1>4, <1>5, <1>6, <1>7, <1>8 DEF PhyNext

(***************************************************************************)
(* The members of the worker and the buffers of the users keep their       *)
(* types: no grant has more than three subframes, and PDUs are queued for  *)
(* users of ue_db only (sf_worker::work_dl, mac::crc_info).                *)
(***************************************************************************)
THEOREM PhyTypes == PhySpec => []PhyTypeOK
<1>1. PhyInit => PhyInv
  BY PhyStart
<1>2. PhyInv /\ [PhyNext]_allVars => PhyInv'
  BY PhyStep
<1>3. PhyInv => PhyTypeOK
  BY DEF PhyInv
<1> QED
  BY <1>1, <1>2, <1>3, PTL DEF PhySpec

-----------------------------------------------------------------------------
(* SIB1: the counters of the scheduler and of the worker *)

\* A subframe of SIB1 is the next one for both, and no other subframe is.
LEMMA CountsAgree ==
  ASSUME GridInv, Sib1Agrees, pass = "ul"
  PROVE  /\ Sib1Now <=> TtiTxDl % 20 = 14
         /\ Sib1Now => HasSib1Cfg /\ Sib1SfIdx = sib1_cfg /\ (sib1_sf_idx = 1 <=> sib1_cfg = 0)
         /\ ~Sib1Now => ~HasSib1Cfg
<1> DEFINE i == sib1_cfg
           n == Sib1NumSf
<1>1. n \in Nat /\ n > 1 /\ i \in 0..n - 1
  BY SchedGridAssumption DEF Sib1Agrees
<1>2. ASSUME Sib1Now PROVE HasSib1Cfg /\ Sib1SfIdx = i /\ (sib1_sf_idx = 1 <=> i = 0)
  <2>1. sib1_sf_idx = (i + 1) % n
    BY <1>2 DEF Sib1Agrees
  <2> HIDE DEF n, i
  <2>2. (i + 1) % n = IF i + 1 < n THEN i + 1 ELSE 0
    <3>1. CASE i + 1 < n
      BY <1>1, <3>1
    <3>2. CASE i + 1 = n
      BY <1>1, <3>2
    <3> QED
      BY <1>1, <3>1, <3>2
  <2>3. sib1_sf_idx = 1 <=> i = 0
    BY <1>1, <2>1, <2>2
  <2>4. i # 0 => i > 0
    BY <1>1
  <2> QED
    BY <1>2, <2>3, <2>4 DEF HasSib1Cfg, Sib1SfIdx, i
<1>3. ASSUME Sib1Now PROVE TtiTxDl % 20 = 14
  <2>1. Came(tti_rx, LastPass, Book(TtiTxDl, "sib1", 0))
    BY <1>3 DEF GridInv, AllCame, Sib1Now
  <2>2. Book(TtiTxDl, "sib1", 0).what = "sib1" /\ Book(TtiTxDl, "sib1", 0).tti = TtiTxDl
    BY DEF Book
  <2> QED
    BY <2>1, <2>2 DEF Came
<1>4. TtiTxDl % 20 = 14 => Sib1Now
  BY DEF Sib1Agrees
<1> QED
  BY <1>2, <1>3, <1>4 DEF HasSib1Cfg

\* The scheduler counts a SIB1 in its subframe, and in no other;
LEMMA Sib1Dl ==
  ASSUME GridInv, Sib1Agrees, DlPass, sib1_cfg' = sib1_cfg
  PROVE  Sib1Agrees'
<1> DEFINE t == TtiTxDl
           b == Book(t, "sib1", 0)
<1>1. /\ t \in Tti /\ tti_rx \in Tti /\ t = Plus(tti_rx, 4) /\ Offset(tti_rx, t) = 4 /\ t \in Nat /\ t < 10240
      /\ pass = "dl" /\ pass' = "ul" /\ tti_rx' = tti_rx /\ TtiTxDl' = TtiTxDl
  BY TxTtis, TtiIs, DlPassIs DEF GridInv, TtiTxDl
<1>2. b.what = "sib1" /\ b.tti = t
  BY DEF Book
<1>3. t % 20 = 14 => b \in WithSibs
  <2> HAVE t % 20 = 14
  <2>1. \A c \in Cleared : c.tti # t
    BY <1>1, OldBookings, Sib1Free DEF GridInv
  <2>2. t \notin Marked(Cleared)
    BY <2>1, MarkedIs
  <2>3. IsSib1Sf(t)
    BY <1>1, Sib1Is
  <2>4. AllocSibs(t, Cleared) = {b}
    BY <2>2, <2>3 DEF AllocSibs
  <2> QED
    BY <2>4 DEF WithSibs
<1>4. sib1_sf_idx' = IF b \in WithSibs THEN (sib1_cfg + 1) % Sib1NumSf ELSE sib1_cfg
  <2>1. sib1_sf_idx = sib1_cfg
    BY <1>1 DEF Sib1Agrees
  <2> QED
    BY <2>1, DlPassIs
<1>5. b \in WithSibs <=> b \in dl'
  <2>1. b \in WithSibs => b \in dl'
    BY DlPassIs DEF WithRar
  <2>2. b \in dl' => b \in WithSibs
    <3>1. \A x, r : Book(x, "rar_dci", r) # b /\ Book(x, "rar", r) # b
                   /\ Book(x, "dl_dci", r) # b /\ Book(x, "data", r) # b
      BY DEF Book
    <3> HIDE DEF b
    <3>2. \A r : b \notin RarBookings(TtiTxDl, r)
      BY <3>1 DEF RarBookings
    <3>3. \A u, S : b \notin DlDataBookings(TtiTxDl, u, S)
      <4> SUFFICES ASSUME NEW u, NEW S PROVE b \notin DlDataBookings(TtiTxDl, u, S)
        OBVIOUS
      <4> DEFINE D == FirstGood(Plus(TtiTxDl, 5), dl_sfs[u], Marked(S) \cup {x \in Tti : IsSib1Sf(x)})
      <4>1. DlDataBookings(TtiTxDl, u, S) =
              {Book(TtiTxDl, "dl_dci", u)} \cup {Book(x, "data", u) : x \in D}
        BY DEF DlDataBookings
      <4> HIDE DEF D
      <4> QED
        BY <3>1, <4>1
    <3> QED
      BY <3>2, <3>3, DlPassIs DEF WithRar
  <2> QED
    BY <2>1, <2>2
<1>6. Sib1Now' <=> b \in dl'
  BY <1>1 DEF Sib1Now
<1>7. sib1_cfg \in 0..Sib1NumSf - 1
  BY DEF Sib1Agrees
<1> HIDE DEF b
<1> QED
  BY <1>1, <1>3, <1>4, <1>5, <1>6, <1>7 DEF Sib1Agrees

\* so does the worker.
LEMMA Sib1Work ==
  ASSUME GridInv, Sib1Agrees, WorkImp
  PROVE  Sib1Agrees'
<1>1. pass = "ul" /\ pass' = "dl" /\ sib1_sf_idx' = sib1_sf_idx
  BY UlPassIs DEF WorkImp
<1>2. sib1_cfg' = IF HasSib1Cfg THEN (Sib1SfIdx + 1) % Sib1NumSf ELSE sib1_cfg
  BY DEF WorkImp, WorkDl, NextSib1
<1>3. /\ Sib1Now => HasSib1Cfg /\ Sib1SfIdx = sib1_cfg
      /\ ~Sib1Now => ~HasSib1Cfg
  BY <1>1, CountsAgree
<1>4. sib1_cfg' = sib1_sf_idx
  BY <1>1, <1>2, <1>3 DEF Sib1Agrees
<1>5. sib1_sf_idx \in 0..Sib1NumSf - 1
  BY DEF GridInv, TypeOK
<1> QED
  BY <1>1, <1>4, <1>5 DEF Sib1Agrees

(***************************************************************************)
(* In every subframe of SIB1 the worker sends SIB1 and nothing else, and   *)
(* begins a new one when it is done with the old one, in whatever TTI the  *)
(* MAC was started and through every wrap of the TTI counter: the counters *)
(* of the scheduler and the worker never drift (bc_sched::alloc_sibs,      *)
(* work_dl), although they need not agree with the frame number.           *)
(***************************************************************************)
THEOREM Sib1AlwaysInStep == PhySpec => []Sib1InStep
<1> DEFINE Inv == GridInv /\ Sib1Agrees
<1>1. ASSUME PhyInit PROVE Inv
  <2>1. GridInv
    BY <1>1, GridInit DEF PhyInit
  <2>2. sib1_cfg = 0 /\ sib1_sf_idx = 0 /\ pass = "dl" /\ 0 \in 0..Sib1NumSf - 1
    BY <1>1, SchedGridAssumption DEF PhyInit, Init
  <2> QED
    BY <2>1, <2>2 DEF Sib1Agrees
<1>2. ASSUME Inv, [PhyNext]_allVars PROVE Inv'
  <2>1. GridInv'
    BY <1>2, GridStep, WorkerSteps
  <2>2. CASE GetDlSched
    BY <1>2, <2>1, <2>2, Sib1Dl DEF GetDlSched, phyVars
  <2>3. CASE WorkImp
    BY <1>2, <2>1, <2>3, Sib1Work
  <2>4. ASSUME UNCHANGED <<tti_rx, pass, dl, sib1_sf_idx, sib1_cfg>> PROVE Inv'
    <3>1. TtiTxDl' = TtiTxDl
      BY <2>4 DEF TtiTxDl
    <3> QED
      BY <1>2, <2>1, <2>4, <3>1 DEF Sib1Agrees, Sib1Now
  <2>5. CASE \E u \in Rnti : ProcessPdu(u)
    <3>1. UNCHANGED <<tti_rx, pass, dl, sib1_sf_idx, sib1_cfg>>
      BY <2>5 DEF ProcessPdu, UlBsr, vars
    <3> QED
      BY <2>4, <3>1
  <2>6. CASE OtherReports
    <3>1. UNCHANGED <<tti_rx, pass, dl, sib1_sf_idx, sib1_cfg>>
      BY <2>6 DEF OtherReports, DlRachInfo, DlRlcBufferState, phyVars
    <3> QED
      BY <2>4, <3>1
  <2>7. CASE UNCHANGED allVars
    BY <2>4, <2>7 DEF allVars, vars, phyVars
  <2> QED
    BY <1>2, <2>2, <2>3, <2>5, <2>6, <2>7 DEF PhyNext
<1>3. ASSUME Inv PROVE Sib1InStep
  <2> SUFFICES ASSUME pass = "ul", IsSib1Sf(TtiTxDl)
               PROVE  HasSib1Cfg /\ ~SendsNpdsch /\ DciNow = {} /\ (sib1_sf_idx = 1 <=> sib1_cfg = 0)
    BY DEF Sib1InStep
  <2>1. TtiTxDl \in Tti /\ TtiTxDl \in Nat
    BY <1>3, TxTtis, TtiIs DEF GridInv
  <2>2. TtiTxDl % 20 = 14
    BY <2>1, Sib1Is
  <2>3. Sib1Now /\ HasSib1Cfg /\ (sib1_sf_idx = 1 <=> sib1_cfg = 0)
    BY <1>3, <2>2, CountsAgree
  <2>4. ~SendsNpdsch
    BY <2>3 DEF SendsNpdsch
  <2>5. DciNow = {}
    <3> SUFFICES ASSUME NEW b \in DciNow PROVE FALSE
      OBVIOUS
    <3>1. b \in dl /\ b.tti = TtiTxDl /\ b.what \in Dci /\ b.what # "sib1"
      BY DEF DciNow, Dci
    <3>2. Book(TtiTxDl, "sib1", 0) \in dl
      BY <2>3 DEF Sib1Now
    <3>3. Book(TtiTxDl, "sib1", 0).tti = TtiTxDl /\ Book(TtiTxDl, "sib1", 0).what = "sib1"
      BY DEF Book
    <3> QED
      BY <1>3, <3>1, <3>2, <3>3 DEF GridInv, DciAlone
  <2> QED
    BY <2>3, <2>4, <2>5
<1>4. Inv => Sib1InStep
  BY <1>3
<1>5. PhyInit => Inv
  BY <1>1
<1>6. Inv /\ [PhyNext]_allVars => Inv'
  BY <1>2
<1> HIDE DEF Inv
<1> QED
  BY <1>4, <1>5, <1>6, PTL DEF PhySpec

=============================================================================
