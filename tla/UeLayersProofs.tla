-------------------------- MODULE UeLayersProofs ---------------------------
(***************************************************************************)
(* More proofs about UeContext, for an allocator that does not come round  *)
(* to an RNTI in use: between tasks the layers have the same users, and    *)
(* what waits in rx_pdu_queue is for a user that the RRC knows.            *)
(***************************************************************************)
EXTENDS UeContextProofs

-----------------------------------------------------------------------------
(* The inductive invariant *)

RemPc == {"rem_sched", "rem_mac", "rem_rlc", "rem_rrc"}
LeavingPc == RemPc \cup {"sleep", "queue_rem"}

\* The user that the stack thread is busy with, at one of these steps
At(pcs) == IF stack.at \in pcs THEN {stack.rnti} ELSE {}

\* Through the steps of rem_user, each layer lacks the user from its step on.
Agree ==
  /\ rlc = RrcUsers \ At({"rem_rrc"})
  /\ sched = RrcUsers \ At({"rem_mac", "rem_rlc", "rem_rrc"})
  /\ mac = (RrcUsers \cup RachPending) \ At({"rem_rlc", "rem_rrc"})

\* The users that q, a content of rx_pdu_queue, has something for; has lcid for
Named(q) == {r \in Rnti : \E i \in 1..Len(q) : q[i].rnti = r}
Has(q, lcid) == {r \in Rnti : \E i \in 1..Len(q) : q[i].rnti = r /\ q[i].lcid = lcid}

\* May b come after a in rx_pdu_queue?  A user is released once, removed last,
\* and completes its setup once.
MayFollow(a, b) ==
  a.rnti = b.rnti =>
    /\ a.lcid # "rem_user"
    /\ ~(a.lcid = "rel_user" /\ b.lcid \in {"rel_user", "rem_user"})
    /\ ~(a.lcid = "setup_complete" /\ b.lcid = "setup_complete")
Ordered(q) == \A i, j \in 1..Len(q) : i < j => MayFollow(q[i], q[j])

\* RrcConnectionSetupComplete among the PDUs of a UE; at most once
HasSetup(s) == \E i \in 1..Len(s) : s[i] = "setup_complete"
OneSetup(s) ==
  \A i, j \in 1..Len(s) : i < j => ~(s[i] = "setup_complete" /\ s[j] = "setup_complete")

\* The users that the stack thread is releasing or removing, or is going to
Ending == Has(rx_pdu_queue, "rel_user") \cup Has(rx_pdu_queue, "rem_user") \cup At(LeavingPc)

\* The users whose RrcConnectionSetupComplete is on its way to the RRC
InMac(p) == {r \in Rnti : HasSetup(p[r])}
Completing == Has(rx_pdu_queue, "setup_complete") \cup InMac(pdus)

\* Nothing outlives the RRC's user.
HaveUser ==
  /\ s1ap \subseteq RrcUsers
  /\ Named(rx_pdu_queue) \subseteq RrcUsers
  /\ At(LeavingPc) \subseteq RrcUsers

\* The removal is the last that rx_pdu_queue has for a user: tti_clock empties
\* the queue before the stack thread does anything else.
RemovedLast ==
  /\ Ordered(rx_pdu_queue)
  /\ stack.at \in {"idle", "pdus"} => Has(rx_pdu_queue, "rem_user") = {}
  /\ At(LeavingPc) \cap Has(rx_pdu_queue, "rel_user") = {}
  /\ At(LeavingPc) \cap Has(rx_pdu_queue, "rem_user") = {}
  /\ At(RemPc) \cap Named(rx_pdu_queue) = {}

\* S1AP gets a user by one message of the UE, and loses it with the release.
SetupOnce ==
  /\ \A r \in Rnti : OneSetup(pdus[r])
  /\ Has(rx_pdu_queue, "setup_complete") \cap InMac(pdus) = {}
  /\ Ending \cap s1ap = {}
  /\ (s1ap \cup Ending) \cap Completing = {}

\* Where that leaves the UE.
UeIsThere ==
  /\ \A r \in s1ap \cup Ending \cup Completing : ue[r] \in {"connected", "none"}
  /\ \A r \in RachPending : ue[r] = "rach"

LayersInv == Agree /\ HaveUser /\ RemovedLast /\ SetupOnce /\ UeIsThere

-----------------------------------------------------------------------------
(* The queues *)

\* Everything in rx_pdu_queue is for an RNTI.
LEMMA PduOfUser ==
  /\ \A x \in RrcPdu : x.rnti \in Rnti
  /\ \A q \in Seq(RrcPdu) : \A i \in 1..Len(q) : q[i].rnti \in Rnti
<1>1. \A x \in RrcPdu : x.rnti \in Rnti
  BY DEF RrcPdu
<1>2. ASSUME NEW q \in Seq(RrcPdu), NEW i \in 1..Len(q)
      PROVE  q[i] \in RrcPdu
  OBVIOUS
<1> QED
  BY <1>1, <1>2

\* A PDU or a command is added to rx_pdu_queue.
LEMMA PushPdu ==
  ASSUME NEW q \in Seq(RrcPdu), NEW x \in RrcPdu
  PROVE  /\ Named(Append(q, x)) = Named(q) \cup {x.rnti}
         /\ \A lcid : Has(Append(q, x), lcid) =
                        Has(q, lcid) \cup (IF x.lcid = lcid THEN {x.rnti} ELSE {})
         /\ /\ Ordered(q)
            /\ x.rnti \notin Has(q, "rem_user")
            /\ x.lcid \in {"rel_user", "rem_user"} => x.rnti \notin Has(q, "rel_user")
            /\ x.lcid = "setup_complete" => x.rnti \notin Has(q, "setup_complete")
            => Ordered(Append(q, x))
<1>1. /\ Len(q) \in Nat /\ Len(Append(q, x)) = Len(q) + 1
      /\ Append(q, x)[Len(q) + 1] = x
      /\ \A i \in 1..Len(q) : Append(q, x)[i] = q[i]
  OBVIOUS
<1>2. x.rnti \in Rnti /\ \A i \in 1..Len(q) : q[i].rnti \in Rnti
  BY PduOfUser
<1> DEFINE p == Append(q, x)
<1>3. \A i \in 1..Len(p) : i \in 1..Len(q) \/ i = Len(q) + 1
  BY <1>1
<1>4. 1..Len(q) \subseteq 1..Len(p) /\ Len(q) + 1 \in 1..Len(p)
  BY <1>1
<1> HIDE DEF p
<1>5. /\ p[Len(q) + 1] = x
      /\ \A i \in 1..Len(q) : p[i] = q[i]
  BY <1>1 DEF p
<1>6. Named(p) = Named(q) \cup {x.rnti}
  BY <1>2, <1>3, <1>4, <1>5 DEF Named
<1>7. ASSUME NEW lcid
      PROVE  Has(p, lcid) = Has(q, lcid) \cup (IF x.lcid = lcid THEN {x.rnti} ELSE {})
  BY <1>2, <1>3, <1>4, <1>5 DEF Has
<1>8. ASSUME Ordered(q),
             x.rnti \notin Has(q, "rem_user"),
             x.lcid \in {"rel_user", "rem_user"} => x.rnti \notin Has(q, "rel_user"),
             x.lcid = "setup_complete" => x.rnti \notin Has(q, "setup_complete")
      PROVE  Ordered(p)
  <2>1. \A i \in 1..Len(q) : MayFollow(q[i], x)
    BY <1>2, <1>8 DEF MayFollow, Has
  <2>2. ASSUME NEW i \in 1..Len(p), NEW j \in 1..Len(p), i < j
        PROVE  MayFollow(p[i], p[j])
    <3>1. i \in 1..Len(q)
      BY <1>1, <1>3, <2>2
    <3>2. CASE j \in 1..Len(q)
      BY <1>5, <1>8, <2>2, <3>1, <3>2 DEF Ordered
    <3>3. CASE j = Len(q) + 1
      BY <1>5, <2>1, <3>1, <3>3
    <3> QED
      BY <1>3, <3>2, <3>3
  <2> QED
    BY <2>2 DEF Ordered
<1> QED
  BY <1>6, <1>7, <1>8 DEF p

\* tti_clock takes the first element.
LEMMA PopPdu ==
  ASSUME NEW q \in Seq(RrcPdu), q # <<>>, Ordered(q)
  PROVE  /\ Ordered(Tail(q))
         /\ Named(q) = Named(Tail(q)) \cup {Head(q).rnti}
         /\ \A lcid : Has(q, lcid) =
                        Has(Tail(q), lcid) \cup (IF Head(q).lcid = lcid THEN {Head(q).rnti} ELSE {})
         /\ Head(q).lcid = "rem_user" => Head(q).rnti \notin Named(Tail(q))
         /\ Head(q).lcid = "rel_user" =>
              Head(q).rnti \notin Has(Tail(q), "rel_user") \cup Has(Tail(q), "rem_user")
         /\ Head(q).lcid = "setup_complete" => Head(q).rnti \notin Has(Tail(q), "setup_complete")
<1> DEFINE t == Tail(q)
<1>1. /\ Len(q) \in Nat \ {0} /\ Len(t) = Len(q) - 1 /\ Len(t) \in Nat
      /\ Head(q) = q[1] /\ 1 \in 1..Len(q)
      /\ \A i \in 1..Len(t) : i + 1 \in 1..Len(q) /\ t[i] = q[i + 1]
  OBVIOUS
<1>2. \A i \in 1..Len(q) : i = 1 \/ (i - 1 \in 1..Len(t) /\ q[i] = t[i - 1])
  BY <1>1
<1>3. \A i \in 1..Len(q) : q[i].rnti \in Rnti
  BY PduOfUser
<1> HIDE DEF t
<1>4. Named(q) = Named(t) \cup {Head(q).rnti}
  BY <1>1, <1>2, <1>3 DEF Named
<1>5. ASSUME NEW lcid
      PROVE  Has(q, lcid) = Has(t, lcid) \cup (IF Head(q).lcid = lcid THEN {Head(q).rnti} ELSE {})
  BY <1>1, <1>2, <1>3 DEF Has
<1>6. Ordered(t)
  <2> SUFFICES ASSUME NEW i \in 1..Len(t), NEW j \in 1..Len(t), i < j
               PROVE  MayFollow(t[i], t[j])
    BY DEF Ordered
  <2>1. i + 1 < j + 1 /\ i + 1 \in 1..Len(q) /\ j + 1 \in 1..Len(q)
    BY <1>1
  <2>2. MayFollow(q[i + 1], q[j + 1])
    BY <2>1 DEF Ordered
  <2> QED
    BY <1>1, <2>2
<1>7. \A i \in 1..Len(t) : MayFollow(Head(q), t[i])
  <2> SUFFICES ASSUME NEW i \in 1..Len(t) PROVE MayFollow(Head(q), t[i])
    OBVIOUS
  <2>1. 1 < i + 1 /\ i + 1 \in 1..Len(q)
    BY <1>1
  <2>2. MayFollow(q[1], q[i + 1])
    BY <1>1, <2>1 DEF Ordered
  <2> QED
    BY <1>1, <2>2
<1>8. /\ Head(q).lcid = "rem_user" => Head(q).rnti \notin Named(t)
      /\ Head(q).lcid = "rel_user" =>
           Head(q).rnti \notin Has(t, "rel_user") \cup Has(t, "rem_user")
      /\ Head(q).lcid = "setup_complete" => Head(q).rnti \notin Has(t, "setup_complete")
  BY <1>7 DEF MayFollow, Named, Has
<1> QED
  BY <1>4, <1>5, <1>6, <1>8 DEF t

\* What has something of a kind for a user has something for it.
LEMMA HasNamed ==
  ASSUME NEW q, NEW lcid
  PROVE  Has(q, lcid) \subseteq Named(q) /\ Named(q) \subseteq Rnti
  BY DEF Has, Named

\* An empty queue has nothing for nobody.
LEMMA EmptyQueue ==
  /\ Named(<<>>) = {} /\ \A lcid : Has(<<>>, lcid) = {}
  /\ Ordered(<<>>)
  /\ ~HasSetup(<<>>) /\ OneSetup(<<>>)
  BY DEF Named, Has, Ordered, HasSetup, OneSetup

\* The PDUs of one UE in the MAC: one more, and one less.
LEMMA SetupInMac ==
  ASSUME NEW s \in Seq(UlMsg), OneSetup(s)
  PROVE  /\ \A x \in UlMsg : HasSetup(Append(s, x)) <=> HasSetup(s) \/ x = "setup_complete"
         /\ \A x \in UlMsg : ~(HasSetup(s) /\ x = "setup_complete") => OneSetup(Append(s, x))
         /\ s # <<>> => /\ HasSetup(s) <=> HasSetup(Tail(s)) \/ Head(s) = "setup_complete"
                        /\ Head(s) = "setup_complete" => ~HasSetup(Tail(s))
                        /\ OneSetup(Tail(s))
<1>1. ASSUME NEW x \in UlMsg
      PROVE  /\ HasSetup(Append(s, x)) <=> HasSetup(s) \/ x = "setup_complete"
             /\ ~(HasSetup(s) /\ x = "setup_complete") => OneSetup(Append(s, x))
  <2> DEFINE p == Append(s, x)
  <2>1. /\ Len(s) \in Nat /\ Len(p) = Len(s) + 1
        /\ p[Len(s) + 1] = x
        /\ \A i \in 1..Len(s) : p[i] = s[i]
    OBVIOUS
  <2>2. /\ \A i \in 1..Len(p) : i \in 1..Len(s) \/ i = Len(s) + 1
        /\ 1..Len(s) \subseteq 1..Len(p) /\ Len(s) + 1 \in 1..Len(p)
    BY <2>1
  <2> HIDE DEF p
  <2>3. HasSetup(p) <=> HasSetup(s) \/ x = "setup_complete"
    BY <2>1, <2>2 DEF HasSetup
  <2>4. ASSUME ~(HasSetup(s) /\ x = "setup_complete"),
               NEW i \in 1..Len(p), NEW j \in 1..Len(p), i < j
        PROVE  ~(p[i] = "setup_complete" /\ p[j] = "setup_complete")
    <3>1. i \in 1..Len(s)
      BY <2>1, <2>2, <2>4
    <3>2. CASE j \in 1..Len(s)
      BY <2>1, <2>4, <3>1, <3>2 DEF OneSetup
    <3>3. CASE j = Len(s) + 1
      BY <2>1, <2>4, <3>1, <3>3 DEF HasSetup
    <3> QED
      BY <2>2, <3>2, <3>3
  <2> QED
    BY <2>3, <2>4 DEF OneSetup, p
<1>2. ASSUME s # <<>>
      PROVE  /\ HasSetup(s) <=> HasSetup(Tail(s)) \/ Head(s) = "setup_complete"
             /\ Head(s) = "setup_complete" => ~HasSetup(Tail(s))
             /\ OneSetup(Tail(s))
  <2> DEFINE t == Tail(s)
  <2>1. /\ Len(s) \in Nat \ {0} /\ Len(t) = Len(s) - 1 /\ Len(t) \in Nat
        /\ Head(s) = s[1] /\ 1 \in 1..Len(s)
        /\ \A i \in 1..Len(t) : i + 1 \in 1..Len(s) /\ t[i] = s[i + 1]
    BY <1>2
  <2>2. \A i \in 1..Len(s) : i = 1 \/ (i - 1 \in 1..Len(t) /\ s[i] = t[i - 1])
    BY <2>1
  <2> HIDE DEF t
  <2>3. HasSetup(s) <=> HasSetup(t) \/ Head(s) = "setup_complete"
    BY <2>1, <2>2 DEF HasSetup
  <2>4. Head(s) = "setup_complete" => ~HasSetup(t)
    <3>1. \A i \in 1..Len(t) : 1 < i + 1
      BY <2>1
    <3> QED
      BY <2>1, <3>1 DEF HasSetup, OneSetup
  <2>5. OneSetup(t)
    <3>1. \A i, j \in 1..Len(t) : i < j => i + 1 < j + 1
      BY <2>1
    <3> QED
      BY <2>1, <3>1 DEF OneSetup
  <2> QED
    BY <2>3, <2>4, <2>5 DEF t
<1> QED
  BY <1>1, <1>2

-----------------------------------------------------------------------------
(* The steps of the other threads *)

\* A step that changes none of the users, the queues of PDUs and the stack
\* thread.
LEMMA SameUsers ==
  ASSUME LayersInv, RachPending' = RachPending,
         UNCHANGED <<mac, sched, rlc, rrc, s1ap, pdus, rx_pdu_queue, stack>>,
         \A r \in s1ap \cup Ending \cup Completing \cup RachPending : ue'[r] = ue[r]
  PROVE  LayersInv'
<1>1. RrcUsers' = RrcUsers /\ Ending' = Ending /\ Completing' = Completing
  BY DEF RrcUsers, Ending, Completing, At
<1>2. Agree' /\ HaveUser' /\ RemovedLast'
  BY <1>1 DEF LayersInv, Agree, HaveUser, RemovedLast, At
<1>3. SetupOnce' /\ UeIsThere'
  BY <1>1 DEF LayersInv, SetupOnce, UeIsThere
<1> QED
  BY <1>2, <1>3 DEF LayersInv

\* mac::rach_detected: the RNTI is new to everybody.
LEMMA RachDetectedLayers ==
  ASSUME Typed, WorkerInv, LayersInv, ~InUseAgain, RachDetected
  PROVE  LayersInv'
<1> DEFINE q == last_rnti
<1>1. q \in Rnti /\ ~InUse(q)
  BY DEF RachDetected, Typed, TypeOK
<1>2. q \notin mac \cup sched \cup rlc \cup s1ap \cup RrcUsers /\ q \notin RachPending
  BY <1>1 DEF InUse, RachPending
<1>3. RachPending' = RachPending \cup {q}
  BY <1>1, <1>2, PushRach DEF RachDetected, RachTaskOf, Typed, WorkerInv
<1>4. /\ UNCHANGED <<sched, rlc, rrc, s1ap, rx_pdu_queue, stack>>
      /\ mac' = mac \cup {q}
      /\ pdus' = [pdus EXCEPT ![q] = <<>>]
      /\ ue' = [ue EXCEPT ![q] = "rach"]
  BY DEF RachDetected
<1> HIDE DEF q
<1>5. RrcUsers' = RrcUsers /\ Ending' = Ending
  BY <1>4 DEF RrcUsers, Ending, At
<1>6. InMac(pdus') = InMac(pdus) \ {q} /\ \A r \in Rnti : OneSetup(pdus'[r])
  BY <1>1, <1>4, EmptyQueue DEF InMac, LayersInv, SetupOnce, Typed, TypeOK
<1>7. Completing' \subseteq Completing /\ q \notin Completing'
  <2>1. Has(rx_pdu_queue, "setup_complete") \subseteq RrcUsers
    BY HasNamed DEF LayersInv, HaveUser
  <2> QED
    BY <1>2, <1>4, <1>6, <2>1 DEF Completing
<1>8. q \notin Ending
  BY <1>2, HasNamed DEF Ending, LayersInv, HaveUser
<1>9. Agree'
  <2>1. q \notin At({"rem_rlc", "rem_rrc"})
    BY <1>2 DEF LayersInv, HaveUser, At, LeavingPc, RemPc
  <2>2. \A pcs : At(pcs)' = At(pcs)
    BY <1>4 DEF At
  <2> QED
    BY <1>3, <1>4, <1>5, <2>1, <2>2 DEF LayersInv, Agree
<1>10. HaveUser' /\ RemovedLast'
  BY <1>4, <1>5 DEF LayersInv, HaveUser, RemovedLast, At
<1>11. SetupOnce'
  BY <1>4, <1>5, <1>6, <1>7 DEF LayersInv, SetupOnce
<1>12. UeIsThere'
  <2>1. \A r \in Rnti : r # q => ue'[r] = ue[r]
    BY <1>4 DEF Typed, TypeOK
  <2>2. ue'[q] = "rach"
    BY <1>1, <1>4 DEF Typed, TypeOK
  <2>3. s1ap \cup Ending \cup Completing \cup RachPending \subseteq Rnti
    BY HasNamed DEF Typed, TypeOK, Ending, Completing, InMac, RachPending, At
  <2> QED
    BY <1>2, <1>3, <1>4, <1>5, <1>7, <1>8, <2>1, <2>2, <2>3 DEF LayersInv, UeIsThere
<1> QED
  BY <1>9, <1>10, <1>11, <1>12 DEF LayersInv

\* Where RNTIs can be.
LEMMA AllRntis ==
  ASSUME Typed
  PROVE  /\ s1ap \cup Ending \cup Completing \cup RachPending \cup RrcUsers \subseteq Rnti
         /\ \A r \in Rnti : pdus[r] \in Seq(UlMsg)
         /\ rx_pdu_queue \in Seq(RrcPdu)
         /\ stack.rnti \in Rnti
  BY HasNamed DEF Typed, TypeOK, Ending, Completing, InMac, RachPending, At, RrcUsers

\* mac::crc_info: a UE sends RrcConnectionSetupComplete once.
LEMMA CrcInfoLayers ==
  ASSUME Typed, WorkerInv, LayersInv, NEW r \in Rnti, CrcInfo(r)
  PROVE  LayersInv'
<1>1. RachPending' = RachPending
  BY PushPdus DEF CrcInfo, Typed, WorkerInv
<1>2. /\ UNCHANGED <<mac, sched, rlc, rrc, s1ap, rx_pdu_queue, stack>>
      /\ ue[r] \in {"msg3", "got_setup", "connected"}
      /\ pdus' = [pdus EXCEPT ![r] = Append(pdus[r], UeSends(r))]
      /\ ue' = [ue EXCEPT ![r] = UeAfter(r)]
  BY DEF CrcInfo
<1>3. RrcUsers' = RrcUsers /\ Ending' = Ending
  BY <1>2 DEF RrcUsers, Ending, At
<1>4. UeSends(r) \in UlMsg
  BY DEF UeSends, UlMsg
<1>5. pdus \in [Rnti -> Seq(UlMsg)] /\ ue \in [Rnti -> UeState]
  BY DEF Typed, TypeOK
<1>6. \A p \in Rnti : p # r => pdus'[p] = pdus[p] /\ ue'[p] = ue[p]
  BY <1>2, <1>5
<1>7. pdus'[r] = Append(pdus[r], UeSends(r)) /\ ue'[r] = UeAfter(r)
  BY <1>2, <1>5
<1>8. r \notin RachPending
  BY <1>2 DEF LayersInv, UeIsThere
<1>9. Agree' /\ HaveUser' /\ RemovedLast'
  BY <1>1, <1>2, <1>3 DEF LayersInv, Agree, HaveUser, RemovedLast, At
<1>10. CASE ue[r] = "got_setup"
  <2>1. UeSends(r) = "setup_complete" /\ UeAfter(r) = "connected"
    BY <1>10 DEF UeSends, UeAfter
  <2>2. r \notin s1ap \cup Ending \cup Completing
    BY <1>10 DEF LayersInv, UeIsThere
  <2>3. r \notin InMac(pdus) /\ r \notin Has(rx_pdu_queue, "setup_complete")
    BY <2>2 DEF Completing
  <2>4. HasSetup(pdus'[r]) /\ OneSetup(pdus'[r])
    BY <1>4, <1>5, <1>7, <2>1, <2>3, SetupInMac DEF InMac, LayersInv, SetupOnce
  <2>5. InMac(pdus') = InMac(pdus) \cup {r}
    BY <1>6, <2>4 DEF InMac
  <2>6. Completing' = Completing \cup {r}
    BY <1>2, <2>5 DEF Completing
  <2>7. SetupOnce'
    BY <1>2, <1>3, <1>6, <2>2, <2>3, <2>4, <2>5, <2>6 DEF LayersInv, SetupOnce
  <2>8. UeIsThere'
    BY <1>1, <1>2, <1>3, <1>6, <1>7, <1>8, <2>1, <2>6, AllRntis DEF LayersInv, UeIsThere
  <2> QED
    BY <1>9, <2>7, <2>8 DEF LayersInv
<1>11. CASE ue[r] # "got_setup"
  <2>1. UeSends(r) # "setup_complete"
    BY <1>11 DEF UeSends
  <2>2. HasSetup(pdus'[r]) <=> HasSetup(pdus[r])
    BY <1>4, <1>5, <1>7, <2>1, SetupInMac DEF LayersInv, SetupOnce
  <2>3. OneSetup(pdus'[r])
    BY <1>4, <1>5, <1>7, <2>1, SetupInMac DEF LayersInv, SetupOnce
  <2>4. InMac(pdus') = InMac(pdus)
    BY <1>6, <2>2 DEF InMac
  <2>5. Completing' = Completing
    BY <1>2, <2>4 DEF Completing
  <2>6. SetupOnce'
    BY <1>2, <1>3, <1>6, <2>3, <2>4, <2>5 DEF LayersInv, SetupOnce
  <2>7. r \in s1ap \cup Ending \cup Completing => ue'[r] = ue[r]
    BY <1>2, <1>7 DEF UeAfter, LayersInv, UeIsThere
  <2>8. UeIsThere'
    BY <1>1, <1>2, <1>3, <1>6, <1>8, <2>5, <2>7, AllRntis DEF LayersInv, UeIsThere
  <2> QED
    BY <1>9, <2>6, <2>8 DEF LayersInv
<1> QED
  BY <1>10, <1>11

\* The MME and the PHY worker.
LEMMA OthersLayers ==
  ASSUME Typed, WorkerInv, LayersInv,
         \/ \E r \in Rnti, type \in {"dl_nas", "release"} : MmeSends(r, type)
         \/ WorkerStep
  PROVE  LayersInv'
<1>1. /\ UNCHANGED <<mac, sched, rlc, rrc, s1ap, pdus, rx_pdu_queue, stack, macTasks>>
      /\ ue' = ue \/ \E r \in Rnti : ue[r] = "wait_setup" /\ ue' = [ue EXCEPT ![r] = "got_setup"]
  <2>1. ASSUME NEW r \in Rnti, NEW type \in {"dl_nas", "release"}, MmeSends(r, type)
        PROVE  UNCHANGED <<mac, sched, rlc, rrc, s1ap, pdus, rx_pdu_queue, stack, macTasks, ue>>
    BY <2>1 DEF MmeSends
  <2>2. CASE (\E r \in Rnti : DlSched(r)) \/ TakeDlResult
    BY <2>2 DEF DlSched, TakeDlResult
  <2>3. CASE GeneratePdu
    BY <2>3 DEF GeneratePdu, Typed, TypeOK
  <2> QED
    BY <2>1, <2>2, <2>3 DEF WorkerStep
<1>2. RachPending' = RachPending
  BY <1>1, SameTasks DEF WorkerInv
<1>3. \A r \in s1ap \cup Ending \cup Completing \cup RachPending : ue'[r] = ue[r]
  BY <1>1, AllRntis DEF LayersInv, UeIsThere, Typed, TypeOK
<1> QED
  BY <1>1, <1>2, <1>3, SameUsers

-----------------------------------------------------------------------------
(* The tasks of the stack thread *)

\* The task of rach_detected: RLC, RRC and scheduler get the user together.
LEMMA RachTaskLayers ==
  ASSUME Typed, WorkerInv, LayersInv, RachTask
  PROVE  LayersInv'
<1> DEFINE q == Head(macTasks).rnti
<1>1. Head(macTasks) \in MacTask /\ macTasks # <<>> /\ macTasks' = Tail(macTasks)
  BY DEF RachTask, PopMacTask, Typed, TypeOK
<1>2. Head(macTasks) = RachTaskOf(q) /\ q \in Rnti
  BY <1>1 DEF RachTask, PopMacTask, MacTask, RachTaskOf
<1>3. RachPending' = RachPending \ {q}
  <2>1. RachPending' = {r \in RachPending : Head(macTasks) # RachTaskOf(r)}
    BY <1>1, PopTask DEF Typed, WorkerInv
  <2>2. \A r : RachTaskOf(r) = RachTaskOf(q) <=> r = q
    BY DEF RachTaskOf
  <2> HIDE DEF q
  <2> QED
    BY <1>2, <2>1, <2>2
<1>4. q \in RachPending
  <2>1. Head(macTasks) = macTasks[1] /\ 1 \in 1..Len(macTasks)
    BY <1>1 DEF Typed, TypeOK
  <2> QED
    BY <1>2, <2>1 DEF RachPending, RachTaskOf
<1>5. /\ RrcAddUser(q) /\ sched' = sched \cup {q}
      /\ UNCHANGED <<mac, s1ap, pdus, rx_pdu_queue, stack>>
      /\ ue' = [ue EXCEPT ![q] = "msg3"] /\ stack.at = "idle"
  BY DEF RachTask, PopMacTask
<1> HIDE DEF q
<1>6. rrc[q] = "absent"
  BY <1>4 DEF WorkerInv, RachIsFresh
<1>7. rrc' = [rrc EXCEPT ![q] = "idle"] /\ rlc' = rlc \cup {q}
  BY <1>5, <1>6 DEF RrcAddUser
<1>8. RrcUsers' = RrcUsers \cup {q}
  BY <1>2, <1>7 DEF RrcUsers, Typed, TypeOK
<1>9. Ending' = Ending /\ Completing' = Completing /\ \A pcs : At(pcs)' = At(pcs)
  BY <1>5 DEF Ending, Completing, At
<1>10. Agree'
  <2>1. At({"rem_rrc"}) = {} /\ At({"rem_mac", "rem_rlc", "rem_rrc"}) = {} /\ At({"rem_rlc", "rem_rrc"}) = {}
    BY <1>5 DEF At
  <2> QED
    BY <1>3, <1>4, <1>5, <1>7, <1>8, <1>9, <2>1 DEF LayersInv, Agree
<1>11. HaveUser' /\ RemovedLast'
  BY <1>5, <1>8, <1>9 DEF LayersInv, HaveUser, RemovedLast
<1>12. SetupOnce'
  BY <1>5, <1>9 DEF LayersInv, SetupOnce
<1>13. UeIsThere'
  <2>1. ue[q] = "rach" /\ \A r \in Rnti : r # q => ue'[r] = ue[r]
    BY <1>4, <1>5 DEF LayersInv, UeIsThere, Typed, TypeOK
  <2> QED
    BY <1>3, <1>5, <1>9, <2>1, AllRntis DEF LayersInv, UeIsThere
<1> QED
  BY <1>10, <1>11, <1>12, <1>13 DEF LayersInv

\* The stack thread turns to something that is not a removal.
LEMMA TurnsTo ==
  ASSUME Typed, WorkerInv, LayersInv, RachPending' = RachPending,
         UNCHANGED <<mac, sched, rlc, rrc, s1ap, pdus, rx_pdu_queue, ue>>,
         stack.at \notin LeavingPc, stack'.at \notin LeavingPc,
         stack'.at \in {"idle", "pdus"} => Has(rx_pdu_queue, "rem_user") = {}
  PROVE  LayersInv'
<1>1. /\ At(LeavingPc) = {} /\ At(RemPc) = {} /\ At({"rem_rrc"}) = {}
      /\ At({"rem_mac", "rem_rlc", "rem_rrc"}) = {} /\ At({"rem_rlc", "rem_rrc"}) = {}
  BY DEF At, LeavingPc, RemPc
<1>2. /\ At(LeavingPc)' = {} /\ At(RemPc)' = {} /\ At({"rem_rrc"})' = {}
      /\ At({"rem_mac", "rem_rlc", "rem_rrc"})' = {} /\ At({"rem_rlc", "rem_rrc"})' = {}
  BY DEF At, LeavingPc, RemPc
<1>3. RrcUsers' = RrcUsers /\ Ending' = Ending /\ Completing' = Completing
  BY <1>1, <1>2 DEF RrcUsers, Ending, Completing
<1>4. Agree' /\ HaveUser' /\ RemovedLast'
  BY <1>1, <1>2, <1>3 DEF LayersInv, Agree, HaveUser, RemovedLast
<1>5. SetupOnce' /\ UeIsThere'
  BY <1>3 DEF LayersInv, SetupOnce, UeIsThere
<1> QED
  BY <1>4, <1>5 DEF LayersInv

\* The beginning and the end of process_pdus and tti_clock.
LEMMA TaskBoundsLayers ==
  ASSUME Typed, WorkerInv, LayersInv,
         ProcessPdus \/ ProcessPdusEnd \/ TtiClock \/ TtiClockEnd
  PROVE  LayersInv'
<1>1. CASE ProcessPdus
  <2>1. macTasks # <<>> /\ macTasks' = Tail(macTasks) /\ Head(macTasks).type = "process_pdus"
    BY <1>1 DEF ProcessPdus, PopMacTask
  <2>2. RachPending' = RachPending
    <3>1. RachPending' = {r \in RachPending : Head(macTasks) # RachTaskOf(r)}
      BY <2>1, PopTask DEF Typed, WorkerInv
    <3>2. \A r : Head(macTasks) # RachTaskOf(r)
      BY <2>1 DEF RachTaskOf
    <3> QED
      BY <3>1, <3>2
  <2>3. stack.at = "idle" /\ stack'.at = "pdus"
    BY <1>1 DEF ProcessPdus, PopMacTask, Typed, TypeOK
  <2> QED
    BY <1>1, <2>2, <2>3, TurnsTo
    DEF ProcessPdus, LeavingPc, RemPc, LayersInv, RemovedLast
<1>2. CASE ProcessPdusEnd
  <2>1. stack.at = "pdus" /\ stack'.at = "idle"
    BY <1>2 DEF ProcessPdusEnd, Typed, TypeOK
  <2> QED
    BY <1>2, <2>1, SameTasks, TurnsTo
    DEF ProcessPdusEnd, LeavingPc, RemPc, LayersInv, RemovedLast, WorkerInv
<1>3. CASE TtiClock
  <2>1. stack.at = "idle" /\ stack'.at = "tti"
    BY <1>3 DEF TtiClock, Tti
  <2> QED
    BY <1>3, <2>1, SameTasks, TurnsTo DEF TtiClock, LeavingPc, RemPc, WorkerInv
<1>4. CASE TtiClockEnd
  <2>1. stack.at = "tti" /\ stack'.at = "idle"
    BY <1>4 DEF TtiClockEnd, Typed, TypeOK
  <2> QED
    BY <1>4, <2>1, SameTasks, TurnsTo, EmptyQueue DEF TtiClockEnd, LeavingPc, RemPc, WorkerInv
<1> QED
  BY <1>1, <1>2, <1>3, <1>4

\* process_pdus: a PDU goes from the MAC to the RRC's queue, if the RLC has the
\* user.
LEMMA ProcessPduLayers ==
  ASSUME Typed, WorkerInv, LayersInv, NEW r \in Rnti, ProcessPdu(r)
  PROVE  LayersInv'
<1>1. /\ UNCHANGED <<mac, sched, rlc, rrc, s1ap, macTasks, stack, ue>>
      /\ stack.at = "pdus" /\ pdus[r] # <<>>
      /\ pdus' = [pdus EXCEPT ![r] = Tail(pdus[r])]
      /\ rx_pdu_queue' = IF r \in rlc THEN Append(rx_pdu_queue, [rnti |-> r, lcid |-> Head(pdus[r])])
                                      ELSE rx_pdu_queue
  BY DEF ProcessPdu
<1>2. RachPending' = RachPending /\ RrcUsers' = RrcUsers /\ \A pcs : At(pcs)' = At(pcs)
  BY <1>1, SameTasks DEF WorkerInv, RrcUsers, At
<1>3. pdus \in [Rnti -> Seq(UlMsg)] /\ rx_pdu_queue \in Seq(RrcPdu)
  BY DEF Typed, TypeOK
<1>4. pdus'[r] = Tail(pdus[r]) /\ \A p \in Rnti : p # r => pdus'[p] = pdus[p]
  BY <1>1, <1>3
<1>5. Head(pdus[r]) \in UlMsg
  BY <1>1, <1>3
<1>6. /\ HasSetup(pdus[r]) <=> HasSetup(pdus'[r]) \/ Head(pdus[r]) = "setup_complete"
      /\ Head(pdus[r]) = "setup_complete" => ~HasSetup(pdus'[r])
      /\ OneSetup(pdus'[r])
  BY <1>1, <1>3, <1>4, SetupInMac DEF LayersInv, SetupOnce
<1>7. InMac(pdus') = IF Head(pdus[r]) = "setup_complete" THEN InMac(pdus) \ {r} ELSE InMac(pdus)
  BY <1>4, <1>6 DEF InMac
<1>8. Head(pdus[r]) = "setup_complete" => r \in InMac(pdus)
  BY <1>6 DEF InMac
<1>9. \A p \in Rnti : OneSetup(pdus'[p])
  BY <1>4, <1>6 DEF LayersInv, SetupOnce
<1>10. Has(rx_pdu_queue, "rem_user") = {}
  BY <1>1 DEF LayersInv, RemovedLast
<1>11. CASE r \in rlc
  <2> DEFINE x == [rnti |-> r, lcid |-> Head(pdus[r])]
  <2>1. /\ x \in RrcPdu /\ x.rnti = r /\ x.lcid = Head(pdus[r])
        /\ x.lcid \notin {"rel_user", "rem_user"}
    BY <1>5 DEF RrcPdu, UlMsg
  <2>2. rx_pdu_queue' = Append(rx_pdu_queue, x)
    BY <1>1, <1>11
  <2> HIDE DEF x
  <2>3. r \in RrcUsers
    BY <1>11 DEF LayersInv, Agree
  <2>4. /\ Named(rx_pdu_queue') = Named(rx_pdu_queue) \cup {r}
        /\ Has(rx_pdu_queue', "rel_user") = Has(rx_pdu_queue, "rel_user")
        /\ Has(rx_pdu_queue', "rem_user") = Has(rx_pdu_queue, "rem_user")
        /\ Has(rx_pdu_queue', "setup_complete") = Has(rx_pdu_queue, "setup_complete") \cup
             (IF x.lcid = "setup_complete" THEN {r} ELSE {})
    <3>1. /\ Named(rx_pdu_queue') = Named(rx_pdu_queue) \cup {x.rnti}
          /\ \A lcid : Has(rx_pdu_queue', lcid) =
                         Has(rx_pdu_queue, lcid) \cup (IF x.lcid = lcid THEN {x.rnti} ELSE {})
      BY <1>3, <2>1, <2>2, PushPdu
    <3> QED
      BY <2>1, <3>1
  <2>5. Ordered(rx_pdu_queue')
    <3>1. x.lcid = "setup_complete" => r \notin Has(rx_pdu_queue, "setup_complete")
      BY <1>8, <2>1 DEF LayersInv, SetupOnce
    <3> QED
      BY <1>3, <1>10, <2>1, <2>2, <3>1, PushPdu DEF LayersInv, RemovedLast
  <2>6. Ending' = Ending /\ Completing' = Completing
    BY <1>2, <1>7, <1>8, <2>1, <2>4 DEF Ending, Completing
  <2>7. Agree' /\ HaveUser'
    BY <1>1, <1>2, <2>3, <2>4 DEF LayersInv, Agree, HaveUser
  <2>8. RemovedLast'
    <3>1. At(RemPc) = {}
      BY <1>1 DEF At, RemPc
    <3> QED
      BY <1>1, <1>2, <2>4, <2>5, <3>1 DEF LayersInv, RemovedLast
  <2>9. SetupOnce'
    BY <1>1, <1>7, <1>8, <1>9, <2>1, <2>4, <2>6 DEF LayersInv, SetupOnce
  <2>10. UeIsThere'
    BY <1>1, <1>2, <2>6 DEF LayersInv, UeIsThere
  <2> QED
    BY <2>7, <2>8, <2>9, <2>10 DEF LayersInv
<1>12. CASE r \notin rlc
  <2>1. rx_pdu_queue' = rx_pdu_queue
    BY <1>1, <1>12
  <2>2. Ending' = Ending /\ Completing' \subseteq Completing /\ InMac(pdus') \subseteq InMac(pdus)
    BY <1>2, <1>7, <2>1 DEF Ending, Completing
  <2>3. Agree' /\ HaveUser' /\ RemovedLast'
    BY <1>1, <1>2, <2>1 DEF LayersInv, Agree, HaveUser, RemovedLast
  <2>4. SetupOnce' /\ UeIsThere'
    BY <1>1, <1>2, <1>9, <2>1, <2>2 DEF LayersInv, SetupOnce, UeIsThere
  <2> QED
    BY <2>3, <2>4 DEF LayersInv
<1> QED
  BY <1>11, <1>12

\* The messages of the MME: with the release S1AP forgets the user, and the RRC
\* is told, once.
LEMMA MmeTasksLayers ==
  ASSUME Typed, WorkerInv, LayersInv, DlNasTask \/ ReleaseTask
  PROVE  LayersInv'
<1>1. CASE DlNasTask
  BY <1>1, SameTasks, SameUsers DEF DlNasTask, WorkerInv
<1>2. CASE ReleaseTask
  <2> DEFINE r == Head(mmeTasks).rnti
  <2>1. /\ UNCHANGED <<mac, sched, rlc, rrc, pdus, macTasks, stack, ue>>
        /\ stack.at = "idle"
        /\ s1ap' = s1ap \ {r}
        /\ rx_pdu_queue' = IF r \in s1ap THEN Append(rx_pdu_queue, [rnti |-> r, lcid |-> "rel_user"])
                                         ELSE rx_pdu_queue
    BY <1>2 DEF ReleaseTask, PopMmeTask
  <2> HIDE DEF r
  <2>2. RachPending' = RachPending /\ RrcUsers' = RrcUsers /\ \A pcs : At(pcs)' = At(pcs)
    BY <2>1, SameTasks DEF WorkerInv, RrcUsers, At
  <2>3. CASE r \in s1ap
    <3> DEFINE x == [rnti |-> r, lcid |-> "rel_user"]
    <3>1. /\ x \in RrcPdu /\ x.rnti = r /\ x.lcid = "rel_user"
          /\ rx_pdu_queue \in Seq(RrcPdu)
      BY <2>3 DEF RrcPdu, Typed, TypeOK
    <3>2. rx_pdu_queue' = Append(rx_pdu_queue, x)
      BY <2>1, <2>3
    <3> HIDE DEF x
    <3>3. /\ Named(rx_pdu_queue') = Named(rx_pdu_queue) \cup {r}
          /\ Has(rx_pdu_queue', "rel_user") = Has(rx_pdu_queue, "rel_user") \cup {r}
          /\ Has(rx_pdu_queue', "rem_user") = Has(rx_pdu_queue, "rem_user")
          /\ Has(rx_pdu_queue', "setup_complete") = Has(rx_pdu_queue, "setup_complete")
      <4>1. /\ Named(rx_pdu_queue') = Named(rx_pdu_queue) \cup {x.rnti}
            /\ \A lcid : Has(rx_pdu_queue', lcid) =
                           Has(rx_pdu_queue, lcid) \cup (IF x.lcid = lcid THEN {x.rnti} ELSE {})
        BY <3>1, <3>2, PushPdu
      <4> QED
        BY <3>1, <4>1
    <3>4. r \in RrcUsers /\ r \notin Ending /\ r \notin Completing
      BY <2>3 DEF LayersInv, HaveUser, SetupOnce
    <3>5. Has(rx_pdu_queue, "rem_user") = {} /\ r \notin Has(rx_pdu_queue, "rel_user")
      BY <2>1, <3>4 DEF LayersInv, RemovedLast, Ending
    <3>6. Ordered(rx_pdu_queue')
      BY <3>1, <3>2, <3>5, PushPdu DEF LayersInv, RemovedLast
    <3>7. Ending' = Ending \cup {r} /\ Completing' = Completing
      BY <2>1, <2>2, <3>3 DEF Ending, Completing
    <3>8. Agree' /\ HaveUser'
      BY <2>1, <2>2, <3>3, <3>4 DEF LayersInv, Agree, HaveUser
    <3>9. RemovedLast'
      <4>1. At(LeavingPc) = {} /\ At(RemPc) = {}
        BY <2>1 DEF At, LeavingPc, RemPc
      <4> QED
        BY <2>1, <2>2, <3>3, <3>6, <4>1 DEF LayersInv, RemovedLast
    <3>10. SetupOnce'
      BY <2>1, <3>3, <3>4, <3>7 DEF LayersInv, SetupOnce
    <3>11. UeIsThere'
      BY <2>1, <2>2, <2>3, <3>7 DEF LayersInv, UeIsThere
    <3> QED
      BY <3>8, <3>9, <3>10, <3>11 DEF LayersInv
  <2>4. CASE r \notin s1ap
    <3>1. s1ap' = s1ap /\ rx_pdu_queue' = rx_pdu_queue
      BY <2>1, <2>4
    <3> QED
      BY <2>1, <2>2, <3>1, SameUsers
  <2> QED
    BY <2>3, <2>4
<1> QED
  BY <1>1, <1>2

-----------------------------------------------------------------------------
(* rrc::tti_clock *)

\* What is known when tti_clock has taken an element off the queue.
LEMMA Popped ==
  ASSUME Typed, WorkerInv, LayersInv, PopRrcPdu
  PROVE  LET x == Head(rx_pdu_queue)
         IN  /\ x.rnti \in Rnti /\ x.rnti \in RrcUsers
             /\ Ordered(rx_pdu_queue')
             /\ Named(rx_pdu_queue') \subseteq Named(rx_pdu_queue)
             /\ \A lcid : Has(rx_pdu_queue', lcid) \subseteq Has(rx_pdu_queue, lcid)
             /\ \A lcid : x.lcid = lcid => x.rnti \in Has(rx_pdu_queue, lcid)
             /\ x.lcid = "rem_user" => x.rnti \notin Named(rx_pdu_queue')
             /\ x.lcid = "rel_user" =>
                  /\ x.rnti \notin Has(rx_pdu_queue', "rel_user")
                  /\ x.rnti \notin Has(rx_pdu_queue', "rem_user")
             /\ x.lcid = "setup_complete" => x.rnti \notin Has(rx_pdu_queue', "setup_complete")
             /\ Completing' \subseteq Completing
             /\ InMac(pdus') = InMac(pdus)
             /\ RachPending' = RachPending
             /\ UNCHANGED <<mac, rlc, pdus, ue>>
             /\ At(LeavingPc) = {} /\ At(RemPc) = {} /\ At({"rem_rrc"}) = {}
             /\ At({"rem_mac", "rem_rlc", "rem_rrc"}) = {} /\ At({"rem_rlc", "rem_rrc"}) = {}
<1> DEFINE q == rx_pdu_queue
           x == Head(rx_pdu_queue)
<1>1. /\ q # <<>> /\ q' = Tail(q) /\ stack.at = "tti"
      /\ UNCHANGED <<mac, rlc, pdus, ue, macTasks>>
  BY DEF PopRrcPdu
<1>2. q \in Seq(RrcPdu) /\ Ordered(q)
  BY DEF Typed, TypeOK, LayersInv, RemovedLast
<1>3. /\ Ordered(q')
      /\ Named(q) = Named(q') \cup {x.rnti}
      /\ \A lcid : Has(q, lcid) = Has(q', lcid) \cup (IF x.lcid = lcid THEN {x.rnti} ELSE {})
      /\ x.lcid = "rem_user" => x.rnti \notin Named(q')
      /\ x.lcid = "rel_user" => x.rnti \notin Has(q', "rel_user") \cup Has(q', "rem_user")
      /\ x.lcid = "setup_complete" => x.rnti \notin Has(q', "setup_complete")
  BY <1>1, <1>2, PopPdu
<1>4. /\ \A lcid : Has(q', lcid) \subseteq Has(q, lcid)
      /\ \A lcid : x.lcid = lcid => x.rnti \in Has(q, lcid)
  BY <1>3
<1>5. x.rnti \in Rnti /\ x.rnti \in RrcUsers
  BY <1>3 DEF LayersInv, HaveUser, RrcUsers
<1>6. Completing' \subseteq Completing /\ InMac(pdus') = InMac(pdus)
  BY <1>1, <1>4 DEF Completing
<1>7. RachPending' = RachPending
  BY <1>1, SameTasks DEF WorkerInv
<1>8. /\ At(LeavingPc) = {} /\ At(RemPc) = {} /\ At({"rem_rrc"}) = {}
      /\ At({"rem_mac", "rem_rlc", "rem_rrc"}) = {} /\ At({"rem_rlc", "rem_rrc"}) = {}
  BY <1>1 DEF At, LeavingPc, RemPc
<1> QED
  BY <1>1, <1>3, <1>4, <1>5, <1>6, <1>7, <1>8

\* The messages of a UE, and what is discarded.
LEMMA UlMessagesLayers ==
  ASSUME Typed, WorkerInv, LayersInv,
         HandleConReq \/ HandleConSetupComplete \/ HandleUlInfo
  PROVE  LayersInv'
<1> DEFINE x == Head(rx_pdu_queue)
<1>1. PopRrcPdu /\ UNCHANGED stack
  BY DEF HandleConReq, HandleConSetupComplete, HandleUlInfo
<1>2. /\ x.rnti \in Rnti /\ x.rnti \in RrcUsers
      /\ Ordered(rx_pdu_queue')
      /\ Named(rx_pdu_queue') \subseteq Named(rx_pdu_queue)
      /\ \A lcid : Has(rx_pdu_queue', lcid) \subseteq Has(rx_pdu_queue, lcid)
      /\ \A lcid : x.lcid = lcid => x.rnti \in Has(rx_pdu_queue, lcid)
      /\ x.lcid = "setup_complete" => x.rnti \notin Has(rx_pdu_queue', "setup_complete")
      /\ Completing' \subseteq Completing
      /\ InMac(pdus') = InMac(pdus)
      /\ RachPending' = RachPending
      /\ UNCHANGED <<mac, rlc, pdus, ue>>
      /\ At(LeavingPc) = {} /\ At(RemPc) = {} /\ At({"rem_rrc"}) = {}
      /\ At({"rem_mac", "rem_rlc", "rem_rrc"}) = {} /\ At({"rem_rlc", "rem_rrc"}) = {}
  BY <1>1, Popped
<1>3. \A pcs : At(pcs)' = At(pcs)
  BY <1>1 DEF At
<1>4. Ending' \subseteq Ending
  BY <1>2, <1>3 DEF Ending
<1>5. RrcUsers' = RrcUsers
  <2>1. /\ x.rnti \in RrcUsers
        /\ \/ rrc' = rrc
           \/ rrc' = [rrc EXCEPT ![x.rnti] = "wait_con_setup_complete"]
           \/ rrc' = [rrc EXCEPT ![x.rnti] = "wait_con_reconf_complete"]
    BY <1>2 DEF HandleConReq, HandleConSetupComplete, HandleUlInfo
  <2> HIDE DEF x
  <2> QED
    BY <2>1 DEF RrcUsers, Typed, TypeOK
<1>6. sched' = sched
  <2>1. CASE HandleConReq
    BY <1>2, <2>1 DEF HandleConReq, LayersInv, Agree
  <2>2. CASE HandleConSetupComplete \/ HandleUlInfo
    BY <2>2 DEF HandleConSetupComplete, HandleUlInfo
  <2> QED
    BY <2>1, <2>2
<1>7. s1ap' = s1ap \/ (x.lcid = "setup_complete" /\ s1ap' = s1ap \cup {x.rnti})
  BY DEF HandleConReq, HandleConSetupComplete, HandleUlInfo
<1> HIDE DEF x
<1>8. Agree'
  BY <1>2, <1>3, <1>5, <1>6 DEF LayersInv, Agree
<1>9. HaveUser'
  BY <1>2, <1>3, <1>5, <1>7 DEF LayersInv, HaveUser
<1>10. RemovedLast'
  <2>1. stack.at = "tti" /\ stack' = stack
    BY <1>1 DEF PopRrcPdu
  <2> QED
    BY <1>2, <1>3, <2>1 DEF LayersInv, RemovedLast
<1>11. x.lcid = "setup_complete" =>
         x.rnti \in Completing /\ x.rnti \notin Completing' /\ x.rnti \notin Ending
  <2> SUFFICES ASSUME x.lcid = "setup_complete"
               PROVE  x.rnti \in Completing /\ x.rnti \notin Completing' /\ x.rnti \notin Ending
    OBVIOUS
  <2>1. x.rnti \in Has(rx_pdu_queue, "setup_complete") /\ x.rnti \notin Has(rx_pdu_queue', "setup_complete")
    BY <1>2
  <2>2. x.rnti \notin InMac(pdus) /\ x.rnti \in Completing
    BY <2>1 DEF LayersInv, SetupOnce, Completing
  <2> QED
    BY <1>2, <2>1, <2>2 DEF LayersInv, SetupOnce, Completing
<1>12. SetupOnce'
  <2>1. (\A r \in Rnti : OneSetup(pdus[r]))' /\ (Has(rx_pdu_queue, "setup_complete") \cap InMac(pdus) = {})'
    BY <1>2 DEF LayersInv, SetupOnce
  <2>2. (Ending \cap s1ap = {})' /\ ((s1ap \cup Ending) \cap Completing = {})'
    BY <1>2, <1>4, <1>7, <1>11 DEF LayersInv, SetupOnce
  <2> QED
    BY <2>1, <2>2 DEF SetupOnce
<1>13. UeIsThere'
  BY <1>2, <1>4, <1>7, <1>11 DEF LayersInv, UeIsThere
<1> QED
  BY <1>8, <1>9, <1>10, <1>12, <1>13 DEF LayersInv

\* process_release_complete, and rem_user when its turn has come: from now on
\* the stack thread is busy with the user.
LEMMA LeavingLayers ==
  ASSUME Typed, WorkerInv, LayersInv, ProcessReleaseComplete \/ RemUser
  PROVE  LayersInv'
<1> DEFINE x == Head(rx_pdu_queue)
<1>1. PopRrcPdu /\ UNCHANGED <<sched, rrc, s1ap>>
  BY DEF ProcessReleaseComplete, RemUser
<1>2. /\ x.rnti \in Rnti /\ x.rnti \in RrcUsers
      /\ Ordered(rx_pdu_queue')
      /\ Named(rx_pdu_queue') \subseteq Named(rx_pdu_queue)
      /\ \A lcid : Has(rx_pdu_queue', lcid) \subseteq Has(rx_pdu_queue, lcid)
      /\ \A lcid : x.lcid = lcid => x.rnti \in Has(rx_pdu_queue, lcid)
      /\ x.lcid = "rem_user" => x.rnti \notin Named(rx_pdu_queue')
      /\ x.lcid = "rel_user" =>
           /\ x.rnti \notin Has(rx_pdu_queue', "rel_user")
           /\ x.rnti \notin Has(rx_pdu_queue', "rem_user")
      /\ Completing' \subseteq Completing
      /\ InMac(pdus') = InMac(pdus)
      /\ RachPending' = RachPending
      /\ UNCHANGED <<mac, rlc, pdus, ue>>
      /\ At(LeavingPc) = {} /\ At(RemPc) = {} /\ At({"rem_rrc"}) = {}
      /\ At({"rem_mac", "rem_rlc", "rem_rrc"}) = {} /\ At({"rem_rlc", "rem_rrc"}) = {}
  BY <1>1, Popped
<1>3. \/ x.lcid = "rel_user" /\ stack'.rnti = x.rnti /\ stack'.at \in {"sleep", "queue_rem"}
      \/ x.lcid = "rem_user" /\ stack'.rnti = x.rnti /\ stack'.at = "rem_sched"
  <2>1. CASE ProcessReleaseComplete
    BY <2>1 DEF ProcessReleaseComplete
  <2>2. CASE RemUser
    <3>1. x.rnti \in mac
      BY <1>2 DEF LayersInv, Agree
    <3> QED
      BY <2>2, <3>1 DEF RemUser
  <2> QED
    BY <2>1, <2>2
<1>4. RrcUsers' = RrcUsers
  BY <1>1 DEF RrcUsers
<1> HIDE DEF x
<1>5. /\ At({"rem_rrc"})' = {} /\ At({"rem_mac", "rem_rlc", "rem_rrc"})' = {}
      /\ At({"rem_rlc", "rem_rrc"})' = {} /\ At(LeavingPc)' = {x.rnti}
      /\ x.lcid = "rel_user" => At(RemPc)' = {}
      /\ At(RemPc)' \subseteq {x.rnti}
      /\ stack'.at \notin {"idle", "pdus"}
  BY <1>3 DEF At, LeavingPc, RemPc
<1>6. x.rnti \in Ending /\ Ending' \subseteq Ending
  BY <1>2, <1>3, <1>5 DEF Ending
<1>7. Agree' /\ HaveUser'
  BY <1>1, <1>2, <1>4, <1>5 DEF LayersInv, Agree, HaveUser
<1>8. RemovedLast'
  BY <1>2, <1>3, <1>5, HasNamed DEF LayersInv, RemovedLast
<1>9. SetupOnce' /\ UeIsThere'
  BY <1>1, <1>2, <1>6 DEF LayersInv, SetupOnce, UeIsThere
<1> QED
  BY <1>7, <1>8, <1>9 DEF LayersInv

\* The 50 ms, and rem_user_thread.
LEMMA RemUserThreadLayers ==
  ASSUME Typed, WorkerInv, LayersInv, Sleep \/ RemUserThread
  PROVE  LayersInv'
<1>1. /\ UNCHANGED <<mac, sched, rlc, rrc, s1ap, pdus, ue>>
      /\ RachPending' = RachPending /\ RrcUsers' = RrcUsers
  BY SameTasks DEF Sleep, RemUserThread, WorkerInv, RrcUsers
<1>2. /\ At({"rem_rrc"}) = {} /\ At({"rem_mac", "rem_rlc", "rem_rrc"}) = {}
      /\ At({"rem_rlc", "rem_rrc"}) = {} /\ At(RemPc) = {}
      /\ At(LeavingPc) = {stack.rnti}
  BY DEF Sleep, RemUserThread, At, LeavingPc, RemPc
<1>3. CASE Sleep
  <2>1. /\ At({"rem_rrc"})' = {} /\ At({"rem_mac", "rem_rlc", "rem_rrc"})' = {}
        /\ At({"rem_rlc", "rem_rrc"})' = {} /\ At(RemPc)' = {}
        /\ At(LeavingPc)' = {stack.rnti}
        /\ stack'.at \notin {"idle", "pdus"} /\ rx_pdu_queue' = rx_pdu_queue
    BY <1>3 DEF Sleep, At, LeavingPc, RemPc, Typed, TypeOK
  <2>2. Ending' = Ending /\ Completing' = Completing
    BY <1>1, <1>2, <2>1 DEF Ending, Completing
  <2>3. Agree' /\ HaveUser' /\ RemovedLast'
    BY <1>1, <1>2, <2>1 DEF LayersInv, Agree, HaveUser, RemovedLast
  <2>4. SetupOnce' /\ UeIsThere'
    BY <1>1, <2>1, <2>2 DEF LayersInv, SetupOnce, UeIsThere
  <2> QED
    BY <2>3, <2>4 DEF LayersInv
<1>4. CASE RemUserThread
  <2> DEFINE r == stack.rnti
             x == [rnti |-> r, lcid |-> "rem_user"]
  <2>1. /\ At({"rem_rrc"})' = {} /\ At({"rem_mac", "rem_rlc", "rem_rrc"})' = {}
        /\ At({"rem_rlc", "rem_rrc"})' = {} /\ At(RemPc)' = {}
        /\ At(LeavingPc)' = {} /\ stack'.at \notin {"idle", "pdus"}
    BY <1>4 DEF RemUserThread, Tti, At, LeavingPc, RemPc
  <2>2. /\ x \in RrcPdu /\ x.rnti = r /\ x.lcid = "rem_user"
        /\ rx_pdu_queue \in Seq(RrcPdu)
    BY DEF RrcPdu, Typed, TypeOK
  <2>3. rx_pdu_queue' = Append(rx_pdu_queue, x)
    BY <1>4 DEF RemUserThread
  <2>4. /\ r \in RrcUsers
        /\ r \notin Has(rx_pdu_queue, "rel_user") /\ r \notin Has(rx_pdu_queue, "rem_user")
    BY <1>2 DEF LayersInv, HaveUser, RemovedLast
  <2> HIDE DEF r, x
  <2>5. /\ Named(rx_pdu_queue') = Named(rx_pdu_queue) \cup {r}
        /\ Has(rx_pdu_queue', "rel_user") = Has(rx_pdu_queue, "rel_user")
        /\ Has(rx_pdu_queue', "rem_user") = Has(rx_pdu_queue, "rem_user") \cup {r}
        /\ Has(rx_pdu_queue', "setup_complete") = Has(rx_pdu_queue, "setup_complete")
    <3>1. /\ Named(rx_pdu_queue') = Named(rx_pdu_queue) \cup {x.rnti}
          /\ \A lcid : Has(rx_pdu_queue', lcid) =
                         Has(rx_pdu_queue, lcid) \cup (IF x.lcid = lcid THEN {x.rnti} ELSE {})
      BY <2>2, <2>3, PushPdu
    <3> QED
      BY <2>2, <3>1
  <2>6. Ordered(rx_pdu_queue')
    BY <2>2, <2>3, <2>4, PushPdu DEF LayersInv, RemovedLast
  <2>7. Ending' = Ending /\ Completing' = Completing
    BY <1>1, <1>2, <2>1, <2>5 DEF Ending, Completing, r
  <2>8. Agree' /\ HaveUser'
    BY <1>1, <1>2, <2>1, <2>4, <2>5 DEF LayersInv, Agree, HaveUser
  <2>9. RemovedLast'
    BY <2>1, <2>6 DEF RemovedLast
  <2>10. SetupOnce' /\ UeIsThere'
    BY <1>1, <2>5, <2>7 DEF LayersInv, SetupOnce, UeIsThere
  <2> QED
    BY <2>8, <2>9, <2>10 DEF LayersInv
<1> QED
  BY <1>3, <1>4

\* The steps of rem_user take the user from layer after layer.
LEMMA RemovalLayers ==
  ASSUME Typed, WorkerInv, LayersInv, RemSched \/ RemMac \/ RemRlc \/ RemRrc
  PROVE  LayersInv'
<1> DEFINE r == stack.rnti
<1>1. /\ UNCHANGED <<s1ap, rx_pdu_queue>> /\ RachPending' = RachPending
      /\ stack.at \in RemPc
  BY SameTasks DEF RemSched, RemMac, RemRlc, RemRrc, WorkerInv, RemPc
<1>2. At(LeavingPc) = {r} /\ At(RemPc) = {r}
  BY <1>1 DEF At, LeavingPc
<1>3. /\ r \in Rnti /\ r \in RrcUsers /\ r \in Ending
      /\ r \notin s1ap /\ r \notin Completing
      /\ r \notin Named(rx_pdu_queue)
  BY <1>2, AllRntis DEF LayersInv, HaveUser, RemovedLast, SetupOnce, Ending
<1>4. r \notin RachPending
  BY <1>3 DEF WorkerInv, RachIsFresh, RrcUsers
<1>5. CASE RemSched \/ RemMac \/ RemRlc
  <2>1. /\ stack'.at \in RemPc /\ stack'.rnti = r /\ rrc' = rrc
        /\ \/ pdus' = pdus /\ ue' = ue
           \/ pdus' = [pdus EXCEPT ![r] = <<>>] /\ ue' = [ue EXCEPT ![r] = "none"]
    BY <1>5 DEF RemSched, RemMac, RemRlc, RemPc, Typed, TypeOK
  <2>2. At(LeavingPc)' = {r} /\ At(RemPc)' = {r} /\ RrcUsers' = RrcUsers /\ stack'.at \notin {"idle", "pdus"}
    BY <2>1 DEF At, LeavingPc, RemPc, RrcUsers
  <2>3. Agree'
    <3>1. CASE RemSched
      <4>1. /\ sched' = sched \ {r} /\ UNCHANGED <<mac, rlc>>
            /\ stack.at = "rem_sched" /\ stack'.at = "rem_mac" /\ stack'.rnti = r
        BY <3>1 DEF RemSched, Typed, TypeOK
      <4> QED
        BY <1>1, <2>2, <4>1 DEF LayersInv, Agree, At
    <3>2. CASE RemMac
      <4>1. /\ mac' = mac \ {r} /\ UNCHANGED <<sched, rlc>>
            /\ stack.at = "rem_mac" /\ stack'.at = "rem_rlc" /\ stack'.rnti = r
        BY <3>2 DEF RemMac, Typed, TypeOK
      <4> QED
        BY <1>1, <2>2, <4>1 DEF LayersInv, Agree, At
    <3>3. CASE RemRlc
      <4>1. /\ rlc' = rlc \ {r} /\ UNCHANGED <<sched, mac>>
            /\ stack.at = "rem_rlc" /\ stack'.at = "rem_rrc" /\ stack'.rnti = r
        BY <3>3 DEF RemRlc, Typed, TypeOK
      <4> QED
        BY <1>1, <2>2, <4>1 DEF LayersInv, Agree, At
    <3> QED
      BY <1>5, <3>1, <3>2, <3>3
  <2> HIDE DEF r
  <2>4. HaveUser' /\ RemovedLast'
    BY <1>1, <1>2, <2>2 DEF LayersInv, HaveUser, RemovedLast
  <2>5. (\A p \in Rnti : OneSetup(pdus'[p])) /\ InMac(pdus') \subseteq InMac(pdus)
    BY <1>3, <2>1, EmptyQueue DEF LayersInv, SetupOnce, InMac, Typed, TypeOK
  <2>6. Ending' = Ending /\ Completing' \subseteq Completing
    BY <1>1, <1>2, <2>2, <2>5 DEF Ending, Completing
  <2>7. SetupOnce'
    BY <1>1, <2>5, <2>6 DEF LayersInv, SetupOnce
  <2>8. (\A p \in Rnti : p # r => ue'[p] = ue[p]) /\ (ue'[r] = ue[r] \/ ue'[r] = "none")
    BY <1>3, <2>1 DEF Typed, TypeOK
  <2>9. UeIsThere'
    BY <1>1, <1>3, <1>4, <2>6, <2>8, AllRntis DEF LayersInv, UeIsThere
  <2> QED
    BY <2>3, <2>4, <2>7, <2>9 DEF LayersInv
<1>6. CASE RemRrc
  <2>1. /\ stack.at = "rem_rrc" /\ stack'.at = "tti"
        /\ rrc' = [rrc EXCEPT ![r] = "absent"]
        /\ UNCHANGED <<mac, sched, rlc, pdus, ue>>
    BY <1>6 DEF RemRrc, Tti
  <2>2. /\ At({"rem_rrc"}) = {r} /\ At({"rem_mac", "rem_rlc", "rem_rrc"}) = {r}
        /\ At({"rem_rlc", "rem_rrc"}) = {r}
    BY <2>1 DEF At
  <2>3. /\ At({"rem_rrc"})' = {} /\ At({"rem_mac", "rem_rlc", "rem_rrc"})' = {}
        /\ At({"rem_rlc", "rem_rrc"})' = {} /\ At(RemPc)' = {} /\ At(LeavingPc)' = {}
    BY <2>1 DEF At, RemPc, LeavingPc
  <2> HIDE DEF r
  <2>4. RrcUsers' = RrcUsers \ {r}
    BY <1>3, <2>1 DEF RrcUsers, Typed, TypeOK
  <2>5. Ending' \subseteq Ending /\ Completing' = Completing
    BY <1>1, <2>1, <2>3 DEF Ending, Completing
  <2>6. Agree'
    BY <1>1, <1>4, <2>1, <2>2, <2>3, <2>4 DEF LayersInv, Agree
  <2>7. HaveUser' /\ RemovedLast'
    BY <1>1, <1>3, <2>1, <2>3, <2>4 DEF LayersInv, HaveUser, RemovedLast
  <2>8. SetupOnce' /\ UeIsThere'
    BY <1>1, <2>1, <2>5 DEF LayersInv, SetupOnce, UeIsThere
  <2> QED
    BY <2>6, <2>7, <2>8 DEF LayersInv
<1> QED
  BY <1>5, <1>6

-----------------------------------------------------------------------------

\* LayersInv holds throughout every behaviour without reuse of RNTIs in use.
LEMMA LayersInvariance ==
  ASSUME ~InUseAgain
  PROVE  Spec => []LayersInv
<1>1. Init => LayersInv
  <2> SUFFICES ASSUME Init PROVE LayersInv
    OBVIOUS
  <2>1. /\ RrcUsers = {} /\ RachPending = {} /\ rx_pdu_queue = <<>>
        /\ \A pcs : "idle" \notin pcs => At(pcs) = {}
        /\ stack.at = "idle" /\ \A r \in Rnti : pdus[r] = <<>>
    BY DEF Init, RrcUsers, RachPending, At, Idle
  <2>2. At(LeavingPc) = {} /\ At(RemPc) = {}
    BY <2>1 DEF LeavingPc, RemPc
  <2>3. InMac(pdus) = {} /\ Ending = {} /\ Completing = {}
    BY <2>1, <2>2, EmptyQueue DEF InMac, Ending, Completing
  <2>4. Agree
    BY <2>1 DEF Init, Agree
  <2>5. HaveUser /\ RemovedLast
    BY <2>1, <2>2, EmptyQueue DEF Init, HaveUser, RemovedLast
  <2>6. SetupOnce /\ UeIsThere
    BY <2>1, <2>3, EmptyQueue DEF Init, SetupOnce, UeIsThere
  <2> QED
    BY <2>4, <2>5, <2>6 DEF LayersInv
<1>2. Typed /\ WorkerInv /\ LayersInv /\ [Next]_vars => LayersInv'
  <2>1. ASSUME Typed, WorkerInv, LayersInv, Next PROVE LayersInv'
    BY <2>1, RachDetectedLayers, CrcInfoLayers, OthersLayers, RachTaskLayers, TaskBoundsLayers,
       ProcessPduLayers, MmeTasksLayers, UlMessagesLayers, LeavingLayers, RemUserThreadLayers,
       RemovalLayers
    DEF Next, StackStep
  <2>2. ASSUME Typed, WorkerInv, LayersInv, UNCHANGED vars PROVE LayersInv'
    BY <2>2, SameTasks, SameUsers DEF vars, WorkerInv
  <2> QED
    BY <2>1, <2>2
<1> QED
  BY <1>1, <1>2, TypedInvariance, WorkerInvariance, PTL DEF Spec

(***************************************************************************)
(* Between the tasks of the stack thread RRC, RLC and scheduler have the   *)
(* same users, the MAC those and the UEs whose RACH task waits, and S1AP   *)
(* never has a user without an RRC context, however random access,         *)
(* messages, releases and the steps of rem_user interleave (rach_detected, *)
(* process_pdus, tti_clock, rem_user).                                     *)
(***************************************************************************)
THEOREM LayersAlwaysAgree ==
  ASSUME ~InUseAgain
  PROVE  Spec => []LayersAgree
<1>1. LayersInv => LayersAgree
  <2> SUFFICES ASSUME LayersInv PROVE LayersAgree
    OBVIOUS
  <2>1. stack.at = "idle" => /\ At({"rem_rrc"}) = {} /\ At({"rem_mac", "rem_rlc", "rem_rrc"}) = {}
                             /\ At({"rem_rlc", "rem_rrc"}) = {}
    BY DEF At
  <2> QED
    BY <2>1 DEF LayersInv, Agree, HaveUser, LayersAgree
<1> QED
  BY <1>1, LayersInvariance, PTL

(***************************************************************************)
(* Whatever tti_clock finds in rx_pdu_queue is for a user that the RRC     *)
(* still has: no message comes after the removal of its user, and no user  *)
(* is released or removed twice (process_release_complete, rem_user).      *)
(***************************************************************************)
THEOREM QueuedAlwaysHasUser ==
  ASSUME ~InUseAgain
  PROVE  Spec => []QueuedHasUser
<1>1. Typed /\ LayersInv => QueuedHasUser
  <2> SUFFICES ASSUME Typed, LayersInv, NEW i \in 1..Len(rx_pdu_queue)
               PROVE  rx_pdu_queue[i].rnti \in RrcUsers
    BY DEF QueuedHasUser
  <2>1. rx_pdu_queue[i].rnti \in Rnti
    BY AllRntis, PduOfUser
  <2>2. rx_pdu_queue[i].rnti \in Named(rx_pdu_queue)
    BY <2>1 DEF Named
  <2> QED
    BY <2>2 DEF LayersInv, HaveUser
<1> QED
  BY <1>1, LayersInvariance, TypedInvariance, PTL

=============================================================================
