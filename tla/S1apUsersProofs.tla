-------------------------- MODULE S1apUsersProofs --------------------------
(***************************************************************************)
(* Proofs about S1apUsers, for any sets of RNTIs and MME identities and    *)
(* any bounds.                                                             *)
(***************************************************************************)
EXTENDS S1apUsers, SequenceTheorems, TLAPS

\* The fields of messages that identify UEs only hold identities given out.
Given(s, n) == \A i \in 1..Len(s) : s[i].enb < n

(***************************************************************************)
(* The inductive invariant.  That identities are never reused needs to     *)
(* know where an identity can still be remembered: in the list, by the MME *)
(* and in the messages in flight either way.                               *)
(***************************************************************************)
IInv ==
  /\ TypeOK
  /\ RntiUnique
  /\ \A e \in DOMAIN users : e < next_enb_ue_s1ap_id
  /\ \A m \in DOMAIN mme : mme[m] < next_enb_ue_s1ap_id
  /\ Given(toMme, next_enb_ue_s1ap_id)
  /\ Given(toEnb, next_enb_ue_s1ap_id)

-----------------------------------------------------------------------------
(* The operators *)

\* A change of one user that keeps its rnti keeps the list's type and the
\* uniqueness of RNTIs.
LEMMA SameRnti ==
  ASSUME TypeOK, RntiUnique, NEW e \in DOMAIN users, NEW u \in User,
         u.rnti = users[e].rnti, users' = [users EXCEPT ![e] = u]
  PROVE  /\ users' \in [DOMAIN users' -> User]
         /\ DOMAIN users' = DOMAIN users
         /\ RntiUnique'
  BY DEF TypeOK, RntiUnique

\* find_s1apmsg_user returns a list like that.
LEMMA FindS1apmsgUserType ==
  ASSUME TypeOK, NEW e \in DOMAIN users, NEW m \in MmeIds
  PROVE  /\ FindS1apmsgUser(e, m)
              = [users EXCEPT ![e] = FindS1apmsgUser(e, m)[e]]
         /\ FindS1apmsgUser(e, m)[e] \in User
         /\ FindS1apmsgUser(e, m)[e].rnti = users[e].rnti
  <1>1. users[e] \in User
    BY DEF TypeOK
  <1>2. FindS1apmsgUser(e, m)[e] =
          [users[e] EXCEPT !.mme_ue_s1ap_id_present = TRUE, !.mme_ue_s1ap_id = m]
    BY DEF FindS1apmsgUser
  <1>3. QED
    BY <1>1, <1>2 DEF FindS1apmsgUser, User

\* Taking a message off, or adding one, keeps a direction well formed.
LEMMA TailType ==
  ASSUME NEW S, NEW s \in Seq(S), s # <<>>, NEW n, Given(s, n)
  PROVE  /\ Tail(s) \in Seq(S)
         /\ Given(Tail(s), n)
         /\ Head(s) \in S
         /\ Head(s).enb < n
  BY DEF Given

\* Adding a message about a UE whose identity was given out.
LEMMA AppendType ==
  ASSUME NEW S, NEW s \in Seq(S), NEW n, Given(s, n), NEW x \in S, x.enb < n
  PROVE  Append(s, x) \in Seq(S) /\ Given(Append(s, x), n)
  BY DEF Given

\* What was given out stays given out when the counter advances.
LEMMA GivenLater ==
  ASSUME NEW S \in {UplinkMsg, DownlinkMsg}, NEW s \in Seq(S), NEW n \in Nat, Given(s, n)
  PROVE  Given(s, n + 1)
  <1>1. ASSUME NEW i \in 1..Len(s) PROVE s[i].enb < n + 1
    <2>1. s[i] \in S
      OBVIOUS
    <2>2. s[i].enb \in Nat
      <3>1. CASE S = UplinkMsg
        BY <2>1, <3>1 DEF UplinkMsg
      <3>2. CASE S = DownlinkMsg
        BY <2>1, <3>2 DEF DownlinkMsg
      <3>3. QED
        BY <3>1, <3>2
    <2>3. s[i].enb < n
      BY DEF Given
    <2>4. QED
      BY <2>2, <2>3
  <1>2. QED
    BY <1>1 DEF Given

\* Sending a message that names a known identity keeps toMme well formed.
LEMMA SentType ==
  ASSUME TypeOK, Given(toMme, next_enb_ue_s1ap_id), NEW type \in {"initial_ue", "ul_nas",
           "release_request", "release_complete", "mod_resp"},
         NEW e \in Nat, e < next_enb_ue_s1ap_id, NEW u,
         u.mme_ue_s1ap_id \in MmeIds \cup {0}
  PROVE  Sent(type, e, u) \in Seq(UplinkMsg) /\ Given(Sent(type, e, u), next_enb_ue_s1ap_id)
  <1> DEFINE msg == [type |-> type, enb |-> e, mme |-> u.mme_ue_s1ap_id]
  <1>1. msg \in UplinkMsg /\ msg.enb < next_enb_ue_s1ap_id
    BY DEF UplinkMsg
  <1>2. toMme \in Seq(UplinkMsg)
    BY DEF TypeOK
  <1>3. Append(toMme, msg) \in Seq(UplinkMsg) /\ Given(Append(toMme, msg), next_enb_ue_s1ap_id)
    BY <1>1, <1>2, AppendType
  <1>4. QED
    BY <1>2, <1>3 DEF Sent

-----------------------------------------------------------------------------

\* The object as constructed, before any association, satisfies IInv.
LEMMA InitIInv == Init => IInv
  <1> SUFFICES ASSUME Init PROVE IInv
    OBVIOUS
  <1>1. /\ DOMAIN users = {} /\ DOMAIN mme = {}
        /\ Len(toMme) = 0 /\ Len(toEnb) = 0
        /\ toMme \in Seq(UplinkMsg) /\ toEnb \in Seq(DownlinkMsg)
    BY DEF Init, EmptyMap
  <1>2. TypeOK
    BY <1>1 DEF Init, TypeOK, EmptyMap
  <1>3. QED
    BY <1>1, <1>2 DEF IInv, RntiUnique, Given

(***************************************************************************)
(* Every request, message and change of the association keeps IInv.        *)
(***************************************************************************)
LEMMA NextIInv == IInv /\ [Next]_vars => IInv'
  <1> SUFFICES ASSUME IInv, [Next]_vars PROVE IInv'
    OBVIOUS
  <1> USE DEF IInv
  <1>a. /\ toMme \in Seq(UplinkMsg) /\ toEnb \in Seq(DownlinkMsg)
        /\ next_enb_ue_s1ap_id \in Nat
        /\ DOMAIN users \subseteq Nat /\ again \subseteq Nat
    BY DEF TypeOK
  <1>b. ASSUME Receive(DownlinkType)
        PROVE  /\ toEnb' \in Seq(DownlinkMsg) /\ Given(toEnb', next_enb_ue_s1ap_id)
               /\ Head(toEnb).enb \in Nat /\ Head(toEnb).mme \in MmeIds
               /\ next_enb_ue_s1ap_id' = next_enb_ue_s1ap_id
               /\ mme_connected' = mme_connected
               /\ assoc' = assoc /\ mme' = mme /\ again' = again
    <2>1. toEnb # <<>> /\ toEnb' = Tail(toEnb)
          /\ UNCHANGED <<next_enb_ue_s1ap_id, mme_connected, assoc, mme, again>>
      BY <1>b DEF Receive
    <2>2. /\ Tail(toEnb) \in Seq(DownlinkMsg)
          /\ Given(Tail(toEnb), next_enb_ue_s1ap_id)
          /\ Head(toEnb) \in DownlinkMsg
      BY <1>a, <2>1, TailType
    <2>3. Head(toEnb).enb \in Nat /\ Head(toEnb).mme \in MmeIds
      BY <2>2 DEF DownlinkMsg
    <2>4. QED
      BY <2>1, <2>2, <2>3
  <1>c. ASSUME Receive(DownlinkType),
               users' \in [DOMAIN users' -> User], DOMAIN users' \subseteq DOMAIN users,
               RntiUnique', toMme' \in Seq(UplinkMsg), Given(toMme', next_enb_ue_s1ap_id)
        PROVE  IInv'
    BY <1>a, <1>b, <1>c DEF TypeOK
  <1>1. ASSUME NEW rnti \in Rntis, NEW has_tmsi \in BOOLEAN, InitialUe(rnti, has_tmsi)
        PROVE  IInv'
    <2>1. next_enb_ue_s1ap_id' = next_enb_ue_s1ap_id + 1
      BY <1>1 DEF InitialUe, NextEnbId
    <2>2. Given(toMme, next_enb_ue_s1ap_id + 1) /\ Given(toEnb, next_enb_ue_s1ap_id + 1)
      BY <1>a, GivenLater
    <2>a. again' \subseteq Nat
      BY <1>1, <1>a DEF InitialUe, FindUeRnti
    <2>3. CASE CanAddUser(rnti) /\ users' = Insert(next_enb_ue_s1ap_id, NewUe(rnti))
               /\ toMme' = Sent("initial_ue", next_enb_ue_s1ap_id, NewUe(rnti))
      <3>1. NewUe(rnti) \in User /\ NewUe(rnti).mme_ue_s1ap_id = 0 /\ NewUe(rnti).rnti = rnti
        BY DEF NewUe, User
      <3>2. /\ users' \in [DOMAIN users' -> User]
            /\ DOMAIN users' = DOMAIN users \cup {next_enb_ue_s1ap_id}
        BY <2>3, <3>1 DEF Insert, TypeOK
      <3>3. RntiUnique'
        BY <2>3, <3>1 DEF Insert, RntiUnique, CanAddUser, FindUeRnti
      <3>4. toMme' \in Seq(UplinkMsg) /\ Given(toMme', next_enb_ue_s1ap_id + 1)
        <4> DEFINE msg == [type |-> "initial_ue", enb |-> next_enb_ue_s1ap_id, mme |-> 0]
        <4>1. msg \in UplinkMsg /\ msg.enb < next_enb_ue_s1ap_id + 1
          BY <1>a DEF UplinkMsg
        <4>2. toMme' = toMme \/ toMme' = Append(toMme, msg)
          BY <2>3, <3>1 DEF Sent
        <4> HIDE DEF msg
        <4>3. QED
          BY <1>a, <2>2, <4>1, <4>2, AppendType
      <3>5. /\ \A e \in DOMAIN users' : e < next_enb_ue_s1ap_id'
            /\ \A m \in DOMAIN mme : mme[m] < next_enb_ue_s1ap_id'
        BY <1>a, <2>1, <3>2 DEF TypeOK
      <3>6. QED
        BY <1>1, <1>a, <2>1, <2>2, <2>a, <3>2, <3>3, <3>4, <3>5 DEF InitialUe, TypeOK
    <2>4. CASE users' = users /\
               (toMme' = toMme \/ \E e \in FindUeRnti(rnti) :
                                     toMme' = Sent("initial_ue", e, users[e]))
      <3>1. toMme' \in Seq(UplinkMsg) /\ Given(toMme', next_enb_ue_s1ap_id)
        <4>1. ASSUME NEW e \in DOMAIN users, toMme' = Sent("initial_ue", e, users[e])
              PROVE  toMme' \in Seq(UplinkMsg) /\ Given(toMme', next_enb_ue_s1ap_id)
          <5>1. users[e].mme_ue_s1ap_id \in MmeIds \cup {0} /\ e \in Nat
            BY DEF TypeOK, User
          <5>2. QED
            BY <4>1, <5>1, SentType
        <4>2. QED
          BY <1>a, <2>4, <4>1 DEF FindUeRnti
      <3>2. Given(toMme', next_enb_ue_s1ap_id + 1)
        BY <1>a, <3>1, GivenLater
      <3>3. /\ \A e \in DOMAIN users' : e < next_enb_ue_s1ap_id'
            /\ \A m \in DOMAIN mme : mme[m] < next_enb_ue_s1ap_id'
        BY <1>a, <2>1, <2>4 DEF TypeOK
      <3>4. QED
        BY <1>1, <1>a, <2>1, <2>2, <2>a, <2>4, <3>1, <3>2, <3>3
           DEF InitialUe, TypeOK, RntiUnique
    <2>5. QED
      BY <1>1, <2>3, <2>4 DEF InitialUe
  <1>2. ASSUME NEW rnti \in Rntis, WritePdu(rnti)
        PROVE  IInv'
    <2>1. PICK e \in DOMAIN users : toMme' = Sent("ul_nas", e, users[e])
      BY <1>2 DEF WritePdu, FindUeRnti
    <2>2. users[e].mme_ue_s1ap_id \in MmeIds \cup {0} /\ e \in Nat
      BY DEF TypeOK, User
    <2>3. toMme' \in Seq(UplinkMsg) /\ Given(toMme', next_enb_ue_s1ap_id)
      BY <2>1, <2>2, SentType
    <2>4. QED
      BY <1>2, <2>3 DEF WritePdu, TypeOK, RntiUnique
  <1>3. CASE DiscardMsg
    <2>1. Receive(DownlinkType) /\ users' = users /\ toMme' = toMme
      BY <1>3 DEF DiscardMsg
    <2>2. QED
      BY <1>a, <1>c, <2>1 DEF TypeOK, RntiUnique
  <1>4. CASE HandleDownlink
    <2> DEFINE e == Head(toEnb).enb
               m == Head(toEnb).mme
    <2>1. Receive(DownlinkType) /\ e \in DOMAIN users
          /\ users' = FindS1apmsgUser(e, m) /\ toMme' = toMme
      BY <1>4 DEF HandleDownlink, Receive, DownlinkType
    <2>2. m \in MmeIds
      BY <1>b, <2>1
    <2> HIDE DEF e, m
    <2>3. users'[e] \in User /\ users'[e].rnti = users[e].rnti
          /\ users' = [users EXCEPT ![e] = users'[e]]
      BY <2>1, <2>2, FindS1apmsgUserType
    <2>4. QED
      BY <1>a, <1>c, <2>1, <2>3, SameRnti
  <1>5. CASE HandleUeContextModifyRequest
    <2> DEFINE e == Head(toEnb).enb
               m == Head(toEnb).mme
    <2>1. Receive(DownlinkType) /\ e \in DOMAIN users
          /\ users' = FindS1apmsgUser(e, m) /\ toMme' = Sent("mod_resp", e, users'[e])
      BY <1>5 DEF HandleUeContextModifyRequest, Receive, DownlinkType
    <2>2. m \in MmeIds
      BY <1>b, <2>1
    <2> HIDE DEF e, m
    <2>3. users'[e] \in User /\ users'[e].rnti = users[e].rnti
          /\ users' = [users EXCEPT ![e] = users'[e]]
      BY <2>1, <2>2, FindS1apmsgUserType
    <2>4. toMme' \in Seq(UplinkMsg) /\ Given(toMme', next_enb_ue_s1ap_id)
      <3>1. users'[e].mme_ue_s1ap_id \in MmeIds \cup {0} /\ e \in Nat
        BY <1>a, <2>1, <2>3 DEF User
      <3>2. QED
        BY <2>1, <3>1, SentType
    <2>5. QED
      BY <1>c, <2>1, <2>3, <2>4, SameRnti
  <1>6. CASE HandleCsFallback
    <2> DEFINE e == Head(toEnb).enb
               m == Head(toEnb).mme
               request == [type |-> "release_request", enb |-> e, mme |-> m]
               resp    == [type |-> "mod_resp", enb |-> e, mme |-> m]
    <2>1. /\ Receive(DownlinkType) /\ e \in DOMAIN users
          /\ users' = [FindS1apmsgUser(e, m) EXCEPT ![e].release_requested = TRUE]
          /\ \/ toMme' = toMme
             \/ toMme' = toMme \o <<resp, request>>
             \/ toMme' = toMme \o <<request>>
      BY <1>6 DEF HandleCsFallback, Receive, DownlinkType
    <2>2. m \in MmeIds /\ e \in Nat
      BY <1>b, <2>1
    <2>3. request \in UplinkMsg /\ resp \in UplinkMsg /\ request.enb = e /\ resp.enb = e
      BY <2>2 DEF UplinkMsg
    <2> HIDE DEF e, m, request, resp
    <2>4. /\ users' = [users EXCEPT ![e] = users'[e]]
          /\ users'[e] \in User /\ users'[e].rnti = users[e].rnti
      <3>1. FindS1apmsgUser(e, m)[e] \in User
            /\ FindS1apmsgUser(e, m)[e].rnti = users[e].rnti
            /\ FindS1apmsgUser(e, m) = [users EXCEPT ![e] = FindS1apmsgUser(e, m)[e]]
        BY <2>1, <2>2, FindS1apmsgUserType
      <3>2. users' = [users EXCEPT ![e] =
                        [FindS1apmsgUser(e, m)[e] EXCEPT !.release_requested = TRUE]]
        BY <2>1, <3>1
      <3>3. QED
        BY <2>1, <3>1, <3>2 DEF User
    <2>5. toMme' \in Seq(UplinkMsg) /\ Given(toMme', next_enb_ue_s1ap_id)
      <3>1. request.enb < next_enb_ue_s1ap_id /\ resp.enb < next_enb_ue_s1ap_id
        BY <2>1, <2>3
      <3>2. toMme \o <<request>> = Append(toMme, request)
            /\ toMme \o <<resp, request>> = Append(Append(toMme, resp), request)
        BY <1>a, <2>3
      <3>3. QED
        BY <1>a, <2>1, <2>3, <3>1, <3>2, AppendType
    <2>6. QED
      BY <1>c, <2>1, <2>4, <2>5, SameRnti
  <1>7. CASE HandleUeCtxtReleaseCommand
    <2> DEFINE msg == Head(toEnb)
    <2>1. Receive(DownlinkType)
      BY <1>7 DEF HandleUeCtxtReleaseCommand, Receive, DownlinkType
    <2>2. PICK e \in DOMAIN users :
            /\ users' = Erase(e)
            /\ toMme' = Sent("release_complete", e, [users[e] EXCEPT !.mme_ue_s1ap_id = msg.mme])
      BY <1>7 DEF HandleUeCtxtReleaseCommand, FindUeMmeid
    <2>3. msg.mme \in MmeIds
      BY <1>b, <2>1
    <2>4. [users[e] EXCEPT !.mme_ue_s1ap_id = msg.mme].mme_ue_s1ap_id \in MmeIds \cup {0}
          /\ e \in Nat
      BY <2>3 DEF TypeOK, User
    <2>5. toMme' \in Seq(UplinkMsg) /\ Given(toMme', next_enb_ue_s1ap_id)
      BY <2>2, <2>4, SentType
    <2>6. /\ users' \in [DOMAIN users' -> User]
          /\ DOMAIN users' \subseteq DOMAIN users
          /\ RntiUnique'
      BY <2>2 DEF Erase, Restrict, TypeOK, RntiUnique
    <2>7. QED
      BY <1>c, <2>1, <2>5, <2>6
  <1>8. CASE AssociationBreaks
    <2>1. toMme' \in Seq(UplinkMsg) /\ Len(toMme') = 0 /\ DOMAIN mme' = {}
      BY <1>8 DEF AssociationBreaks, EmptyMap
    <2>2. TypeOK'
      BY <1>8, <2>1 DEF AssociationBreaks, TypeOK, EmptyMap
    <2>3. QED
      BY <1>8, <2>1, <2>2 DEF AssociationBreaks, RntiUnique, Given
  <1>9. CASE ConnectionLost
    <2>1. toEnb' \in Seq(DownlinkMsg) /\ Len(toEnb') = 0
      BY <1>9 DEF ConnectionLost
    <2>2. TypeOK'
      BY <1>9, <2>1 DEF ConnectionLost, TypeOK
    <2>3. Given(toEnb', next_enb_ue_s1ap_id)
      BY <2>1 DEF Given
    <2>4. QED
      BY <1>9, <2>2, <2>3 DEF ConnectionLost, RntiUnique
  <1>10. CASE S1SetupResponse
    BY <1>10 DEF S1SetupResponse, TypeOK, RntiUnique
  <1>11. CASE MmeReceives
    <2> DEFINE msg == Head(toMme)
    <2>1. /\ toMme' \in Seq(UplinkMsg) /\ Given(toMme', next_enb_ue_s1ap_id)
          /\ msg.enb \in Nat /\ msg.enb < next_enb_ue_s1ap_id
          /\ UNCHANGED <<users, next_enb_ue_s1ap_id, mme_connected, assoc, again>>
      <3>1. toMme # <<>> /\ toMme' = Tail(toMme)
            /\ UNCHANGED <<users, next_enb_ue_s1ap_id, mme_connected, assoc, again>>
        BY <1>11 DEF MmeReceives
      <3>2. /\ Tail(toMme) \in Seq(UplinkMsg)
            /\ Given(Tail(toMme), next_enb_ue_s1ap_id)
            /\ Head(toMme) \in UplinkMsg
            /\ Head(toMme).enb < next_enb_ue_s1ap_id
        BY <1>a, <3>1, TailType
      <3>3. Head(toMme).enb \in Nat
        BY <3>2 DEF UplinkMsg
      <3>4. QED
        BY <3>1, <3>2, <3>3
    <2>2. ASSUME msg.type = "initial_ue", NEW m \in MmeIds,
                 mme' = LET others == Restrict(mme, {i \in DOMAIN mme : mme[i] # msg.enb})
                        IN [i \in DOMAIN others \cup {m} |->
                              IF i = m THEN msg.enb ELSE others[i]],
                 toEnb' = Append(toEnb, [type |-> "dl_nas", enb |-> msg.enb, mme |-> m])
          PROVE  IInv'
      <3> DEFINE dl == [type |-> "dl_nas", enb |-> msg.enb, mme |-> m]
      <3>1. dl \in DownlinkMsg /\ dl.enb < next_enb_ue_s1ap_id
        BY <2>1 DEF DownlinkMsg, DownlinkType
      <3>2. /\ mme' \in [DOMAIN mme' -> Nat] /\ DOMAIN mme' \subseteq MmeIds
            /\ \A i \in DOMAIN mme' : mme'[i] < next_enb_ue_s1ap_id
        BY <2>1, <2>2 DEF Restrict, TypeOK
      <3>3. toEnb' \in Seq(DownlinkMsg) /\ Given(toEnb', next_enb_ue_s1ap_id)
        <4>1. toEnb' = Append(toEnb, dl)
          BY <2>2
        <4> HIDE DEF dl
        <4>2. QED
          BY <1>a, <3>1, <4>1, AppendType
      <3>4. QED
        BY <2>1, <3>2, <3>3 DEF TypeOK, RntiUnique
    <2>3. CASE msg.type = "release_complete"
      <3>1. toEnb' = toEnb /\ (mme' = mme \/ mme' = Drop(msg.mme))
        BY <1>11, <2>3 DEF MmeReceives
      <3>2. /\ mme' \in [DOMAIN mme' -> Nat] /\ DOMAIN mme' \subseteq MmeIds
            /\ \A i \in DOMAIN mme' : mme'[i] < next_enb_ue_s1ap_id
        BY <3>1 DEF Drop, Restrict, TypeOK
      <3>3. QED
        BY <2>1, <3>1, <3>2 DEF TypeOK, RntiUnique
    <2>4. CASE msg.type \notin {"initial_ue", "release_complete"}
      <3>1. mme' = mme /\ toEnb' = toEnb
        BY <1>11, <2>4 DEF MmeReceives
      <3>2. QED
        BY <2>1, <3>1 DEF TypeOK, RntiUnique
    <2>5. QED
      BY <1>11, <2>2, <2>3, <2>4 DEF MmeReceives
  <1>12. ASSUME NEW m \in MmeIds, NEW type \in DownlinkType, MmeSends(m, type)
         PROVE  IInv'
    <2> DEFINE dl == [type |-> type, enb |-> mme[m], mme |-> m]
    <2>1. m \in DOMAIN mme /\ toEnb' = Append(toEnb, dl)
          /\ UNCHANGED <<users, next_enb_ue_s1ap_id, mme_connected, assoc, mme, toMme, again>>
      BY <1>12 DEF MmeSends
    <2>2. dl \in DownlinkMsg /\ dl.enb < next_enb_ue_s1ap_id
      BY <2>1 DEF DownlinkMsg, TypeOK
    <2> HIDE DEF dl
    <2>3. toEnb' \in Seq(DownlinkMsg) /\ Given(toEnb', next_enb_ue_s1ap_id)
      BY <1>a, <2>1, <2>2, AppendType
    <2>4. QED
      BY <2>1, <2>3 DEF TypeOK, RntiUnique
  <1>13. CASE UNCHANGED vars
    BY <1>13 DEF vars, TypeOK, RntiUnique
  <1>14. QED
    BY <1>1, <1>2, <1>3, <1>4, <1>5, <1>6, <1>7, <1>8, <1>9, <1>10, <1>11,
       <1>12, <1>13 DEF Next

\* IInv holds throughout every behaviour.
THEOREM Invariance == Spec => []IInv
  BY InitIInv, NextIInv, PTL DEF Spec

(***************************************************************************)
(* Users, contexts and messages keep their types: every handler finds the  *)
(* fields it reads, whatever messages came before.                         *)
(***************************************************************************)
THEOREM TypeCorrect == Spec => []TypeOK
  BY Invariance, PTL DEF IInv

(***************************************************************************)
(* No two users of the S1AP user list ever share an RNTI, whatever the MME *)
(* and the association do.                                                 *)
(***************************************************************************)
THEOREM RntisUnique == Spec => []RntiUnique
  BY Invariance, PTL DEF IInv

(***************************************************************************)
(* A new user never takes an eNB UE S1AP identity that the MME or a        *)
(* message on its way still uses for another UE.                           *)
(***************************************************************************)
THEOREM EnbIdsNeverReused == Spec => EnbIdNeverReused
  <1> DEFINE Fresh == \A e \in DOMAIN users' \ DOMAIN users :
                         /\ \A i \in 1..Len(toEnb) : toEnb[i].enb # e
                         /\ \A m \in DOMAIN mme : mme[m] # e
  <1>1. IInv /\ [Next]_vars => [Fresh]_vars
    <2> SUFFICES ASSUME IInv, Next, NEW e \in DOMAIN users' \ DOMAIN users
                 PROVE  /\ \A i \in 1..Len(toEnb) : toEnb[i].enb # e
                        /\ \A m \in DOMAIN mme : mme[m] # e
      OBVIOUS
    <2>1. e = next_enb_ue_s1ap_id
      <3>1. \/ \E rnti \in Rntis, has_tmsi \in BOOLEAN : InitialUe(rnti, has_tmsi)
            \/ DOMAIN users' \subseteq DOMAIN users
        BY DEF Next, WritePdu, DiscardMsg, HandleDownlink, HandleUeContextModifyRequest,
               HandleCsFallback, HandleUeCtxtReleaseCommand, AssociationBreaks,
               ConnectionLost, S1SetupResponse, MmeReceives, MmeSends, FindS1apmsgUser,
               Erase, Restrict
      <3>2. QED
        BY <3>1 DEF InitialUe, Insert
    <2>2. QED
      BY <2>1 DEF IInv, Given, TypeOK, DownlinkMsg
  <1>2. QED
    BY <1>1, Invariance, PTL DEF Spec, EnbIdNeverReused

-----------------------------------------------------------------------------
(* The MME's identities until it restarts *)

\* The list us has user d under the MME's identity m.
HasId(us, d, m) ==
  d \in DOMAIN us /\ us[d].mme_ue_s1ap_id_present /\ us[d].mme_ue_s1ap_id = m

\* The MME has UE d under its identity m.
Context(contexts, d, m) == m \in DOMAIN contexts /\ contexts[m] = d

\* A message that gives user d another identity than m (or removes it: only a
\* UEContextReleaseCommand with the MME's identity alone may miss it).
Renames(msg, d, m) == msg.enb = d /\ msg.mme # m /\ msg.type # "release_cmd_mme_id"

\* q has such a message between positions i and j.
Renamed(q, d, m, i, j) == \E k \in 1..Len(q) : i < k /\ k < j /\ Renames(q[k], d, m)

(***************************************************************************)
(* The MME gives an identity to another UE only after it gave the UE that  *)
(* had it another one, or after that UE left.  So whoever had the identity *)
(* before a message that gives it to another UE learns of that first: the  *)
(* messages come in order.                                                 *)
(***************************************************************************)
InOrder(us, q) ==
  /\ \A i, j \in 1..Len(q) :
       i < j /\ q[i].mme = q[j].mme /\ q[i].enb # q[j].enb /\ q[i].enb \in DOMAIN us =>
         Renamed(q, q[i].enb, q[i].mme, i, j)
  /\ \A d \in DOMAIN us, j \in 1..Len(q) :
       HasId(us, d, q[j].mme) /\ q[j].enb # d => Renamed(q, d, q[j].mme, 0, j)

\* What a user has, or a message gives it, is what the MME has, unless a later
\* message changes it.
UpToDate(us, q, contexts) ==
  /\ \A i \in 1..Len(q) : q[i].enb \in DOMAIN us =>
       \/ Context(contexts, q[i].enb, q[i].mme)
       \/ Renamed(q, q[i].enb, q[i].mme, i, Len(q) + 1)
  /\ \A d \in DOMAIN us, m \in MmeIds : HasId(us, d, m) =>
       \/ Context(contexts, d, m)
       \/ Renamed(q, d, m, 0, Len(q) + 1)

\* Before the first association nobody has an identity.
Nameless == toEnb = <<>> /\ ~assoc.up /\ \A d \in DOMAIN users : ~users[d].mme_ue_s1ap_id_present

\* A user is gone when its release is complete.
ReleasedIsGone ==
  \A i \in 1..Len(toMme) : toMme[i].type = "release_complete" => toMme[i].enb \notin DOMAIN users

\* No two users of the list us have the same identity (MmeIdUnique).
UniqueId(us) == \A d, e \in DOMAIN us, m \in MmeIds \cup {0} : HasId(us, d, m) /\ HasId(us, e, m) => d = e

FirstAssociation ==
  /\ InOrder(users, toEnb)
  /\ UniqueId(users)
  /\ assoc.up => UpToDate(users, toEnb, mme)

IdInv ==
  /\ ReleasedIsGone
  /\ assoc.count <= 1 => FirstAssociation
  /\ assoc.count = 0 => Nameless

\* What the positions of a queue are after adding and taking a message.
LEMMA Positions ==
  ASSUME NEW S, NEW q \in Seq(S)
  PROVE  /\ Len(q) \in Nat
         /\ \A i \in 1..Len(q) : q[i] \in S
         /\ \A x \in S : /\ Len(Append(q, x)) = Len(q) + 1
                         /\ \A i \in 1..Len(q) : Append(q, x)[i] = q[i]
                         /\ Append(q, x)[Len(q) + 1] = x
         /\ q # <<>> => /\ Len(Tail(q)) = Len(q) - 1
                        /\ Head(q) = q[1] /\ 1 \in 1..Len(q)
                        /\ \A i \in 1..Len(Tail(q)) : i + 1 \in 1..Len(q) /\ Tail(q)[i] = q[i + 1]
  OBVIOUS

\* A message in between stays in between when another is sent.
LEMMA RenamedAppend ==
  ASSUME NEW q \in Seq(DownlinkMsg), NEW x \in DownlinkMsg, NEW d, NEW m, NEW i \in Nat, NEW j \in Nat
  PROVE  /\ Renamed(q, d, m, i, j) => Renamed(Append(q, x), d, m, i, j)
         /\ Renamed(q, d, m, i, Len(q) + 1) => Renamed(Append(q, x), d, m, i, Len(Append(q, x)) + 1)
         /\ i <= Len(q) /\ Renames(x, d, m) => Renamed(Append(q, x), d, m, i, Len(Append(q, x)) + 1)
<1> DEFINE p == Append(q, x)
<1>1. /\ Len(q) \in Nat /\ Len(p) = Len(q) + 1 /\ p[Len(q) + 1] = x
      /\ \A k \in 1..Len(q) : p[k] = q[k]
  BY Positions
<1> HIDE DEF p
<1>2. Renamed(q, d, m, i, j) => Renamed(p, d, m, i, j)
  BY <1>1 DEF Renamed
<1>3. Renamed(q, d, m, i, Len(q) + 1) => Renamed(p, d, m, i, Len(p) + 1)
  BY <1>1 DEF Renamed
<1>4. i <= Len(q) /\ Renames(x, d, m) => Renamed(p, d, m, i, Len(p) + 1)
  BY <1>1 DEF Renamed
<1> QED
  BY <1>2, <1>3, <1>4 DEF p

\* When the first message is taken, the others move up.
LEMMA RenamedTail ==
  ASSUME NEW q \in Seq(DownlinkMsg), q # <<>>, NEW d, NEW m, NEW i \in Nat, NEW j \in Nat
  PROVE  /\ Renamed(q, d, m, i + 1, j + 1) => Renamed(Tail(q), d, m, i, j)
         /\ Renamed(q, d, m, 0, j + 1) /\ ~Renames(Head(q), d, m) => Renamed(Tail(q), d, m, 0, j)
<1> DEFINE t == Tail(q)
<1>1. /\ Len(q) \in Nat /\ Len(t) = Len(q) - 1 /\ Head(q) = q[1] /\ 1 \in 1..Len(q)
      /\ \A k \in 1..Len(t) : t[k] = q[k + 1]
  BY Positions
<1> HIDE DEF t
<1>2. ASSUME NEW k \in 1..Len(q), i + 1 < k \/ (i = 0 /\ k # 1), k < j + 1, Renames(q[k], d, m)
      PROVE  Renamed(t, d, m, i, j)
  <2>1. k - 1 \in 1..Len(t) /\ i < k - 1 /\ k - 1 < j
    BY <1>1, <1>2
  <2>2. t[k - 1] = q[k]
    BY <1>1, <2>1
  <2> QED
    BY <1>2, <2>1, <2>2 DEF Renamed
<1>3. Renamed(q, d, m, i + 1, j + 1) => Renamed(t, d, m, i, j)
  BY <1>2 DEF Renamed
<1>4. Renamed(q, d, m, 0, j + 1) /\ ~Renames(Head(q), d, m) => Renamed(t, d, m, 0, j)
  <2> SUFFICES ASSUME Renamed(q, d, m, 0, j + 1), ~Renames(Head(q), d, m)
               PROVE  Renamed(t, d, m, 0, j)
    OBVIOUS
  <2>1. PICK k \in 1..Len(q) : 0 < k /\ k < j + 1 /\ Renames(q[k], d, m)
    BY DEF Renamed
  <2>2. k # 1
    BY <1>1, <2>1
  <2>3. k - 1 \in 1..Len(t) /\ 0 < k - 1 /\ k - 1 < j
    BY <1>1, <2>1, <2>2
  <2>4. t[k - 1] = q[k]
    BY <1>1, <2>3
  <2> QED
    BY <2>1, <2>3, <2>4 DEF Renamed
<1> QED
  BY <1>3, <1>4 DEF t

(***************************************************************************)
(* A message is taken.  If it names the user by both identities, the user  *)
(* has that identity now, or is gone; a UEContextReleaseCommand with the   *)
(* MME's identity alone changes no identity.                               *)
(***************************************************************************)
LEMMA TakenInOrder ==
  ASSUME NEW us, NEW new, NEW q \in Seq(DownlinkMsg), q # <<>>, NEW contexts,
         DOMAIN new \subseteq DOMAIN us,
         \A d \in DOMAIN new : \A m :
           HasId(new, d, m) <=>
             IF d = Head(q).enb /\ Head(q).type # "release_cmd_mme_id"
               THEN m = Head(q).mme ELSE HasId(us, d, m),
         InOrder(us, q), UniqueId(us)
  PROVE  /\ InOrder(new, Tail(q))
         /\ UniqueId(new)
         /\ UpToDate(us, q, contexts) => UpToDate(new, Tail(q), contexts)
<1> DEFINE t == Tail(q)
           msg == Head(q)
           takes(d) == d = msg.enb /\ msg.type # "release_cmd_mme_id"
<1>1. /\ Len(q) \in Nat /\ Len(t) = Len(q) - 1 /\ Len(t) \in Nat /\ Len(t) + 1 \in Nat
      /\ q[1] = msg /\ 1 \in 1..Len(q)
      /\ \A i \in 1..Len(t) : i \in Nat /\ i + 1 \in 1..Len(q) /\ t[i] = q[i + 1]
  BY Positions
<1>2. \A d, n : \A i, j \in Nat : Renamed(q, d, n, i + 1, j + 1) => Renamed(t, d, n, i, j)
  BY RenamedTail
<1>3. ASSUME NEW d, NEW n, NEW j \in Nat, ~takes(d), Renamed(q, d, n, 0, j + 1)
      PROVE  Renamed(t, d, n, 0, j)
  <2>1. ~Renames(Head(q), d, n)
    BY <1>3 DEF Renames
  <2> QED
    BY <1>3, <2>1, RenamedTail
<1>4. \A d \in DOMAIN new : \A m : HasId(new, d, m) <=> IF takes(d) THEN m = msg.mme ELSE HasId(us, d, m)
  OBVIOUS
<1>5. \A d : takes(d) => d = q[1].enb
  BY <1>1
<1> HIDE DEF t, msg, takes
<1>6. InOrder(new, t)
  <2>1. ASSUME NEW i \in 1..Len(t), NEW j \in 1..Len(t),
               i < j, t[i].mme = t[j].mme, t[i].enb # t[j].enb, t[i].enb \in DOMAIN new
        PROVE  Renamed(t, t[i].enb, t[i].mme, i, j)
    <3>1. Renamed(q, t[i].enb, t[i].mme, i + 1, j + 1)
      BY <1>1, <2>1 DEF InOrder
    <3> QED
      BY <1>1, <1>2, <3>1
  <2>2. ASSUME NEW d \in DOMAIN new, NEW j \in 1..Len(t), HasId(new, d, t[j].mme), t[j].enb # d
        PROVE  Renamed(t, d, t[j].mme, 0, j)
    <3>1. j + 1 \in 1..Len(q) /\ t[j] = q[j + 1] /\ 1 < j + 1 /\ j \in Nat
      BY <1>1
    <3>2. CASE takes(d)
      <4>1. q[1].mme = q[j + 1].mme /\ q[1].enb # q[j + 1].enb /\ q[1].enb = d
        BY <1>1, <1>4, <1>5, <2>2, <3>1, <3>2
      <4>2. Renamed(q, d, t[j].mme, 0 + 1, j + 1)
        BY <1>1, <3>1, <4>1 DEF InOrder
      <4> QED
        BY <1>2, <3>1, <4>2
    <3>3. CASE ~takes(d)
      <4>1. Renamed(q, d, t[j].mme, 0, j + 1)
        BY <1>4, <2>2, <3>1, <3>3 DEF InOrder
      <4> QED
        BY <1>3, <3>1, <3>3, <4>1
    <3> QED
      BY <3>2, <3>3
  <2> QED
    BY <2>1, <2>2 DEF InOrder
<1>7. UniqueId(new)
  <2>1. ASSUME NEW d \in DOMAIN new, takes(d), NEW e \in DOMAIN new, e # d, HasId(new, e, msg.mme)
        PROVE  FALSE
    <3>1. ~takes(e)
      BY <1>5, <2>1
    <3>2. HasId(us, e, q[1].mme) /\ q[1].enb # e
      BY <1>1, <1>4, <1>5, <2>1, <3>1
    <3>3. Renamed(q, e, q[1].mme, 0, 1)
      BY <1>1, <3>2 DEF InOrder
    <3> QED
      BY <3>3 DEF Renamed
  <2>2. ASSUME NEW d \in DOMAIN new, NEW e \in DOMAIN new, NEW m \in MmeIds \cup {0},
               HasId(new, d, m), HasId(new, e, m)
        PROVE  d = e
    <3>1. CASE takes(d) \/ takes(e)
      BY <1>4, <2>1, <2>2, <3>1
    <3>2. CASE ~takes(d) /\ ~takes(e)
      BY <1>4, <2>2, <3>2 DEF UniqueId
    <3> QED
      BY <3>1, <3>2
  <2> QED
    BY <2>2 DEF UniqueId
<1>8. ASSUME UpToDate(us, q, contexts) PROVE UpToDate(new, t, contexts)
  <2>1. ASSUME NEW i \in 1..Len(t), t[i].enb \in DOMAIN new, ~Context(contexts, t[i].enb, t[i].mme)
        PROVE  Renamed(t, t[i].enb, t[i].mme, i, Len(t) + 1)
    <3>1. Renamed(q, t[i].enb, t[i].mme, i + 1, (Len(t) + 1) + 1)
      BY <1>1, <1>8, <2>1 DEF UpToDate
    <3> QED
      BY <1>1, <1>2, <3>1
  <2>2. ASSUME NEW d \in DOMAIN new, NEW m \in MmeIds, HasId(new, d, m), ~Context(contexts, d, m)
        PROVE  Renamed(t, d, m, 0, Len(t) + 1)
    <3>1. CASE takes(d)
      <4>1. q[1].mme = m /\ q[1].enb = d
        BY <1>1, <1>4, <1>5, <2>2, <3>1
      <4>2. Renamed(q, d, m, 0 + 1, (Len(t) + 1) + 1)
        BY <1>1, <1>8, <2>2, <4>1 DEF UpToDate
      <4> QED
        BY <1>1, <1>2, <4>2
    <3>2. CASE ~takes(d)
      <4>1. HasId(us, d, m) /\ d \in DOMAIN us
        BY <1>4, <2>2, <3>2
      <4>2. Renamed(q, d, m, 0, (Len(t) + 1) + 1)
        BY <1>1, <1>8, <2>2, <4>1 DEF UpToDate
      <4> QED
        BY <1>1, <1>3, <3>2, <4>2
    <3> QED
      BY <3>1, <3>2
  <2> QED
    BY <2>1, <2>2 DEF UpToDate
<1> QED
  BY <1>6, <1>7, <1>8 DEF t

(***************************************************************************)
(* The MME sends a message about a context it has.  A context that it gave *)
(* up with that step is one the message renames.                           *)
(***************************************************************************)
LEMMA SentInOrder ==
  ASSUME NEW us, NEW q \in Seq(DownlinkMsg), NEW x \in DownlinkMsg, NEW contexts, NEW new,
         InOrder(us, q), UpToDate(us, q, contexts), Context(new, x.enb, x.mme),
         \A d, m : Context(contexts, d, m) => Context(new, d, m) \/ Renames(x, d, m),
         \A d : Context(contexts, d, x.mme) => d = x.enb
  PROVE  /\ InOrder(us, Append(q, x))
         /\ UpToDate(us, Append(q, x), new)
<1> DEFINE p == Append(q, x)
           n == Len(q)
<1>1. /\ n \in Nat /\ n + 1 \in Nat /\ Len(p) = n + 1 /\ p[n + 1] = x
      /\ \A i \in 1..n : i \in Nat /\ p[i] = q[i]
      /\ \A i \in 1..Len(p) : i \in 1..n \/ i = n + 1
  BY Positions
<1>2. \A d, m : \A i, j \in Nat : Renamed(q, d, m, i, j) => Renamed(p, d, m, i, j)
  BY RenamedAppend
<1>3. \A d, m : \A i \in Nat :
         \/ Renamed(q, d, m, i, n + 1)
         \/ (i <= n /\ Renames(x, d, m))
         => Renamed(p, d, m, i, Len(p) + 1)
  BY RenamedAppend
<1>4. x.mme \in MmeIds
  BY DEF DownlinkMsg
<1> HIDE DEF p, n
<1>5. InOrder(us, p)
  <2>1. ASSUME NEW i \in 1..Len(p), NEW j \in 1..Len(p),
               i < j, p[i].mme = p[j].mme, p[i].enb # p[j].enb, p[i].enb \in DOMAIN us
        PROVE  Renamed(p, p[i].enb, p[i].mme, i, j)
    <3>1. i \in 1..n /\ p[i] = q[i] /\ i \in Nat /\ j \in Nat
      BY <1>1, <2>1
    <3>2. CASE j \in 1..n
      BY <1>1, <1>2, <2>1, <3>1, <3>2 DEF InOrder, n
    <3>3. CASE j = n + 1
      <4>1. ~Context(contexts, q[i].enb, q[i].mme)
        BY <1>1, <2>1, <3>1, <3>3
      <4>2. Renamed(q, q[i].enb, q[i].mme, i, n + 1)
        BY <2>1, <3>1, <4>1 DEF UpToDate, n
      <4> QED
        BY <1>2, <3>1, <3>3, <4>2
    <3> QED
      BY <1>1, <3>2, <3>3
  <2>2. ASSUME NEW d \in DOMAIN us, NEW j \in 1..Len(p), HasId(us, d, p[j].mme), p[j].enb # d
        PROVE  Renamed(p, d, p[j].mme, 0, j)
    <3>1. CASE j \in 1..n
      BY <1>1, <1>2, <2>2, <3>1 DEF InOrder, n
    <3>2. CASE j = n + 1
      <4>1. ~Context(contexts, d, x.mme) /\ HasId(us, d, x.mme) /\ p[j] = x
        BY <1>1, <2>2, <3>2
      <4>2. Renamed(q, d, x.mme, 0, n + 1)
        BY <1>4, <2>2, <4>1 DEF UpToDate, n
      <4> QED
        BY <1>1, <1>2, <3>2, <4>1, <4>2
    <3> QED
      BY <1>1, <3>1, <3>2
  <2> QED
    BY <2>1, <2>2 DEF InOrder
<1>6. UpToDate(us, p, new)
  <2>1. ASSUME NEW i \in 1..Len(p), p[i].enb \in DOMAIN us, ~Context(new, p[i].enb, p[i].mme)
        PROVE  Renamed(p, p[i].enb, p[i].mme, i, Len(p) + 1)
    <3>1. i \in 1..n /\ p[i] = q[i] /\ i \in Nat /\ i <= n
      BY <1>1, <2>1
    <3>2. CASE Context(contexts, q[i].enb, q[i].mme)
      BY <1>3, <2>1, <3>1, <3>2
    <3>3. CASE ~Context(contexts, q[i].enb, q[i].mme)
      <4>1. Renamed(q, q[i].enb, q[i].mme, i, n + 1)
        BY <2>1, <3>1, <3>3 DEF UpToDate, n
      <4> QED
        BY <1>3, <3>1, <4>1
    <3> QED
      BY <3>2, <3>3
  <2>2. ASSUME NEW d \in DOMAIN us, NEW m \in MmeIds, HasId(us, d, m), ~Context(new, d, m)
        PROVE  Renamed(p, d, m, 0, Len(p) + 1)
    <3>1. Context(contexts, d, m) \/ Renamed(q, d, m, 0, n + 1)
      BY <2>2 DEF UpToDate, n
    <3> QED
      BY <1>1, <1>3, <2>2, <3>1
  <2> QED
    BY <2>1, <2>2 DEF UpToDate
<1> QED
  BY <1>5, <1>6 DEF p

\* The MME frees the identity of a UE that is not in the list.
LEMMA FreedUpToDate ==
  ASSUME NEW us, NEW q, NEW contexts, NEW new, UpToDate(us, q, contexts),
         \A d \in DOMAIN us : \A m : Context(contexts, d, m) => Context(new, d, m)
  PROVE  UpToDate(us, q, new)
BY DEF UpToDate

\* A user is added that no message names yet; it has no identity.
LEMMA AddedInOrder ==
  ASSUME NEW us, NEW new, NEW q, NEW contexts, NEW e,
         DOMAIN new = DOMAIN us \cup {e},
         \A d, m : HasId(new, d, m) <=> HasId(us, d, m),
         \A d, m : HasId(new, d, m) => d \in DOMAIN us,
         \A i \in 1..Len(q) : q[i].enb # e,
         InOrder(us, q), UniqueId(us)
  PROVE  /\ InOrder(new, q)
         /\ UniqueId(new)
         /\ UpToDate(us, q, contexts) => UpToDate(new, q, contexts)
BY DEF InOrder, UpToDate, UniqueId

\* A queue without its first message; the release of a UE goes out last.
LEMMA ReleasedSent ==
  ASSUME TypeOK, ReleasedIsGone, DOMAIN users' \subseteq DOMAIN users \cup {next_enb_ue_s1ap_id},
         NEW n \in Seq(UplinkMsg),
         \A i \in 1..Len(toMme) : toMme[i].enb # next_enb_ue_s1ap_id,
         toMme' = toMme \o n \/ (toMme # <<>> /\ toMme' = Tail(toMme)) \/ toMme' = <<>>,
         \A i \in 1..Len(n) : n[i].type = "release_complete" => n[i].enb \notin DOMAIN users'
  PROVE  ReleasedIsGone'
<1>1. toMme \in Seq(UplinkMsg)
  BY DEF TypeOK
<1>2. CASE toMme' = toMme \o n
  <2> SUFFICES ASSUME NEW i \in 1..Len(toMme'), toMme'[i].type = "release_complete"
               PROVE  toMme'[i].enb \notin DOMAIN users'
    BY DEF ReleasedIsGone
  <2>1. /\ Len(toMme) \in Nat /\ Len(n) \in Nat /\ Len(toMme') = Len(toMme) + Len(n)
        /\ toMme'[i] = IF i <= Len(toMme) THEN toMme[i] ELSE n[i - Len(toMme)]
    BY <1>1, <1>2
  <2>2. CASE i <= Len(toMme)
    BY <2>1, <2>2 DEF ReleasedIsGone
  <2>3. CASE ~(i <= Len(toMme))
    <3>1. i - Len(toMme) \in 1..Len(n)
      BY <2>1, <2>3
    <3> QED
      BY <2>1, <2>3, <3>1
  <2> QED
    BY <2>2, <2>3
<1>3. CASE toMme # <<>> /\ toMme' = Tail(toMme)
  <2>1. \A i \in 1..Len(toMme') : i + 1 \in 1..Len(toMme) /\ toMme'[i] = toMme[i + 1]
    BY <1>1, <1>3, Positions
  <2> QED
    BY <2>1 DEF ReleasedIsGone
<1>4. CASE toMme' = <<>>
  BY <1>4 DEF ReleasedIsGone
<1> QED
  BY <1>2, <1>3, <1>4

\* What Sent adds: nothing, or the message.
LEMMA SentAdds ==
  ASSUME TypeOK, NEW type, NEW e, NEW u
  PROVE  /\ Sent(type, e, u) = toMme \o
              (IF mme_connected /\ assoc.up
                 THEN <<[type |-> type, enb |-> e, mme |-> u.mme_ue_s1ap_id]>> ELSE <<>>)
<1>1. toMme \in Seq(UplinkMsg)
  BY DEF TypeOK
<1>2. toMme \o <<>> = toMme
  BY <1>1
<1>3. \A x : Append(toMme, x) = toMme \o <<x>>
  BY <1>1
<1> QED
  BY <1>2, <1>3 DEF Sent

(***************************************************************************)
(* What the handlers that keep the user have in common: they give it the   *)
(* identity of the message and announce or release nobody.                 *)
(***************************************************************************)
LEMMA HandlerTakesId ==
  ASSUME IInv, HandleDownlink \/ HandleUeContextModifyRequest \/ HandleCsFallback
  PROVE  /\ toEnb # <<>> /\ toEnb' = Tail(toEnb)
         /\ UNCHANGED <<next_enb_ue_s1ap_id, mme_connected, assoc, mme, again>>
         /\ Head(toEnb).type \notin {"release_cmd", "release_cmd_mme_id"}
         /\ Head(toEnb).enb \in DOMAIN users
         /\ DOMAIN users' = DOMAIN users
         /\ \A d \in DOMAIN users : d # Head(toEnb).enb => users'[d] = users[d]
         /\ users'[Head(toEnb).enb].mme_ue_s1ap_id_present
         /\ users'[Head(toEnb).enb].mme_ue_s1ap_id = Head(toEnb).mme
         /\ \E n \in Seq(UplinkMsg) :
              /\ toMme' = toMme \o n
              /\ \A i \in 1..Len(n) : n[i].type \notin {"initial_ue", "release_complete"}
<1> DEFINE e == Head(toEnb).enb
           m == Head(toEnb).mme
           Quiet == \E n \in Seq(UplinkMsg) :
                      /\ toMme' = toMme \o n
                      /\ \A i \in 1..Len(n) : n[i].type \notin {"initial_ue", "release_complete"}
<1>1. /\ toEnb # <<>> /\ toEnb' = Tail(toEnb)
      /\ UNCHANGED <<next_enb_ue_s1ap_id, mme_connected, assoc, mme, again>>
      /\ Head(toEnb).type \notin {"release_cmd", "release_cmd_mme_id"}
      /\ e \in DOMAIN users
  BY DEF HandleDownlink, HandleUeContextModifyRequest, HandleCsFallback, Receive
<1>2. Head(toEnb) \in DownlinkMsg /\ toMme \in Seq(UplinkMsg)
  BY <1>1 DEF IInv, TypeOK
<1>3. e \in Nat /\ m \in MmeIds
  BY <1>2 DEF DownlinkMsg
<1>4. users[e] \in User /\ users \in [DOMAIN users -> User]
  BY <1>1 DEF IInv, TypeOK
<1>5. toMme' = toMme => Quiet
  <2> DEFINE n == <<>>
  <2>1. n \in Seq(UplinkMsg) /\ toMme = toMme \o n /\ Len(n) = 0
    BY <1>2
  <2>2. \A i \in 1..Len(n) : n[i].type \notin {"initial_ue", "release_complete"}
    BY <2>1
  <2> HIDE DEF n
  <2>3. ASSUME toMme' = toMme PROVE toMme' = toMme \o n
    BY <2>1, <2>3
  <2> QED
    BY <2>1, <2>2, <2>3
<1>6. ASSUME NEW t \in {"release_request", "mod_resp"}, NEW n \in MmeIds,
             toMme' = toMme \o <<[type |-> t, enb |-> e, mme |-> n]>>
      PROVE  Quiet
  <2> DEFINE x == [type |-> t, enb |-> e, mme |-> n]
  <2>1. x \in UplinkMsg /\ x.type \notin {"initial_ue", "release_complete"}
    BY <1>3 DEF UplinkMsg
  <2>2. toMme' = toMme \o <<x>>
    BY <1>6
  <2> HIDE DEF x
  <2> DEFINE s == <<x>>
  <2>3. s \in Seq(UplinkMsg) /\ Len(s) = 1 /\ s[1] = x /\ toMme' = toMme \o s
    BY <2>1, <2>2
  <2> HIDE DEF s
  <2> QED
    BY <2>1, <2>3
<1>7. CASE HandleDownlink
  <2>1. users' = FindS1apmsgUser(e, m) /\ Quiet
    BY <1>5, <1>7 DEF HandleDownlink
  <2> HIDE DEF Quiet
  <2> QED
    BY <1>1, <1>4, <2>1 DEF FindS1apmsgUser, User, Quiet
<1>8. CASE HandleUeContextModifyRequest
  <2>1. users' = FindS1apmsgUser(e, m) /\ toMme' = Sent("mod_resp", e, users'[e])
    BY <1>8 DEF HandleUeContextModifyRequest
  <2>2. /\ DOMAIN users' = DOMAIN users
        /\ \A d \in DOMAIN users : d # e => users'[d] = users[d]
        /\ users'[e].mme_ue_s1ap_id_present /\ users'[e].mme_ue_s1ap_id = m
    BY <1>1, <1>4, <2>1 DEF FindS1apmsgUser, User
  <2>3. toMme' = toMme \/ toMme' = Append(toMme, [type |-> "mod_resp", enb |-> e, mme |-> m])
    BY <2>1, <2>2 DEF Sent
  <2>4. \A x : Append(toMme, x) = toMme \o <<x>>
    BY <1>2
  <2>5. Quiet
    BY <1>3, <1>5, <1>6, <2>3, <2>4
  <2> QED
    BY <1>1, <2>2, <2>5
<1>9. CASE HandleCsFallback
  <2> DEFINE request == [type |-> "release_request", enb |-> e, mme |-> m]
             resp    == [type |-> "mod_resp", enb |-> e, mme |-> m]
  <2>1. /\ users' = [FindS1apmsgUser(e, m) EXCEPT ![e].release_requested = TRUE]
        /\ \/ toMme' = toMme
           \/ toMme' = toMme \o <<resp, request>>
           \/ toMme' = toMme \o <<request>>
    BY <1>9 DEF HandleCsFallback
  <2>2. /\ DOMAIN users' = DOMAIN users
        /\ \A d \in DOMAIN users : d # e => users'[d] = users[d]
        /\ users'[e].mme_ue_s1ap_id_present /\ users'[e].mme_ue_s1ap_id = m
    BY <1>1, <1>4, <2>1 DEF FindS1apmsgUser, User
  <2>3. /\ request \in UplinkMsg /\ request.type \notin {"initial_ue", "release_complete"}
        /\ resp \in UplinkMsg /\ resp.type \notin {"initial_ue", "release_complete"}
    BY <1>3 DEF UplinkMsg
  <2>4. toMme' = toMme \o <<request>> => Quiet
    BY <1>3, <1>6
  <2> HIDE DEF request, resp
  <2>5. /\ <<resp, request>> \in Seq(UplinkMsg) /\ Len(<<resp, request>>) = 2
        /\ <<resp, request>>[1] = resp /\ <<resp, request>>[2] = request
    BY <2>3
  <2>6. \A i \in 1..Len(<<resp, request>>) :
          <<resp, request>>[i].type \notin {"initial_ue", "release_complete"}
    BY <2>3, <2>5
  <2>7. toMme' = toMme \o <<resp, request>> => Quiet
    BY <2>5, <2>6
  <2>8. Quiet
    BY <1>5, <2>1, <2>4, <2>7
  <2> QED
    BY <1>1, <2>2, <2>8
<1> QED
  BY <1>7, <1>8, <1>9

\* What handle_uectxtreleasecommand does with the user e it finds.
LEMMA ReleaseCommandErases ==
  ASSUME IInv, HandleUeCtxtReleaseCommand
  PROVE  /\ toEnb # <<>> /\ toEnb' = Tail(toEnb) /\ mme_connected
         /\ UNCHANGED <<next_enb_ue_s1ap_id, mme_connected, assoc, mme, again>>
         /\ Head(toEnb).type \in {"release_cmd", "release_cmd_mme_id"}
         /\ \E e \in DOMAIN users :
              /\ Head(toEnb).type = "release_cmd" => e = Head(toEnb).enb
              /\ Head(toEnb).type = "release_cmd_mme_id" => HasId(users, e, Head(toEnb).mme)
              /\ DOMAIN users' = DOMAIN users \ {e}
              /\ \A d \in DOMAIN users' : users'[d] = users[d]
              /\ toMme' = IF assoc.up
                            THEN Append(toMme, [type |-> "release_complete", enb |-> e,
                                                mme |-> Head(toEnb).mme])
                            ELSE toMme
<1>1. /\ toEnb # <<>> /\ toEnb' = Tail(toEnb) /\ mme_connected
      /\ UNCHANGED <<next_enb_ue_s1ap_id, mme_connected, assoc, mme, again>>
      /\ Head(toEnb).type \in {"release_cmd", "release_cmd_mme_id"}
  BY DEF HandleUeCtxtReleaseCommand, Receive
<1>2. PICK e \in DOMAIN users :
        /\ Head(toEnb).type = "release_cmd" => e = Head(toEnb).enb
        /\ Head(toEnb).type = "release_cmd_mme_id" => e \in FindUeMmeid(Head(toEnb).mme)
        /\ users' = Erase(e)
        /\ toMme' = Sent("release_complete", e, [users[e] EXCEPT !.mme_ue_s1ap_id = Head(toEnb).mme])
  BY DEF HandleUeCtxtReleaseCommand, FindUeMmeid
<1>3. DOMAIN users' = DOMAIN users \ {e} /\ \A d \in DOMAIN users' : users'[d] = users[d]
  BY <1>2 DEF Erase, Restrict
<1>4. [users[e] EXCEPT !.mme_ue_s1ap_id = Head(toEnb).mme].mme_ue_s1ap_id = Head(toEnb).mme
  BY DEF IInv, TypeOK, User
<1>5. toMme' = IF assoc.up THEN Append(toMme, [type |-> "release_complete", enb |-> e,
                                               mme |-> Head(toEnb).mme])
                           ELSE toMme
  BY <1>1, <1>2, <1>4 DEF Sent
<1> QED
  BY <1>1, <1>2, <1>3, <1>5 DEF FindUeMmeid, HasId

\* What the requests of the RRC do: at most a new user, and a message of it.
LEMMA RequestAdds ==
  ASSUME IInv, NEW rnti \in Rntis, NEW has_tmsi \in BOOLEAN,
         InitialUe(rnti, has_tmsi) \/ WritePdu(rnti)
  PROVE  /\ UNCHANGED <<mme_connected, assoc, mme, toEnb>>
         /\ \/ \E e \in DOMAIN users', type \in {"initial_ue", "ul_nas"}, m \in MmeIds \cup {0} :
                 /\ toMme' = IF assoc.up /\ mme_connected
                               THEN Append(toMme, [type |-> type, enb |-> e, mme |-> m]) ELSE toMme
                 /\ \/ /\ e = next_enb_ue_s1ap_id
                       /\ again' = again
                       /\ DOMAIN users' = DOMAIN users \cup {e}
                       /\ \A d \in DOMAIN users : users'[d] = users[d]
                       /\ ~users'[e].mme_ue_s1ap_id_present
                    \/ /\ users' = users
                       /\ again \subseteq again'
                       /\ type = "initial_ue" => e \in again'
            \/ UNCHANGED <<users, toMme, again>>
<1>a. ASSUME NEW e \in DOMAIN users PROVE users[e].mme_ue_s1ap_id \in MmeIds \cup {0}
  BY DEF IInv, TypeOK, User
<1>b. next_enb_ue_s1ap_id \notin DOMAIN users
  BY DEF IInv, TypeOK
<1>1. CASE WritePdu(rnti)
  <2>1. PICK e \in DOMAIN users : toMme' = Sent("ul_nas", e, users[e])
    BY <1>1 DEF WritePdu, FindUeRnti
  <2>2. UNCHANGED <<users, mme_connected, assoc, mme, toEnb, again>>
    BY <1>1 DEF WritePdu
  <2> QED
    BY <1>a, <2>1, <2>2 DEF Sent
<1>2. CASE InitialUe(rnti, has_tmsi)
  <2>1. UNCHANGED <<mme_connected, assoc, mme, toEnb>>
    BY <1>2 DEF InitialUe
  <2>2. CASE /\ users' = Insert(next_enb_ue_s1ap_id, NewUe(rnti))
             /\ toMme' = Sent("initial_ue", next_enb_ue_s1ap_id, NewUe(rnti))
             /\ again' = again
    <3>1. /\ DOMAIN users' = DOMAIN users \cup {next_enb_ue_s1ap_id}
          /\ \A d \in DOMAIN users : users'[d] = users[d]
          /\ users'[next_enb_ue_s1ap_id] = NewUe(rnti)
      BY <1>b, <2>2 DEF Insert
    <3>2. NewUe(rnti).mme_ue_s1ap_id = 0 /\ ~NewUe(rnti).mme_ue_s1ap_id_present
      BY DEF NewUe
    <3> QED
      BY <2>1, <2>2, <3>1, <3>2 DEF Sent
  <2>3. CASE UNCHANGED <<users, toMme, again>>
    BY <2>1, <2>3
  <2>4. ASSUME NEW e \in DOMAIN users, users' = users,
               toMme' = Sent("initial_ue", e, users[e]), again' = again \cup {e}
        PROVE  \E type \in {"initial_ue", "ul_nas"}, m \in MmeIds \cup {0} :
                 /\ toMme' = IF assoc.up /\ mme_connected
                               THEN Append(toMme, [type |-> type, enb |-> e, mme |-> m]) ELSE toMme
                 /\ again \subseteq again' /\ e \in again'
    BY <1>a, <2>4 DEF Sent
  <2> QED
    BY <1>2, <2>1, <2>2, <2>3, <2>4 DEF InitialUe, FindUeRnti
<1> QED
  BY <1>1, <1>2

\* The list says MmeIdUnique in its own words.
LEMMA UniqueIdMeans == TypeOK => (MmeIdUnique <=> UniqueId(users))
BY DEF TypeOK, User, MmeIdUnique, UniqueId, HasId

\* No association yet: nobody has an identity.
LEMMA InitIdInv == Init => IdInv
<1> SUFFICES ASSUME Init PROVE IdInv
  OBVIOUS
<1>1. DOMAIN users = {} /\ Len(toMme) = 0 /\ Len(toEnb) = 0 /\ assoc.up = FALSE /\ toEnb = <<>>
  BY DEF Init, EmptyMap
<1>2. ReleasedIsGone
  BY <1>1 DEF ReleasedIsGone
<1>3. FirstAssociation
  BY <1>1 DEF FirstAssociation, InOrder, UniqueId
<1> QED
  BY <1>1, <1>2, <1>3 DEF IdInv, Nameless

(***************************************************************************)
(* Every step keeps the order.  The MME reuses an identity only when the   *)
(* context is replaced (then the UE is told) or its release is complete    *)
(* (then the user is gone).                                                *)
(***************************************************************************)
LEMMA NextIdInv == IInv /\ IdInv /\ [Next]_vars => IdInv'
<1> SUFFICES ASSUME IInv, IdInv, [Next]_vars PROVE IdInv'
  OBVIOUS
<1>a. /\ TypeOK /\ toMme \in Seq(UplinkMsg) /\ toEnb \in Seq(DownlinkMsg)
      /\ next_enb_ue_s1ap_id \in Nat /\ ReleasedIsGone
  BY DEF IInv, TypeOK, IdInv
<1>b. /\ \A i \in 1..Len(toMme) : toMme[i].enb # next_enb_ue_s1ap_id
      /\ \A i \in 1..Len(toEnb) : toEnb[i].enb # next_enb_ue_s1ap_id
  <2>1. \A n \in Nat : ~(n < n)
    OBVIOUS
  <2> QED
    BY <1>a, <2>1 DEF IInv, Given
<1>c. <<>> \in Seq(UplinkMsg) /\ Len(<<>>) = 0 /\ toMme \o <<>> = toMme
  BY <1>a
<1>d. assoc.count \in Nat
  BY DEF IInv, TypeOK
<1>e. ASSUME DOMAIN users' \subseteq DOMAIN users,
             toMme' = toMme \/ (toMme # <<>> /\ toMme' = Tail(toMme)) \/ toMme' = <<>>
      PROVE  ReleasedIsGone'
  <2> DEFINE n == <<>>
  <2>1. n \in Seq(UplinkMsg) /\ toMme \o n = toMme
    BY <1>c
  <2>2. \A i \in 1..Len(n) : n[i].type = "release_complete" => n[i].enb \notin DOMAIN users'
    BY <1>c
  <2> HIDE DEF n
  <2> QED
    BY <1>a, <1>b, <1>e, <2>1, <2>2, ReleasedSent
<1>f. ASSUME NEW x \in UplinkMsg, toMme' = Append(toMme, x),
             DOMAIN users' \subseteq DOMAIN users \cup {next_enb_ue_s1ap_id},
             x.type = "release_complete" => x.enb \notin DOMAIN users'
      PROVE  ReleasedIsGone'
  <2> DEFINE n == <<x>>
  <2>1. n \in Seq(UplinkMsg) /\ toMme' = toMme \o n /\ Len(n) = 1 /\ n[1] = x
    BY <1>a, <1>f
  <2> HIDE DEF n
  <2>2. \A i \in 1..Len(n) : n[i].type = "release_complete" => n[i].enb \notin DOMAIN users'
    BY <1>f, <2>1
  <2> QED
    BY <1>a, <1>b, <1>f, <2>1, <2>2, ReleasedSent
\* A message of the MME is taken: there has been an association.
<1>g. ASSUME toEnb # <<>>, toEnb' = Tail(toEnb), UNCHANGED <<assoc, mme>>, ReleasedIsGone',
             DOMAIN users' \subseteq DOMAIN users,
             \A d \in DOMAIN users' : \A m :
               HasId(users', d, m) <=>
                 IF d = Head(toEnb).enb /\ Head(toEnb).type # "release_cmd_mme_id"
                   THEN m = Head(toEnb).mme ELSE HasId(users, d, m)
      PROVE  IdInv'
  <2>1. assoc.count # 0
    BY <1>g DEF IdInv, Nameless
  <2>2. ASSUME FirstAssociation PROVE FirstAssociation'
    <3>1. InOrder(users, toEnb) /\ UniqueId(users)
      BY <2>2 DEF FirstAssociation
    <3>2. /\ InOrder(users', Tail(toEnb)) /\ UniqueId(users')
          /\ UpToDate(users, toEnb, mme) => UpToDate(users', Tail(toEnb), mme)
      BY <1>a, <1>g, <3>1, TakenInOrder
    <3> QED
      BY <1>g, <2>2, <3>2 DEF FirstAssociation
  <2> QED
    BY <1>g, <2>1, <2>2 DEF IdInv
<1>1. ASSUME NEW rnti \in Rntis, NEW has_tmsi \in BOOLEAN, InitialUe(rnti, has_tmsi) \/ WritePdu(rnti)
      PROVE  IdInv'
  <2>1. UNCHANGED <<mme_connected, assoc, mme, toEnb>>
    BY <1>1, RequestAdds
  <2>2. CASE UNCHANGED <<users, toMme, again>>
    BY <2>1, <2>2 DEF IdInv, ReleasedIsGone, FirstAssociation, Nameless
  <2>3. ASSUME NEW e \in DOMAIN users', NEW type \in {"initial_ue", "ul_nas"}, NEW m \in MmeIds \cup {0},
               toMme' = IF assoc.up /\ mme_connected
                          THEN Append(toMme, [type |-> type, enb |-> e, mme |-> m]) ELSE toMme,
               \/ /\ e = next_enb_ue_s1ap_id
                  /\ DOMAIN users' = DOMAIN users \cup {e}
                  /\ \A d \in DOMAIN users : users'[d] = users[d]
                  /\ ~users'[e].mme_ue_s1ap_id_present
               \/ users' = users
        PROVE  IdInv'
    <3>1. e \in Nat
      BY <1>a, <2>3 DEF TypeOK
    <3>2. ReleasedIsGone'
      <4> DEFINE x == [type |-> type, enb |-> e, mme |-> m]
      <4>1. x \in UplinkMsg /\ x.type # "release_complete"
        BY <3>1 DEF UplinkMsg
      <4>2. DOMAIN users' \subseteq DOMAIN users \cup {next_enb_ue_s1ap_id}
        BY <2>3
      <4>3. toMme' = toMme \/ toMme' = Append(toMme, x)
        BY <2>3
      <4> HIDE DEF x
      <4>4. CASE toMme' = toMme
        BY <1>b, <4>2, <4>4 DEF IdInv, ReleasedIsGone
      <4> QED
        BY <1>f, <4>1, <4>2, <4>3, <4>4
    <3>3. CASE users' = users
      BY <2>1, <3>2, <3>3 DEF IdInv, FirstAssociation, Nameless
    <3>4. CASE /\ e = next_enb_ue_s1ap_id
               /\ DOMAIN users' = DOMAIN users \cup {e}
               /\ \A d \in DOMAIN users : users'[d] = users[d]
               /\ ~users'[e].mme_ue_s1ap_id_present
      <4>1. e \notin DOMAIN users
        BY <3>4 DEF IInv, TypeOK
      <4>2. \A d, n : HasId(users', d, n) <=> HasId(users, d, n)
        BY <3>4, <4>1 DEF HasId
      <4>3. \A d, n : HasId(users', d, n) => d \in DOMAIN users
        BY <4>2 DEF HasId
      <4>4. ASSUME FirstAssociation PROVE FirstAssociation'
        <5>1. InOrder(users, toEnb) /\ UniqueId(users)
          BY <4>4 DEF FirstAssociation
        <5>2. /\ InOrder(users', toEnb) /\ UniqueId(users')
              /\ UpToDate(users, toEnb, mme) => UpToDate(users', toEnb, mme)
          BY <1>b, <3>4, <4>2, <4>3, <5>1, AddedInOrder
        <5> QED
          BY <2>1, <4>4, <5>2 DEF FirstAssociation
      <4>5. Nameless => Nameless'
        BY <2>1, <3>4 DEF Nameless
      <4> QED
        BY <2>1, <3>2, <4>4, <4>5 DEF IdInv
    <3> QED
      BY <2>3, <3>3, <3>4
  <2> QED
    BY <1>1, <2>2, <2>3, RequestAdds
<1>2. CASE DiscardMsg
  <2>1. /\ toEnb # <<>> /\ toEnb' = Tail(toEnb) /\ UNCHANGED <<assoc, mme, users, toMme>>
        /\ Head(toEnb).type = "release_cmd_mme_id" \/ Head(toEnb).enb \notin DOMAIN users
    BY <1>2 DEF DiscardMsg, Receive
  <2>2. ReleasedIsGone'
    BY <1>e, <2>1
  <2> QED
    BY <1>g, <2>1, <2>2
<1>3. CASE HandleDownlink \/ HandleUeContextModifyRequest \/ HandleCsFallback
  <2> DEFINE msg == Head(toEnb)
  <2>1. /\ toEnb # <<>> /\ toEnb' = Tail(toEnb) /\ UNCHANGED <<assoc, mme>>
        /\ DOMAIN users' = DOMAIN users /\ msg.enb \in DOMAIN users
        /\ msg.type # "release_cmd_mme_id"
        /\ \A d \in DOMAIN users : d # msg.enb => users'[d] = users[d]
        /\ users'[msg.enb].mme_ue_s1ap_id_present /\ users'[msg.enb].mme_ue_s1ap_id = msg.mme
    BY <1>3, HandlerTakesId
  <2>2. PICK n \in Seq(UplinkMsg) :
          /\ toMme' = toMme \o n
          /\ \A i \in 1..Len(n) : n[i].type \notin {"initial_ue", "release_complete"}
    BY <1>3, HandlerTakesId
  <2>3. ReleasedIsGone'
    BY <1>a, <1>b, <2>1, <2>2, ReleasedSent
  <2>4. \A d \in DOMAIN users' : \A m :
          HasId(users', d, m) <=> IF d = msg.enb /\ msg.type # "release_cmd_mme_id"
                                    THEN m = msg.mme ELSE HasId(users, d, m)
    BY <2>1 DEF HasId
  <2> QED
    BY <1>g, <2>1, <2>3, <2>4
<1>4. CASE HandleUeCtxtReleaseCommand
  <2> DEFINE msg == Head(toEnb)
  <2>1. /\ toEnb # <<>> /\ toEnb' = Tail(toEnb) /\ UNCHANGED <<assoc, mme>>
        /\ msg.type \in {"release_cmd", "release_cmd_mme_id"}
    BY <1>4, ReleaseCommandErases
  <2>2. PICK e \in DOMAIN users :
          /\ msg.type = "release_cmd" => e = msg.enb
          /\ DOMAIN users' = DOMAIN users \ {e}
          /\ \A d \in DOMAIN users' : users'[d] = users[d]
          /\ toMme' = IF assoc.up
                        THEN Append(toMme, [type |-> "release_complete", enb |-> e, mme |-> msg.mme])
                        ELSE toMme
    BY <1>4, ReleaseCommandErases
  <2>3. ReleasedIsGone'
    <3> DEFINE x == [type |-> "release_complete", enb |-> e, mme |-> msg.mme]
    <3>1. msg \in DownlinkMsg /\ e \in Nat
      BY <1>a, <2>1 DEF TypeOK
    <3>2. x \in UplinkMsg /\ x.enb \notin DOMAIN users'
      BY <2>2, <3>1 DEF UplinkMsg, DownlinkMsg
    <3>3. DOMAIN users' \subseteq DOMAIN users /\ (toMme' = toMme \/ toMme' = Append(toMme, x))
      BY <2>2
    <3> HIDE DEF x
    <3> QED
      BY <1>e, <1>f, <3>2, <3>3
  <2>4. \A d \in DOMAIN users' : \A m :
          HasId(users', d, m) <=> IF d = msg.enb /\ msg.type # "release_cmd_mme_id"
                                    THEN m = msg.mme ELSE HasId(users, d, m)
    BY <2>1, <2>2 DEF HasId
  <2>5. DOMAIN users' \subseteq DOMAIN users
    BY <2>2
  <2> QED
    BY <1>g, <2>1, <2>3, <2>4, <2>5
<1>5. CASE AssociationBreaks
  <2>1. assoc'.up = FALSE /\ assoc'.count = assoc.count /\ toMme' = <<>>
        /\ UNCHANGED <<users, toEnb>>
    BY <1>5 DEF AssociationBreaks, IInv, TypeOK
  <2>2. ReleasedIsGone'
    BY <1>e, <2>1
  <2> QED
    BY <2>1, <2>2 DEF IdInv, FirstAssociation, Nameless
<1>6. CASE ConnectionLost
  <2>1. toEnb' = <<>> /\ Len(toEnb') = 0 /\ ~assoc.up /\ UNCHANGED <<users, assoc, toMme>>
    BY <1>6 DEF ConnectionLost
  <2>2. InOrder(users, toEnb')
    BY <2>1 DEF InOrder
  <2> QED
    BY <2>1, <2>2 DEF IdInv, FirstAssociation, Nameless, ReleasedIsGone
<1>7. CASE S1SetupResponse
  <2>1. assoc'.up /\ assoc'.count = assoc.count + 1 /\ UNCHANGED <<users, toEnb, toMme, mme>>
    BY <1>7 DEF S1SetupResponse
  <2>2. ASSUME assoc.count = 0 PROVE FirstAssociation'
    <3>1. Nameless /\ FirstAssociation
      BY <2>2 DEF IdInv
    <3>2. Len(toEnb) = 0 /\ \A d, m : ~HasId(users, d, m)
      BY <3>1 DEF Nameless, HasId
    <3>3. UpToDate(users, toEnb, mme)
      BY <3>2 DEF UpToDate
    <3> QED
      BY <2>1, <3>1, <3>3 DEF FirstAssociation
  <2>3. ReleasedIsGone'
    BY <1>e, <2>1
  <2> QED
    BY <1>d, <2>1, <2>2, <2>3 DEF IdInv
<1>8. CASE MmeReceives
  <2> DEFINE msg == Head(toMme)
  <2>1. /\ assoc.up /\ toMme # <<>> /\ toMme' = Tail(toMme) /\ UNCHANGED <<users, assoc>>
    BY <1>8 DEF MmeReceives
  <2>2. ReleasedIsGone'
    BY <1>e, <2>1
  <2>3. assoc.count # 0
    BY <2>1 DEF IdInv, Nameless
  <2>4. msg \in UplinkMsg /\ 1 \in 1..Len(toMme) /\ msg = toMme[1]
    BY <1>a, <2>1
  <2>5. ASSUME msg.type = "initial_ue", NEW m \in MmeIds \ DOMAIN mme,
               mme' = LET others == Restrict(mme, {i \in DOMAIN mme : mme[i] # msg.enb})
                      IN [i \in DOMAIN others \cup {m} |->
                            IF i = m THEN msg.enb ELSE others[i]],
               toEnb' = Append(toEnb, [type |-> "dl_nas", enb |-> msg.enb, mme |-> m]),
               FirstAssociation
        PROVE  FirstAssociation'
    <3> DEFINE x == [type |-> "dl_nas", enb |-> msg.enb, mme |-> m]
    <3>1. x \in DownlinkMsg /\ x.enb = msg.enb /\ x.mme = m /\ x.type = "dl_nas"
      BY <2>4 DEF UplinkMsg, DownlinkMsg, DownlinkType
    <3>2. toEnb' = Append(toEnb, x)
      BY <2>5
    <3> HIDE DEF x
    <3>3. Context(mme', x.enb, x.mme)
      BY <2>5, <3>1 DEF Context, Restrict
    <3>4. \A d, n : Context(mme, d, n) => Context(mme', d, n) \/ Renames(x, d, n)
      BY <2>5, <3>1 DEF Context, Restrict, Renames
    <3>5. \A d : Context(mme, d, x.mme) => d = x.enb
      BY <3>1 DEF Context
    <3>6. InOrder(users, toEnb) /\ UpToDate(users, toEnb, mme)
      BY <2>1, <2>5 DEF FirstAssociation
    <3>7. InOrder(users, Append(toEnb, x)) /\ UpToDate(users, Append(toEnb, x), mme')
      BY <1>a, <3>1, <3>3, <3>4, <3>5, <3>6, SentInOrder
    <3> QED
      BY <2>1, <2>5, <3>2, <3>7 DEF FirstAssociation
  <2>6. ASSUME msg.type = "release_complete", FirstAssociation,
               toEnb' = toEnb,
               mme' = IF msg.mme \in DOMAIN mme /\ mme[msg.mme] = msg.enb
                       THEN Drop(msg.mme) ELSE mme
        PROVE  FirstAssociation'
    <3>1. msg.enb \notin DOMAIN users
      BY <1>a, <2>4, <2>6 DEF ReleasedIsGone
    <3>2. \A d \in DOMAIN users : \A n : Context(mme, d, n) => Context(mme', d, n)
      BY <2>6, <3>1 DEF Context, Drop, Restrict
    <3>3. UpToDate(users, toEnb, mme)
      BY <2>1, <2>6 DEF FirstAssociation
    <3>4. UpToDate(users, toEnb, mme')
      BY <3>2, <3>3, FreedUpToDate
    <3> QED
      BY <2>1, <2>6, <3>4 DEF FirstAssociation
  <2>7. ASSUME mme' = mme, toEnb' = toEnb, FirstAssociation
        PROVE  FirstAssociation'
    BY <2>1, <2>7 DEF FirstAssociation
  <2>8. FirstAssociation => FirstAssociation'
    BY <1>8, <2>5, <2>6, <2>7 DEF MmeReceives
  <2> QED
    BY <2>1, <2>2, <2>3, <2>8 DEF IdInv
<1>9. ASSUME NEW m \in MmeIds, NEW type \in DownlinkType, MmeSends(m, type)
      PROVE  IdInv'
  <2> DEFINE x == [type |-> type, enb |-> mme[m], mme |-> m]
  <2>1. m \in DOMAIN mme /\ toEnb' = Append(toEnb, x) /\ assoc.up
        /\ UNCHANGED <<users, assoc, mme, toMme>>
    BY <1>9 DEF MmeSends
  <2>2. x \in DownlinkMsg /\ x.enb = mme[m] /\ x.mme = m
    BY <1>a, <2>1 DEF DownlinkMsg, TypeOK
  <2> HIDE DEF x
  <2>3. Context(mme, x.enb, x.mme) /\ \A d : Context(mme, d, x.mme) => d = x.enb
    BY <2>1, <2>2 DEF Context
  <2>4. ASSUME FirstAssociation PROVE FirstAssociation'
    <3>1. InOrder(users, toEnb) /\ UpToDate(users, toEnb, mme)
      BY <2>1, <2>4 DEF FirstAssociation
    <3>2. InOrder(users, Append(toEnb, x)) /\ UpToDate(users, Append(toEnb, x), mme)
      BY <1>a, <2>2, <2>3, <3>1, SentInOrder
    <3> QED
      BY <2>1, <2>4, <3>2 DEF FirstAssociation
  <2>5. assoc.count # 0
    BY <2>1 DEF IdInv, Nameless
  <2>6. ReleasedIsGone'
    BY <1>e, <2>1
  <2> QED
    BY <2>1, <2>4, <2>5, <2>6 DEF IdInv
<1>10. CASE UNCHANGED vars
  BY <1>10 DEF vars, IdInv, ReleasedIsGone, FirstAssociation, Nameless
<1> QED
  BY <1>1, <1>2, <1>3, <1>4, <1>5, <1>6, <1>7, <1>8, <1>9, <1>10 DEF Next

(***************************************************************************)
(* Until the MME restarts, no two users of the list ever have the same MME *)
(* UE S1AP identity, though find_s1apmsg_user never compares them and the  *)
(* MME uses the identities again.                                          *)
(***************************************************************************)
THEOREM MmeIdsUniqueUntilRestart == Spec => []MmeIdUniqueUntilRestart
<1>1. IInv /\ IdInv => MmeIdUniqueUntilRestart
  BY UniqueIdMeans DEF IInv, IdInv, FirstAssociation, MmeIdUniqueUntilRestart
<1> QED
  BY <1>1, Invariance, InitIdInv, NextIdInv, PTL DEF Spec

(***************************************************************************)
(* Until the MME restarts, handle_uectxtreleasecommand removes no other    *)
(* user than the one the command is for, whichever way it names it.        *)
(***************************************************************************)
THEOREM ReleasesAreExact == Spec => ReleaseIsExact
<1> DEFINE Exact == assoc.count <= 1 => \A e \in DOMAIN users \ DOMAIN users' : e = Head(toEnb).enb
<1>1. IInv /\ IdInv /\ [Next]_vars => [Exact]_vars
  <2> SUFFICES ASSUME IInv, IdInv, Next, assoc.count <= 1, NEW d \in DOMAIN users \ DOMAIN users'
               PROVE  d = Head(toEnb).enb
    OBVIOUS
  <2>1. HandleUeCtxtReleaseCommand
    <3>1. HandleUeCtxtReleaseCommand \/ DOMAIN users \subseteq DOMAIN users'
      BY DEF Next, InitialUe, Insert, WritePdu, DiscardMsg, HandleDownlink,
             HandleUeContextModifyRequest, HandleCsFallback, AssociationBreaks,
             ConnectionLost, S1SetupResponse, MmeReceives, MmeSends, FindS1apmsgUser
    <3> QED
      BY <3>1
  <2>2. /\ toEnb # <<>> /\ Head(toEnb).type \in {"release_cmd", "release_cmd_mme_id"}
        /\ Head(toEnb).type = "release_cmd" => d = Head(toEnb).enb
        /\ Head(toEnb).type = "release_cmd_mme_id" => HasId(users, d, Head(toEnb).mme)
    BY <2>1, ReleaseCommandErases
  <2>3. toEnb[1] = Head(toEnb) /\ 1 \in 1..Len(toEnb)
    BY <2>2 DEF IInv, TypeOK
  <2>4. InOrder(users, toEnb)
    BY DEF IdInv, FirstAssociation
  <2>5. HasId(users, d, toEnb[1].mme) /\ toEnb[1].enb # d => Renamed(toEnb, d, toEnb[1].mme, 0, 1)
    BY <2>3, <2>4 DEF InOrder
  <2>6. ~Renamed(toEnb, d, toEnb[1].mme, 0, 1)
    BY DEF Renamed
  <2> QED
    BY <2>2, <2>3, <2>5, <2>6
<1> QED
  BY <1>1, Invariance, InitIdInv, NextIdInv, PTL DEF Spec, ReleaseIsExact

-----------------------------------------------------------------------------
(* The contexts of the MME *)

\* What is in flight belongs to the association.
Links ==
  /\ assoc.up => mme_connected
  /\ ~assoc.up => DOMAIN mme = {} /\ toMme = <<>>
  /\ ~mme_connected => toEnb = <<>>

\* The MME keeps one context per UE.
OneContext == \A m, n \in DOMAIN mme : mme[m] = mme[n] => m = n

\* The identity of its context is the only one anybody knows for a UE that was
\* announced once.
OneIdentity ==
  \A m \in DOMAIN mme : mme[m] \notin again =>
    /\ \A i \in 1..Len(toEnb) : toEnb[i].enb = mme[m] => toEnb[i].mme = m
    /\ mme[m] \in DOMAIN users /\ users[mme[m]].mme_ue_s1ap_id_present =>
         users[mme[m]].mme_ue_s1ap_id = m

\* The eNodeB has user d and nobody else has heard of it.
Announced(d) ==
  /\ d \in DOMAIN users /\ ~users[d].mme_ue_s1ap_id_present
  /\ \A m \in DOMAIN mme : mme[m] # d
  /\ \A i \in 1..Len(toEnb) : toEnb[i].enb # d

\* The first InitialUEMessage of a UE is the first the MME hears of it,
FirstAnnouncement ==
  \A i \in 1..Len(toMme) : toMme[i].type = "initial_ue" =>
    toMme[i].enb \in again \/ Announced(toMme[i].enb)

\* and there is no second one, unless again has the UE.
OneAnnouncement ==
  \A i, j \in 1..Len(toMme) :
    toMme[i].type = "initial_ue" /\ toMme[j].type = "initial_ue" /\ toMme[i].enb = toMme[j].enb =>
      toMme[i].enb \in again \/ i = j

ContextInv ==
  /\ Links /\ OneContext /\ OneIdentity
  /\ FirstAnnouncement /\ OneAnnouncement
  /\ NoForgottenContext

\* No association, no contexts.
LEMMA InitContextInv == Init => ContextInv
<1> SUFFICES ASSUME Init PROVE ContextInv
  OBVIOUS
<1>1. DOMAIN users = {} /\ DOMAIN mme = {} /\ Len(toMme) = 0 /\ Len(toEnb) = 0
      /\ assoc.up = FALSE /\ toEnb = <<>> /\ toMme = <<>>
  BY DEF Init, EmptyMap
<1> QED
  BY <1>1 DEF ContextInv, Links, OneContext, OneIdentity, FirstAnnouncement, OneAnnouncement,
              NoForgottenContext

(***************************************************************************)
(* The messages to the MME are the old ones and others that neither        *)
(* announce nor release a UE; no user, context or message to the eNodeB is *)
(* gone or new.                                                            *)
(***************************************************************************)
LEMMA QuietUplink ==
  ASSUME TypeOK, NEW n \in Seq(UplinkMsg), toMme' = toMme \o n,
         \A i \in 1..Len(n) : n[i].type # "initial_ue"
  PROVE  /\ \A i \in 1..Len(toMme) : i \in 1..Len(toMme') /\ toMme'[i] = toMme[i]
         /\ \A i \in 1..Len(toMme') : toMme'[i].type = "initial_ue" =>
              i \in 1..Len(toMme) /\ toMme'[i] = toMme[i]
<1>1. toMme \in Seq(UplinkMsg)
  BY DEF TypeOK
<1>2. Len(toMme) \in Nat /\ Len(n) \in Nat /\ Len(toMme') = Len(toMme) + Len(n)
  BY <1>1
<1>3. \A i \in 1..Len(toMme') :
        toMme'[i] = IF i <= Len(toMme) THEN toMme[i] ELSE n[i - Len(toMme)]
  BY <1>1
<1>4. ASSUME NEW i \in 1..Len(toMme'), ~(i <= Len(toMme))
      PROVE  i - Len(toMme) \in 1..Len(n)
  BY <1>2, <1>4
<1> QED
  BY <1>2, <1>3, <1>4

(***************************************************************************)
(* Every step keeps it.  UEContextReleaseComplete carries the identity of  *)
(* the command, and for a UE that was announced once that is the identity  *)
(* of its context.                                                         *)
(***************************************************************************)
LEMMA NextContextInv == IInv /\ ContextInv /\ [Next]_vars => ContextInv'
<1> SUFFICES ASSUME IInv, ContextInv, [Next]_vars PROVE ContextInv'
  OBVIOUS
<1>a. /\ TypeOK /\ toMme \in Seq(UplinkMsg) /\ toEnb \in Seq(DownlinkMsg)
      /\ next_enb_ue_s1ap_id \in Nat
  BY DEF IInv, TypeOK
<1>b. /\ \A i \in 1..Len(toMme) : toMme[i].enb # next_enb_ue_s1ap_id
      /\ \A i \in 1..Len(toEnb) : toEnb[i].enb # next_enb_ue_s1ap_id
      /\ \A m \in DOMAIN mme : mme[m] # next_enb_ue_s1ap_id
      /\ next_enb_ue_s1ap_id \notin DOMAIN users
  <2>1. \A n \in Nat : ~(n < n)
    OBVIOUS
  <2> QED
    BY <1>a, <2>1 DEF IInv, Given
<1>c. ASSUME toEnb # <<>>, toEnb' = Tail(toEnb)
      PROVE  /\ \A i \in 1..Len(toEnb') : i + 1 \in 1..Len(toEnb) /\ toEnb'[i] = toEnb[i + 1]
             /\ 1 \in 1..Len(toEnb) /\ toEnb[1] = Head(toEnb)
  BY <1>a, <1>c, Positions
<1>1. ASSUME NEW rnti \in Rntis, NEW has_tmsi \in BOOLEAN, InitialUe(rnti, has_tmsi) \/ WritePdu(rnti)
      PROVE  ContextInv'
  <2>1. UNCHANGED <<mme_connected, assoc, mme, toEnb>>
    BY <1>1, RequestAdds
  <2>2. CASE UNCHANGED <<users, toMme, again>>
    BY <2>1, <2>2 DEF ContextInv, Links, OneContext, OneIdentity, FirstAnnouncement,
                      OneAnnouncement, NoForgottenContext, Announced
  <2>3. ASSUME NEW e \in DOMAIN users', NEW type \in {"initial_ue", "ul_nas"}, NEW m \in MmeIds \cup {0},
               toMme' = IF assoc.up /\ mme_connected
                          THEN Append(toMme, [type |-> type, enb |-> e, mme |-> m]) ELSE toMme,
               \/ /\ e = next_enb_ue_s1ap_id
                  /\ again' = again
                  /\ DOMAIN users' = DOMAIN users \cup {e}
                  /\ \A d \in DOMAIN users : users'[d] = users[d]
                  /\ ~users'[e].mme_ue_s1ap_id_present
               \/ /\ users' = users
                  /\ again \subseteq again'
                  /\ type = "initial_ue" => e \in again'
        PROVE  ContextInv'
    <3> DEFINE x == [type |-> type, enb |-> e, mme |-> m]
    <3>1. /\ again \subseteq again' /\ DOMAIN users \subseteq DOMAIN users'
          /\ \A d \in DOMAIN users : users'[d] = users[d]
          /\ DOMAIN users' \subseteq DOMAIN users \cup {next_enb_ue_s1ap_id}
      BY <2>3
    <3>2. x.type = "initial_ue" =>
            \/ x.enb \in again'
            \/ x.enb = next_enb_ue_s1ap_id /\ x.enb \in DOMAIN users' /\ ~users'[x.enb].mme_ue_s1ap_id_present
      BY <2>3
    <3>3. x \in UplinkMsg
      BY <1>a, <2>3 DEF TypeOK, UplinkMsg
    <3>4. toMme' = toMme \/ toMme' = Append(toMme, x)
      BY <2>3
    <3>5. ~assoc.up => toMme' = toMme
      BY <2>3
    <3> HIDE DEF x
    <3>6. /\ \A i \in 1..Len(toMme) : i \in 1..Len(toMme') /\ toMme'[i] = toMme[i]
          /\ \A i \in 1..Len(toMme') :
               \/ i \in 1..Len(toMme) /\ toMme'[i] = toMme[i]
               \/ i = Len(toMme) + 1 /\ toMme'[i] = x
      BY <1>a, <3>3, <3>4, Positions
    <3>7. ASSUME NEW d, Announced(d) PROVE Announced(d)'
      BY <2>1, <3>1, <3>7 DEF Announced
    <3>8. Links' /\ OneContext'
      BY <2>1, <3>5 DEF ContextInv, Links, OneContext
    <3>9. OneIdentity'
      BY <1>b, <2>1, <3>1 DEF ContextInv, OneIdentity
    <3>10. FirstAnnouncement'
      <4>1. x.enb = next_enb_ue_s1ap_id /\ x.enb \in DOMAIN users' /\ ~users'[x.enb].mme_ue_s1ap_id_present
              => Announced(x.enb)'
        BY <1>b, <2>1 DEF Announced
      <4> SUFFICES ASSUME NEW i \in 1..Len(toMme'), toMme'[i].type = "initial_ue",
                          NEW d, d = toMme'[i].enb, d \notin again'
                   PROVE  /\ d \in DOMAIN users' /\ ~users'[d].mme_ue_s1ap_id_present
                          /\ \A k \in DOMAIN mme' : mme'[k] # d
                          /\ \A k \in 1..Len(toEnb') : toEnb'[k].enb # d
        BY DEF FirstAnnouncement, Announced
      <4>2. CASE i \in 1..Len(toMme) /\ toMme'[i] = toMme[i]
        <5>1. Announced(d)
          BY <3>1, <4>2 DEF ContextInv, FirstAnnouncement
        <5> QED
          BY <3>7, <5>1 DEF Announced
      <4>3. CASE toMme'[i] = x
        BY <3>2, <4>1, <4>3 DEF Announced
      <4> QED
        BY <3>6, <4>2, <4>3
    <3>11. OneAnnouncement'
      <4> SUFFICES ASSUME NEW i \in 1..Len(toMme'), NEW j \in 1..Len(toMme'),
                          toMme'[i].type = "initial_ue", toMme'[j].type = "initial_ue",
                          toMme'[i].enb = toMme'[j].enb, toMme'[i].enb \notin again'
                   PROVE  i = j
        BY DEF OneAnnouncement
      <4>1. x.type = "initial_ue" /\ x.enb \notin again' => x.enb = next_enb_ue_s1ap_id
        BY <3>2
      <4> QED
        BY <1>b, <3>1, <3>6, <4>1 DEF ContextInv, OneAnnouncement
    <3>12. NoForgottenContext'
      BY <2>1, <3>1, <3>6 DEF ContextInv, NoForgottenContext
    <3> QED
      BY <3>8, <3>9, <3>10, <3>11, <3>12 DEF ContextInv
  <2> QED
    BY <1>1, <2>2, <2>3, RequestAdds
<1>2. CASE DiscardMsg
  <2>1. toEnb # <<>> /\ toEnb' = Tail(toEnb) /\ mme_connected
        /\ UNCHANGED <<assoc, mme, users, toMme, mme_connected, again>>
    BY <1>2 DEF DiscardMsg, Receive
  <2> QED
    BY <1>c, <2>1 DEF ContextInv, Links, OneContext, OneIdentity, FirstAnnouncement,
                      OneAnnouncement, NoForgottenContext, Announced
<1>3. CASE HandleDownlink \/ HandleUeContextModifyRequest \/ HandleCsFallback
  <2> DEFINE e == Head(toEnb).enb
  <2>1. /\ toEnb # <<>> /\ toEnb' = Tail(toEnb) /\ UNCHANGED <<assoc, mme, mme_connected, again>>
        /\ DOMAIN users' = DOMAIN users /\ e \in DOMAIN users
        /\ \A d \in DOMAIN users : d # e => users'[d] = users[d]
        /\ users'[e].mme_ue_s1ap_id_present /\ users'[e].mme_ue_s1ap_id = Head(toEnb).mme
        /\ mme_connected
    BY <1>3, HandlerTakesId DEF HandleDownlink, HandleUeContextModifyRequest, HandleCsFallback, Receive
  <2>2. PICK n \in Seq(UplinkMsg) :
          /\ toMme' = toMme \o n
          /\ \A i \in 1..Len(n) : n[i].type \notin {"initial_ue", "release_complete"}
    BY <1>3, HandlerTakesId
  <2>3. /\ \A i \in 1..Len(toMme) : i \in 1..Len(toMme') /\ toMme'[i] = toMme[i]
        /\ \A i \in 1..Len(toMme') : toMme'[i].type = "initial_ue" =>
             i \in 1..Len(toMme) /\ toMme'[i] = toMme[i]
    BY <1>a, <2>2, QuietUplink
  <2>4. /\ \A i \in 1..Len(toEnb') : i + 1 \in 1..Len(toEnb) /\ toEnb'[i] = toEnb[i + 1]
        /\ 1 \in 1..Len(toEnb) /\ toEnb[1].enb = e /\ toEnb[1].mme = Head(toEnb).mme
    BY <1>c, <2>1
  <2>5. ~assoc.up => toMme' = toMme
    BY <1>3, <2>1 DEF HandleDownlink, HandleUeContextModifyRequest, HandleCsFallback, Sent
  <2> HIDE DEF e
  <2>6. ASSUME NEW d, Announced(d) PROVE Announced(d)' /\ d # e
    BY <2>1, <2>4, <2>6 DEF Announced
  <2>7. Links' /\ OneContext'
    BY <2>1, <2>5 DEF ContextInv, Links, OneContext
  <2>8. OneIdentity'
    BY <2>1, <2>4 DEF ContextInv, OneIdentity
  <2>9. FirstAnnouncement'
    <3>1. ASSUME NEW i \in 1..Len(toMme'), toMme'[i].type = "initial_ue", toMme'[i].enb \notin again'
          PROVE  Announced(toMme[i].enb)' /\ toMme'[i] = toMme[i]
      BY <2>1, <2>3, <2>6, <3>1 DEF ContextInv, FirstAnnouncement
    <3> QED
      BY <3>1 DEF FirstAnnouncement, Announced
  <2>10. OneAnnouncement'
    BY <2>1, <2>3 DEF ContextInv, OneAnnouncement
  <2>11. NoForgottenContext'
    BY <2>1, <2>3 DEF ContextInv, NoForgottenContext
  <2> QED
    BY <2>7, <2>8, <2>9, <2>10, <2>11 DEF ContextInv
<1>4. CASE HandleUeCtxtReleaseCommand
  <2> DEFINE msg == Head(toEnb)
  <2>1. /\ toEnb # <<>> /\ toEnb' = Tail(toEnb) /\ mme_connected
        /\ UNCHANGED <<assoc, mme, mme_connected, again>>
        /\ msg.type \in {"release_cmd", "release_cmd_mme_id"}
    BY <1>4, ReleaseCommandErases
  <2>2. PICK e \in DOMAIN users :
          /\ msg.type = "release_cmd" => e = msg.enb
          /\ msg.type = "release_cmd_mme_id" => HasId(users, e, msg.mme)
          /\ DOMAIN users' = DOMAIN users \ {e}
          /\ \A d \in DOMAIN users' : users'[d] = users[d]
          /\ toMme' = IF assoc.up
                        THEN Append(toMme, [type |-> "release_complete", enb |-> e, mme |-> msg.mme])
                        ELSE toMme
    BY <1>4, ReleaseCommandErases
  <2>3. /\ \A i \in 1..Len(toEnb') : i + 1 \in 1..Len(toEnb) /\ toEnb'[i] = toEnb[i + 1]
        /\ 1 \in 1..Len(toEnb) /\ toEnb[1] = msg
    BY <1>c, <2>1
  <2> DEFINE x == [type |-> "release_complete", enb |-> e, mme |-> msg.mme]
  <2>4. msg \in DownlinkMsg /\ e \in Nat
    BY <1>a, <2>1 DEF TypeOK
  <2>5. x \in UplinkMsg /\ x.type # "initial_ue"
    BY <2>4 DEF UplinkMsg, DownlinkMsg
  <2>6. /\ toMme' = toMme \/ toMme' = Append(toMme, x)
        /\ ~assoc.up => toMme' = toMme
        /\ assoc.up => toMme' = Append(toMme, x)
    BY <2>2
  <2> HIDE DEF x, msg
  <2>7. /\ \A i \in 1..Len(toMme) : i \in 1..Len(toMme') /\ toMme'[i] = toMme[i]
        /\ \A i \in 1..Len(toMme') : toMme'[i].type = "initial_ue" =>
             i \in 1..Len(toMme) /\ toMme'[i] = toMme[i]
    BY <1>a, <2>5, <2>6, Positions
  <2>8. assoc.up => Len(toMme) + 1 \in 1..Len(toMme') /\ toMme'[Len(toMme) + 1] = x
    BY <1>a, <2>5, <2>6, Positions
  <2>9. ASSUME NEW d, Announced(d) PROVE d # e
    BY <2>1, <2>2, <2>3, <2>9 DEF Announced, HasId
  <2>10. ASSUME NEW d, Announced(d) PROVE Announced(d)'
    BY <2>1, <2>2, <2>3, <2>9, <2>10 DEF Announced
  <2>11. Links' /\ OneContext'
    BY <2>1, <2>6 DEF ContextInv, Links, OneContext
  <2>12. OneIdentity'
    BY <2>1, <2>2, <2>3 DEF ContextInv, OneIdentity
  <2>13. FirstAnnouncement'
    <3>1. ASSUME NEW i \in 1..Len(toMme'), toMme'[i].type = "initial_ue", toMme'[i].enb \notin again'
          PROVE  Announced(toMme[i].enb)' /\ toMme'[i] = toMme[i]
      BY <2>1, <2>7, <2>10, <3>1 DEF ContextInv, FirstAnnouncement
    <3> QED
      BY <3>1 DEF FirstAnnouncement, Announced
  <2>14. OneAnnouncement'
    BY <2>1, <2>7 DEF ContextInv, OneAnnouncement
  <2>15. NoForgottenContext'
    <3> SUFFICES ASSUME NEW k \in DOMAIN mme, mme[k] \notin DOMAIN users' \cup again
                 PROVE  \E i \in 1..Len(toMme') :
                          toMme'[i] = [type |-> "release_complete", enb |-> mme[k], mme |-> k]
      BY <2>1 DEF NoForgottenContext
    <3>1. CASE mme[k] \in DOMAIN users
      <4>1. mme[k] = e
        BY <2>2, <3>1
      <4>2. msg.mme = k
        <5>1. CASE msg.type = "release_cmd"
          BY <2>2, <2>3, <4>1, <5>1 DEF ContextInv, OneIdentity
        <5>2. CASE msg.type = "release_cmd_mme_id"
          BY <2>2, <4>1, <5>2 DEF ContextInv, OneIdentity, HasId
        <5> QED
          BY <2>1, <5>1, <5>2
      <4>3. assoc.up
        BY DEF ContextInv, Links
      <4> QED
        BY <2>8, <4>1, <4>2, <4>3 DEF x
    <3>2. CASE mme[k] \notin DOMAIN users
      BY <2>7, <3>2 DEF ContextInv, NoForgottenContext
    <3> QED
      BY <3>1, <3>2
  <2> QED
    BY <2>11, <2>12, <2>13, <2>14, <2>15 DEF ContextInv
<1>5. CASE AssociationBreaks
  <2>1. /\ assoc'.up = FALSE /\ toMme' = <<>> /\ Len(toMme') = 0 /\ DOMAIN mme' = {}
        /\ UNCHANGED <<mme_connected, toEnb>>
    BY <1>5 DEF AssociationBreaks, EmptyMap, IInv, TypeOK
  <2> QED
    BY <2>1 DEF ContextInv, Links, OneContext, OneIdentity, FirstAnnouncement, OneAnnouncement,
                NoForgottenContext
<1>6. CASE ConnectionLost
  <2>1. /\ toEnb' = <<>> /\ Len(toEnb') = 0 /\ ~assoc.up
        /\ UNCHANGED <<users, assoc, mme, toMme, again>>
    BY <1>6 DEF ConnectionLost
  <2>2. DOMAIN mme = {} /\ toMme = <<>> /\ Len(toMme) = 0
    BY <2>1 DEF ContextInv, Links
  <2> QED
    BY <2>1, <2>2 DEF ContextInv, Links, OneContext, OneIdentity, FirstAnnouncement, OneAnnouncement,
                      NoForgottenContext
<1>7. CASE S1SetupResponse
  <2>1. assoc'.up /\ mme_connected' /\ UNCHANGED <<users, mme, toMme, toEnb, again>>
    BY <1>7 DEF S1SetupResponse
  <2> QED
    BY <2>1 DEF ContextInv, Links, OneContext, OneIdentity, FirstAnnouncement, OneAnnouncement,
                NoForgottenContext, Announced
<1>8. CASE MmeReceives
  <2> DEFINE msg == Head(toMme)
  <2>1. /\ assoc.up /\ toMme # <<>> /\ toMme' = Tail(toMme)
        /\ UNCHANGED <<users, assoc, mme_connected, again>>
    BY <1>8 DEF MmeReceives
  <2>2. /\ \A i \in 1..Len(toMme') : i + 1 \in 1..Len(toMme) /\ toMme'[i] = toMme[i + 1] /\ i + 1 # 1
        /\ 1 \in 1..Len(toMme) /\ toMme[1] = msg /\ msg \in UplinkMsg
    BY <1>a, <2>1, Positions
  <2>3. \A i \in 1..Len(toMme) : i # 1 => i - 1 \in 1..Len(toMme') /\ toMme'[i - 1] = toMme[i]
    BY <1>a, <2>1, Positions
  <2>4. Links'
    BY <2>1 DEF ContextInv, Links
  <2>5. OneAnnouncement'
    BY <2>1, <2>2 DEF ContextInv, OneAnnouncement
  <2>6. ASSUME msg.type = "initial_ue", NEW m \in MmeIds \ DOMAIN mme,
               mme' = LET others == Restrict(mme, {i \in DOMAIN mme : mme[i] # msg.enb})
                      IN [i \in DOMAIN others \cup {m} |->
                            IF i = m THEN msg.enb ELSE others[i]],
               toEnb' = Append(toEnb, [type |-> "dl_nas", enb |-> msg.enb, mme |-> m])
        PROVE  ContextInv'
    <3> DEFINE e == msg.enb
               x == [type |-> "dl_nas", enb |-> e, mme |-> m]
    <3>1. x \in DownlinkMsg /\ x.enb = e /\ x.mme = m
      BY <2>2, <2>6 DEF UplinkMsg, DownlinkMsg, DownlinkType
    <3>2. toEnb' = Append(toEnb, x)
      BY <2>6
    <3>3. /\ DOMAIN mme' = {i \in DOMAIN mme : mme[i] # e} \cup {m} /\ mme'[m] = e
          /\ \A k \in DOMAIN mme' : k # m => k \in DOMAIN mme /\ mme[k] # e /\ mme'[k] = mme[k]
      BY <2>6 DEF Restrict
    <3>4. e \in again \/ Announced(e)
      BY <2>2, <2>6 DEF ContextInv, FirstAnnouncement
    <3>5. \A i \in 2..Len(toMme) : toMme[i].type = "initial_ue" => toMme[i].enb # e \/ e \in again
      BY <1>a, <2>2, <2>6 DEF ContextInv, OneAnnouncement
    <3> HIDE DEF x, e
    <3>6. \A i \in 1..Len(toEnb') : (i \in 1..Len(toEnb) /\ toEnb'[i] = toEnb[i]) \/ toEnb'[i] = x
      BY <1>a, <3>1, <3>2, Positions
    <3>7. OneContext'
      BY <3>3 DEF ContextInv, OneContext
    <3>8. OneIdentity'
      <4> SUFFICES ASSUME NEW k \in DOMAIN mme', mme'[k] \notin again
                   PROVE  /\ \A i \in 1..Len(toEnb') : toEnb'[i].enb = mme'[k] => toEnb'[i].mme = k
                          /\ mme'[k] \in DOMAIN users /\ users[mme'[k]].mme_ue_s1ap_id_present =>
                               users[mme'[k]].mme_ue_s1ap_id = k
        BY <2>1 DEF OneIdentity
      <4>1. CASE k = m
        <5>1. mme'[k] = e /\ Announced(e)
          BY <3>3, <3>4, <4>1
        <5> QED
          BY <3>1, <3>6, <4>1, <5>1 DEF Announced
      <4>2. CASE k # m
        <5>1. k \in DOMAIN mme /\ mme'[k] = mme[k] /\ mme[k] # e
          BY <3>3, <4>2
        <5> QED
          BY <3>1, <3>6, <5>1 DEF ContextInv, OneIdentity
      <4> QED
        BY <4>1, <4>2
    <3>9. FirstAnnouncement'
      <4> SUFFICES ASSUME NEW i \in 1..Len(toMme'), toMme'[i].type = "initial_ue", toMme'[i].enb \notin again,
                          NEW d, d = toMme'[i].enb
                   PROVE  /\ d \in DOMAIN users /\ ~users[d].mme_ue_s1ap_id_present
                          /\ \A k \in DOMAIN mme' : mme'[k] # d
                          /\ \A k \in 1..Len(toEnb') : toEnb'[k].enb # d
        BY <2>1 DEF FirstAnnouncement, Announced
      <4>1. i + 1 \in 2..Len(toMme) /\ toMme[i + 1] = toMme'[i] /\ i + 1 \in 1..Len(toMme)
        BY <1>a, <2>2
      <4>2. d # e
        BY <3>5, <4>1
      <4>3. Announced(d)
        BY <4>1 DEF ContextInv, FirstAnnouncement
      <4> QED
        BY <3>1, <3>3, <3>6, <4>2, <4>3 DEF Announced
    <3>10. NoForgottenContext'
      <4> SUFFICES ASSUME NEW k \in DOMAIN mme', mme'[k] \notin DOMAIN users \cup again
                   PROVE  \E i \in 1..Len(toMme') :
                            toMme'[i] = [type |-> "release_complete", enb |-> mme'[k], mme |-> k]
        BY <2>1 DEF NoForgottenContext
      <4>1. k # m
        BY <3>3, <3>4 DEF Announced
      <4>2. k \in DOMAIN mme /\ mme'[k] = mme[k]
        BY <3>3, <4>1
      <4>3. PICK i \in 1..Len(toMme) : toMme[i] = [type |-> "release_complete", enb |-> mme[k], mme |-> k]
        BY <4>2 DEF ContextInv, NoForgottenContext
      <4>4. i # 1
        BY <2>2, <2>6, <4>3
      <4> QED
        BY <2>3, <4>2, <4>3, <4>4
    <3> QED
      BY <2>4, <2>5, <3>7, <3>8, <3>9, <3>10 DEF ContextInv
  <2>7. ASSUME toEnb' = toEnb, msg.type # "initial_ue",
               DOMAIN mme' \subseteq DOMAIN mme, \A k \in DOMAIN mme' : mme'[k] = mme[k],
               \A k \in DOMAIN mme' : msg # [type |-> "release_complete", enb |-> mme[k], mme |-> k]
        PROVE  ContextInv'
    <3>1. OneContext' /\ OneIdentity'
      BY <2>1, <2>7 DEF ContextInv, OneContext, OneIdentity
    <3>2. FirstAnnouncement'
      BY <2>1, <2>2, <2>7 DEF ContextInv, FirstAnnouncement, Announced
    <3>3. NoForgottenContext'
      <4> SUFFICES ASSUME NEW k \in DOMAIN mme', mme'[k] \notin DOMAIN users \cup again
                   PROVE  \E i \in 1..Len(toMme') :
                            toMme'[i] = [type |-> "release_complete", enb |-> mme'[k], mme |-> k]
        BY <2>1 DEF NoForgottenContext
      <4>1. k \in DOMAIN mme /\ mme'[k] = mme[k]
        BY <2>7
      <4>2. PICK i \in 1..Len(toMme) : toMme[i] = [type |-> "release_complete", enb |-> mme[k], mme |-> k]
        BY <4>1 DEF ContextInv, NoForgottenContext
      <4>3. i # 1
        BY <2>2, <2>7, <4>2
      <4> QED
        BY <2>3, <4>1, <4>2, <4>3
    <3> QED
      BY <2>4, <2>5, <3>1, <3>2, <3>3 DEF ContextInv
  <2>8. ASSUME msg.type = "release_complete", toEnb' = toEnb,
               mme' = IF msg.mme \in DOMAIN mme /\ mme[msg.mme] = msg.enb
                       THEN Drop(msg.mme) ELSE mme
        PROVE  ContextInv'
    <3>1. /\ DOMAIN mme' \subseteq DOMAIN mme /\ \A k \in DOMAIN mme' : mme'[k] = mme[k]
          /\ \A k \in DOMAIN mme' : ~(msg.mme = k /\ msg.enb = mme[k])
      BY <2>8 DEF Drop, Restrict
    <3>2. \A k \in DOMAIN mme' : msg # [type |-> "release_complete", enb |-> mme[k], mme |-> k]
      BY <3>1
    <3> QED
      BY <2>7, <2>8, <3>1, <3>2
  <2>9. ASSUME msg.type \notin {"initial_ue", "release_complete"}, UNCHANGED <<mme, toEnb>>
        PROVE  ContextInv'
    <3>1. \A k : msg # [type |-> "release_complete", enb |-> mme[k], mme |-> k]
      BY <2>9
    <3> QED
      BY <2>7, <2>9, <3>1
  <2> QED
    BY <1>8, <2>6, <2>8, <2>9 DEF MmeReceives
<1>9. ASSUME NEW m \in MmeIds, NEW type \in DownlinkType, MmeSends(m, type)
      PROVE  ContextInv'
  <2> DEFINE x == [type |-> type, enb |-> mme[m], mme |-> m]
  <2>1. m \in DOMAIN mme /\ toEnb' = Append(toEnb, x) /\ assoc.up
        /\ UNCHANGED <<users, assoc, mme, toMme, mme_connected, again>>
    BY <1>9 DEF MmeSends
  <2>2. x \in DownlinkMsg /\ x.enb = mme[m] /\ x.mme = m
    BY <1>a, <2>1 DEF DownlinkMsg, TypeOK
  <2> HIDE DEF x
  <2>3. \A i \in 1..Len(toEnb') : (i \in 1..Len(toEnb) /\ toEnb'[i] = toEnb[i]) \/ toEnb'[i] = x
    BY <1>a, <2>1, <2>2, Positions
  <2>4. Links' /\ OneContext' /\ OneAnnouncement' /\ NoForgottenContext'
    BY <2>1 DEF ContextInv, Links, OneContext, OneAnnouncement, NoForgottenContext
  <2>5. OneIdentity'
    BY <2>1, <2>2, <2>3 DEF ContextInv, OneContext, OneIdentity
  <2>6. FirstAnnouncement'
    BY <2>1, <2>2, <2>3 DEF ContextInv, FirstAnnouncement, Announced
  <2> QED
    BY <2>4, <2>5, <2>6 DEF ContextInv
<1>10. CASE UNCHANGED vars
  BY <1>10 DEF vars, ContextInv, Links, OneContext, OneIdentity, FirstAnnouncement, OneAnnouncement,
               NoForgottenContext, Announced
<1> QED
  BY <1>1, <1>2, <1>3, <1>4, <1>5, <1>6, <1>7, <1>8, <1>9, <1>10 DEF Next

(***************************************************************************)
(* The MME never keeps a context of a UE that the S1AP has erased, but     *)
(* while UEContextReleaseComplete with that context's identity is on its   *)
(* way, or when initial_ue announced the UE twice.                         *)
(***************************************************************************)
THEOREM NoContextForgotten == Spec => []NoForgottenContext
<1>1. ContextInv => NoForgottenContext
  BY DEF ContextInv
<1> QED
  BY <1>1, Invariance, InitContextInv, NextContextInv, PTL DEF Spec

=============================================================================
