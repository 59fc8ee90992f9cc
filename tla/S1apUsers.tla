----------------------------- MODULE S1apUsers -----------------------------
(***************************************************************************)
(* The UE-associated side of class s1ap (sonica_enb/stack/upper/s1ap.cc):  *)
(* the list of users, the allocation of eNB UE S1AP identities, the        *)
(* handlers of the MME's UE-associated messages and the requests of the    *)
(* RRC.  All of it runs on the stack thread, so a handler is one action.   *)
(*                                                                         *)
(* The MME is the environment: it keeps one context per UE, names it with  *)
(* an identity of its own, and forgets all of them when the association    *)
(* breaks.  The eNodeB learns of that later, and then keeps its users.     *)
(* All UEs share one SCTP stream (next_ue_stream_id is never changed), so  *)
(* each direction is a FIFO; what is in flight is lost with the            *)
(* association.                                                            *)
(***************************************************************************)
EXTENDS Naturals, Sequences, Functions

CONSTANTS
  Rntis,        \* C-RNTIs of the UEs that reach RRC connection setup
  MmeIds,       \* MME UE S1AP identities
  MaxEnbId,     \* bound on next_enb_ue_s1ap_id
  MaxAssoc,     \* bound on the number of associations
  MaxFlight     \* bound on messages in flight, each way

ASSUME UsersAssumption ==
  /\ MmeIds \subseteq Nat
  /\ MaxEnbId \in Nat
  /\ MaxAssoc \in Nat
  /\ MaxFlight \in Nat

VARIABLES
  users,                 \* user_list::users, by eNB UE S1AP identity
  next_enb_ue_s1ap_id,
  mme_connected,
  assoc,                 \* [up, count]: the association as the network has it
  mme,                   \* the MME's contexts: its identity -> eNB identity
  toMme, toEnb,          \* messages in flight
  again                  \* history: the users for which InitialUEMessage was
                         \* sent a second time

vars == <<users, next_enb_ue_s1ap_id, mme_connected, assoc, mme, toMme, toEnb, again>>

\* s1ap::ue: its identities (ue_ctxt_t) and release_requested
User == [rnti : Rntis, mme_ue_s1ap_id_present : BOOLEAN,
         mme_ue_s1ap_id : MmeIds \cup {0}, release_requested : BOOLEAN]

EmptyMap == [i \in {} |-> i]

UplinkMsg ==
  [type : {"initial_ue", "ul_nas", "release_request", "release_complete", "mod_resp"},
   enb : Nat, mme : MmeIds \cup {0}]

(***************************************************************************)
(* Downlink messages name the UE by the pair of identities, but for a      *)
(* UEContextReleaseCommand that names it by the MME's identity alone;      *)
(* enb then only records which UE the MME means.                           *)
(***************************************************************************)
DownlinkType ==
  {"dl_nas", "init_context_setup", "init_context_setup_csfb", "erab_setup",
   "context_mod", "context_mod_csfb", "release_cmd", "release_cmd_mme_id"}

DownlinkMsg == [type : DownlinkType, enb : Nat, mme : MmeIds]

(***************************************************************************)
(* The user list maps eNB identities to users and the messages carry       *)
(* identities of their kinds.                                              *)
(***************************************************************************)
TypeOK ==
  /\ next_enb_ue_s1ap_id \in Nat
  /\ users \in [DOMAIN users -> User]
  /\ DOMAIN users \subseteq Nat
  /\ mme_connected \in BOOLEAN
  /\ assoc \in [up : BOOLEAN, count : Nat]
  /\ mme \in [DOMAIN mme -> Nat]
  /\ DOMAIN mme \subseteq MmeIds
  /\ toMme \in Seq(UplinkMsg)
  /\ toEnb \in Seq(DownlinkMsg)
  /\ again \subseteq Nat

-----------------------------------------------------------------------------
(* user_list *)

\* find_ue_rnti, find_ue_mmeid: the identities of the users that match; the
\* code returns one of them, in the order of an unordered_map.
FindUeRnti(rnti) == {e \in DOMAIN users : users[e].rnti = rnti}

FindUeMmeid(m) ==
  {e \in DOMAIN users : users[e].mme_ue_s1ap_id_present /\ users[e].mme_ue_s1ap_id = m}

\* The constructor of s1ap::ue takes an identity, whether or not the user is
\* added in the end.
NewUe(rnti) == [rnti |-> rnti, mme_ue_s1ap_id_present |-> FALSE,
                mme_ue_s1ap_id |-> 0, release_requested |-> FALSE]

\* Mutant: the counter is not advanced.
NextEnbIdKept == next_enb_ue_s1ap_id

NextEnbId == next_enb_ue_s1ap_id + 1

\* Mutant: the rnti is not looked up.
CanAddUserAnyRnti(rnti) ==
  next_enb_ue_s1ap_id \notin DOMAIN users /\ FindUeMmeid(0) = {}

\* add_user refuses a duplicate; a new user has mme_ue_s1ap_id 0.
CanAddUser(rnti) ==
  /\ FindUeRnti(rnti) = {}
  /\ next_enb_ue_s1ap_id \notin DOMAIN users
  /\ FindUeMmeid(0) = {}

\* users.insert
Insert(e, u) == [i \in DOMAIN users \cup {e} |-> IF i = e THEN u ELSE users[i]]

Erase(e) == Restrict(users, DOMAIN users \ {e})

\* Mutant: the two identities are swapped.
FindS1apmsgUserSwapped(e, m) ==
  [users EXCEPT ![e].mme_ue_s1ap_id_present = TRUE, ![e].mme_ue_s1ap_id = e]

\* Mutant: an identity that was set once is never changed.
FindS1apmsgUserKeeps(e, m) ==
  IF users[e].mme_ue_s1ap_id_present THEN users
  ELSE [users EXCEPT ![e].mme_ue_s1ap_id_present = TRUE, ![e].mme_ue_s1ap_id = m]

\* find_s1apmsg_user: the user takes over the MME's identity.
FindS1apmsgUser(e, m) ==
  [users EXCEPT ![e].mme_ue_s1ap_id_present = TRUE, ![e].mme_ue_s1ap_id = m]

(***************************************************************************)
(* sctp_send_s1ap_pdu, behind the senders' test of mme_connected: over a   *)
(* broken association the message is lost.                                 *)
(***************************************************************************)
Sent(type, e, u) ==
  IF mme_connected /\ assoc.up
    THEN Append(toMme, [type |-> type, enb |-> e, mme |-> u.mme_ue_s1ap_id])
    ELSE toMme

-----------------------------------------------------------------------------
(* Requests of the RRC *)

(***************************************************************************)
(* initial_ue without an S-TMSI fails for a known rnti; with one it        *)
(* reuses the user it finds ("tmp hack").                                  *)
(***************************************************************************)
InitialUe(rnti, has_tmsi) ==
  /\ next_enb_ue_s1ap_id < MaxEnbId
  /\ Len(toMme) < MaxFlight
  /\ next_enb_ue_s1ap_id' = NextEnbId
  /\ \/ /\ CanAddUser(rnti)
        /\ users' = Insert(next_enb_ue_s1ap_id, NewUe(rnti))
        /\ toMme' = Sent("initial_ue", next_enb_ue_s1ap_id, NewUe(rnti))
        /\ again' = again
     \/ /\ ~CanAddUser(rnti)
        /\ users' = users
        /\ \/ /\ has_tmsi
              /\ \E e \in FindUeRnti(rnti) :
                   /\ toMme' = Sent("initial_ue", e, users[e])
                   /\ again' = again \cup {e}
           \/ (has_tmsi => FindUeRnti(rnti) = {}) /\ UNCHANGED <<toMme, again>>
  /\ UNCHANGED <<mme_connected, assoc, mme, toEnb>>

\* write_pdu: UplinkNASTransport, even before the MME gave its identity
WritePdu(rnti) ==
  /\ Len(toMme) < MaxFlight
  /\ \E e \in FindUeRnti(rnti) : toMme' = Sent("ul_nas", e, users[e])
  /\ UNCHANGED <<users, next_enb_ue_s1ap_id, mme_connected, assoc, mme, toEnb, again>>

-----------------------------------------------------------------------------
(* Messages of the MME *)

Receive(types) ==
  /\ mme_connected
  /\ toEnb # <<>>
  /\ Head(toEnb).type \in types
  /\ Len(toMme) < MaxFlight
  /\ toEnb' = Tail(toEnb)
  /\ UNCHANGED <<next_enb_ue_s1ap_id, mme_connected, assoc, mme, again>>

\* A message for an unknown user is discarded.
DiscardMsg ==
  /\ Receive(DownlinkType)
  /\ LET msg == Head(toEnb)
     IN IF msg.type = "release_cmd_mme_id" THEN FindUeMmeid(msg.mme) = {}
                                           ELSE msg.enb \notin DOMAIN users
  /\ UNCHANGED <<users, toMme>>

\* handle_dlnastransport, handle_erabsetuprequest, handle_initialctxtsetuprequest
HandleDownlink ==
  /\ Receive({"dl_nas", "erab_setup", "init_context_setup"})
  /\ Head(toEnb).enb \in DOMAIN users
  /\ users' = FindS1apmsgUser(Head(toEnb).enb, Head(toEnb).mme)
  /\ UNCHANGED toMme

\* handle_uecontextmodifyrequest: rrc::modify_ue_ctxt always succeeds
HandleUeContextModifyRequest ==
  /\ Receive({"context_mod"})
  /\ LET e == Head(toEnb).enb
     IN /\ e \in DOMAIN users
        /\ users' = FindS1apmsgUser(e, Head(toEnb).mme)
        /\ toMme' = Sent("mod_resp", e, users'[e])

(***************************************************************************)
(* Either request with a CS fallback indication asks for the UE's release  *)
(* (send_uectxtreleaserequest) after the normal handling.                  *)
(***************************************************************************)
HandleCsFallback ==
  /\ Receive({"init_context_setup_csfb", "context_mod_csfb"})
  /\ LET e == Head(toEnb).enb
         m == Head(toEnb).mme
         request == [type |-> "release_request", enb |-> e, mme |-> m]
         resp    == [type |-> "mod_resp", enb |-> e, mme |-> m]
     IN /\ e \in DOMAIN users
        /\ users' = [FindS1apmsgUser(e, m) EXCEPT ![e].release_requested = TRUE]
        /\ toMme' = IF ~assoc.up THEN toMme
                    ELSE toMme \o (IF Head(toEnb).type = "context_mod_csfb"
                                     THEN <<resp, request>> ELSE <<request>>)

\* Mutant: the user stays in the list.
ReleaseCommandKeepsUser ==
  /\ Receive({"release_cmd", "release_cmd_mme_id"})
  /\ Head(toEnb).enb \in DOMAIN users
  /\ users' = users
  /\ toMme' = Sent("release_complete", Head(toEnb).enb,
                  [users[Head(toEnb).enb] EXCEPT !.mme_ue_s1ap_id = Head(toEnb).mme])

\* Mutant: UEContextReleaseComplete is not sent.
ReleaseCommandUnanswered ==
  /\ Receive({"release_cmd", "release_cmd_mme_id"})
  /\ \E e \in {Head(toEnb).enb} \cap DOMAIN users : users' = Erase(e)
  /\ UNCHANGED toMme

(***************************************************************************)
(* handle_uectxtreleasecommand.  The user found is removed whether or not  *)
(* UEContextReleaseComplete could be sent, and the RRC is told.            *)
(***************************************************************************)
HandleUeCtxtReleaseCommand ==
  /\ Receive({"release_cmd", "release_cmd_mme_id"})
  /\ LET msg == Head(toEnb)
         found == IF msg.type = "release_cmd" THEN {msg.enb} \cap DOMAIN users
                                              ELSE FindUeMmeid(msg.mme)
     IN \E e \in found :
          /\ users' = Erase(e)
          /\ toMme' = Sent("release_complete", e, [users[e] EXCEPT !.mme_ue_s1ap_id = msg.mme])

-----------------------------------------------------------------------------
(* The association, as S1apSetup has it: it breaks, the eNodeB notices     *)
(* (handle_mme_rx_msg), and is set up again.  The users are left alone.    *)

AssociationBreaks ==
  /\ assoc.up
  /\ assoc' = [assoc EXCEPT !.up = FALSE]
  /\ mme' = EmptyMap
  /\ toMme' = <<>>
  /\ UNCHANGED <<users, next_enb_ue_s1ap_id, mme_connected, toEnb, again>>

ConnectionLost ==
  /\ mme_connected
  /\ ~assoc.up
  /\ mme_connected' = FALSE
  /\ toEnb' = <<>>
  /\ UNCHANGED <<users, next_enb_ue_s1ap_id, assoc, mme, toMme, again>>

S1SetupResponse ==
  /\ ~mme_connected
  /\ assoc.count < MaxAssoc
  /\ assoc' = [up |-> TRUE, count |-> assoc.count + 1]
  /\ mme_connected' = TRUE
  /\ UNCHANGED <<users, next_enb_ue_s1ap_id, mme, toMme, toEnb, again>>

-----------------------------------------------------------------------------
(* The MME *)

Drop(m) == Restrict(mme, DOMAIN mme \ {m})

(***************************************************************************)
(* An InitialUEMessage gets a context under an identity that is free; a    *)
(* second one of the same UE replaces its context.  The first answer is a  *)
(* DownlinkNASTransport.  The other uplink messages change nothing but     *)
(* UEContextReleaseComplete, which frees the identity.                     *)
(***************************************************************************)
MmeReceives ==
  /\ assoc.up
  /\ toMme # <<>>
  /\ toMme' = Tail(toMme)
  /\ LET msg == Head(toMme)
     IN \/ /\ msg.type = "initial_ue"
           /\ Len(toEnb) < MaxFlight
           /\ LET others == Restrict(mme, {m \in DOMAIN mme : mme[m] # msg.enb})
              IN \E m \in MmeIds \ DOMAIN mme :
                    /\ mme' = [i \in DOMAIN others \cup {m} |->
                                 IF i = m THEN msg.enb ELSE others[i]]
                    /\ toEnb' = Append(toEnb, [type |-> "dl_nas", enb |-> msg.enb, mme |-> m])
        \/ /\ msg.type = "release_complete"
           /\ mme' = IF msg.mme \in DOMAIN mme /\ mme[msg.mme] = msg.enb
                       THEN Drop(msg.mme) ELSE mme
           /\ UNCHANGED toEnb
        \/ /\ msg.type \notin {"initial_ue", "release_complete"}
           /\ UNCHANGED <<mme, toEnb>>
  /\ UNCHANGED <<users, next_enb_ue_s1ap_id, mme_connected, assoc, again>>

MmeSends(m, type) ==
  /\ assoc.up
  /\ Len(toEnb) < MaxFlight
  /\ m \in DOMAIN mme
  /\ toEnb' = Append(toEnb, [type |-> type, enb |-> mme[m], mme |-> m])
  /\ UNCHANGED <<users, next_enb_ue_s1ap_id, mme_connected, assoc, mme, toMme, again>>

-----------------------------------------------------------------------------

Init ==
  /\ users = EmptyMap
  /\ next_enb_ue_s1ap_id = 1
  /\ mme_connected = FALSE
  /\ assoc = [up |-> FALSE, count |-> 0]
  /\ mme = EmptyMap
  /\ toMme = <<>>
  /\ toEnb = <<>>
  /\ again = {}

Next ==
  \/ \E rnti \in Rntis, has_tmsi \in BOOLEAN : InitialUe(rnti, has_tmsi)
  \/ \E rnti \in Rntis : WritePdu(rnti)
  \/ DiscardMsg
  \/ HandleDownlink
  \/ HandleUeContextModifyRequest
  \/ HandleCsFallback
  \/ HandleUeCtxtReleaseCommand
  \/ AssociationBreaks
  \/ ConnectionLost
  \/ S1SetupResponse
  \/ MmeReceives
  \/ \E m \in MmeIds, type \in DownlinkType : MmeSends(m, type)

Spec == Init /\ [][Next]_vars

-----------------------------------------------------------------------------

(***************************************************************************)
(* No two users have the same RNTI: initial_ue, write_pdu and the stream   *)
(* lookup of sctp_send_s1ap_pdu take whichever user find_ue_rnti meets     *)
(* first.                                                                  *)
(***************************************************************************)
RntiUnique ==
  \A d, e \in DOMAIN users : users[d].rnti = users[e].rnti => d = e

(***************************************************************************)
(* An eNB UE S1AP identity is never given to a second user, so a late      *)
(* message of the MME for a released UE can only be discarded              *)
(* (s1ap::ue::ue, find_s1apmsg_user).                                      *)
(***************************************************************************)
EnbIdNeverReused ==
  [][\A e \in DOMAIN users' \ DOMAIN users :
       /\ \A i \in 1..Len(toEnb) : toEnb[i].enb # e
       /\ \A m \in DOMAIN mme : mme[m] # e]_vars

(***************************************************************************)
(* user_list::add_user: "avoiding any rnti, enb_s1ap_id, mme_s1ap_id       *)
(* duplication".  No two users have the same MME UE S1AP identity.         *)
(***************************************************************************)
MmeIdUnique ==
  \A d, e \in DOMAIN users :
    /\ users[d].mme_ue_s1ap_id_present
    /\ users[e].mme_ue_s1ap_id_present
    /\ users[d].mme_ue_s1ap_id = users[e].mme_ue_s1ap_id
    => d = e

(***************************************************************************)
(* As long as the MME does not restart, find_s1apmsg_user gives no two     *)
(* users the same MME UE S1AP identity, though the MME uses an identity    *)
(* again as soon as the release of its UE is complete.                     *)
(***************************************************************************)
MmeIdUniqueUntilRestart == assoc.count <= 1 => MmeIdUnique

(***************************************************************************)
(* As long as the MME does not restart, a UEContextReleaseCommand that     *)
(* names the UE by the MME's identity alone removes the user that the MME  *)
(* means (handle_uectxtreleasecommand).                                    *)
(***************************************************************************)
ReleaseIsExact ==
  [][assoc.count <= 1 =>
       \A e \in DOMAIN users \ DOMAIN users' : e = Head(toEnb).enb]_vars

(***************************************************************************)
(* The MME never keeps a context of a UE that the eNodeB has forgotten,    *)
(* but while UEContextReleaseComplete is on its way: the eNodeB erases a   *)
(* user only together with that message, or with the association.  The     *)
(* exception is a UE that initial_ue announced twice: the second           *)
(* InitialUEMessage can cross the MME's UEContextReleaseCommand, and then  *)
(* opens a context for the user that this command removed.                 *)
(***************************************************************************)
NoForgottenContext ==
  \A m \in DOMAIN mme :
    \/ mme[m] \in DOMAIN users \cup again
    \/ \E i \in 1..Len(toMme) :
         toMme[i] = [type |-> "release_complete", enb |-> mme[m], mme |-> m]

=============================================================================
