--------------------------- MODULE SomeIpAdaptor ---------------------------
(***************************************************************************)
(* SomeIpAdaptor: a pool of SPDM engines, the records that bind them to    *)
(* zone nodes, and the token lifecycle manager, driven by the hooks the    *)
(* SOME/IP stack calls.  The hooks are serialised (hpp:181-184); each is   *)
(* one step with every call it makes to an engine and to the manager.      *)
(*                                                                         *)
(* The network: an auth request of a client may arrive whenever it likes;  *)
(* a zone node signs the challenges it was sent, and each response arrives *)
(* any number of times, at any time, in any order, or never; a response    *)
(* may arrive garbled.  A frame too short to be parsed is refused before    *)
(* anything in it is looked at.                                            *)
(***************************************************************************)
EXTENDS SpdmEngine, Sequences, FiniteSets

CONSTANTS
  ZoneSlots,           \* kMaxZoneSlots, the size of the engine pool
  ZeroKey,
  kMaxActiveSessions, kTokenLifetimeMs, kMaxAnomalyCount, CounterMax, TickPeriod, TimeModulus

ASSUME PoolAssumption ==
  ZoneSlots \in Nat \ {0} /\ kMaxActiveSessions \in Nat /\ ZoneSlots <= kMaxActiveSessions

\* What TokenLifecycleManager assumes of the constants it is given.
ASSUME KeyAssumption == ZeroKey \notin Derived
ASSUME AnomalyAssumption ==
  kMaxAnomalyCount \in Nat \ {0} /\ CounterMax \in Nat /\ kMaxAnomalyCount <= CounterMax
ASSUME TimeAssumption ==
  /\ kTokenLifetimeMs \in Nat /\ TickPeriod \in Nat /\ TimeModulus \in Nat
  /\ TickPeriod > 0 /\ kTokenLifetimeMs + TickPeriod < TimeModulus

VARIABLES
  engines_,            \* the engine of each zone slot
  slot_records_,       \* the client bound to each zone slot, ZeroId when unoccupied
  challenges,          \* history: the challenges transmitted
  spent,               \* history: the keys sessions were registered with
  answer,              \* the AdaptorStatus the last hook returned
  session_table_, insertion_order_, now, since_scan, real_age, reply  \* tlm_

tlm_vars == <<session_table_, insertion_order_, now, since_scan, real_age, reply>>
vars == <<engines_, slot_records_, challenges, spent, answer, tlm_vars>>

tlm_ == INSTANCE TokenLifecycleManager WITH Keys <- Derived

\* "none" where nothing is returned.
AdaptorStatuses ==
  {"none", "kOk", "kUnknownPeer", "kSlotExhausted", "kProtocolError", "kSessionError",
   "kInvalidFrame", "kNotAuthenticated", "kLockedOut", "kInvalidParam"}

ZoneSlot == 0 .. (ZoneSlots - 1)

\* The PAL draws a nonce that no message, engine or session holds, if one is left.
InUse == {h.nonce : h \in challenges} \cup {engines_[z].pending_nonce : z \in ZoneSlot}
Fresh == {n \in Nonces \ InUse : \A m \in Nonces \ InUse : n <= m}

Init ==
  /\ engines_ = [z \in ZoneSlot |-> NewEngine]
  /\ slot_records_ = [z \in ZoneSlot |-> ZeroId]
  /\ challenges = {}
  /\ spent = {}
  /\ answer = "none"
  /\ tlm_!Init

\* The zone slot of a client, as a set: FindSlot skips the unoccupied ones.
FindSlot(c) == {z \in ZoneSlot : slot_records_[z] # ZeroId /\ slot_records_[z] = c}
FreeEngineSlots == {z \in ZoneSlot : slot_records_[z] = ZeroId}

\* A hook that leaves the manager alone.
WithoutTlm == tlm_!Refuse("none")

RefusedWith(status) ==
  /\ answer' = status
  /\ WithoutTlm
  /\ UNCHANGED <<engines_, slot_records_, challenges, spent>>

-----------------------------------------------------------------------------
(* OnPeerOffered.                                                          *)

RejectOffer(c) ==
  \/ c = ZeroId /\ RefusedWith("kInvalidParam")
  \/ c # ZeroId /\ tlm_!IsLockedOut(c) /\ RefusedWith("kLockedOut")
  \/ /\ c # ZeroId /\ ~tlm_!IsLockedOut(c)
     /\ FindSlot(c) = {} /\ FreeEngineSlots = {}
     /\ RefusedWith("kSlotExhausted")

\* Mutant: a node that has a slot is told all is well, and that is all.
ReOfferIgnored(c) ==
  /\ c # ZeroId /\ ~tlm_!IsLockedOut(c) /\ FindSlot(c) # {}
  /\ RefusedWith("kOk")

\* A node offered again has its engine reset.
ReOffer(c) ==
  /\ c # ZeroId /\ ~tlm_!IsLockedOut(c)
  /\ \E z \in FindSlot(c) : engines_' = [engines_ EXCEPT ![z] = WasReset(@)]
  /\ answer' = "kOk"
  /\ WithoutTlm
  /\ UNCHANGED <<slot_records_, challenges, spent>>

\* Mutant: a node offered again gets a second slot.
AssignSlotAgain(c) ==
  /\ c # ZeroId /\ ~tlm_!IsLockedOut(c) /\ FreeEngineSlots # {}
  /\ LET z == tlm_!Lowest(FreeEngineSlots) IN
       /\ slot_records_' = [slot_records_ EXCEPT ![z] = c]
       /\ engines_' = [engines_ EXCEPT ![z] = WasReset(@)]
  /\ answer' = "kOk"
  /\ WithoutTlm
  /\ UNCHANGED <<challenges, spent>>

AssignSlot(c) ==
  /\ c # ZeroId /\ ~tlm_!IsLockedOut(c)
  /\ FindSlot(c) = {} /\ FreeEngineSlots # {}
  /\ LET z == tlm_!Lowest(FreeEngineSlots) IN
       /\ slot_records_' = [slot_records_ EXCEPT ![z] = c]
       /\ engines_' = [engines_ EXCEPT ![z] = WasReset(@)]
  /\ answer' = "kOk"
  /\ WithoutTlm
  /\ UNCHANGED <<challenges, spent>>

OnPeerOffered(c) == RejectOffer(c) \/ ReOffer(c) \/ AssignSlot(c)

-----------------------------------------------------------------------------
(* OnAuthRequest and OnAuthResponse.                                       *)

OnShortFrame == RefusedWith("kInvalidFrame")

OnUnknownPeer(message) == FindSlot(message.client_id) = {} /\ RefusedWith("kUnknownPeer")

\* The challenge is transmitted only when the engine accepts the request.
OnAuthRequest(request) ==
  \/ OnUnknownPeer(request)
  \/ \E z \in FindSlot(request.client_id) :
       \E o \in AuthRequestOutcomes(engines_[z], request, Fresh) :
         /\ engines_' = [engines_ EXCEPT ![z] = o.engine]
         /\ \/ /\ o.status = "kOk"
               /\ challenges' = challenges \cup
                    {[nonce |-> o.engine.pending_nonce, client |-> request.client_id]}
               /\ answer' = "kOk"
            \/ o.status # "kOk" /\ answer' = "kProtocolError" /\ UNCHANGED challenges
         /\ WithoutTlm
         /\ UNCHANGED <<slot_records_, spent>>

\* Mutant: only the engine hears of the failure.
RejectedResponseEngineOnly(z, response) ==
  \E o \in AuthResponseOutcomes(engines_[z], response) :
    /\ o.status # "kOk"
    /\ engines_' = [engines_ EXCEPT ![z] = o.engine]
    /\ answer' = "kProtocolError"
    /\ WithoutTlm
    /\ UNCHANGED <<slot_records_, challenges, spent>>

\* The engine refuses, whatever the reason: an anomaly for the manager.
RejectedResponse(z, response) ==
  \E o \in AuthResponseOutcomes(engines_[z], response) :
    /\ o.status # "kOk"
    /\ engines_' = [engines_ EXCEPT ![z] = o.engine]
    /\ tlm_!RevokeToken(response.client_id, TRUE)
    /\ answer' = "kProtocolError"
    /\ UNCHANGED <<slot_records_, challenges, spent>>

\* The engine is satisfied: the session is registered, and the engine revoked
\* if the manager refuses it.
AcceptedResponse(z, response) ==
  \E o \in AuthResponseOutcomes(engines_[z], response) :
    LET key == [nonce |-> o.engine.pending_nonce, client |-> response.client_id] IN
    /\ o.status = "kOk"
    /\ tlm_!RegisterToken(response.client_id, key)
    /\ \/ /\ reply'.status = "kOk"
          /\ engines_' = [engines_ EXCEPT ![z] = o.engine]
          /\ spent' = spent \cup {key}
          /\ answer' = "kOk"
       \/ /\ reply'.status # "kOk"
          /\ engines_' = [engines_ EXCEPT ![z] = Revoked(o.engine)]
          /\ answer' = IF reply'.status = "kLockedOut" THEN "kLockedOut" ELSE "kSessionError"
          /\ UNCHANGED spent
    /\ UNCHANGED <<slot_records_, challenges>>

OnAuthResponse(response) ==
  \/ OnUnknownPeer(response)
  \/ \E z \in FindSlot(response.client_id) :
       RejectedResponse(z, response) \/ AcceptedResponse(z, response)

-----------------------------------------------------------------------------
(* The tick, the session gate and the revocation.                          *)

OnSessionTick ==
  /\ tlm_!EvaluateTokenExpiry
  /\ answer' = "none"
  /\ UNCHANGED <<engines_, slot_records_, challenges, spent>>

\* The lockout is asked first, and again by ValidateToken.
IsSessionActive(c) ==
  \/ tlm_!IsLockedOut(c) /\ RefusedWith("kLockedOut")
  \/ /\ ~tlm_!IsLockedOut(c)
     /\ tlm_!ValidateToken(c)
     /\ answer' = IF reply'.status \in {"kOk", "kLockedOut"} THEN reply'.status
                  ELSE "kNotAuthenticated"
     /\ UNCHANGED <<engines_, slot_records_, challenges, spent>>

\* Mutant: a revocation gives the zone slot back.
RevokeSessionFreeingSlot(c, is_anomaly) ==
  /\ engines_' = [z \in ZoneSlot |-> IF z \in FindSlot(c) THEN NewEngine ELSE engines_[z]]
  /\ slot_records_' = [z \in ZoneSlot |-> IF z \in FindSlot(c) THEN ZeroId ELSE slot_records_[z]]
  /\ tlm_!RevokeToken(c, is_anomaly)
  /\ answer' = IF reply'.status = "kOk" THEN "kOk" ELSE "kUnknownPeer"
  /\ UNCHANGED <<challenges, spent>>

RevokeSession(c, is_anomaly) ==
  /\ engines_' = [z \in ZoneSlot |-> IF z \in FindSlot(c) THEN Revoked(engines_[z])
                                     ELSE engines_[z]]
  /\ tlm_!RevokeToken(c, is_anomaly)
  /\ answer' = IF reply'.status = "kOk" THEN "kOk" ELSE "kUnknownPeer"
  /\ UNCHANGED <<slot_records_, challenges, spent>>

TimePasses ==
  /\ tlm_!TimePasses
  /\ answer' = "none"
  /\ UNCHANGED <<engines_, slot_records_, challenges, spent>>

Ids == Clients \cup {ZeroId}
Requests == [client_id : Ids, version_ok : BOOLEAN]
Garbled == [nonce |-> ZeroNonce, client |-> ZeroId]
Responses == [client_id : Ids, signature : challenges \cup {Garbled}]

Next ==
  \/ \E c \in Ids : OnPeerOffered(c)
  \/ OnShortFrame
  \/ \E request \in Requests : OnAuthRequest(request)
  \/ \E response \in Responses : OnAuthResponse(response)
  \/ OnSessionTick
  \/ \E c \in Ids : IsSessionActive(c)
  \/ \E c \in Ids, is_anomaly \in BOOLEAN : RevokeSession(c, is_anomaly)
  \/ TimePasses

Spec == Init /\ [][Next]_vars

-----------------------------------------------------------------------------
(* Correctness of the composition.                                         *)

ActiveSlots == {s \in tlm_!Slots : session_table_[s].is_active}
SessionsOf(c) == {s \in ActiveSlots : session_table_[s].client_id = c}

TypeOK ==
  /\ engines_ \in [ZoneSlot -> Engine]
  /\ slot_records_ \in [ZoneSlot -> Ids]
  /\ challenges \subseteq Derived
  /\ spent \subseteq challenges
  /\ answer \in AdaptorStatuses
  /\ tlm_!TypeOK

\* Engines are not mixed up: a client has one zone slot, and an engine holds no
\* id but that of the client its slot is bound to.
SlotsBound ==
  /\ \A c \in Clients : \A y, z \in FindSlot(c) : y = z
  /\ \A z \in ZoneSlot :
       {engines_[z].pending_client_id, engines_[z].authenticated_client_id}
         \subseteq {ZeroId, slot_records_[z]}

\* Every session belongs to a peer of the table, under a key derived for this
\* very client from a nonce that was sent to it as a challenge.
SessionsProven ==
  \A s \in ActiveSlots :
    /\ session_table_[s].client_id \in Peers
    /\ session_table_[s].session_key.client = session_table_[s].client_id
    /\ session_table_[s].session_key \in spent

\* A revoked engine leaves no session behind: whatever revoked it, a failed response,
\* a refusal by the table or the gateway, the table holds none for its client.  (The
\* converse fails: a session that the manager ends leaves its engine authenticated.)
RevokedEngineHasNoSession ==
  \A z \in ZoneSlot : engines_[z].state = "kRevoked" => SessionsOf(slot_records_[z]) = {}

\* The session of a client whose engine is authenticated carries the key of that
\* engine's handshake, never that of an earlier one.
SessionKeyCurrent ==
  \A z \in ZoneSlot : engines_[z].state = "kAuthenticated" =>
    \A s \in SessionsOf(slot_records_[z]) :
      session_table_[s].session_key =
        [nonce |-> engines_[z].pending_nonce, client |-> slot_records_[z]]

\* There is room in the table for every node with a zone slot (hpp:53-54), however
\* many others hold a slot of the table, with a session or locked out: none is
\* authenticated only to be refused a session, or given one at another's expense.
\* (The all-zero id, revoked as an anomaly, can lock one slot more.)
RoomForEveryNode ==
  \A z \in ZoneSlot :
    slot_records_[z] = ZeroId \/ tlm_!IsLockedOut(slot_records_[z])
    \/ tlm_!IsLockedOut(ZeroId) \/ tlm_!FreeSlots(slot_records_[z]) # {}

\* No response, however late or often it arrives, opens a session a second time:
\* a key is registered at most once, also after its session has ended.
KeyRegisteredOnce ==
  [][\A s \in tlm_!Slots :
       /\ session_table_'[s].is_active
       /\ session_table_'[s].session_key # session_table_[s].session_key
       => session_table_'[s].session_key \notin spent]_vars

\* The pool of engines and the table together keep the promises of
\* ZoneAuthentication: nodes do not disturb one another, the gate opens for live
\* sessions only, and an answer says what was done.
Stage(c) ==
  IF \E z \in ZoneSlot : slot_records_[z] = c
  THEN engines_[CHOOSE z \in ZoneSlot : slot_records_[z] = c].state ELSE "absent"
SessionKeyOf(c) ==
  IF \E s \in tlm_!Slots : session_table_[s].client_id = c /\ session_table_[s].is_active
  THEN session_table_[CHOOSE s \in tlm_!Slots :
         session_table_[s].client_id = c /\ session_table_[s].is_active].session_key
  ELSE ZeroKey
Abstract == INSTANCE ZoneAuthentication WITH
  Keys <- Derived,
  Capacity <- ZoneSlots,
  stage <- [c \in Clients |-> Stage(c)],
  session <- [c \in Clients |-> SessionKeyOf(c)],
  locked <- {c \in Clients : tlm_!IsLockedOut(c)},
  crowded <- tlm_!IsLockedOut(ZeroId),
  used <- spent,
  granted <- reply.key
ImplementsZoneAuthentication == Abstract!Spec

-----------------------------------------------------------------------------
(* What comments say of the composition, and the code does not do.         *)

\* hpp:358-363, cpp:10-13: when the manager expires a session, the engine of its
\* client is revoked or reset in the same call, so that the client can start over.
ExpiryRevokesEngine ==
  [][\A z \in ZoneSlot :
       OnSessionTick /\ SessionsOf(slot_records_[z]) # {} /\ SessionsOf(slot_records_[z])' = {}
       => engines_'[z].state \in {"kRevoked", "kUnauthenticated"}]_vars
=============================================================================
