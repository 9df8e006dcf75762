-------------------------- MODULE AdaptorRecovery --------------------------
(***************************************************************************)
(* Whether a zone node always gets its session back: after a revocation,   *)
(* an expiry, a failed or lost handshake.  SomeIpAdaptor, with what its    *)
(* surroundings are relied on for:                                         *)
(*   - the SOME/IP stack goes on offering the nodes that are on the bus    *)
(*     (service discovery repeats its offers);                             *)
(*   - a node on the bus goes on asking for authentication, and answers    *)
(*     the challenges it gets; not all its frames are lost, and not every  *)
(*     call of the PAL ends in a fault;                                    *)
(*   - the periodic task runs and time goes on.                            *)
(* The adaptor may lose to any of them any number of times: a request and  *)
(* a response are enabled again and again, never for good, so their        *)
(* fairness is strong.  A nonce that no engine and no session holds, and   *)
(* whose frames the network has lost, may be drawn once more, so that the  *)
(* supply of nonces does not end.  A node may leave the bus for good; then *)
(* nothing in its name is relied on, though all of it may still come.      *)
(***************************************************************************)
EXTENDS SomeIpAdaptor

\* The pool has a zone slot for every node of the vehicle (hpp:50).
ASSUME NodesAssumption == IsFiniteSet(Clients) /\ Cardinality(Clients) <= ZoneSlots

VARIABLE gone   \* the nodes that have left the bus

recovery_vars == <<vars, gone>>

\* External: the frames of a challenge that is no longer answered are gone.
Forget(h) ==
  /\ h \in challenges
  /\ \A z \in ZoneSlot : engines_[z].pending_nonce # h.nonce
  /\ \A s \in tlm_!Slots : session_table_[s].session_key # h
  /\ challenges' = challenges \ {h}
  /\ spent' = spent \ {h}
  /\ answer' = "none"
  /\ WithoutTlm
  /\ UNCHANGED <<engines_, slot_records_>>

\* External: a node is switched off or unplugged.
Leave(c) == c \notin gone /\ gone' = gone \cup {c} /\ UNCHANGED vars

\* Nobody offers, asks for or revokes the all-zero id, which no node has.
NodeHooks ==
  \/ \E c \in Clients : OnPeerOffered(c)
  \/ \E request \in Requests : request.client_id \in Clients /\ OnAuthRequest(request)
  \/ \E response \in Responses : response.client_id \in Clients /\ OnAuthResponse(response)
  \/ OnSessionTick
  \/ \E c \in Clients : IsSessionActive(c)
  \/ \E c \in Clients, is_anomaly \in BOOLEAN : RevokeSession(c, is_anomaly)
  \/ TimePasses

RecoveryNext ==
  \/ NodeHooks /\ UNCHANGED gone
  \/ \E h \in challenges : Forget(h) /\ UNCHANGED gone
  \/ \E c \in Clients : Leave(c)

\* External: an offer that reaches an engine, a request it takes up, and a
\* response it is satisfied with.
Offered(c) == ReOffer(c) \/ AssignSlot(c)
Challenged(c) == OnAuthRequest([client_id |-> c, version_ok |-> TRUE]) /\ answer' = "kOk"
Proven(c) ==
  \E h \in challenges, z \in FindSlot(c) :
    AcceptedResponse(z, [client_id |-> c, signature |-> h])

\* What a node does while it is there.
Present(c, A) == c \notin gone /\ A /\ UNCHANGED gone

Fairness ==
  /\ \A c \in Peers :
       /\ WF_recovery_vars(Present(c, Offered(c)))
       /\ SF_recovery_vars(Present(c, Challenged(c)))
       /\ SF_recovery_vars(Present(c, Proven(c)))
  /\ WF_recovery_vars(OnSessionTick /\ UNCHANGED gone)
  /\ WF_recovery_vars(TimePasses /\ UNCHANGED gone)
  /\ \A n \in Nonces, c \in Clients :
       SF_recovery_vars(Forget([nonce |-> n, client |-> c]) /\ UNCHANGED gone)

RecoverySpec == Init /\ gone = {} /\ [][RecoveryNext]_recovery_vars /\ Fairness

-----------------------------------------------------------------------------
(* Correctness.                                                            *)

\* A node of the peer table that stays on the bus and is not locked out has a
\* session again and again: no revocation, expiry or failed handshake leaves its
\* engine in a state from which an offer, a request and a response do not lead
\* back (cpp:120-126, where an offer resets the engine).
SessionRegained ==
  \A c \in Peers : []<>(SessionsOf(c) # {} \/ tlm_!IsLockedOut(c) \/ c \in gone)

\* Nobody need ask or revoke: the session of a node that is never heard of again
\* ends, since the periodic task scans the table while time goes on (hpp:344-345).
SessionsDoNotLinger == tlm_!SessionsDoNotLinger
=============================================================================
