------------------------- MODULE SpdmEngine_proofs -------------------------
(***************************************************************************)
(* What the handlers of SpdmEngine return, for every set of clients and    *)
(* peers and any number of nonces.  The engine alone and the adaptor's     *)
(* pool of engines are proved from these facts.                            *)
(***************************************************************************)
EXTENDS SpdmEngine, TLAPS

\* The statuses a handler may return.
HandlerStatuses ==
  {"kOk", "kInvalidState", "kAlreadyAuthenticated", "kVersionMismatch",
   "kSignatureInvalid", "kCryptoError", "kClientIdMismatch"}

\* What a new engine is.
LEMMA NewEngineFields ==
  /\ NewEngine \in Engine
  /\ NewEngine.state = "kUnauthenticated"
  /\ NewEngine.pending_nonce = ZeroNonce
  /\ NewEngine.pending_client_id = ZeroId
  /\ NewEngine.authenticated_client_id = ZeroId
BY DEF NewEngine, Engine, States

\* Revocation wipes the pending nonce and client and keeps the authenticated one.
LEMMA RevokedFields ==
  ASSUME NEW e \in Engine
  PROVE  /\ Revoked(e) \in Engine
         /\ Revoked(e).state = "kRevoked"
         /\ Revoked(e).pending_nonce = ZeroNonce
         /\ Revoked(e).pending_client_id = ZeroId
         /\ Revoked(e).authenticated_client_id = e.authenticated_client_id
BY DEF Revoked, SanitiseSecretMaterial, Engine, States

\* A reset wipes everything.
LEMMA ResetFields ==
  ASSUME NEW e \in Engine
  PROVE  /\ WasReset(e) \in Engine
         /\ WasReset(e).state = "kUnauthenticated"
         /\ WasReset(e).pending_nonce = ZeroNonce
         /\ WasReset(e).pending_client_id = ZeroId
         /\ WasReset(e).authenticated_client_id = ZeroId
BY DEF WasReset, SanitiseSecretMaterial, Engine, States

\* A request is refused, or meets a PAL fault before anything but the nonce is
\* written, or is accepted: then the engine waits for the answer of a peer to a
\* fresh nonce.
LEMMA RequestOutcome ==
  ASSUME NEW e \in Engine, NEW request, request.client_id \in Clients \cup {ZeroId},
         NEW fresh \in SUBSET Nonces, NEW o \in AuthRequestOutcomes(e, request, fresh)
  PROVE  /\ o.engine \in Engine
         /\ o.status \in HandlerStatuses
         /\ o.engine.authenticated_client_id = e.authenticated_client_id
         /\ \/ o.status # "kOk" /\ o.engine = e
            \/ /\ o.status # "kOk"
               /\ e.state = "kUnauthenticated" /\ o.engine.state = "kUnauthenticated"
               /\ o.engine.pending_nonce \in fresh
               /\ o.engine.pending_client_id = e.pending_client_id
            \/ /\ o.status = "kOk"
               /\ e.state = "kUnauthenticated" /\ o.engine.state = "kChallengeSent"
               /\ request.client_id \in Peers
               /\ o.engine.pending_nonce \in fresh
               /\ o.engine.pending_client_id = request.client_id
<1> USE DEF HandlerStatuses, Outcome
<1>1. CASE e.state # "kUnauthenticated"
  BY <1>1 DEF AuthRequestOutcomes
<1>2. CASE e.state = "kUnauthenticated" /\ ~request.version_ok
  BY <1>2 DEF AuthRequestOutcomes
<1>3. CASE e.state = "kUnauthenticated" /\ request.version_ok /\ ~(request.client_id \in Peers)
  BY <1>3 DEF AuthRequestOutcomes, FindPeerPublicKey
<1>4. CASE e.state = "kUnauthenticated" /\ request.version_ok /\ request.client_id \in Peers
  <2> DEFINE Faulty(n) == [e EXCEPT !.pending_nonce = n]
             Sent(n) == [e EXCEPT !.pending_nonce = n, !.pending_client_id = request.client_id,
                                  !.state = "kChallengeSent"]
  <2>1. \/ \E n \in fresh \cup {e.pending_nonce} : o = Outcome("kCryptoError", Faulty(n))
        \/ \E n \in fresh : o = Outcome("kOk", Sent(n))
    BY <1>4 DEF AuthRequestOutcomes, FindPeerPublicKey
  <2>2. ASSUME NEW n \in fresh, o = Outcome("kCryptoError", Faulty(n))
        PROVE  /\ o.engine \in Engine /\ o.status = "kCryptoError"
               /\ o.engine.authenticated_client_id = e.authenticated_client_id
               /\ o.engine.state = e.state /\ o.engine.pending_nonce = n
               /\ o.engine.pending_client_id = e.pending_client_id
    BY <2>2 DEF Engine
  <2>3. ASSUME o = Outcome("kCryptoError", Faulty(e.pending_nonce))
        PROVE  o.engine = e /\ o.status = "kCryptoError"
    BY <2>3 DEF Engine
  <2>4. ASSUME NEW n \in fresh, o = Outcome("kOk", Sent(n))
        PROVE  /\ o.engine \in Engine /\ o.status = "kOk"
               /\ o.engine.authenticated_client_id = e.authenticated_client_id
               /\ o.engine.state = "kChallengeSent" /\ o.engine.pending_nonce = n
               /\ o.engine.pending_client_id = request.client_id
    BY <2>4, PeerAssumption DEF Engine, States
  <2> HIDE DEF Faulty, Sent
  <2> QED
    BY <1>4, <2>1, <2>2, <2>3, <2>4
<1> QED
  BY <1>1, <1>2, <1>3, <1>4

\* A response finds no challenge open, or is rejected and the engine revoked, or
\* is the signature of the latched client over the pending nonce.
LEMMA ResponseOutcome ==
  ASSUME NEW e \in Engine, NEW response, response.client_id \in Clients \cup {ZeroId},
         NEW o \in AuthResponseOutcomes(e, response)
  PROVE  /\ o.engine \in Engine
         /\ o.status \in HandlerStatuses
         /\ \/ o.status # "kOk" /\ e.state # "kChallengeSent" /\ o.engine = e
            \/ o.status # "kOk" /\ e.state = "kChallengeSent" /\ o.engine = Revoked(e)
            \/ /\ o.status = "kOk"
               /\ e.state = "kChallengeSent" /\ o.engine.state = "kAuthenticated"
               /\ response.client_id \in Peers
               /\ response.client_id = e.pending_client_id
               /\ response.signature =
                    [nonce |-> e.pending_nonce, client |-> response.client_id]
               /\ o.engine.pending_nonce = e.pending_nonce
               /\ o.engine.pending_client_id = e.pending_client_id
               /\ o.engine.authenticated_client_id = response.client_id
<1> USE DEF HandlerStatuses, Outcome
<1> DEFINE Satisfied == [e EXCEPT !.authenticated_client_id = response.client_id,
                                  !.state = "kAuthenticated"]
           Proven == /\ response.client_id \in Peers
                     /\ response.client_id = e.pending_client_id
                     /\ response.signature =
                          [nonce |-> e.pending_nonce, client |-> response.client_id]
<1>1. \/ e.state # "kChallengeSent" /\ o = Outcome("kInvalidState", e)
      \/ /\ e.state = "kChallengeSent"
         /\ \E status \in HandlerStatuses \ {"kOk"} : o = Outcome(status, Revoked(e))
      \/ e.state = "kChallengeSent" /\ Proven /\ o = Outcome("kOk", Satisfied)
  BY DEF AuthResponseOutcomes, FindPeerPublicKey
<1>2. CASE e.state # "kChallengeSent" /\ o = Outcome("kInvalidState", e)
  BY <1>2
<1>3. ASSUME e.state = "kChallengeSent",
             NEW status \in HandlerStatuses \ {"kOk"}, o = Outcome(status, Revoked(e))
      PROVE  /\ o.engine \in Engine /\ o.engine = Revoked(e)
             /\ o.status \in HandlerStatuses \ {"kOk"}
  BY <1>3, RevokedFields
<1>4. ASSUME Proven
      PROVE  /\ Satisfied \in Engine
             /\ Satisfied.state = "kAuthenticated"
             /\ Satisfied.pending_nonce = e.pending_nonce
             /\ Satisfied.pending_client_id = e.pending_client_id
             /\ Satisfied.authenticated_client_id = response.client_id
  BY <1>4, PeerAssumption DEF Engine, States
<1>5. CASE e.state = "kChallengeSent" /\ Proven /\ o = Outcome("kOk", Satisfied)
  <2>1. o.engine = Satisfied /\ o.status = "kOk"
    BY <1>5
  <2> HIDE DEF Satisfied
  <2> QED
    BY <1>4, <1>5, <2>1
<1> QED
  BY <1>1, <1>2, <1>3, <1>5

\* An answer ends the wait for it, whatever it says.
LEMMA ResponseEndsWait ==
  ASSUME NEW e \in Engine, NEW response, response.client_id \in Clients \cup {ZeroId},
         NEW o \in AuthResponseOutcomes(e, response), e.state = "kChallengeSent"
  PROVE  o.engine = Revoked(e) \/ o.engine.state = "kAuthenticated"
<1>1. \/ \E status \in HandlerStatuses : o = Outcome(status, Revoked(e))
      \/ o = Outcome("kOk", [e EXCEPT !.authenticated_client_id = response.client_id,
                                     !.state = "kAuthenticated"])
  BY DEF AuthResponseOutcomes, HandlerStatuses
<1>2. ASSUME NEW status, o = Outcome(status, Revoked(e)) PROVE o.engine = Revoked(e)
  BY <1>2 DEF Outcome
<1>3. ASSUME o = Outcome("kOk", [e EXCEPT !.authenticated_client_id = response.client_id,
                                         !.state = "kAuthenticated"])
      PROVE  o.engine.state = "kAuthenticated"
  BY <1>3 DEF Outcome, Engine
<1> QED
  BY <1>1, <1>2, <1>3

\* What a response does to the stage of an engine: refused, it revokes the engine
\* if that was waiting; accepted, the engine was waiting.
LEMMA ResponseStage ==
  ASSUME NEW e \in Engine, NEW response, response.client_id \in Clients,
         NEW o \in AuthResponseOutcomes(e, response)
  PROVE  /\ o.status # "kOk" =>
              o.engine.state = IF e.state = "kChallengeSent" THEN "kRevoked" ELSE e.state
         /\ o.status = "kOk" => e.state = "kChallengeSent"
<1>1. response.client_id \in Clients \cup {ZeroId}
  OBVIOUS
<1>2. \/ o.status # "kOk" /\ e.state # "kChallengeSent" /\ o.engine = e
      \/ o.status # "kOk" /\ e.state = "kChallengeSent" /\ o.engine = Revoked(e)
      \/ o.status = "kOk" /\ e.state = "kChallengeSent"
  BY <1>1, ResponseOutcome
<1> QED
  BY <1>2, RevokedFields
=============================================================================
