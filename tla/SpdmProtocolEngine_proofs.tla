--------------------- MODULE SpdmProtocolEngine_proofs ---------------------
(***************************************************************************)
(* Theorems about one SpdmProtocolEngine under an unreliable network, for  *)
(* every set of clients and peers and any number of nonces.                *)
(*                                                                         *)
(* That an authenticated engine was answered by its peer is inductive only *)
(* together with the freshness of what the engine waits for: the challenge *)
(* that is open has been sent and has completed nothing, because a nonce   *)
(* is drawn once.                                                          *)
(***************************************************************************)
EXTENDS SpdmProtocolEngine, SpdmEngine_proofs

\* No nonce in use lies ahead of what the PAL has drawn.
NoncesDrawn ==
  /\ engine.pending_nonce <= drawn
  /\ \A h \in challenges : h.nonce <= drawn

\* An engine that waits, waits for a peer's answer to a challenge that was sent
\* and has not completed a handshake.
OpenChallengeFresh ==
  engine.state = "kChallengeSent" =>
    /\ engine.pending_client_id \in Peers
    /\ [nonce |-> engine.pending_nonce, client |-> engine.pending_client_id]
         \in challenges \ completed

IInv ==
  /\ TypeOK
  /\ AuthenticatedPeerProven
  /\ RevokedIsSanitised
  /\ NoncesDrawn
  /\ OpenChallengeFresh

-----------------------------------------------------------------------------
(* The invariant, handler by handler.                                      *)

\* Fresh holds the next nonce, as long as there is one.
LEMMA FreshIsNext ==
  ASSUME NEW n \in Fresh
  PROVE  n = drawn + 1 /\ n \in Nonces /\ Fresh \subseteq Nonces
BY DEF Fresh

LEMMA InitIInv == Init => IInv
<1> SUFFICES ASSUME Init PROVE IInv
  OBVIOUS
<1>1. /\ engine = NewEngine /\ drawn = 0 /\ challenges = {} /\ completed = {}
      /\ status = "none"
  BY DEF Init
<1>2. engine \in Engine /\ engine.state = "kUnauthenticated" /\ engine.pending_nonce = 0
  BY <1>1, NewEngineFields DEF ZeroNonce
<1>3. TypeOK
  BY <1>1, <1>2, NonceAssumption DEF TypeOK
<1>4. AuthenticatedPeerProven /\ RevokedIsSanitised /\ OpenChallengeFresh
  BY <1>2 DEF AuthenticatedPeerProven, RevokedIsSanitised, OpenChallengeFresh
<1>5. NoncesDrawn
  BY <1>1, <1>2 DEF NoncesDrawn
<1> QED
  BY <1>3, <1>4, <1>5 DEF IInv

\* A request opens a challenge with a nonce ahead of all that were drawn.
LEMMA RequestStep ==
  ASSUME IInv, NEW request \in Requests, ProcessAuthRequest(request)
  PROVE  IInv'
<1>1. TypeOK
  BY DEF IInv
<1>2. PICK o \in AuthRequestOutcomes(engine, request, Fresh) :
        /\ engine' = o.engine
        /\ status' = o.status
        /\ drawn' = IF o.engine.pending_nonce \in Fresh THEN drawn + 1 ELSE drawn
        /\ challenges' =
             IF o.status = "kOk"
             THEN challenges \cup {[nonce |-> o.engine.pending_nonce,
                                    client |-> request.client_id]}
             ELSE challenges
        /\ completed' = completed
  BY DEF ProcessAuthRequest
<1>3. /\ engine \in Engine /\ request.client_id \in Clients \cup {ZeroId}
      /\ Fresh \in SUBSET Nonces /\ drawn \in Nat /\ MaxNonces \in Nat
      /\ drawn <= MaxNonces
  BY <1>1, NonceAssumption DEF TypeOK, Requests, Fresh
<1>4. /\ o.engine \in Engine /\ o.status \in HandlerStatuses
      /\ \/ o.status # "kOk" /\ o.engine = engine
         \/ /\ o.status # "kOk"
            /\ engine.state = "kUnauthenticated" /\ o.engine.state = "kUnauthenticated"
            /\ o.engine.pending_nonce \in Fresh
         \/ /\ o.status = "kOk"
            /\ o.engine.state = "kChallengeSent"
            /\ request.client_id \in Peers
            /\ o.engine.pending_nonce \in Fresh
            /\ o.engine.pending_client_id = request.client_id
  BY <1>2, <1>3, RequestOutcome
<1>5. CASE o.status # "kOk" /\ o.engine = engine
  <2>1. engine.pending_nonce \notin Fresh
    BY <1>3 DEF IInv, NoncesDrawn, Fresh, Engine, Nonces, ZeroNonce
  <2>2. UNCHANGED <<engine, drawn, challenges, completed>> /\ status' \in HandlerStatuses
    BY <1>2, <1>4, <1>5, <2>1
  <2> QED
    BY <1>1, <2>2 DEF IInv, TypeOK, AuthenticatedPeerProven, RevokedIsSanitised,
                      NoncesDrawn, OpenChallengeFresh, HandlerStatuses
<1>6. CASE o.status # "kOk" /\ o.engine.state = "kUnauthenticated"
           /\ o.engine.pending_nonce \in Fresh
  <2>0. o.engine.pending_nonce = drawn + 1 /\ drawn + 1 \in Nonces
    BY <1>6, FreshIsNext
  <2>1. /\ engine'.state = "kUnauthenticated" /\ engine' \in Engine
        /\ engine'.pending_nonce = drawn + 1 /\ drawn' = drawn + 1
        /\ drawn' \in 0 .. MaxNonces
        /\ UNCHANGED <<challenges, completed>> /\ status' \in HandlerStatuses
    <3>1. engine' = o.engine /\ status' = o.status /\ drawn' = drawn + 1
      BY <1>2, <1>6
    <3>2. UNCHANGED <<challenges, completed>>
      BY <1>2, <1>6
    <3>3. drawn + 1 \in 0 .. MaxNonces
      BY <1>3, <2>0 DEF Nonces
    <3> QED
      BY <1>4, <1>6, <2>0, <3>1, <3>2, <3>3
  <2>2. TypeOK'
    BY <1>1, <2>1 DEF TypeOK, HandlerStatuses
  <2>3. AuthenticatedPeerProven' /\ RevokedIsSanitised' /\ OpenChallengeFresh'
    BY <2>1 DEF AuthenticatedPeerProven, RevokedIsSanitised, OpenChallengeFresh
  <2>4. \A h \in challenges : h.nonce \in Nat
    BY <1>1 DEF TypeOK, Derived, Nonces
  <2>5. NoncesDrawn'
    BY <1>3, <2>1, <2>4 DEF IInv, NoncesDrawn
  <2> QED
    BY <2>2, <2>3, <2>5 DEF IInv
<1>7. CASE /\ o.status = "kOk" /\ o.engine.state = "kChallengeSent"
           /\ request.client_id \in Peers
           /\ o.engine.pending_nonce \in Fresh
           /\ o.engine.pending_client_id = request.client_id
  <2> DEFINE h == [nonce |-> drawn + 1, client |-> request.client_id]
  <2>1. /\ engine'.state = "kChallengeSent" /\ engine' \in Engine
        /\ engine'.pending_nonce = drawn + 1 /\ drawn' = drawn + 1
        /\ engine'.pending_client_id = request.client_id
        /\ drawn' \in 0 .. MaxNonces /\ drawn + 1 \in Nonces
        /\ challenges' = challenges \cup {h}
        /\ UNCHANGED completed /\ status' \in HandlerStatuses
    <3>1. engine' = o.engine /\ status' = o.status /\ drawn' = drawn + 1
      BY <1>2, <1>7
    <3>2. o.engine.pending_nonce = drawn + 1 /\ drawn + 1 \in Nonces
      BY <1>7, FreshIsNext
    <3>3. drawn + 1 \in 0 .. MaxNonces
      BY <1>3, <3>2 DEF Nonces
    <3>4. UNCHANGED completed /\ challenges' = challenges \cup {h}
      BY <1>2, <1>7, <3>2
    <3> QED
      BY <1>4, <1>7, <3>1, <3>2, <3>3, <3>4
  <2>2. h \in Derived /\ h.nonce = drawn + 1
    BY <1>7, <2>1, PeerAssumption DEF Derived
  <2>3. h \notin challenges /\ h \notin completed
    BY <1>1, <1>3, <2>2 DEF IInv, NoncesDrawn, TypeOK
  <2> HIDE DEF h
  <2>4. TypeOK'
    BY <1>1, <2>1, <2>2 DEF TypeOK, HandlerStatuses
  <2>5. AuthenticatedPeerProven' /\ RevokedIsSanitised'
    BY <2>1 DEF AuthenticatedPeerProven, RevokedIsSanitised
  <2>6. OpenChallengeFresh'
    BY <1>7, <2>1, <2>3 DEF OpenChallengeFresh, h
  <2>7. \A g \in challenges : g.nonce \in Nat
    BY <1>1 DEF TypeOK, Derived, Nonces
  <2>8. NoncesDrawn'
    BY <1>3, <2>1, <2>2, <2>7 DEF IInv, NoncesDrawn
  <2> QED
    BY <2>4, <2>5, <2>6, <2>8 DEF IInv
<1> QED
  BY <1>4, <1>5, <1>6, <1>7

\* The client of a response is one there is.
LEMMA ResponseClient ==
  ASSUME NEW response \in Responses
  PROVE  response.client_id \in Clients \cup {ZeroId}
BY DEF Responses

\* A response completes the open challenge, or closes it for good.
LEMMA ResponseStep ==
  ASSUME IInv, NEW response \in Responses, ProcessAuthResponse(response)
  PROVE  IInv'
<1>1. TypeOK
  BY DEF IInv
<1>2. PICK o \in AuthResponseOutcomes(engine, response) :
        /\ engine' = o.engine
        /\ status' = o.status
        /\ completed' = IF o.status = "kOk" THEN completed \cup {response.signature}
                        ELSE completed
        /\ UNCHANGED <<drawn, challenges>>
  BY DEF ProcessAuthResponse
<1>3. engine \in Engine /\ drawn \in Nat
  BY <1>1, NonceAssumption DEF TypeOK
<1>4. /\ o.engine \in Engine /\ o.status \in HandlerStatuses
      /\ \/ o.status # "kOk" /\ o.engine = engine
         \/ o.status # "kOk" /\ o.engine = Revoked(engine)
         \/ /\ o.status = "kOk"
            /\ engine.state = "kChallengeSent" /\ o.engine.state = "kAuthenticated"
            /\ response.client_id \in Peers
            /\ response.client_id = engine.pending_client_id
            /\ response.signature =
                 [nonce |-> engine.pending_nonce, client |-> response.client_id]
            /\ o.engine.pending_nonce = engine.pending_nonce
            /\ o.engine.pending_client_id = engine.pending_client_id
            /\ o.engine.authenticated_client_id = response.client_id
  BY <1>2, <1>3, ResponseClient, ResponseOutcome
<1>5. CASE o.status # "kOk" /\ o.engine = engine
  BY <1>1, <1>2, <1>4, <1>5 DEF IInv, TypeOK, AuthenticatedPeerProven, RevokedIsSanitised,
                                NoncesDrawn, OpenChallengeFresh, HandlerStatuses
<1>6. CASE o.status # "kOk" /\ o.engine = Revoked(engine)
  <2>1. /\ engine' \in Engine /\ engine'.state = "kRevoked"
        /\ engine'.pending_nonce = ZeroNonce /\ engine'.pending_client_id = ZeroId
        /\ UNCHANGED <<drawn, challenges, completed>> /\ status' \in HandlerStatuses
    BY <1>2, <1>3, <1>4, <1>6, RevokedFields
  <2> QED
    BY <1>1, <1>3, <2>1 DEF IInv, TypeOK, AuthenticatedPeerProven, RevokedIsSanitised,
                            NoncesDrawn, OpenChallengeFresh, ZeroNonce, HandlerStatuses
<1>7. CASE o.status = "kOk"
  <2>1. /\ engine.state = "kChallengeSent" /\ engine'.state = "kAuthenticated"
        /\ engine' \in Engine /\ status' \in HandlerStatuses
        /\ response.client_id \in Peers
        /\ engine'.authenticated_client_id = response.client_id
        /\ engine'.pending_client_id = response.client_id
        /\ engine'.pending_nonce = engine.pending_nonce
        /\ response.signature =
             [nonce |-> engine.pending_nonce, client |-> engine.pending_client_id]
        /\ response.client_id = engine.pending_client_id
        /\ completed' = completed \cup {response.signature}
        /\ UNCHANGED <<drawn, challenges>>
    BY <1>2, <1>4, <1>7
  <2>2. response.signature \in challenges
    BY <2>1 DEF IInv, OpenChallengeFresh
  <2>3. TypeOK'
    BY <1>1, <2>1, <2>2 DEF TypeOK, HandlerStatuses
  <2>4. AuthenticatedPeerProven'
    BY <2>1 DEF AuthenticatedPeerProven
  <2>5. RevokedIsSanitised' /\ OpenChallengeFresh'
    BY <2>1 DEF RevokedIsSanitised, OpenChallengeFresh
  <2>6. NoncesDrawn'
    BY <2>1 DEF IInv, NoncesDrawn
  <2> QED
    BY <2>3, <2>4, <2>5, <2>6 DEF IInv
<1> QED
  BY <1>4, <1>5, <1>6, <1>7

\* Revoke and Reset wipe the challenge, whatever the engine was doing.
LEMMA WipingStep ==
  ASSUME IInv, engine' \in Engine, engine'.state \in {"kRevoked", "kUnauthenticated"},
         engine'.pending_nonce = ZeroNonce, engine'.pending_client_id = ZeroId,
         status' = "none", UNCHANGED <<drawn, challenges, completed>>
  PROVE  IInv'
<1>1. TypeOK'
  BY DEF IInv, TypeOK
<1>2. AuthenticatedPeerProven' /\ RevokedIsSanitised' /\ OpenChallengeFresh'
  BY DEF AuthenticatedPeerProven, RevokedIsSanitised, OpenChallengeFresh
<1>3. NoncesDrawn'
  BY NonceAssumption DEF IInv, TypeOK, NoncesDrawn, ZeroNonce
<1> QED
  BY <1>1, <1>2, <1>3 DEF IInv

LEMMA NextIInv == IInv /\ [Next]_vars => IInv'
<1> SUFFICES ASSUME IInv, [Next]_vars PROVE IInv'
  OBVIOUS
<1>1. engine \in Engine
  BY DEF IInv, TypeOK
<1>2. ASSUME NEW request \in Requests, ProcessAuthRequest(request) PROVE IInv'
  BY <1>2, RequestStep
<1>3. ASSUME NEW response \in Responses, ProcessAuthResponse(response) PROVE IInv'
  BY <1>3, ResponseStep
<1>4. CASE Revoke
  BY <1>1, <1>4, RevokedFields, WipingStep DEF Revoke
<1>5. CASE Reset
  BY <1>1, <1>5, ResetFields, WipingStep DEF Reset
<1>6. CASE UNCHANGED vars
  BY <1>6 DEF vars, IInv, TypeOK, AuthenticatedPeerProven, RevokedIsSanitised,
              NoncesDrawn, OpenChallengeFresh
<1> QED
  BY <1>2, <1>3, <1>4, <1>5, <1>6 DEF Next

-----------------------------------------------------------------------------
(* Theorems.                                                               *)

\* The invariant holds in every reachable state.
THEOREM Invariance == Spec => []IInv
<1>1. Init => IInv
  BY InitIInv
<1>2. IInv /\ [Next]_vars => IInv'
  BY NextIInv
<1> QED
  BY <1>1, <1>2, PTL DEF Spec

\* Every member of the engine stays within its type, also on the fault paths of
\* ProcessAuthRequest and ProcessAuthResponse.
THEOREM EngineTyped == Spec => []TypeOK
<1>1. IInv => TypeOK
  BY DEF IInv
<1> QED
  BY <1>1, Invariance, PTL

\* An engine is authenticated (cpp:188-199) only as the peer whose challenge was
\* sent and answered in this very handshake.
THEOREM AuthenticationProven == Spec => []AuthenticatedPeerProven
<1>1. IInv => AuthenticatedPeerProven
  BY DEF IInv
<1> QED
  BY <1>1, Invariance, PTL

\* A revoked engine holds neither a nonce nor a client (hpp:284).
THEOREM RevocationSanitises == Spec => []RevokedIsSanitised
<1>1. IInv => RevokedIsSanitised
  BY DEF IInv
<1> QED
  BY <1>1, Invariance, PTL

\* No response, however late or often it arrives, completes a second handshake.
THEOREM ChallengesUsedOnce == Spec => ChallengeUsedOnce
<1> DEFINE Once == \A response \in Responses :
                     ProcessAuthResponse(response) /\ status' = "kOk"
                       => response.signature \notin completed
<1>1. ASSUME IInv, NEW response \in Responses, ProcessAuthResponse(response), status' = "kOk"
      PROVE  response.signature \notin completed
  <2>1. PICK o \in AuthResponseOutcomes(engine, response) : status' = o.status
    BY <1>1 DEF ProcessAuthResponse
  <2>2. engine \in Engine
    BY <1>1 DEF IInv, TypeOK
  <2>3. response.client_id \in Clients \cup {ZeroId}
    BY ResponseClient
  <2>4. /\ o.status = "kOk"
        /\ \/ o.status # "kOk"
           \/ /\ engine.state = "kChallengeSent"
              /\ response.client_id = engine.pending_client_id
              /\ response.signature =
                   [nonce |-> engine.pending_nonce, client |-> response.client_id]
    BY <1>1, <2>1, <2>2, <2>3, ResponseOutcome
  <2> QED
    BY <1>1, <2>4 DEF IInv, OpenChallengeFresh
<1>2. IInv => Once
  BY <1>1
<1>3. IInv /\ [Next]_vars => [Once]_vars
  BY <1>2
<1> QED
  BY <1>3, Invariance, PTL DEF Spec, ChallengeUsedOnce

\* While the engine waits for an answer, no message changes what it waits for:
\* a second request is refused (cpp:64-72), a response ends the wait.
THEOREM ChallengesStable == Spec => ChallengeStable
<1> DEFINE Stable == engine.state = "kChallengeSent" /\ engine'.state = "kChallengeSent"
                       => engine' = engine
<1>1. ASSUME IInv, [Next]_vars PROVE Stable
  <2>1. engine \in Engine
    BY <1>1 DEF IInv, TypeOK
  <2>2. ASSUME NEW request \in Requests, ProcessAuthRequest(request) PROVE Stable
    <3>1. PICK o \in AuthRequestOutcomes(engine, request, Fresh) : engine' = o.engine
      BY <2>2 DEF ProcessAuthRequest
    <3>2. request.client_id \in Clients \cup {ZeroId} /\ Fresh \in SUBSET Nonces
      BY DEF Requests, Fresh
    <3>3. o.engine = engine \/ engine.state = "kUnauthenticated"
      BY <2>1, <3>1, <3>2, RequestOutcome
    <3> QED
      BY <3>1, <3>3
  <2>3. ASSUME NEW response \in Responses, ProcessAuthResponse(response) PROVE Stable
    <3>1. PICK o \in AuthResponseOutcomes(engine, response) : engine' = o.engine
      BY <2>3 DEF ProcessAuthResponse
    <3>2. response.client_id \in Clients \cup {ZeroId}
      BY ResponseClient
    <3>3. CASE engine.state = "kChallengeSent"
      <4>1. o.engine = Revoked(engine) \/ o.engine.state = "kAuthenticated"
        BY <2>1, <3>2, <3>3, ResponseEndsWait
      <4>2. Revoked(engine).state # "kChallengeSent"
        BY <2>1, RevokedFields
      <4> QED
        BY <3>1, <4>1, <4>2
    <3> QED
      BY <3>3
  <2>4. CASE Revoke
    BY <2>1, <2>4, RevokedFields DEF Revoke
  <2>5. CASE Reset
    BY <2>1, <2>5, ResetFields DEF Reset
  <2>6. CASE UNCHANGED vars
    BY <2>6 DEF vars
  <2> QED
    BY <1>1, <2>2, <2>3, <2>4, <2>5, <2>6 DEF Next
<1>2. IInv /\ [Next]_vars => [Stable]_vars
  BY <1>1
<1> QED
  BY <1>2, Invariance, PTL DEF Spec, ChallengeStable
=============================================================================
