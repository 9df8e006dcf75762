------------------------- MODULE SpdmProtocolEngine -------------------------
(***************************************************************************)
(* One SpdmProtocolEngine and the messages that reach it.  Requests of any *)
(* client arrive at any time.  A zone node signs the challenges it is      *)
(* sent; its responses arrive late, repeatedly, out of order or never, and *)
(* so does a response with a signature that verifies for nothing.          *)
(***************************************************************************)
EXTENDS SpdmEngine

VARIABLES
  engine,     \* the engine's members
  drawn,      \* how many nonces the PAL has drawn: the next is drawn + 1
  challenges, \* history: the challenges sent, each [nonce, client]
  completed,  \* history: the challenges a handshake was completed with
  status      \* what the last handler returned

vars == <<engine, drawn, challenges, completed, status>>

Fresh == {n \in Nonces : n = drawn + 1}

TypeOK ==
  /\ engine \in Engine
  /\ drawn \in 0 .. MaxNonces
  /\ challenges \subseteq Derived
  /\ completed \subseteq challenges
  /\ status \in {"none", "kOk", "kInvalidState", "kAlreadyAuthenticated", "kVersionMismatch",
                 "kSignatureInvalid", "kCryptoError", "kClientIdMismatch"}

Init ==
  /\ engine = NewEngine
  /\ drawn = 0
  /\ challenges = {}
  /\ completed = {}
  /\ status = "none"

Requests == [client_id : Clients \cup {ZeroId}, version_ok : BOOLEAN]
Garbled == [nonce |-> ZeroNonce, client |-> ZeroId]
Responses == [client_id : Clients \cup {ZeroId}, signature : challenges \cup {Garbled}]

\* The RNG advances with every draw, whether the handshake goes on or not.
ProcessAuthRequest(request) ==
  \E o \in AuthRequestOutcomes(engine, request, Fresh) :
    /\ engine' = o.engine
    /\ status' = o.status
    /\ drawn' = IF o.engine.pending_nonce \in Fresh THEN drawn + 1 ELSE drawn
    /\ challenges' =
         IF o.status = "kOk"
         THEN challenges \cup {[nonce |-> o.engine.pending_nonce, client |-> request.client_id]}
         ELSE challenges
    /\ UNCHANGED completed

ProcessAuthResponse(response) ==
  \E o \in AuthResponseOutcomes(engine, response) :
    /\ engine' = o.engine
    /\ status' = o.status
    /\ completed' = IF o.status = "kOk" THEN completed \cup {response.signature} ELSE completed
    /\ UNCHANGED <<drawn, challenges>>

Revoke ==
  /\ engine' = Revoked(engine)
  /\ status' = "none"
  /\ UNCHANGED <<drawn, challenges, completed>>

Reset ==
  /\ engine' = WasReset(engine)
  /\ status' = "none"
  /\ UNCHANGED <<drawn, challenges, completed>>

Next ==
  \/ \E request \in Requests : ProcessAuthRequest(request)
  \/ \E response \in Responses : ProcessAuthResponse(response)
  \/ Revoke
  \/ Reset

Spec == Init /\ [][Next]_vars

-----------------------------------------------------------------------------
\* An authenticated engine answered for a peer in the table, with the challenge
\* of the request that is latched: the identity, the nonce and the request are
\* those of one handshake.
AuthenticatedPeerProven ==
  engine.state = "kAuthenticated" =>
    /\ engine.authenticated_client_id \in Peers
    /\ engine.authenticated_client_id = engine.pending_client_id
    /\ [nonce |-> engine.pending_nonce, client |-> engine.authenticated_client_id] \in completed

\* A challenge completes at most one handshake, however often its response
\* arrives and whatever happens in between.
ChallengeUsedOnce ==
  [][\A response \in Responses :
       ProcessAuthResponse(response) /\ status' = "kOk" => response.signature \notin completed]_vars

\* While the engine waits for an answer, no message changes what it waits for.
ChallengeStable ==
  [][engine.state = "kChallengeSent" /\ engine'.state = "kChallengeSent"
       => engine' = engine]_vars

\* A revoked engine holds neither a nonce (hpp:284) nor the id of a client whose
\* answer it waits for.
RevokedIsSanitised ==
  engine.state = "kRevoked" =>
    engine.pending_nonce = ZeroNonce /\ engine.pending_client_id = ZeroId
=============================================================================
