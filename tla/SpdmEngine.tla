----------------------------- MODULE SpdmEngine -----------------------------
(***************************************************************************)
(* The handlers of SpdmProtocolEngine as operators on an engine's state:   *)
(* a record of the FSM state, the pending nonce and client id, and the     *)
(* authenticated client id.  A handler that calls the crypto PAL yields    *)
(* the set of its possible outcomes, since the PAL may report a fault.     *)
(* SpdmProtocolEngine runs one engine, SomeIpAdaptor a pool of them.       *)
(*                                                                         *)
(* Abstracted: a nonce is a number; the signature a zone node makes over   *)
(* SHA-256(nonce || client_id) with the key of client_id is the pair       *)
(* [nonce, client]; the session key HKDF derives from the same two inputs  *)
(* is that pair, too.  A request says whether its version is supported.    *)
(***************************************************************************)
EXTENDS Integers

CONSTANTS
  Clients,    \* client ids, other than the all-zero one
  ZeroId,     \* the all-zero client id
  Peers,      \* the clients in the peer key table
  MaxNonces   \* bound: the PAL draws at most this many nonces

ASSUME PeerAssumption == Peers \subseteq Clients /\ ZeroId \notin Clients
ASSUME NonceAssumption == MaxNonces \in Nat

States == {"kUnauthenticated", "kChallengeSent", "kAuthenticated", "kRevoked"}

\* 0 is an erased nonce.
ZeroNonce == 0
Nonces == 1 .. MaxNonces

\* Signatures and session keys; a signature over the erased nonce stands for
\* any that verifies for no nonce.
Derived == [nonce : Nonces, client : Clients]

Engine ==
  [state : States, pending_nonce : Nonces \cup {ZeroNonce},
   pending_client_id : Clients \cup {ZeroId}, authenticated_client_id : Clients \cup {ZeroId}]

NewEngine ==
  [state |-> "kUnauthenticated", pending_nonce |-> ZeroNonce,
   pending_client_id |-> ZeroId, authenticated_client_id |-> ZeroId]

\* Mutant: the nonce survives.
SanitisedKeepingNonce(e) == [e EXCEPT !.pending_client_id = ZeroId]

SanitiseSecretMaterial(e) ==
  [e EXCEPT !.pending_nonce = ZeroNonce, !.pending_client_id = ZeroId]

\* Revoke keeps authenticated_client_id_, Reset clears it.
Revoked(e) == [SanitiseSecretMaterial(e) EXCEPT !.state = "kRevoked"]

WasReset(e) ==
  [SanitiseSecretMaterial(e) EXCEPT !.state = "kUnauthenticated",
                                    !.authenticated_client_id = ZeroId]

Outcome(status, e) == [status |-> status, engine |-> e]

\* Mutant: the search runs over entries never filled in.
FindAnyPublicKey(c) == c # ZeroId

\* Whether the peer table has a key for the client.
FindPeerPublicKey(c) == c \in Peers

\* Mutant: a request restarts a handshake that is under way.
AuthRequestRestarting(e, request, fresh) ==
  IF e.state = "kAuthenticated" \/ ~FindPeerPublicKey(request.client_id)
  THEN {Outcome("kInvalidState", e)}
  ELSE {Outcome("kOk", [e EXCEPT !.state = "kChallengeSent", !.pending_nonce = n,
                                 !.pending_client_id = request.client_id]) : n \in fresh}

\* ProcessAuthRequest.  fresh holds the nonce the RNG draws, or nothing when
\* the bound is reached; on a fault the RNG may have written the nonce or not.
AuthRequestOutcomes(e, request, fresh) ==
  IF e.state # "kUnauthenticated"
  THEN {Outcome(IF e.state = "kAuthenticated" THEN "kAlreadyAuthenticated"
                ELSE "kInvalidState", e)}
  ELSE IF ~request.version_ok THEN {Outcome("kVersionMismatch", e)}
  ELSE IF ~FindPeerPublicKey(request.client_id) THEN {Outcome("kSignatureInvalid", e)}
  ELSE {Outcome("kCryptoError", [e EXCEPT !.pending_nonce = n]) :
          n \in fresh \cup {e.pending_nonce}}
       \cup {Outcome("kOk", [e EXCEPT !.pending_nonce = n,
                                      !.pending_client_id = request.client_id,
                                      !.state = "kChallengeSent"]) : n \in fresh}

\* Mutant: success leaves the engine in kChallengeSent.
AuthResponseStaying(e, response) ==
  IF e.state # "kChallengeSent" THEN {Outcome("kInvalidState", e)}
  ELSE IF response.signature = [nonce |-> e.pending_nonce, client |-> response.client_id]
  THEN {Outcome("kOk", [e EXCEPT !.authenticated_client_id = response.client_id])}
  ELSE {Outcome("kSignatureInvalid", Revoked(e))}

\* Mutant: the result of the verification is dropped.
AuthResponseUnverified(e, response) ==
  IF e.state # "kChallengeSent" THEN {Outcome("kInvalidState", e)}
  ELSE IF response.client_id # e.pending_client_id
  THEN {Outcome("kClientIdMismatch", Revoked(e))}
  ELSE {Outcome("kOk", [e EXCEPT !.authenticated_client_id = response.client_id,
                                 !.state = "kAuthenticated"])}

\* ProcessAuthResponse.  Digest, verification and key derivation may each end
\* in a PAL fault.
AuthResponseOutcomes(e, response) ==
  IF e.state # "kChallengeSent" THEN {Outcome("kInvalidState", e)}
  ELSE IF response.client_id # e.pending_client_id
  THEN {Outcome("kClientIdMismatch", Revoked(e))}
  ELSE IF ~FindPeerPublicKey(response.client_id) THEN {Outcome("kSignatureInvalid", Revoked(e))}
  ELSE {Outcome("kCryptoError", Revoked(e))} \cup
       IF response.signature = [nonce |-> e.pending_nonce, client |-> response.client_id]
       THEN {Outcome("kOk", [e EXCEPT !.authenticated_client_id = response.client_id,
                                      !.state = "kAuthenticated"])}
       ELSE {Outcome("kSignatureInvalid", Revoked(e))}
=============================================================================
