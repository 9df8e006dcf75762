------------------------- MODULE ZoneAuthentication -------------------------
(***************************************************************************)
(* What SomeIpAdaptor promises the gateway, without slots, timestamps and  *)
(* anomaly counters: per zone node how far its handshake has come, the key *)
(* of its session, and whether it is locked out.  A hook touches the node  *)
(* it names and no other.  The one exception is `crowded': when the id of  *)
(* no node, the all-zero one, has been locked out (RevokeSession does not  *)
(* reject it), a table slot is lost, and a new session may cost another    *)
(* node its own or find no room.                                           *)
(***************************************************************************)
EXTENDS Integers, FiniteSets

CONSTANTS
  Clients, ZeroId, Peers,
  Keys,          \* session keys, each made for one client
  ZeroKey,
  Capacity       \* nodes that can be offered

VARIABLES
  stage,         \* "absent" until a node is offered, then the state of its handshake
  session,       \* the key of each node's session, ZeroKey for none
  locked,        \* the nodes locked out for good
  crowded,       \* a table slot is lost
  used,          \* the keys of all sessions there ever were
  answer,        \* what the last hook returned
  granted        \* the key it handed out, ZeroKey for none

vars == <<stage, session, locked, crowded, used, answer, granted>>

Offered == {c \in Clients : stage[c] # "absent"}
Answers(status, key) == answer' = status /\ granted' = key
Refuse(status) ==
  Answers(status, ZeroKey) /\ UNCHANGED <<stage, session, locked, crowded, used>>

Init ==
  /\ stage = [c \in Clients |-> "absent"]
  /\ session = [c \in Clients |-> ZeroKey]
  /\ locked = {}
  /\ crowded = FALSE
  /\ used = {}
  /\ answer = "none"
  /\ granted = ZeroKey

\* The handshake starts over; a session there is goes on.
Offer(c) ==
  \/ c = ZeroId /\ Refuse("kInvalidParam")
  \/ c \in locked /\ Refuse("kLockedOut")
  \/ c \in Clients \ Offered /\ Cardinality(Offered) = Capacity /\ Refuse("kSlotExhausted")
  \/ /\ Answers("kOk", ZeroKey)
     /\ c \in Clients \ locked
     /\ c \in Offered \/ Cardinality(Offered) < Capacity
     /\ stage' = [stage EXCEPT ![c] = "kUnauthenticated"]
     /\ UNCHANGED <<session, locked, crowded, used>>

Unheard(c) == c \notin Offered /\ Refuse("kUnknownPeer")

Request(c) ==
  \/ Unheard(c)
  \/ c \in Offered /\ Refuse("kProtocolError")
  \/ /\ Answers("kOk", ZeroKey)
     /\ c \in Offered \cap Peers
     /\ stage[c] = "kUnauthenticated"
     /\ stage' = [stage EXCEPT ![c] = "kChallengeSent"]
     /\ UNCHANGED <<session, locked, crowded, used>>

\* What a failed response costs: the session, perhaps the lockout.
Fail(c) ==
  /\ Answers("kProtocolError", ZeroKey)
  /\ c \in Offered
  /\ stage' = [stage EXCEPT ![c] = IF @ = "kChallengeSent" THEN "kRevoked" ELSE @]
  /\ session' = [session EXCEPT ![c] = ZeroKey]
  /\ locked' \in {locked, locked \cup {c}}
  /\ UNCHANGED <<crowded, used>>

\* A node with an open challenge gets a session under a key never used before.
Complete(c) ==
  /\ Answers("kOk", ZeroKey)
  /\ c \in (Offered \cap Peers) \ locked
  /\ stage[c] = "kChallengeSent"
  /\ stage' = [stage EXCEPT ![c] = "kAuthenticated"]
  /\ \E k \in Keys \ used :
       /\ k.client = c
       /\ used' = used \cup {k}
       /\ \/ session' = [session EXCEPT ![c] = k]
          \/ /\ crowded
             /\ \E d \in Clients \ {c} : session' = [session EXCEPT ![c] = k, ![d] = ZeroKey]
  /\ UNCHANGED <<locked, crowded>>

\* The handshake succeeds and the table refuses the session.
Turn(c) ==
  /\ \/ Answers("kLockedOut", ZeroKey) /\ c \in locked
     \/ Answers("kSessionError", ZeroKey) /\ c \notin locked /\ crowded
  /\ c \in Offered
  /\ stage[c] = "kChallengeSent"
  /\ stage' = [stage EXCEPT ![c] = "kRevoked"]
  /\ UNCHANGED <<session, locked, crowded, used>>

Respond(c) == Unheard(c) \/ Fail(c) \/ Complete(c) \/ Turn(c)

\* The gate opens for a session there is, with its key, and for nothing else.
Gate(c) ==
  \/ (c \in locked \/ (c = ZeroId /\ crowded)) /\ Refuse("kLockedOut")
  \/ c \notin locked /\ (c = ZeroId \/ session[c] = ZeroKey) /\ Refuse("kNotAuthenticated")
  \/ /\ c \in Clients /\ session[c] # ZeroKey
     /\ \/ Answers("kOk", session[c]) /\ UNCHANGED session
        \/ /\ Answers("kNotAuthenticated", ZeroKey)
           /\ session' = [session EXCEPT ![c] = ZeroKey]
     /\ UNCHANGED <<stage, locked, crowded, used>>

\* A revocation may be the anomaly that locks the node out.
Revoke(c) ==
  /\ \/ Answers("kOk", ZeroKey)
     \/ Answers("kUnknownPeer", ZeroKey) /\ (c = ZeroId \/ session[c] = ZeroKey)
  /\ IF c = ZeroId
     THEN /\ crowded' \in {crowded, TRUE}
          /\ UNCHANGED <<stage, session, locked>>
     ELSE /\ stage' = [stage EXCEPT ![c] = IF @ = "absent" THEN @ ELSE "kRevoked"]
          /\ session' = [session EXCEPT ![c] = ZeroKey]
          /\ locked' \in {locked, locked \cup {c}}
          /\ UNCHANGED crowded
  /\ UNCHANGED used

\* Sessions come to the end of their lifetime, or nothing happens but time.
Tick ==
  /\ Answers("none", ZeroKey)
  /\ \E E \in SUBSET Clients :
       session' = [c \in Clients |-> IF c \in E THEN ZeroKey ELSE session[c]]
  /\ UNCHANGED <<stage, locked, crowded, used>>

Next ==
  \/ \E c \in Clients \cup {ZeroId} :
       Offer(c) \/ Request(c) \/ Respond(c) \/ Gate(c) \/ Revoke(c)
  \/ Refuse("kInvalidFrame")
  \/ Tick

Spec == Init /\ [][Next]_vars
=============================================================================
