---------------------------- MODULE SessionTable ----------------------------
(***************************************************************************)
(* What the token lifecycle manager promises its callers, without slots,   *)
(* anomaly counters or timestamps: the live sessions from the oldest to    *)
(* the newest, and the clients that are locked out for good, each of whom  *)
(* costs the table one session.  TokenLifecycleManager implements it.      *)
(***************************************************************************)
EXTENDS Fifo

CONSTANTS
  Clients, ZeroId, Keys, ZeroKey,
  Capacity,     \* sessions the table holds while nobody is locked out
  Lifetime,     \* a session up to this age validates
  Grace         \* how much longer than Lifetime a session may linger

VARIABLES
  sessions,     \* the live sessions, oldest first
  locked,       \* the clients locked out
  reply         \* the outcome of the last call

vars == <<sessions, locked, reply>>

Session == [client : Clients, key : Keys, age : Nat]

SessionsOf(c) == {i \in DOMAIN sessions : sessions[i].client = c}
ClientsOf(I) == {sessions[i].client : i \in I}

\* The queue without the sessions at the positions in I.
Drop(I) == Without(sessions, {sessions[i] : i \in I})

Returns(status, key, notified) ==
  reply' = [status |-> status, key |-> key, notified |-> notified]

Refuse(status) == Returns(status, ZeroKey, <<>>) /\ UNCHANGED <<sessions, locked>>

Init ==
  /\ sessions = <<>>
  /\ locked = {}
  /\ reply = [status |-> "none", key |-> ZeroKey, notified |-> <<>>]

\* A client has at most one session: a new one replaces it.  Another client's
\* session ends only when there is no room left, and then it is the oldest.
Register(c, k) ==
  LET others == Drop(SessionsOf(c))
      fresh == [client |-> c, key |-> k, age |-> 0]
      room == Capacity - Cardinality(locked)
  IN  \/ c = ZeroId /\ Refuse("kInvalidParam")
      \/ c # ZeroId /\ c \in locked /\ Refuse("kLockedOut")
      \/ /\ c # ZeroId /\ c \notin locked
         /\ UNCHANGED locked
         /\ \/ /\ Len(others) < room
               /\ sessions' = Append(others, fresh)
               /\ Returns("kOk", ZeroKey, IF SessionsOf(c) = {} THEN <<>> ELSE <<c>>)
            \/ /\ Len(others) = room /\ room > 0
               /\ sessions' = Append(Tail(sessions), fresh)
               /\ Returns("kOk", ZeroKey, <<Head(sessions).client>>)
            \/ room = 0 /\ Refuse("kTableFull")

\* Only the key of the client's own current session is handed out.
Validate(c) ==
  \/ c \in locked /\ Refuse("kLockedOut")
  \/ c \notin locked /\ SessionsOf(c) = {} /\ Refuse("kNotFound")
  \/ \E i \in SessionsOf(c) :
       \/ /\ sessions[i].age <= Lifetime
          /\ Returns("kOk", sessions[i].key, <<>>)
          /\ UNCHANGED <<sessions, locked>>
       \/ /\ sessions[i].age > Lifetime
          /\ sessions' = Drop({i})
          /\ Returns("kNotFound", ZeroKey, <<c>>)
          /\ UNCHANGED locked

\* The session ends; an anomaly may get the client locked out.  A client
\* without a session may be answered kOk and notified all the same.
Revoke(c, is_anomaly) ==
  \/ SessionsOf(c) = {} /\ Refuse("kNotFound")
  \/ /\ sessions' = Drop(SessionsOf(c))
     /\ locked' = locked \/ (is_anomaly /\ locked' = locked \cup {c})
     /\ Returns("kOk", ZeroKey, <<c>>)

\* Exactly the sessions past their lifetime end, each notified once.
Expire ==
  LET old == {i \in DOMAIN sessions : sessions[i].age > Lifetime} IN
  /\ sessions' = Drop(old)
  /\ reply' \in [status : {"none"}, key : {ZeroKey},
                 notified : [1 .. Cardinality(old) -> ClientsOf(old)]]
  /\ Elements(reply'.notified) = ClientsOf(old)
  /\ UNCHANGED locked

Age ==
  /\ \A i \in DOMAIN sessions : sessions[i].age < Lifetime + Grace
  /\ sessions' = [i \in DOMAIN sessions |-> [sessions[i] EXCEPT !.age = @ + 1]]
  /\ Returns("none", ZeroKey, <<>>)
  /\ UNCHANGED locked

Next ==
  \/ \E c \in Clients \cup {ZeroId}, k \in Keys : Register(c, k)
  \/ \E c \in Clients \cup {ZeroId} : Validate(c)
  \/ \E c \in Clients \cup {ZeroId}, is_anomaly \in BOOLEAN : Revoke(c, is_anomaly)
  \/ Expire
  \/ Age

Spec == Init /\ [][Next]_vars
=============================================================================
