----------------------- MODULE TokenLifecycleManager -----------------------
(***************************************************************************)
(* The session table of TokenLifecycleManager.{hpp,cpp}: one action per    *)
(* public operation, one for the passage of time.  Calls are serialised by *)
(* the integrator (SomeIpAdaptor.hpp:181-184), so each call is one step.                 *)
(*                                                                         *)
(* Abstracted: session_key stands for the key and the nonce of a slot,     *)
(* which are always written together; last_seen_ms is left out, the code   *)
(* writes it and never reads it; ValidateToken is always called with a     *)
(* key_out.  A client id is a model value, ZeroId the all-zero id of a     *)
(* slot never used.  Time is counted in units; kTokenLifetimeMs is the     *)
(* lifetime in these units.                                                *)
(***************************************************************************)
EXTENDS Fifo

CONSTANTS
  Clients,             \* the client ids, other than the all-zero one
  ZeroId,              \* the all-zero client id
  Keys,                \* the session keys handshakes produce
  ZeroKey,             \* an erased key
  kMaxActiveSessions,  \* number of slots of the table
  kTokenLifetimeMs,    \* a session older than this is expired
  kMaxAnomalyCount,    \* anomalies that lock a slot
  CounterMax,          \* where the anomaly counter saturates: 0xFF
  TickPeriod,          \* at most this long between two expiry scans
  TimeModulus          \* timestamps are taken modulo this: 2^64

ASSUME IdAssumption == ZeroId \notin Clients /\ ZeroKey \notin Keys
ASSUME SizeAssumption == kMaxActiveSessions \in Nat \ {0}
ASSUME AnomalyAssumption ==
  kMaxAnomalyCount \in Nat \ {0} /\ CounterMax \in Nat /\ kMaxAnomalyCount <= CounterMax
ASSUME TimeAssumption ==
  /\ kTokenLifetimeMs \in Nat /\ TickPeriod \in Nat /\ TimeModulus \in Nat
  /\ TickPeriod > 0 /\ kTokenLifetimeMs + TickPeriod < TimeModulus

VARIABLES
  session_table_,      \* the slots
  insertion_order_,    \* the slots with a session, oldest session first
  now,                 \* the time the callers pass as current_time_ms
  since_scan,          \* time since the last EvaluateTokenExpiry
  real_age,            \* history: how long ago the session of a slot was issued
  reply                \* what the last call returned and whom it notified

vars == <<session_table_, insertion_order_, now, since_scan, real_age, reply>>

Ids == Clients \cup {ZeroId}
Slots == 0 .. (kMaxActiveSessions - 1)

\* real_age stops counting here, above every age a session reaches.
RealAgeBound == kTokenLifetimeMs + TickPeriod + 1

\* What a call returns, and the clients its revocation callbacks name, in order.
Statuses == {"none", "kOk", "kTableFull", "kNotFound", "kLockedOut", "kInvalidParam"}
Returns(status, key, notified) ==
  reply' = [status |-> status, key |-> key, notified |-> notified]

EmptySlot ==
  [client_id |-> ZeroId, session_key |-> ZeroKey, issued_at_ms |-> 0,
   anomaly_count |-> 0, is_active |-> FALSE, is_locked_out |-> FALSE]

Init ==
  /\ session_table_ = [s \in Slots |-> EmptySlot]
  /\ insertion_order_ = <<>>
  /\ now \in 0 .. (TimeModulus - 1)
  /\ since_scan = 0
  /\ real_age = [s \in Slots |-> 0]
  /\ reply = [status |-> "none", key |-> ZeroKey, notified |-> <<>>]

-----------------------------------------------------------------------------
(* Helpers: lookups, and the end of a session.                             *)

Lowest(S) == CHOOSE s \in S : \A t \in S : s <= t

Matches(c) == {s \in Slots : session_table_[s].client_id = c}
FindSlotByClientId(c) == Lowest(Matches(c))
\* Mutant: the lookup of the lockout skips slots without a session.
IsLockedOutIfActive(c) ==
  \E s \in Matches(c) : session_table_[s].is_active /\ session_table_[s].is_locked_out

IsLockedOut(c) ==
  Matches(c) # {} /\ session_table_[FindSlotByClientId(c)].is_locked_out

\* The slot in which an operation that looks c up finds a session, if any.
LiveSlot(c) ==
  {s \in Matches(c) : s = FindSlotByClientId(c) /\ session_table_[s].is_active}

\* Mutant: a clock behind the time of issue counts as no time at all.
AgeSaturating(s) ==
  IF now >= session_table_[s].issued_at_ms THEN now - session_table_[s].issued_at_ms ELSE 0

Age(s) == (now - session_table_[s].issued_at_ms) % TimeModulus

\* Mutant: a session whose age is just the lifetime is expired.
IsExpiredEarly(s) == Age(s) >= kTokenLifetimeMs

IsExpired(s) == Age(s) > kTokenLifetimeMs

\* For a mutant: a session's end without the erasure.
EndedWithSecrets(slot) == [slot EXCEPT !.issued_at_ms = 0, !.is_active = FALSE]

\* ZeroSlotSecrets and is_active = false: a slot without its session.  The
\* client id and the anomaly state stay.
Ended(slot) ==
  [slot EXCEPT !.session_key = ZeroKey, !.issued_at_ms = 0, !.is_active = FALSE]

\* The table after the sessions of the slots in D have ended.
TableWithout(D) ==
  [s \in Slots |-> IF s \in D THEN Ended(session_table_[s]) ELSE session_table_[s]]

\* Mutant: the circular buffer keeps the slots.
EndSessionsKeepingOrder(D) ==
  /\ session_table_' = TableWithout(D)
  /\ real_age' = [s \in Slots |-> IF s \in D THEN 0 ELSE real_age[s]]
  /\ UNCHANGED insertion_order_

\* The whole effect of ending the sessions of D, but for the reply.
EndSessions(D) ==
  /\ session_table_' = TableWithout(D)
  /\ insertion_order_' = Without(insertion_order_, D)
  /\ real_age' = [s \in Slots |-> IF s \in D THEN 0 ELSE real_age[s]]

Refuse(status) ==
  /\ Returns(status, ZeroKey, <<>>)
  /\ UNCHANGED <<session_table_, insertion_order_, now, since_scan, real_age>>

-----------------------------------------------------------------------------
(* RegisterToken.                                                          *)

\* Mutant: a locked slot is free as soon as its session has ended.
FreeSlotsLockedToo(c) ==
  {s \in Slots : ~session_table_[s].is_active \/ s \in LiveSlot(c)}

\* Mutant: the search runs before the client's own session has ended.
FreeSlotsAsFound(c) ==
  {s \in Slots : ~session_table_[s].is_active /\ ~session_table_[s].is_locked_out}

\* The slots FindFreeSlot may pick once c's own live session has ended.
FreeSlots(c) ==
  {s \in Slots : /\ ~session_table_[s].is_active \/ s \in LiveSlot(c)
                 /\ ~session_table_[s].is_locked_out}

\* Mutant: the search runs from the other end of the table.
FindFreeSlotFromEnd(c) == CHOOSE s \in FreeSlots(c) : \A t \in FreeSlots(c) : s >= t

FindFreeSlot(c) == Lowest(FreeSlots(c))

\* The slot target gets c's session; its anomaly state is the slot's, kept.
Occupy(table, target, c, k) ==
  [table EXCEPT ![target].client_id = c,
                ![target].session_key = k,
                ![target].issued_at_ms = now,
                ![target].is_active = TRUE]

RejectRegistration(c) ==
  \/ c = ZeroId /\ Refuse("kInvalidParam")
  \/ c # ZeroId /\ IsLockedOut(c) /\ Refuse("kLockedOut")

\* Mutant: a client that has a session keeps it, and its key.
RegisterKeepingSession(c, k) ==
  /\ c # ZeroId /\ ~IsLockedOut(c)
  /\ FreeSlots(c) # {} /\ LiveSlot(c) # {}
  /\ Returns("kOk", ZeroKey, <<>>)
  /\ UNCHANGED <<session_table_, insertion_order_, now, since_scan, real_age>>

RegisterOnlyNewcomers(c, k) ==
  \/ RegisterKeepingSession(c, k)
  \/ /\ c # ZeroId /\ ~IsLockedOut(c)
     /\ FreeSlots(c) # {} /\ LiveSlot(c) = {}
     /\ session_table_' = Occupy(session_table_, FindFreeSlot(c), c, k)
     /\ insertion_order_' = Append(insertion_order_, FindFreeSlot(c))
     /\ real_age' = [real_age EXCEPT ![FindFreeSlot(c)] = 0]
     /\ Returns("kOk", ZeroKey, <<>>)
     /\ UNCHANGED <<now, since_scan>>

\* A slot is free, if need be the one c's previous session held.
RegisterInFreeSlot(c, k) ==
  LET target == FindFreeSlot(c) IN
  /\ c # ZeroId /\ ~IsLockedOut(c)
  /\ FreeSlots(c) # {}
  /\ session_table_' = Occupy(TableWithout(LiveSlot(c)), target, c, k)
  /\ insertion_order_' =
       Pushed(Without(insertion_order_, LiveSlot(c)), kMaxActiveSessions, target)
  /\ real_age' = [s \in Slots |-> IF s = target \/ s \in LiveSlot(c) THEN 0 ELSE real_age[s]]
  /\ Returns("kOk", ZeroKey, IF LiveSlot(c) = {} THEN <<>> ELSE <<c>>)
  /\ UNCHANGED <<now, since_scan>>

\* No slot is free: the session at the head of the insertion order makes room.
RegisterByEviction(c, k) ==
  LET target == Head(insertion_order_) IN
  /\ c # ZeroId /\ ~IsLockedOut(c)
  /\ FreeSlots(c) = {}
  /\ insertion_order_ # <<>>
  /\ session_table_' = Occupy(TableWithout({target}), target, c, k)
  /\ insertion_order_' = Pushed(Tail(insertion_order_), kMaxActiveSessions, target)
  /\ real_age' = [real_age EXCEPT ![target] = 0]
  /\ Returns("kOk", ZeroKey, <<session_table_[target].client_id>>)
  /\ UNCHANGED <<now, since_scan>>

\* No slot is free and no session is left to evict.
RegisterTableFull(c) ==
  /\ c # ZeroId /\ ~IsLockedOut(c)
  /\ FreeSlots(c) = {}
  /\ insertion_order_ = <<>>
  /\ Refuse("kTableFull")

RegisterToken(c, k) ==
  \/ RejectRegistration(c)
  \/ RegisterInFreeSlot(c, k)
  \/ RegisterByEviction(c, k)
  \/ RegisterTableFull(c)

-----------------------------------------------------------------------------
(* ValidateToken.                                                          *)

ValidateToken(c) ==
  \/ IsLockedOut(c) /\ Refuse("kLockedOut")
  \/ ~IsLockedOut(c) /\ LiveSlot(c) = {} /\ Refuse("kNotFound")
  \/ \E s \in LiveSlot(c) :
       /\ ~IsLockedOut(c)
       /\ IsExpired(s)
       /\ EndSessions({s})
       /\ Returns("kNotFound", ZeroKey, <<c>>)
       /\ UNCHANGED <<now, since_scan>>
  \/ \E s \in LiveSlot(c) :
       /\ ~IsLockedOut(c)
       /\ ~IsExpired(s)
       /\ Returns("kOk", session_table_[s].session_key, <<>>)
       /\ UNCHANGED <<session_table_, insertion_order_, now, since_scan, real_age>>

-----------------------------------------------------------------------------
(* RevokeToken: ends whatever the first slot with the id holds, session or *)
(* not, and counts the anomaly there.                                      *)

\* Mutant: the counter does not saturate.
StruckUnbounded(slot) ==
  [slot EXCEPT !.anomaly_count = @ + 1,
               !.is_locked_out = @ \/ slot.anomaly_count + 1 >= kMaxAnomalyCount]

Struck(slot) ==
  LET count == slot.anomaly_count + 1 IN
  IF slot.anomaly_count < CounterMax
  THEN [slot EXCEPT !.anomaly_count = count,
                    !.is_locked_out = @ \/ count >= kMaxAnomalyCount]
  ELSE slot

RevokeToken(c, is_anomaly) ==
  \/ Matches(c) = {} /\ Refuse("kNotFound")
  \/ LET s == FindSlotByClientId(c) IN
     /\ Matches(c) # {}
     /\ session_table_' =
          [TableWithout({s}) EXCEPT ![s] = IF is_anomaly THEN Struck(@) ELSE @]
     /\ insertion_order_' = Without(insertion_order_, {s})
     /\ real_age' = [real_age EXCEPT ![s] = 0]
     /\ Returns("kOk", ZeroKey, <<c>>)
     /\ UNCHANGED <<now, since_scan>>

-----------------------------------------------------------------------------
(* EvaluateTokenExpiry, and time.                                          *)

\* Mutant: the loop stops one slot short.
ExpiredButLast ==
  {s \in 0 .. (kMaxActiveSessions - 2) : session_table_[s].is_active /\ IsExpired(s)}

Expired == {s \in Slots : session_table_[s].is_active /\ IsExpired(s)}

\* Mutant: the id captured for the first expired session names all of them.
ClientsOfFirst(D) ==
  [i \in 1 .. Cardinality(D) |-> session_table_[Ascending(D)[1]].client_id]

\* The clients of the slots in D, in the order of the slots.
ClientsOf(D) ==
  [i \in 1 .. Cardinality(D) |-> session_table_[Ascending(D)[i]].client_id]

\* Mutant: the scan, of all paths, forgets to erase.
EvaluateTokenExpiryUnerased ==
  /\ session_table_' = [s \in Slots |-> IF s \in Expired THEN EndedWithSecrets(session_table_[s])
                                        ELSE session_table_[s]]
  /\ insertion_order_' = Without(insertion_order_, Expired)
  /\ real_age' = [s \in Slots |-> IF s \in Expired THEN 0 ELSE real_age[s]]
  /\ Returns("none", ZeroKey, ClientsOf(Expired))
  /\ since_scan' = 0
  /\ UNCHANGED now

EvaluateTokenExpiry ==
  /\ EndSessions(Expired)
  /\ Returns("none", ZeroKey, ClientsOf(Expired))
  /\ since_scan' = 0
  /\ UNCHANGED now

\* A unit of time passes.  The scan is called at its documented rate
\* (hpp:344-345), so that no more than TickPeriod passes between two scans.
TimePasses ==
  /\ since_scan < TickPeriod
  /\ now' = (now + 1) % TimeModulus
  /\ since_scan' = since_scan + 1
  /\ real_age' =
       [s \in Slots |-> IF session_table_[s].is_active /\ real_age[s] < RealAgeBound
                       THEN real_age[s] + 1 ELSE real_age[s]]
  /\ Returns("none", ZeroKey, <<>>)
  /\ UNCHANGED <<session_table_, insertion_order_>>

Next ==
  \/ \E c \in Ids, k \in Keys : RegisterToken(c, k)
  \/ \E c \in Ids : ValidateToken(c)
  \/ \E c \in Ids, is_anomaly \in BOOLEAN : RevokeToken(c, is_anomaly)
  \/ EvaluateTokenExpiry
  \/ TimePasses

Spec == Init /\ [][Next]_vars

-----------------------------------------------------------------------------
(* Correctness.                                                            *)

ActiveSlots == {s \in Slots : session_table_[s].is_active}

SlotType ==
  [client_id : Ids, session_key : Keys \cup {ZeroKey}, issued_at_ms : 0 .. (TimeModulus - 1),
   anomaly_count : 0 .. CounterMax, is_active : BOOLEAN, is_locked_out : BOOLEAN]

TypeOK ==
  /\ session_table_ \in [Slots -> SlotType]
  /\ insertion_order_ \in Seq(Slots)
  /\ now \in 0 .. (TimeModulus - 1)
  /\ since_scan \in 0 .. TickPeriod
  /\ real_age \in [Slots -> Nat]
  /\ reply \in [status : Statuses, key : Keys \cup {ZeroKey}, notified : Seq(Ids)]

\* The circular buffer and the table stay in step: the buffer holds the slots
\* with a live session, each once.  Were one missing it could never be evicted;
\* were one there twice, or stale, an eviction would hit the wrong session, and
\* Push, whose failure RegisterToken ignores (cpp:128), could be refused.
OrderMatchesTable ==
  Distinct(insertion_order_) /\ Elements(insertion_order_) = ActiveSlots

\* The buffer is sorted by the age of the sessions, so that the head, which
\* RegisterToken evicts, is the oldest session (hpp:291-292).
OldestFirst ==
  \A i, j \in DOMAIN insertion_order_ :
    i < j => real_age[insertion_order_[i]] >= real_age[insertion_order_[j]]

\* FindSlotByClientId stops at the first slot with the id, and slots remember the
\* ids of sessions long gone: every live session is nevertheless the one the
\* lookup of its client finds, so no session is out of reach of ValidateToken
\* and RevokeToken, and no client has two.
SessionsReachable ==
  \A s \in ActiveSlots : FindSlotByClientId(session_table_[s].client_id) = s

\* A client with a locked slot has no live session in any slot.
NoSessionWhileLocked ==
  \A s, t \in Slots :
    /\ session_table_[s].is_locked_out
    /\ session_table_[t].client_id = session_table_[s].client_id
    => ~session_table_[t].is_active

\* The age the code computes from two timestamps is the time that has really
\* passed, also when the clock wrapped in between: "the subtraction remains correct"
\* (cpp:239-240), and a session that is young when the clock wraps lives on.  That the
\* age is then large, as the same comment goes on, is WrapExpires below.
AgeExact == \A s \in ActiveSlots : Age(s) = real_age[s]

\* No session outlives its lifetime by more than the time since the last scan.
StaleWindowBounded ==
  \A s \in ActiveSlots : real_age[s] <= kTokenLifetimeMs + since_scan

\* A slot without a session holds neither its key nor its nonce.
SecretsErased ==
  \A s \in Slots \ ActiveSlots : session_table_[s].session_key = ZeroKey

\* Once locked out, a client stays locked out, whatever sessions come and go.
LockoutPermanent == [][\A c \in Ids : IsLockedOut(c) => IsLockedOut(c)']_vars

\* A session that ends, on whichever path, is notified to the owner exactly once.
SessionEnded(s) ==
  /\ s \in ActiveSlots
  /\ \/ ~session_table_'[s].is_active
     \/ session_table_'[s].client_id # session_table_[s].client_id
     \/ session_table_'[s].issued_at_ms # session_table_[s].issued_at_ms
NotifiedOnce ==
  [][\A s \in Slots : SessionEnded(s) =>
       Cardinality({i \in DOMAIN reply'.notified :
                      reply'.notified[i] = session_table_[s].client_id}) = 1]_vars

\* A session neither validated nor revoked ends all the same, or is issued anew.
SessionsDoNotLinger == \A s \in Slots : real_age[s] > 0 ~> real_age[s] = 0

\* The table of slots keeps the promises of SessionTable.
SessionInSlot(s) ==
  [client |-> session_table_[s].client_id,
   key |-> session_table_[s].session_key,
   age |-> real_age[s]]
Abstract == INSTANCE SessionTable WITH
  Capacity <- kMaxActiveSessions,
  Lifetime <- kTokenLifetimeMs,
  Grace <- TickPeriod,
  sessions <- [i \in DOMAIN insertion_order_ |-> SessionInSlot(insertion_order_[i])],
  locked <- {session_table_[s].client_id : s \in {t \in Slots : session_table_[t].is_locked_out}}
ImplementsSessionTable == Abstract!Spec

-----------------------------------------------------------------------------
(* What a comment says of the scan, and the code does not do.              *)

\* cpp:237-241: once the clock has wrapped, the age of a session issued before is
\* large, and the scan ends it.
WrapExpires ==
  [][EvaluateTokenExpiry =>
       \A s \in ActiveSlots :
         now < session_table_[s].issued_at_ms => ~session_table_'[s].is_active]_vars
=============================================================================
