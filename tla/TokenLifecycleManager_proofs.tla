-------------------- MODULE TokenLifecycleManager_proofs --------------------
(***************************************************************************)
(* Theorems about TokenLifecycleManager, for every size of the table, any  *)
(* set of clients and every lifetime, tick period and width of the clock   *)
(* its assumptions allow.                                                  *)
(*                                                                         *)
(* IInv is the inductive invariant.  Its parts lean on each other: the     *)
(* ring agrees with the table only if an eviction frees the slot at its    *)
(* head, a locked slot is idle only if evictions hit live sessions, a      *)
(* session is the first slot with its id only if registering never passes  *)
(* over a slot of the same client, and an age is exact only while it is    *)
(* below the modulus of the clock, which the expiry scan sees to.          *)
(***************************************************************************)
EXTENDS TokenLifecycleManager, Fifo_proofs

\* No slot below s remembers the client of s.
FirstWithItsId(s) ==
  \A t \in Slots : session_table_[t].client_id = session_table_[s].client_id => s <= t

\* A slot that holds a session or a lockout is the one the lookup finds.
HeldSlotsFirst ==
  \A s \in Slots :
    session_table_[s].is_active \/ session_table_[s].is_locked_out => FirstWithItsId(s)

\* A locked slot holds no session.
LockedIdle ==
  \A s \in Slots : session_table_[s].is_locked_out => ~session_table_[s].is_active

IInv ==
  /\ TypeOK
  /\ OrderMatchesTable
  /\ HeldSlotsFirst
  /\ LockedIdle
  /\ SecretsErased
  /\ AgeExact
  /\ StaleWindowBounded

-----------------------------------------------------------------------------
(* Slots and lookups.                                                      *)

\* The table has kMaxActiveSessions slots.
LEMMA SlotsFinite ==
  /\ \A s \in Slots : s \in Nat /\ s \in Int
  /\ IsFiniteSet(Slots)
  /\ Cardinality(Slots) = kMaxActiveSessions
<1>1. kMaxActiveSessions \in Nat /\ kMaxActiveSessions > 0
  BY SizeAssumption
<1> QED
  BY <1>1, FS_Interval DEF Slots

\* Lowest picks the least of a nonempty set of slots.
LEMMA LowestIsLeast ==
  ASSUME NEW S \in SUBSET Slots, S # {}
  PROVE  Lowest(S) \in S /\ \A t \in S : Lowest(S) <= t
<1>1. S \in SUBSET Int /\ IsFiniteSet(S)
  <2>1. S \in SUBSET Int
    BY SlotsFinite
  <2>2. IsFiniteSet(S)
    BY SlotsFinite, FS_Subset, Zenon
  <2> QED
    BY <2>1, <2>2
<1>2. \E s \in S : \A t \in S : s <= t
  BY <1>1, LeastExists
<1> QED
  BY <1>2 DEF Lowest

\* The lookup of a client finds the slot that is first with its id.
LEMMA FindFirst ==
  ASSUME NEW s \in Slots, FirstWithItsId(s)
  PROVE  FindSlotByClientId(session_table_[s].client_id) = s
<1> DEFINE c == session_table_[s].client_id
           S == Matches(c)
<1>1. S \in SUBSET Slots /\ s \in S
  BY DEF Matches
<1>2. Lowest(S) \in S /\ \A t \in S : Lowest(S) <= t
  BY <1>1, LowestIsLeast
<1>3. \A t \in S : s <= t
  BY DEF Matches, FirstWithItsId
<1>4. \A t \in S : t \in Int
  BY <1>1, SlotsFinite
<1>5. Lowest(S) = s
  <2> HIDE DEF S
  <2> QED
    BY <1>1, <1>2, <1>3, <1>4
<1> QED
  BY <1>5 DEF FindSlotByClientId

\* What a lookup finds is a slot with the id, and the first one.
LEMMA FoundIsFirst ==
  ASSUME NEW c, Matches(c) # {}
  PROVE  /\ FindSlotByClientId(c) \in Slots
         /\ session_table_[FindSlotByClientId(c)].client_id = c
         /\ FirstWithItsId(FindSlotByClientId(c))
<1> DEFINE S == Matches(c)
           s == FindSlotByClientId(c)
<1>1. S \in SUBSET Slots
  BY DEF Matches
<1>2. s \in S /\ \A t \in S : s <= t
  BY <1>1, LowestIsLeast DEF FindSlotByClientId
<1>3. s \in Slots /\ session_table_[s].client_id = c
  BY <1>2 DEF Matches
<1>4. \A t \in Slots : session_table_[t].client_id = c => t \in S
  BY DEF Matches
<1> HIDE DEF s, S
<1>5. FirstWithItsId(s)
  BY <1>2, <1>3, <1>4 DEF FirstWithItsId
<1> QED
  BY <1>3, <1>5 DEF s

\* A live slot of c is a slot, holds a session and belongs to c.
LEMMA LiveSlotIsActive ==
  ASSUME NEW c, NEW s \in LiveSlot(c)
  PROVE  /\ s \in Slots /\ session_table_[s].is_active
         /\ session_table_[s].client_id = c
         /\ s = FindSlotByClientId(c)
BY DEF LiveSlot, Matches

-----------------------------------------------------------------------------
(* The table after an operation, slot by slot.                             *)

\* Ending the sessions of D clears the secrets of these slots, and nothing else.
LEMMA TableWithoutFields ==
  ASSUME TypeOK, NEW D
  PROVE  /\ TableWithout(D) \in [Slots -> SlotType]
         /\ \A s \in Slots :
              /\ s \notin D => TableWithout(D)[s] = session_table_[s]
              /\ TableWithout(D)[s].client_id = session_table_[s].client_id
              /\ TableWithout(D)[s].anomaly_count = session_table_[s].anomaly_count
              /\ TableWithout(D)[s].is_locked_out <=> session_table_[s].is_locked_out
              /\ TableWithout(D)[s].is_active <=> session_table_[s].is_active /\ s \notin D
              /\ s \in D => TableWithout(D)[s].session_key = ZeroKey
<1>1. \A s \in Slots : session_table_[s] \in SlotType
  BY DEF TypeOK
<1>2. 0 \in 0 .. TimeModulus - 1
  BY TimeAssumption
<1>3. ASSUME NEW slot \in SlotType
      PROVE  /\ Ended(slot) \in SlotType
             /\ Ended(slot).client_id = slot.client_id
             /\ Ended(slot).anomaly_count = slot.anomaly_count
             /\ Ended(slot).is_locked_out <=> slot.is_locked_out
             /\ ~Ended(slot).is_active
             /\ Ended(slot).session_key = ZeroKey
  BY <1>2 DEF Ended, SlotType
<1>4. \A s \in Slots :
        TableWithout(D)[s] = IF s \in D THEN Ended(session_table_[s]) ELSE session_table_[s]
  BY DEF TableWithout
<1>5. TableWithout(D) \in [Slots -> SlotType]
  BY <1>1, <1>3 DEF TableWithout
<1>6. ASSUME NEW s \in Slots
      PROVE  /\ s \notin D => TableWithout(D)[s] = session_table_[s]
             /\ TableWithout(D)[s].client_id = session_table_[s].client_id
             /\ TableWithout(D)[s].anomaly_count = session_table_[s].anomaly_count
             /\ TableWithout(D)[s].is_locked_out <=> session_table_[s].is_locked_out
             /\ TableWithout(D)[s].is_active <=> session_table_[s].is_active /\ s \notin D
             /\ s \in D => TableWithout(D)[s].session_key = ZeroKey
  <2>1. CASE s \in D
    <3>1. TableWithout(D)[s] = Ended(session_table_[s])
      BY <1>4, <2>1
    <3> QED
      BY <1>1, <1>3, <2>1, <3>1
  <2>2. CASE s \notin D
    <3>1. TableWithout(D)[s] = session_table_[s]
      BY <1>4, <2>2
    <3> QED
      BY <2>2, <3>1
  <2> QED
    BY <2>1, <2>2
<1> QED
  BY <1>5, <1>6

\* A slot that is occupied keeps its anomaly state; the other slots are as before.
LEMMA OccupyFields ==
  ASSUME NEW table \in [Slots -> SlotType], NEW target \in Slots,
         NEW c \in Ids, NEW k \in Keys, now \in 0 .. TimeModulus - 1
  PROVE  /\ Occupy(table, target, c, k) \in [Slots -> SlotType]
         /\ \A s \in Slots \ {target} : Occupy(table, target, c, k)[s] = table[s]
         /\ Occupy(table, target, c, k)[target].client_id = c
         /\ Occupy(table, target, c, k)[target].session_key = k
         /\ Occupy(table, target, c, k)[target].issued_at_ms = now
         /\ Occupy(table, target, c, k)[target].is_active
         /\ Occupy(table, target, c, k)[target].is_locked_out <=> table[target].is_locked_out
<1> DEFINE slot == [table[target] EXCEPT !.client_id = c, !.session_key = k,
                                         !.issued_at_ms = now, !.is_active = TRUE]
<1>1. table[target] \in SlotType
  OBVIOUS
<1>2. /\ slot \in SlotType
      /\ slot.client_id = c /\ slot.session_key = k
      /\ slot.issued_at_ms = now /\ slot.is_active = TRUE
      /\ slot.is_locked_out = table[target].is_locked_out
  BY <1>1 DEF SlotType
<1>3. Occupy(table, target, c, k) = [table EXCEPT ![target] = slot]
  BY <1>1 DEF Occupy, SlotType
<1> HIDE DEF slot
<1> QED
  BY <1>2, <1>3


\* A strike changes the anomaly state of a slot only, and never unlocks it.
LEMMA StruckFields ==
  ASSUME NEW slot \in SlotType
  PROVE  /\ Struck(slot) \in SlotType
         /\ Struck(slot).client_id = slot.client_id
         /\ Struck(slot).session_key = slot.session_key
         /\ Struck(slot).issued_at_ms = slot.issued_at_ms
         /\ Struck(slot).is_active <=> slot.is_active
         /\ slot.is_locked_out => Struck(slot).is_locked_out
<1>1. slot.anomaly_count \in 0 .. CounterMax /\ CounterMax \in Nat
  BY AnomalyAssumption DEF SlotType
<1>2. CASE slot.anomaly_count < CounterMax
  <2>1. slot.anomaly_count + 1 \in 0 .. CounterMax
    BY <1>1, <1>2
  <2> DEFINE count == slot.anomaly_count + 1
             locks == slot.is_locked_out \/ count >= kMaxAnomalyCount
  <2>2. Struck(slot) = [slot EXCEPT !.anomaly_count = count, !.is_locked_out = locks]
    BY <1>2 DEF Struck
  <2>3. locks \in BOOLEAN /\ (slot.is_locked_out => locks)
    OBVIOUS
  <2> HIDE DEF count, locks
  <2> QED
    BY <2>1, <2>2, <2>3 DEF SlotType, count
<1>3. CASE ~(slot.anomaly_count < CounterMax)
  BY <1>3 DEF Struck
<1> QED
  BY <1>2, <1>3

-----------------------------------------------------------------------------
(* Ages on a clock that wraps.                                             *)

\* The difference of two timestamps modulo the width of the clock.
LEMMA Modulo ==
  ASSUME NEW m \in Nat \ {0}
  PROVE  /\ \A d \in 0 .. m - 1 : d % m = d
         /\ \A d \in -(m - 1) .. -1 : d % m = d + m
         /\ m % m = 0
         /\ \A d \in Int : d % m \in 0 .. m - 1
<1>1. \A d \in 0 .. m - 1 : d % m = d
  OBVIOUS
<1>2. \A d \in -(m - 1) .. -1 : d % m = d + m
  OBVIOUS
<1>3. m % m = 0
  OBVIOUS
<1>4. \A d \in Int : d % m \in 0 .. m - 1
  OBVIOUS
<1> QED
  BY <1>1, <1>2, <1>3, <1>4

\* A tick of the clock adds one to an age below the modulus, wrapping or not.
LEMMA AgeAfterTick ==
  ASSUME NEW m \in Nat \ {0}, NEW t \in 0 .. m - 1, NEW issued \in 0 .. m - 1,
         ((t - issued) % m) + 1 < m
  PROVE  (((t + 1) % m) - issued) % m = ((t - issued) % m) + 1
<1>1. CASE t >= issued /\ t + 1 < m
  <2>1. t + 1 \in 0 .. m - 1 /\ t - issued \in 0 .. m - 1 /\ t + 1 - issued \in 0 .. m - 1
    BY <1>1
  <2>2. /\ (t + 1) % m = t + 1
        /\ (t - issued) % m = t - issued
        /\ (t + 1 - issued) % m = t + 1 - issued
    BY <2>1, Modulo
  <2> QED
    BY <2>2
<1>2. CASE t >= issued /\ t + 1 = m
  <2>1. (t + 1) % m = 0 /\ t - issued \in 0 .. m - 1
    BY <1>2, Modulo
  <2>2. (t - issued) % m = t - issued
    BY <2>1, Modulo
  <2>3. 0 - issued \in -(m - 1) .. -1
    BY <1>2, <2>2
  <2>4. (0 - issued) % m = 0 - issued + m
    BY <2>3, Modulo
  <2> QED
    BY <1>2, <2>1, <2>2, <2>4
<1>3. CASE t < issued
  <2>1. t + 1 \in 0 .. m - 1 /\ t - issued \in -(m - 1) .. -1
    BY <1>3
  <2>2. (t + 1) % m = t + 1 /\ (t - issued) % m = t - issued + m
    BY <2>1, Modulo
  <2>3. t + 1 - issued \in -(m - 1) .. -1
    BY <1>3, <2>2
  <2>4. (t + 1 - issued) % m = t + 1 - issued + m
    BY <2>3, Modulo
  <2> QED
    BY <2>2, <2>4
<1> QED
  BY <1>1, <1>2, <1>3

-----------------------------------------------------------------------------
(* The invariant, operation by operation.                                  *)

\* Ending the sessions of any slots keeps the table and the ring in step, and
\* leaves the ages of the sessions that stay alone.
LEMMA EndSessionsStep ==
  ASSUME IInv, NEW D \in SUBSET Slots, EndSessions(D), now' = now
  PROVE  /\ session_table_' \in [Slots -> SlotType]
         /\ insertion_order_' \in Seq(Slots)
         /\ real_age' \in [Slots -> Nat]
         /\ OrderMatchesTable' /\ HeldSlotsFirst' /\ LockedIdle'
         /\ SecretsErased' /\ AgeExact'
         /\ \A s \in ActiveSlots' :
              s \in ActiveSlots \ D /\ real_age'[s] = real_age[s]
<1>1. TypeOK
  BY DEF IInv
<1>2. /\ session_table_' \in [Slots -> SlotType]
      /\ \A s \in Slots :
           /\ s \notin D => session_table_'[s] = session_table_[s]
           /\ session_table_'[s].client_id = session_table_[s].client_id
           /\ session_table_'[s].is_locked_out <=> session_table_[s].is_locked_out
           /\ session_table_'[s].is_active <=> session_table_[s].is_active /\ s \notin D
           /\ s \in D => session_table_'[s].session_key = ZeroKey
  BY <1>1, TableWithoutFields DEF EndSessions
<1>3. /\ real_age' \in [Slots -> Nat]
      /\ \A s \in Slots \ D : real_age'[s] = real_age[s]
  BY <1>1 DEF TypeOK, EndSessions
<1>4. ActiveSlots' = ActiveSlots \ D
  BY <1>2 DEF ActiveSlots
<1>5. insertion_order_' \in Seq(Slots) /\ OrderMatchesTable'
  <2>1. /\ insertion_order_ \in Seq(Slots) /\ insertion_order_' = Without(insertion_order_, D)
        /\ Distinct(insertion_order_) /\ Elements(insertion_order_) = ActiveSlots
    BY <1>1 DEF TypeOK, IInv, OrderMatchesTable, EndSessions
  <2>2. /\ insertion_order_' \in Seq(Slots) /\ Distinct(insertion_order_')
        /\ Elements(insertion_order_') = ActiveSlots \ D
    BY <2>1, WithoutElements
  <2>3. Distinct(insertion_order_)' /\ Elements(insertion_order_)' = ActiveSlots'
    BY <1>4, <2>2 DEF Distinct, Elements
  <2> QED
    BY <2>2, <2>3 DEF OrderMatchesTable
<1>6. HeldSlotsFirst'
  BY <1>2 DEF IInv, HeldSlotsFirst, FirstWithItsId
<1>7. LockedIdle'
  BY <1>2 DEF IInv, LockedIdle
<1>8. SecretsErased'
  BY <1>2 DEF IInv, SecretsErased, ActiveSlots
<1>9. AgeExact'
  BY <1>2, <1>3, <1>4 DEF IInv, AgeExact, Age, ActiveSlots
<1> QED
  BY <1>2, <1>3, <1>4, <1>5, <1>6, <1>7, <1>8, <1>9 DEF ActiveSlots

\* The slots that remember a client who is not locked out may all be reused: none
\* is locked, and one that holds a session is the one the lookup finds.
LEMMA OwnSlotsAreFree ==
  ASSUME IInv, NEW c \in Ids, ~IsLockedOut(c)
  PROVE  \A t \in Slots : session_table_[t].client_id = c =>
           /\ ~session_table_[t].is_locked_out
           /\ session_table_[t].is_active => t \in LiveSlot(c)
           /\ t \in FreeSlots(c)
<1> SUFFICES ASSUME NEW t \in Slots, session_table_[t].client_id = c
             PROVE  /\ ~session_table_[t].is_locked_out
                    /\ session_table_[t].is_active => t \in LiveSlot(c)
                    /\ t \in FreeSlots(c)
  OBVIOUS
<1>1. t \in Matches(c)
  BY DEF Matches
<1>2. ASSUME session_table_[t].is_locked_out \/ session_table_[t].is_active
      PROVE  FindSlotByClientId(c) = t
  BY <1>2, FindFirst DEF IInv, HeldSlotsFirst
<1>3. ~session_table_[t].is_locked_out
  BY <1>1, <1>2 DEF IsLockedOut
<1>4. session_table_[t].is_active => t \in LiveSlot(c)
  BY <1>1, <1>2 DEF LiveSlot
<1> QED
  BY <1>3, <1>4 DEF FreeSlots

\* A session for c in the slot target, after the sessions of D have ended, where
\* target is unlocked, the first slot that remembers c, and the only one of c's.
LEMMA OccupyStep ==
  ASSUME IInv, NEW c \in Ids, NEW k \in Keys, NEW D \in SUBSET Slots, NEW target \in Slots,
         ~session_table_[target].is_locked_out,
         \A t \in Slots \ {target} : session_table_[t].client_id = c =>
           /\ target <= t
           /\ ~session_table_[t].is_locked_out
           /\ session_table_[t].is_active => t \in D,
         session_table_' = Occupy(TableWithout(D), target, c, k),
         insertion_order_' \in Seq(Slots),
         Distinct(insertion_order_'),
         Elements(insertion_order_') = (ActiveSlots \ D) \cup {target},
         real_age' = [s \in Slots |-> IF s = target \/ s \in D THEN 0 ELSE real_age[s]],
         reply' \in [status : Statuses, key : Keys \cup {ZeroKey}, notified : Seq(Ids)],
         now' = now, since_scan' = since_scan
  PROVE  IInv'
<1>1. TypeOK
  BY DEF IInv
<1>2. /\ TableWithout(D) \in [Slots -> SlotType]
      /\ \A s \in Slots :
           /\ s \notin D => TableWithout(D)[s] = session_table_[s]
           /\ TableWithout(D)[s].client_id = session_table_[s].client_id
           /\ TableWithout(D)[s].is_locked_out <=> session_table_[s].is_locked_out
           /\ TableWithout(D)[s].is_active <=> session_table_[s].is_active /\ s \notin D
           /\ s \in D => TableWithout(D)[s].session_key = ZeroKey
  BY <1>1, TableWithoutFields
<1>3. /\ session_table_' \in [Slots -> SlotType]
      /\ \A s \in Slots \ {target} : session_table_'[s] = TableWithout(D)[s]
      /\ session_table_'[target].client_id = c
      /\ session_table_'[target].issued_at_ms = now
      /\ session_table_'[target].is_active
      /\ session_table_'[target].is_locked_out <=> TableWithout(D)[target].is_locked_out
  <2> DEFINE table == TableWithout(D)
             after == Occupy(table, target, c, k)
  <2>1. table \in [Slots -> SlotType] /\ now \in 0 .. TimeModulus - 1
    BY <1>1, <1>2 DEF TypeOK
  <2>2. session_table_' = after
    OBVIOUS
  <2> HIDE DEF table
  <2>3. /\ after \in [Slots -> SlotType]
        /\ \A s \in Slots \ {target} : after[s] = table[s]
        /\ after[target].client_id = c
        /\ after[target].issued_at_ms = now
        /\ after[target].is_active
        /\ after[target].is_locked_out <=> table[target].is_locked_out
    <3>1. after \in [Slots -> SlotType]
      BY <2>1, OccupyFields, SMTT(30)
    <3>2. \A s \in Slots \ {target} : after[s] = table[s]
      BY <2>1, OccupyFields, SMTT(30)
    <3>3. /\ after[target].client_id = c
          /\ after[target].issued_at_ms = now
          /\ after[target].is_active
          /\ after[target].is_locked_out <=> table[target].is_locked_out
      BY <2>1, OccupyFields, SMTT(30)
    <3> QED
      BY <3>1, <3>2, <3>3
  <2> HIDE DEF after
  <2> QED
    BY <2>2, <2>3 DEF table
<1>4. ASSUME NEW s \in Slots \ {target}
      PROVE  /\ s \notin D => session_table_'[s] = session_table_[s]
             /\ session_table_'[s].client_id = session_table_[s].client_id
             /\ session_table_'[s].is_locked_out <=> session_table_[s].is_locked_out
             /\ session_table_'[s].is_active <=> session_table_[s].is_active /\ s \notin D
             /\ s \in D => session_table_'[s].session_key = ZeroKey
  BY <1>2, <1>3
<1>5. ~session_table_'[target].is_locked_out
  BY <1>2, <1>3
<1>6. ActiveSlots' = (ActiveSlots \ D) \cup {target}
  BY <1>3, <1>4 DEF ActiveSlots
<1>7. TypeOK'
  <2>1. real_age' \in [Slots -> Nat]
    BY <1>1 DEF TypeOK
  <2> QED
    BY <1>1, <1>3, <2>1 DEF TypeOK
<1>8. OrderMatchesTable'
  <2>1. Distinct(insertion_order_)' /\ Elements(insertion_order_)' = ActiveSlots'
    BY <1>6 DEF Distinct, Elements
  <2> QED
    BY <2>1 DEF OrderMatchesTable
<1>9. HeldSlotsFirst'
  <2>1. ASSUME NEW s \in Slots, s # target, NEW t \in Slots,
               session_table_'[s].is_active \/ session_table_'[s].is_locked_out,
               session_table_'[t].client_id = session_table_'[s].client_id
        PROVE  s <= t
    <3>1. /\ (session_table_[s].is_active /\ s \notin D) \/ session_table_[s].is_locked_out
          /\ session_table_'[s].client_id = session_table_[s].client_id
      BY <1>4, <2>1
    <3>2. CASE t = target
      <4>1. session_table_[s].client_id = c
        BY <1>3, <2>1, <3>1, <3>2
      <4> QED
        BY <2>1, <3>1, <4>1
    <3>3. CASE t # target
      <4>1. session_table_[t].client_id = session_table_[s].client_id
        BY <1>4, <2>1, <3>1, <3>3
      <4> QED
        BY <3>1, <4>1 DEF IInv, HeldSlotsFirst, FirstWithItsId
    <3> QED
      BY <3>2, <3>3
  <2>2. ASSUME NEW t \in Slots, session_table_'[t].client_id = session_table_'[target].client_id
        PROVE  target <= t
    <3>1. CASE t = target
      BY <3>1, SlotsFinite
    <3>2. CASE t # target
      BY <1>3, <1>4, <2>2, <3>2
    <3> QED
      BY <3>1, <3>2
  <2>3. ASSUME NEW s \in Slots, NEW t \in Slots,
               session_table_'[s].is_active \/ session_table_'[s].is_locked_out,
               session_table_'[t].client_id = session_table_'[s].client_id
        PROVE  s <= t
    BY <2>1, <2>2, <2>3
  <2> QED
    BY <2>3 DEF HeldSlotsFirst, FirstWithItsId
<1>10. LockedIdle'
  <2>1. ASSUME NEW s \in Slots, session_table_'[s].is_locked_out
        PROVE  ~session_table_'[s].is_active
    <3>1. s # target
      BY <1>5, <2>1
    <3> QED
      BY <1>4, <2>1, <3>1 DEF IInv, LockedIdle
  <2> QED
    BY <2>1 DEF LockedIdle
<1>11. SecretsErased'
  <2>1. ASSUME NEW s \in Slots, ~session_table_'[s].is_active
        PROVE  session_table_'[s].session_key = ZeroKey
    <3>1. s # target
      BY <1>3, <2>1
    <3> QED
      BY <1>4, <2>1, <3>1 DEF IInv, SecretsErased, ActiveSlots
  <2> QED
    BY <2>1 DEF SecretsErased, ActiveSlots
<1>12. AgeExact'
  <2>1. ASSUME NEW s \in ActiveSlots \ D, s # target
        PROVE  (now' - session_table_'[s].issued_at_ms) % TimeModulus = real_age'[s]
    BY <1>4, <2>1 DEF IInv, AgeExact, Age, ActiveSlots
  <2>2. (now' - session_table_'[target].issued_at_ms) % TimeModulus = real_age'[target]
    <3>1. now \in Int /\ TimeModulus \in Nat \ {0}
      BY <1>1, TimeAssumption DEF TypeOK
    <3>2. (now - now) % TimeModulus = 0
      BY <3>1
    <3> QED
      BY <1>3, <3>2
  <2>3. \A s \in ActiveSlots' : (now' - session_table_'[s].issued_at_ms) % TimeModulus = real_age'[s]
    BY <1>6, <2>1, <2>2
  <2> QED
    BY <2>3 DEF AgeExact, Age
<1>13. StaleWindowBounded'
  <2>1. \A s \in ActiveSlots \ D : s # target => real_age'[s] = real_age[s]
    BY DEF ActiveSlots
  <2>2. real_age'[target] = 0 /\ 0 <= kTokenLifetimeMs + since_scan
    BY <1>1, TimeAssumption DEF TypeOK
  <2>3. \A s \in ActiveSlots' : real_age'[s] <= kTokenLifetimeMs + since_scan'
    BY <1>6, <2>1, <2>2 DEF IInv, StaleWindowBounded
  <2> QED
    BY <2>3 DEF StaleWindowBounded
<1> QED
  BY <1>7, <1>8, <1>9, <1>10, <1>11, <1>12, <1>13 DEF IInv

\* RegisterToken with a free slot.
LEMMA RegisterInFreeSlotStep ==
  ASSUME IInv, NEW c \in Ids, NEW k \in Keys, RegisterInFreeSlot(c, k)
  PROVE  IInv'
<1> DEFINE target == FindFreeSlot(c)
           D == LiveSlot(c)
           rest == Without(insertion_order_, D)
<1>1. TypeOK
  BY DEF IInv
<1>2. /\ ~IsLockedOut(c) /\ FreeSlots(c) # {}
      /\ session_table_' = Occupy(TableWithout(D), target, c, k)
      /\ insertion_order_' = Pushed(rest, kMaxActiveSessions, target)
      /\ real_age' = [s \in Slots |-> IF s = target \/ s \in D THEN 0 ELSE real_age[s]]
      /\ reply' = [status |-> "kOk", key |-> ZeroKey,
                   notified |-> IF D = {} THEN <<>> ELSE <<c>>]
      /\ now' = now /\ since_scan' = since_scan
  BY DEF RegisterInFreeSlot, Returns
<1>3. D \in SUBSET Slots
  BY DEF LiveSlot, Matches
<1>4. target \in FreeSlots(c) /\ \A t \in FreeSlots(c) : target <= t
  <2>1. FreeSlots(c) \in SUBSET Slots
    BY DEF FreeSlots
  <2> QED
    BY <1>2, <2>1, LowestIsLeast DEF FindFreeSlot
<1>5. /\ target \in Slots
      /\ ~session_table_[target].is_locked_out
      /\ target \notin ActiveSlots \ D
  BY <1>4 DEF FreeSlots, ActiveSlots
<1>6. \A t \in Slots \ {target} : session_table_[t].client_id = c =>
        /\ target <= t
        /\ ~session_table_[t].is_locked_out
        /\ session_table_[t].is_active => t \in D
  BY <1>2, <1>4, OwnSlotsAreFree
<1>7. reply' \in [status : Statuses, key : Keys \cup {ZeroKey}, notified : Seq(Ids)]
  <2>1. (IF D = {} THEN <<>> ELSE <<c>>) \in Seq(Ids)
    OBVIOUS
  <2> QED
    BY <1>2, <2>1 DEF Statuses
<1> HIDE DEF target, D
<1>8. /\ insertion_order_' \in Seq(Slots) /\ Distinct(insertion_order_')
      /\ Elements(insertion_order_') = (ActiveSlots \ D) \cup {target}
  <2>1. /\ insertion_order_ \in Seq(Slots)
        /\ Distinct(insertion_order_) /\ Elements(insertion_order_) = ActiveSlots
    BY <1>1 DEF TypeOK, IInv, OrderMatchesTable
  <2>2. rest \in Seq(Slots) /\ Distinct(rest) /\ Elements(rest) = ActiveSlots \ D
    BY <2>1, WithoutElements
  <2> HIDE DEF rest
  <2>3. Len(rest) < kMaxActiveSessions /\ kMaxActiveSessions \in Nat
    BY <1>5, <2>2, RoomForOneMore, SlotsFinite, SizeAssumption
  <2> QED
    BY <1>2, <1>5, <2>2, <2>3, PushedElements
<1> QED
  BY <1>2, <1>3, <1>5, <1>6, <1>7, <1>8, OccupyStep

\* RegisterToken with no free slot: the session at the head of the ring goes.
LEMMA RegisterByEvictionStep ==
  ASSUME IInv, NEW c \in Ids, NEW k \in Keys, RegisterByEviction(c, k)
  PROVE  IInv'
<1> DEFINE target == Head(insertion_order_)
           D == {target}
           rest == Tail(insertion_order_)
<1>1. TypeOK
  BY DEF IInv
<1>2. /\ ~IsLockedOut(c) /\ FreeSlots(c) = {} /\ insertion_order_ # <<>>
      /\ session_table_' = Occupy(TableWithout(D), target, c, k)
      /\ insertion_order_' = Pushed(rest, kMaxActiveSessions, target)
      /\ real_age' = [real_age EXCEPT ![target] = 0]
      /\ reply' = [status |-> "kOk", key |-> ZeroKey,
                   notified |-> <<session_table_[target].client_id>>]
      /\ now' = now /\ since_scan' = since_scan
  BY DEF RegisterByEviction, Returns
<1>3. /\ insertion_order_ \in Seq(Slots) /\ Distinct(insertion_order_)
      /\ Elements(insertion_order_) = ActiveSlots
  BY <1>1 DEF TypeOK, IInv, OrderMatchesTable
<1>4. /\ target \in ActiveSlots /\ rest \in Seq(Slots) /\ Distinct(rest)
      /\ Elements(rest) = ActiveSlots \ D
  BY <1>2, <1>3, TailElements
<1>5. /\ target \in Slots
      /\ ~session_table_[target].is_locked_out
      /\ session_table_[target].client_id \in Ids
  <2>1. target \in Slots
    BY <1>4 DEF ActiveSlots
  <2>2. session_table_[target] \in SlotType
    BY <1>1, <2>1 DEF TypeOK
  <2>3. ~session_table_[target].is_locked_out
    BY <1>4, <2>1 DEF IInv, LockedIdle, ActiveSlots
  <2> QED
    BY <2>1, <2>2, <2>3 DEF SlotType
<1>6. \A t \in Slots : session_table_[t].client_id # c
  BY <1>2, OwnSlotsAreFree
<1>7. reply' \in [status : Statuses, key : Keys \cup {ZeroKey}, notified : Seq(Ids)]
  BY <1>2, <1>5 DEF Statuses
<1> HIDE DEF target, rest
<1>8. /\ insertion_order_' \in Seq(Slots) /\ Distinct(insertion_order_')
      /\ Elements(insertion_order_') = (ActiveSlots \ D) \cup {target}
  <2>1. Len(rest) < kMaxActiveSessions /\ kMaxActiveSessions \in Nat
    BY <1>4, <1>5, RoomForOneMore, SlotsFinite, SizeAssumption
  <2> QED
    BY <1>2, <1>4, <1>5, <2>1, PushedElements
<1>9. real_age' = [s \in Slots |-> IF s = target \/ s \in D THEN 0 ELSE real_age[s]]
  BY <1>1, <1>2 DEF TypeOK
<1>10. D \in SUBSET Slots
  BY <1>5
<1>11. \A t \in Slots \ {target} : session_table_[t].client_id = c =>
         /\ target <= t
         /\ ~session_table_[t].is_locked_out
         /\ session_table_[t].is_active => t \in D
  BY <1>6
<1>12. /\ session_table_' = Occupy(TableWithout(D), target, c, k)
       /\ now' = now /\ since_scan' = since_scan
       /\ target \in Slots /\ ~session_table_[target].is_locked_out
  BY <1>2, <1>5
<1> HIDE DEF D
<1> QED
  BY <1>7, <1>8, <1>9, <1>10, <1>11, <1>12, OccupyStep

\* A call that is refused, or only reads, changes the reply alone.
LEMMA ReplyStep ==
  ASSUME IInv,
         reply' \in [status : Statuses, key : Keys \cup {ZeroKey}, notified : Seq(Ids)],
         UNCHANGED <<session_table_, insertion_order_, now, since_scan, real_age>>
  PROVE  IInv'
<1>1. TypeOK'
  BY DEF IInv, TypeOK
<1>2. OrderMatchesTable'
  BY DEF IInv, OrderMatchesTable, ActiveSlots, Distinct, Elements
<1>3. HeldSlotsFirst' /\ LockedIdle' /\ SecretsErased'
  BY DEF IInv, HeldSlotsFirst, FirstWithItsId, LockedIdle, SecretsErased, ActiveSlots
<1>4. AgeExact' /\ StaleWindowBounded'
  BY DEF IInv, AgeExact, Age, StaleWindowBounded, ActiveSlots
<1> QED
  BY <1>1, <1>2, <1>3, <1>4 DEF IInv

\* RegisterToken.
LEMMA RegisterTokenStep ==
  ASSUME IInv, NEW c \in Ids, NEW k \in Keys, RegisterToken(c, k)
  PROVE  IInv'
<1>1. ASSUME NEW status \in Statuses, Refuse(status) PROVE IInv'
  <2>1. reply' \in [status : Statuses, key : Keys \cup {ZeroKey}, notified : Seq(Ids)]
    BY <1>1 DEF Refuse, Returns
  <2> QED
    BY <1>1, <2>1, ReplyStep DEF Refuse
<1>2. CASE RejectRegistration(c)
  BY <1>1, <1>2 DEF RejectRegistration, Statuses
<1>3. CASE RegisterInFreeSlot(c, k)
  BY <1>3, RegisterInFreeSlotStep
<1>4. CASE RegisterByEviction(c, k)
  BY <1>4, RegisterByEvictionStep
<1>5. CASE RegisterTableFull(c)
  BY <1>1, <1>5 DEF RegisterTableFull, Statuses
<1> QED
  BY <1>2, <1>3, <1>4, <1>5 DEF RegisterToken

\* ValidateToken.
LEMMA ValidateTokenStep ==
  ASSUME IInv, NEW c \in Ids, ValidateToken(c)
  PROVE  IInv'
<1>1. TypeOK
  BY DEF IInv
<1>2. ASSUME NEW status \in Statuses, Refuse(status) PROVE IInv'
  <2>1. reply' \in [status : Statuses, key : Keys \cup {ZeroKey}, notified : Seq(Ids)]
    BY <1>2 DEF Refuse, Returns
  <2> QED
    BY <1>2, <2>1, ReplyStep DEF Refuse
<1>3. CASE IsLockedOut(c) /\ Refuse("kLockedOut")
  BY <1>2, <1>3 DEF Statuses
<1>4. CASE LiveSlot(c) = {} /\ Refuse("kNotFound")
  BY <1>2, <1>4 DEF Statuses
<1>5. ASSUME NEW s \in LiveSlot(c), EndSessions({s}),
             Returns("kNotFound", ZeroKey, <<c>>), UNCHANGED <<now, since_scan>>
      PROVE  IInv'
  <2>1. {s} \in SUBSET Slots
    BY LiveSlotIsActive
  <2>2. /\ session_table_' \in [Slots -> SlotType]
        /\ insertion_order_' \in Seq(Slots)
        /\ real_age' \in [Slots -> Nat]
        /\ OrderMatchesTable' /\ HeldSlotsFirst' /\ LockedIdle'
        /\ SecretsErased' /\ AgeExact'
        /\ \A t \in ActiveSlots' : t \in ActiveSlots /\ real_age'[t] = real_age[t]
    BY <1>5, <2>1, EndSessionsStep
  <2>3. TypeOK'
    BY <1>1, <1>5, <2>2 DEF TypeOK, Returns, Statuses
  <2>4. StaleWindowBounded'
    BY <1>5, <2>2 DEF IInv, StaleWindowBounded
  <2> QED
    BY <2>2, <2>3, <2>4 DEF IInv
<1>6. ASSUME NEW s \in LiveSlot(c), Returns("kOk", session_table_[s].session_key, <<>>),
             UNCHANGED <<session_table_, insertion_order_, now, since_scan, real_age>>
      PROVE  IInv'
  <2>1. session_table_[s].session_key \in Keys \cup {ZeroKey}
    BY <1>1, LiveSlotIsActive DEF TypeOK, SlotType
  <2>2. reply' \in [status : Statuses, key : Keys \cup {ZeroKey}, notified : Seq(Ids)]
    BY <1>6, <2>1 DEF Returns, Statuses
  <2> QED
    BY <1>6, <2>2, ReplyStep
<1> QED
  BY <1>3, <1>4, <1>5, <1>6 DEF ValidateToken

\* RevokeToken.
LEMMA RevokeTokenStep ==
  ASSUME IInv, NEW c \in Ids, NEW is_anomaly \in BOOLEAN, RevokeToken(c, is_anomaly)
  PROVE  IInv'
<1>1. TypeOK
  BY DEF IInv
<1>2. CASE Matches(c) = {}
  <2>1. Refuse("kNotFound")
    BY <1>2 DEF RevokeToken
  <2>2. reply' \in [status : Statuses, key : Keys \cup {ZeroKey}, notified : Seq(Ids)]
    BY <2>1 DEF Refuse, Returns, Statuses
  <2> QED
    BY <2>1, <2>2, ReplyStep DEF Refuse
<1>3. CASE Matches(c) # {}
  <2> DEFINE s == FindSlotByClientId(c)
             old == TableWithout({s})[s]
             new == IF is_anomaly THEN Struck(old) ELSE old
  <2>1. /\ s \in Slots /\ FirstWithItsId(s)
        /\ session_table_' = [TableWithout({s}) EXCEPT ![s] = new]
        /\ insertion_order_' = Without(insertion_order_, {s})
        /\ real_age' = [real_age EXCEPT ![s] = 0]
        /\ reply' = [status |-> "kOk", key |-> ZeroKey, notified |-> <<c>>]
        /\ now' = now /\ since_scan' = since_scan
    BY <1>3, FoundIsFirst DEF RevokeToken, Returns
  <2> HIDE DEF s
  <2>2. /\ TableWithout({s}) \in [Slots -> SlotType]
        /\ \A t \in Slots \ {s} : TableWithout({s})[t] = session_table_[t]
        /\ old \in SlotType
        /\ old.client_id = session_table_[s].client_id
        /\ ~old.is_active
        /\ old.session_key = ZeroKey
    BY <1>1, <2>1, TableWithoutFields
  <2> HIDE DEF old
  <2>3. /\ new \in SlotType
        /\ new.client_id = session_table_[s].client_id
        /\ ~new.is_active
        /\ new.session_key = ZeroKey
    BY <2>2, StruckFields
  <2> HIDE DEF new
  <2>4. /\ session_table_' \in [Slots -> SlotType]
        /\ \A t \in Slots \ {s} : session_table_'[t] = session_table_[t]
        /\ session_table_'[s] = new
    BY <2>1, <2>2, <2>3
  <2>5. ActiveSlots' = ActiveSlots \ {s}
    BY <2>1, <2>3, <2>4 DEF ActiveSlots
  <2>6. /\ insertion_order_' \in Seq(Slots) /\ Distinct(insertion_order_')
        /\ Elements(insertion_order_') = ActiveSlots \ {s}
    BY <1>1, <2>1, WithoutElements DEF TypeOK, IInv, OrderMatchesTable
  <2>7. OrderMatchesTable'
    <3>1. Distinct(insertion_order_)' /\ Elements(insertion_order_)' = ActiveSlots'
      BY <2>5, <2>6 DEF Distinct, Elements
    <3> QED
      BY <3>1 DEF OrderMatchesTable
  <2>8. /\ real_age' \in [Slots -> Nat]
        /\ \A t \in Slots \ {s} : real_age'[t] = real_age[t]
    BY <1>1, <2>1 DEF TypeOK
  <2>9. TypeOK'
    <3>1. reply' \in [status : Statuses, key : Keys \cup {ZeroKey}, notified : Seq(Ids)]
      BY <2>1 DEF Statuses
    <3> QED
      BY <1>1, <2>1, <2>4, <2>6, <2>8, <3>1 DEF TypeOK
  <2>10. HeldSlotsFirst'
    <3>1. \A t \in Slots : session_table_'[t].client_id = session_table_[t].client_id
      BY <2>3, <2>4
    <3>2. ASSUME NEW t \in Slots,
                 session_table_'[t].is_active \/ session_table_'[t].is_locked_out
          PROVE  FirstWithItsId(t)
      BY <2>1, <2>4, <3>2 DEF IInv, HeldSlotsFirst
    <3> QED
      BY <3>1, <3>2 DEF HeldSlotsFirst, FirstWithItsId
  <2>11. LockedIdle'
    BY <2>3, <2>4 DEF IInv, LockedIdle
  <2>12. SecretsErased'
    BY <2>3, <2>4 DEF IInv, SecretsErased, ActiveSlots
  <2>13. AgeExact' /\ StaleWindowBounded'
    <3>1. \A t \in ActiveSlots' : /\ t \in ActiveSlots
                                  /\ session_table_'[t] = session_table_[t]
                                  /\ real_age'[t] = real_age[t]
      BY <2>4, <2>5, <2>8 DEF ActiveSlots
    <3> QED
      BY <2>1, <3>1 DEF IInv, AgeExact, Age, StaleWindowBounded
  <2> QED
    BY <2>7, <2>9, <2>10, <2>11, <2>12, <2>13 DEF IInv
<1> QED
  BY <1>2, <1>3

\* The ids a scan notifies are ids of slots.
LEMMA ClientsOfType ==
  ASSUME TypeOK, NEW D \in SUBSET Slots
  PROVE  ClientsOf(D) \in Seq(Ids)
<1>1. D \in SUBSET Int /\ IsFiniteSet(D)
  <2>1. D \in SUBSET Int
    BY SlotsFinite
  <2>2. IsFiniteSet(D)
    BY SlotsFinite, FS_Subset, Zenon
  <2> QED
    BY <2>1, <2>2
<1>2. Cardinality(D) \in Nat /\ Ascending(D) \in [1 .. Cardinality(D) -> D]
  BY <1>1, AscendingEnumerates
<1>3. \A s \in D : session_table_[s].client_id \in Ids
  BY DEF TypeOK, SlotType
<1>4. ClientsOf(D) \in [1 .. Cardinality(D) -> Ids]
  BY <1>2, <1>3 DEF ClientsOf
<1> QED
  BY <1>2, <1>4

\* EvaluateTokenExpiry: what stays is within its lifetime.
LEMMA EvaluateTokenExpiryStep ==
  ASSUME IInv, EvaluateTokenExpiry
  PROVE  IInv'
<1>1. TypeOK
  BY DEF IInv
<1>2. /\ Expired \in SUBSET Slots
      /\ EndSessions(Expired)
      /\ reply' = [status |-> "none", key |-> ZeroKey, notified |-> ClientsOf(Expired)]
      /\ since_scan' = 0 /\ now' = now
  BY DEF EvaluateTokenExpiry, Returns, Expired
<1>3. /\ session_table_' \in [Slots -> SlotType]
      /\ insertion_order_' \in Seq(Slots)
      /\ real_age' \in [Slots -> Nat]
      /\ OrderMatchesTable' /\ HeldSlotsFirst' /\ LockedIdle'
      /\ SecretsErased' /\ AgeExact'
      /\ \A s \in ActiveSlots' : s \in ActiveSlots \ Expired /\ real_age'[s] = real_age[s]
  BY <1>2, EndSessionsStep
<1>4. TypeOK'
  <2>1. ClientsOf(Expired) \in Seq(Ids)
    BY <1>1, <1>2, ClientsOfType
  <2>2. 0 \in 0 .. TickPeriod
    BY TimeAssumption
  <2> QED
    BY <1>1, <1>2, <1>3, <2>1, <2>2 DEF TypeOK, Statuses
<1>5. StaleWindowBounded'
  <2>1. ASSUME NEW s \in ActiveSlots \ Expired PROVE real_age[s] <= kTokenLifetimeMs
    <3>1. Age(s) = real_age[s] /\ s \in Slots
      BY DEF IInv, AgeExact, ActiveSlots
    <3>2. ~(Age(s) > kTokenLifetimeMs)
      BY <2>1 DEF Expired, IsExpired, ActiveSlots
    <3>3. real_age[s] \in Nat /\ kTokenLifetimeMs \in Nat
      BY <1>1, <3>1, TimeAssumption DEF TypeOK
    <3> QED
      BY <3>1, <3>2, <3>3
  <2>2. \A s \in ActiveSlots' : real_age'[s] <= kTokenLifetimeMs + since_scan'
    BY <1>2, <1>3, <2>1, TimeAssumption
  <2> QED
    BY <2>2 DEF StaleWindowBounded
<1> QED
  BY <1>3, <1>4, <1>5 DEF IInv

\* TimePasses: an age below the modulus of the clock grows with it.
LEMMA TimePassesStep ==
  ASSUME IInv, TimePasses
  PROVE  IInv'
<1>1. TypeOK
  BY DEF IInv
<1>2. /\ since_scan < TickPeriod
      /\ now' = (now + 1) % TimeModulus
      /\ since_scan' = since_scan + 1
      /\ real_age' =
           [s \in Slots |-> IF session_table_[s].is_active /\ real_age[s] < RealAgeBound
                           THEN real_age[s] + 1 ELSE real_age[s]]
      /\ reply' = [status |-> "none", key |-> ZeroKey, notified |-> <<>>]
      /\ session_table_' = session_table_ /\ insertion_order_' = insertion_order_
  BY DEF TimePasses, Returns
<1>3. /\ kTokenLifetimeMs \in Nat /\ TickPeriod \in Nat /\ TimeModulus \in Nat \ {0}
      /\ kTokenLifetimeMs + TickPeriod < TimeModulus
      /\ now \in 0 .. TimeModulus - 1 /\ since_scan \in Nat
      /\ \A s \in Slots : real_age[s] \in Nat
  BY <1>1, TimeAssumption DEF TypeOK
<1>4. ASSUME NEW s \in ActiveSlots
      PROVE  /\ real_age'[s] = real_age[s] + 1
             /\ real_age[s] <= kTokenLifetimeMs + since_scan
             /\ real_age[s] + 1 < TimeModulus
  <2>1. s \in Slots /\ session_table_[s].is_active
    BY DEF ActiveSlots
  <2>2. real_age[s] <= kTokenLifetimeMs + since_scan
    BY DEF IInv, StaleWindowBounded
  <2>3. real_age[s] < RealAgeBound /\ real_age[s] + 1 < TimeModulus
    BY <1>2, <1>3, <2>1, <2>2 DEF RealAgeBound
  <2> QED
    BY <1>2, <2>1, <2>2, <2>3
<1>5. TypeOK'
  <2>1. real_age' \in [Slots -> Nat]
    BY <1>2, <1>3
  <2>2. now' \in 0 .. TimeModulus - 1
    BY <1>2, <1>3, Modulo
  <2>3. since_scan' \in 0 .. TickPeriod
    BY <1>2, <1>3
  <2> QED
    BY <1>1, <1>2, <2>1, <2>2, <2>3 DEF TypeOK, Statuses
<1>6. OrderMatchesTable'
  BY <1>2 DEF IInv, OrderMatchesTable, ActiveSlots, Distinct, Elements
<1>7. HeldSlotsFirst' /\ LockedIdle' /\ SecretsErased'
  BY <1>2 DEF IInv, HeldSlotsFirst, FirstWithItsId, LockedIdle, SecretsErased, ActiveSlots
<1>8. ActiveSlots' = ActiveSlots
  BY <1>2 DEF ActiveSlots
<1>9. AgeExact'
  <2>1. ASSUME NEW s \in ActiveSlots
        PROVE  (now' - session_table_'[s].issued_at_ms) % TimeModulus = real_age'[s]
    <3> DEFINE issued == session_table_[s].issued_at_ms
    <3>1. issued \in 0 .. TimeModulus - 1
      BY <1>1 DEF TypeOK, SlotType, ActiveSlots
    <3>2. (now - issued) % TimeModulus = real_age[s]
      BY DEF IInv, AgeExact, Age
    <3>3. (((now + 1) % TimeModulus) - issued) % TimeModulus = real_age[s] + 1
      <4> HIDE DEF issued
      <4> QED
        BY <1>3, <1>4, <3>1, <3>2, AgeAfterTick
    <3> QED
      BY <1>2, <1>4, <3>3
  <2> QED
    BY <1>8, <2>1 DEF AgeExact, Age
<1>10. StaleWindowBounded'
  <2>1. \A s \in ActiveSlots : real_age'[s] <= kTokenLifetimeMs + since_scan'
    BY <1>2, <1>3, <1>4 DEF ActiveSlots
  <2> QED
    BY <1>8, <2>1 DEF StaleWindowBounded
<1> QED
  BY <1>5, <1>6, <1>7, <1>9, <1>10 DEF IInv

-----------------------------------------------------------------------------
(* Lockouts.                                                               *)

\* What becomes of lockouts and ids in one step: a locked slot keeps its lockout
\* and its id, and no slot takes on the id of a client who is locked out.
LockStateKept(c) ==
  \A t \in Slots :
    /\ session_table_[t].is_locked_out =>
         /\ session_table_'[t].is_locked_out
         /\ session_table_'[t].client_id = session_table_[t].client_id
    /\ session_table_'[t].client_id = c => session_table_[t].client_id = c

\* An occupied slot was not locked, and its new client is not.
LEMMA OccupyKeepsLockouts ==
  ASSUME TypeOK, NEW c \in Ids, NEW d \in Ids, c # d, NEW k \in Keys, NEW D,
         NEW target \in Slots, ~session_table_[target].is_locked_out,
         session_table_' = Occupy(TableWithout(D), target, d, k)
  PROVE  LockStateKept(c)
<1> DEFINE table == TableWithout(D)
           after == Occupy(table, target, d, k)
<1>1. /\ table \in [Slots -> SlotType] /\ now \in 0 .. TimeModulus - 1
      /\ \A t \in Slots : /\ table[t].client_id = session_table_[t].client_id
                          /\ table[t].is_locked_out <=> session_table_[t].is_locked_out
  BY TableWithoutFields DEF TypeOK
<1>2. session_table_' = after
  OBVIOUS
<1> HIDE DEF table
<1>3. after[target].client_id = d /\ \A t \in Slots \ {target} : after[t] = table[t]
  BY <1>1, OccupyFields
<1> HIDE DEF after
<1>4. ASSUME NEW t \in Slots
      PROVE  /\ session_table_[t].is_locked_out =>
                  /\ session_table_'[t].is_locked_out
                  /\ session_table_'[t].client_id = session_table_[t].client_id
             /\ session_table_'[t].client_id = c => session_table_[t].client_id = c
  <2>1. CASE t = target
    BY <1>2, <1>3, <2>1
  <2>2. CASE t # target
    BY <1>1, <1>2, <1>3, <2>2
  <2> QED
    BY <2>1, <2>2
<1> QED
  BY <1>4 DEF LockStateKept

\* Ending sessions locks nobody in or out.
LEMMA TableWithoutKeepsLockouts ==
  ASSUME TypeOK, NEW c \in Ids, NEW D, session_table_' = TableWithout(D)
  PROVE  LockStateKept(c)
BY TableWithoutFields DEF LockStateKept

\* No operation undoes a lockout or gives the id of a locked out client away.
LEMMA NextKeepsLockouts ==
  ASSUME IInv, [Next]_vars, NEW c \in Ids, IsLockedOut(c)
  PROVE  LockStateKept(c)
<1>1. TypeOK
  BY DEF IInv
<1>2. ASSUME session_table_' = session_table_ PROVE LockStateKept(c)
  BY <1>2 DEF LockStateKept
<1>3. ASSUME NEW d \in Ids, NEW k \in Keys, RegisterToken(d, k)
      PROVE  LockStateKept(c)
  <2>1. CASE RejectRegistration(d) \/ RegisterTableFull(d)
    BY <1>2, <2>1 DEF RejectRegistration, RegisterTableFull, Refuse
  <2>2. CASE RegisterInFreeSlot(d, k)
    <3> DEFINE target == FindFreeSlot(d)
               D == LiveSlot(d)
    <3>1. /\ c # d /\ FreeSlots(d) # {}
          /\ session_table_' = Occupy(TableWithout(D), target, d, k)
      BY <2>2 DEF RegisterInFreeSlot
    <3>2. FreeSlots(d) \in SUBSET Slots
      BY DEF FreeSlots
    <3>3. target \in FreeSlots(d)
      BY <3>1, <3>2, LowestIsLeast DEF FindFreeSlot
    <3>4. target \in Slots /\ ~session_table_[target].is_locked_out
      BY <3>3 DEF FreeSlots
    <3> HIDE DEF target, D
    <3> QED
      BY <1>1, <3>1, <3>4, OccupyKeepsLockouts
  <2>3. CASE RegisterByEviction(d, k)
    <3> DEFINE target == Head(insertion_order_)
               D == {target}
    <3>1. /\ c # d /\ insertion_order_ # <<>>
          /\ session_table_' = Occupy(TableWithout(D), target, d, k)
      BY <2>3 DEF RegisterByEviction
    <3>2. target \in ActiveSlots
      BY <1>1, <3>1, TailElements DEF TypeOK, IInv, OrderMatchesTable
    <3>3. target \in Slots /\ ~session_table_[target].is_locked_out
      BY <3>2 DEF IInv, LockedIdle, ActiveSlots
    <3> HIDE DEF target, D
    <3> QED
      BY <1>1, <3>1, <3>3, OccupyKeepsLockouts
  <2> QED
    BY <1>3, <2>1, <2>2, <2>3 DEF RegisterToken
<1>4. ASSUME NEW d \in Ids, ValidateToken(d) PROVE LockStateKept(c)
  <2>1. ASSUME NEW s \in LiveSlot(d), EndSessions({s}) PROVE LockStateKept(c)
    BY <1>1, <2>1, TableWithoutKeepsLockouts DEF EndSessions
  <2> QED
    BY <1>2, <1>4, <2>1 DEF ValidateToken, Refuse
<1>5. ASSUME NEW d \in Ids, NEW is_anomaly \in BOOLEAN, RevokeToken(d, is_anomaly)
      PROVE  LockStateKept(c)
  <2>1. CASE Matches(d) = {}
    BY <1>2, <1>5, <2>1 DEF RevokeToken, Refuse
  <2>2. CASE Matches(d) # {}
    <3> DEFINE s == FindSlotByClientId(d)
               table == TableWithout({s})
               new == IF is_anomaly THEN Struck(table[s]) ELSE table[s]
    <3>1. s \in Slots /\ session_table_' = [table EXCEPT ![s] = new]
      BY <1>5, <2>2, FoundIsFirst DEF RevokeToken
    <3>2. /\ table \in [Slots -> SlotType]
          /\ \A t \in Slots : /\ table[t].client_id = session_table_[t].client_id
                              /\ table[t].is_locked_out <=> session_table_[t].is_locked_out
      BY <1>1, TableWithoutFields
    <3> HIDE DEF table, s
    <3>3. /\ new.client_id = table[s].client_id
          /\ table[s].is_locked_out => new.is_locked_out
      BY <3>1, <3>2, StruckFields
    <3> HIDE DEF new
    <3>4. /\ session_table_'[s] = new
          /\ \A t \in Slots \ {s} : session_table_'[t] = table[t]
      BY <3>1, <3>2
    <3> QED
      BY <3>1, <3>2, <3>3, <3>4 DEF LockStateKept
  <2> QED
    BY <2>1, <2>2
<1>6. CASE EvaluateTokenExpiry
  BY <1>1, <1>6, TableWithoutKeepsLockouts DEF EvaluateTokenExpiry, EndSessions
<1>7. CASE TimePasses
  BY <1>2, <1>7 DEF TimePasses
<1>8. CASE UNCHANGED vars
  BY <1>2, <1>8 DEF vars
<1> QED
  BY <1>3, <1>4, <1>5, <1>6, <1>7, <1>8 DEF Next

\* So the slot the lookup finds for a locked out client stays the same, locked.
LEMMA LockoutStep ==
  ASSUME IInv, [Next]_vars, NEW c \in Ids, IsLockedOut(c)
  PROVE  IsLockedOut(c)'
<1> DEFINE s == FindSlotByClientId(c)
           found == {t \in Slots : session_table_'[t].client_id = c}
<1>1. /\ s \in Slots /\ session_table_[s].client_id = c
      /\ session_table_[s].is_locked_out
      /\ \A t \in Slots : session_table_[t].client_id = c => s <= t
  BY FoundIsFirst DEF IsLockedOut, FirstWithItsId
<1> HIDE DEF s
<1>2. /\ s \in found /\ session_table_'[s].is_locked_out
      /\ \A t \in found : s <= t
  BY <1>1, NextKeepsLockouts DEF LockStateKept
<1>3. found \in SUBSET Slots
  OBVIOUS
<1>4. Matches(c)' = found
  BY DEF Matches
<1> HIDE DEF found
<1>5. Lowest(found) = s
  <2>1. Lowest(found) \in found /\ \A t \in found : Lowest(found) <= t
    BY <1>2, <1>3, LowestIsLeast
  <2>2. \A t \in found : t \in Int
    BY <1>3, SlotsFinite
  <2> QED
    BY <1>2, <2>1, <2>2
<1>6. FindSlotByClientId(c)' = s
  BY <1>4, <1>5 DEF FindSlotByClientId, Lowest
<1> QED
  BY <1>2, <1>4, <1>6 DEF IsLockedOut

-----------------------------------------------------------------------------
(* The order of the ring.                                                  *)

\* The ages of the queued slots do not grow from the head to the tail.
SortedBy(q, age) == \A i, j \in DOMAIN q : i < j => age[q[i]] >= age[q[j]]

\* Withdrawing slots keeps the others sorted.
LEMMA WithoutSorted ==
  ASSUME NEW q \in Seq(Slots), NEW D, NEW age \in [Slots -> Nat], NEW age2,
         \A s \in Slots \ D : age2[s] = age[s], SortedBy(q, age)
  PROVE  SortedBy(Without(q, D), age2)
<1> DEFINE w == Without(q, D)
<1>1. PICK f \in [1 .. Len(w) -> 1 .. Len(q)] :
           /\ \A i, j \in 1 .. Len(w) : i < j => f[i] < f[j]
           /\ \A i \in 1 .. Len(w) : w[i] = q[f[i]] /\ q[f[i]] \notin D
  BY WithoutKeepsOrder
<1>2. w \in Seq(Slots)
  BY WithoutElements
<1> HIDE DEF w
<1>3. DOMAIN w = 1 .. Len(w) /\ DOMAIN q = 1 .. Len(q)
  BY <1>2
<1>4. ASSUME NEW i \in 1 .. Len(w), NEW j \in 1 .. Len(w), i < j
      PROVE  age2[w[i]] >= age2[w[j]]
  <2>1. f[i] \in DOMAIN q /\ f[j] \in DOMAIN q /\ f[i] < f[j]
    BY <1>1, <1>3, <1>4
  <2>2. age[q[f[i]]] >= age[q[f[j]]]
    BY <2>1 DEF SortedBy
  <2>3. q[f[i]] \in Slots \ D /\ q[f[j]] \in Slots \ D
    BY <1>1, <1>3, <2>1
  <2> QED
    BY <1>1, <2>2, <2>3
<1> QED
  BY <1>3, <1>4 DEF SortedBy, w

\* A slot whose session is new queues behind all others.
LEMMA PushedSorted ==
  ASSUME NEW q \in Seq(Slots), NEW age \in [Slots -> Nat], NEW age2 \in [Slots -> Nat],
         NEW capacity \in Nat, NEW target \in Slots, age2[target] = 0,
         \A s \in Elements(q) : age2[s] = age[s], SortedBy(q, age)
  PROVE  SortedBy(Pushed(q, capacity, target), age2)
<1>1. DOMAIN q = 1 .. Len(q) /\ Len(q) \in Nat
  OBVIOUS
<1>2. \A i \in DOMAIN q : age2[q[i]] = age[q[i]] /\ q[i] \in Slots
  BY <1>1 DEF Elements
<1>3. SortedBy(q, age2)
  BY <1>2 DEF SortedBy
<1>4. CASE Len(q) < capacity
  <2> DEFINE p == Append(q, target)
  <2>1. /\ DOMAIN p = 1 .. Len(q) + 1
        /\ \A i \in 1 .. Len(q) : p[i] = q[i]
        /\ p[Len(q) + 1] = target
    OBVIOUS
  <2> HIDE DEF p
  <2>2. ASSUME NEW i \in DOMAIN p, NEW j \in DOMAIN p, i < j
        PROVE  age2[p[i]] >= age2[p[j]]
    <3>1. i \in 1 .. Len(q) /\ i \in DOMAIN q /\ p[i] = q[i]
      BY <1>1, <2>1, <2>2
    <3>2. CASE j \in 1 .. Len(q)
      BY <1>1, <1>3, <2>1, <2>2, <3>1, <3>2 DEF SortedBy
    <3>3. CASE j = Len(q) + 1
      <4>1. age2[p[i]] \in Nat
        BY <1>2, <3>1
      <4> QED
        BY <2>1, <3>3, <4>1
    <3> QED
      BY <1>1, <2>1, <3>2, <3>3
  <2>3. SortedBy(p, age2)
    BY <2>2 DEF SortedBy
  <2> QED
    BY <1>4, <2>3 DEF Pushed, p
<1>5. CASE ~(Len(q) < capacity)
  BY <1>3, <1>5 DEF Pushed
<1> QED
  BY <1>4, <1>5

\* Without its head the ring is still sorted.
LEMMA TailSorted ==
  ASSUME NEW q \in Seq(Slots), q # <<>>, NEW age, SortedBy(q, age)
  PROVE  SortedBy(Tail(q), age)
<1>1. /\ DOMAIN q = 1 .. Len(q) /\ Len(q) \in Nat \ {0}
      /\ DOMAIN Tail(q) = 1 .. Len(q) - 1
      /\ \A i \in 1 .. Len(q) - 1 : Tail(q)[i] = q[i + 1]
  OBVIOUS
<1>2. ASSUME NEW i \in DOMAIN Tail(q), NEW j \in DOMAIN Tail(q), i < j
      PROVE  age[Tail(q)[i]] >= age[Tail(q)[j]]
  <2>1. /\ i + 1 \in DOMAIN q /\ j + 1 \in DOMAIN q /\ i + 1 < j + 1
        /\ Tail(q)[i] = q[i + 1] /\ Tail(q)[j] = q[j + 1]
    BY <1>1, <1>2
  <2> QED
    BY <2>1 DEF SortedBy
<1> QED
  BY <1>2 DEF SortedBy

\* Every step keeps the ring sorted by age.
LEMMA NextOldestFirst ==
  ASSUME IInv, OldestFirst, [Next]_vars
  PROVE  OldestFirst'
<1>1. /\ insertion_order_ \in Seq(Slots) /\ real_age \in [Slots -> Nat]
      /\ Distinct(insertion_order_) /\ Elements(insertion_order_) = ActiveSlots
      /\ kMaxActiveSessions \in Nat
  BY SizeAssumption DEF IInv, TypeOK, OrderMatchesTable
<1>2. SortedBy(insertion_order_, real_age)
  BY DEF OldestFirst, SortedBy
<1>3. SUFFICES SortedBy(insertion_order_', real_age')
  BY DEF OldestFirst, SortedBy
<1>4. ASSUME insertion_order_' = insertion_order_, real_age' = real_age
      PROVE  SortedBy(insertion_order_', real_age')
  BY <1>2, <1>4
<1>5. ASSUME NEW D, insertion_order_' = Without(insertion_order_, D),
             \A s \in Slots \ D : real_age'[s] = real_age[s]
      PROVE  SortedBy(insertion_order_', real_age')
  <2>1. SortedBy(Without(insertion_order_, D), real_age')
    BY <1>1, <1>2, <1>5, WithoutSorted
  <2> QED
    BY <1>5, <2>1
<1>6. ASSUME NEW D, EndSessions(D) PROVE SortedBy(insertion_order_', real_age')
  BY <1>5, <1>6 DEF EndSessions
<1>7. ASSUME NEW c \in Ids, NEW k \in Keys, RegisterToken(c, k)
      PROVE  SortedBy(insertion_order_', real_age')
  <2>1. CASE RejectRegistration(c) \/ RegisterTableFull(c)
    BY <1>4, <2>1 DEF RejectRegistration, RegisterTableFull, Refuse
  <2>2. CASE RegisterInFreeSlot(c, k)
    <3> DEFINE target == FindFreeSlot(c)
               D == LiveSlot(c)
               rest == Without(insertion_order_, D)
    <3>1. /\ FreeSlots(c) # {}
          /\ insertion_order_' = Pushed(rest, kMaxActiveSessions, target)
          /\ real_age' = [s \in Slots |-> IF s = target \/ s \in D THEN 0 ELSE real_age[s]]
      BY <2>2 DEF RegisterInFreeSlot
    <3>2. FreeSlots(c) \in SUBSET Slots
      BY DEF FreeSlots
    <3>3. target \in FreeSlots(c)
      BY <3>1, <3>2, LowestIsLeast DEF FindFreeSlot
    <3>4. target \in Slots /\ target \notin ActiveSlots \ D
      BY <3>3 DEF FreeSlots, ActiveSlots
    <3> HIDE DEF target, D
    <3>5. /\ rest \in Seq(Slots) /\ Elements(rest) = ActiveSlots \ D
          /\ SortedBy(rest, real_age)
      BY <1>1, <1>2, WithoutElements, WithoutSorted
    <3>6. /\ real_age' \in [Slots -> Nat] /\ real_age'[target] = 0
          /\ \A s \in ActiveSlots \ D : real_age'[s] = real_age[s]
      BY <1>1, <3>1, <3>4 DEF ActiveSlots
    <3> HIDE DEF rest
    <3> QED
      BY <1>1, <3>1, <3>4, <3>5, <3>6, PushedSorted
  <2>3. CASE RegisterByEviction(c, k)
    <3> DEFINE target == Head(insertion_order_)
               rest == Tail(insertion_order_)
    <3>1. /\ insertion_order_ # <<>>
          /\ insertion_order_' = Pushed(rest, kMaxActiveSessions, target)
          /\ real_age' = [real_age EXCEPT ![target] = 0]
      BY <2>3 DEF RegisterByEviction
    <3>2. /\ target \in ActiveSlots /\ rest \in Seq(Slots)
          /\ Elements(rest) = ActiveSlots \ {target}
          /\ SortedBy(rest, real_age)
      BY <1>1, <1>2, <3>1, TailElements, TailSorted
    <3> HIDE DEF target, rest
    <3>3. /\ target \in Slots
          /\ real_age' \in [Slots -> Nat] /\ real_age'[target] = 0
          /\ \A s \in ActiveSlots \ {target} : real_age'[s] = real_age[s]
      BY <1>1, <3>1, <3>2 DEF ActiveSlots
    <3> QED
      BY <1>1, <3>1, <3>2, <3>3, PushedSorted
  <2> QED
    BY <1>7, <2>1, <2>2, <2>3 DEF RegisterToken
<1>8. ASSUME NEW c \in Ids, ValidateToken(c)
      PROVE  SortedBy(insertion_order_', real_age')
  BY <1>4, <1>8, <1>6 DEF ValidateToken, Refuse
<1>9. ASSUME NEW c \in Ids, NEW is_anomaly \in BOOLEAN, RevokeToken(c, is_anomaly)
      PROVE  SortedBy(insertion_order_', real_age')
  <2>1. CASE Matches(c) = {}
    BY <1>4, <1>9, <2>1 DEF RevokeToken, Refuse
  <2>2. CASE Matches(c) # {}
    <3> DEFINE s == FindSlotByClientId(c)
               D == {s}
    <3>1. /\ insertion_order_' = Without(insertion_order_, D)
          /\ real_age' = [real_age EXCEPT ![s] = 0]
      BY <1>9, <2>2 DEF RevokeToken
    <3> HIDE DEF s
    <3>2. \A t \in Slots \ D : real_age'[t] = real_age[t]
      BY <1>1, <3>1
    <3> HIDE DEF D
    <3> QED
      BY <1>5, <3>1, <3>2
  <2> QED
    BY <2>1, <2>2
<1>10. CASE EvaluateTokenExpiry
  BY <1>10, <1>6 DEF EvaluateTokenExpiry
<1>11. CASE TimePasses
  <2>1. ASSUME NEW s \in ActiveSlots PROVE real_age'[s] = real_age[s] + 1 /\ real_age[s] \in Nat
    <3>1. s \in Slots /\ session_table_[s].is_active /\ real_age[s] \in Nat
      BY <1>1 DEF ActiveSlots
    <3>2. real_age[s] <= kTokenLifetimeMs + since_scan
      BY DEF IInv, StaleWindowBounded
    <3>3. real_age[s] < RealAgeBound
      BY <1>11, <3>1, <3>2, TimeAssumption DEF RealAgeBound, TimePasses, IInv, TypeOK
    <3> QED
      BY <1>11, <3>1, <3>3 DEF TimePasses
  <2>2. \A i \in DOMAIN insertion_order_ : insertion_order_[i] \in ActiveSlots
    BY <1>1 DEF Elements
  <2>3. insertion_order_' = insertion_order_
    BY <1>11 DEF TimePasses
  <2> QED
    BY <1>2, <2>1, <2>2, <2>3 DEF SortedBy
<1>12. CASE UNCHANGED vars
  BY <1>4, <1>12 DEF vars
<1> QED
  BY <1>7, <1>8, <1>9, <1>10, <1>11, <1>12 DEF Next

-----------------------------------------------------------------------------
(* Notifications.                                                          *)

\* How often the reply names the client of slot s.
Notices(s) ==
  Cardinality({i \in DOMAIN reply'.notified : reply'.notified[i] = session_table_[s].client_id})

\* Two live sessions are never of one client.
LEMMA LiveIdsDiffer ==
  ASSUME IInv, NEW s \in ActiveSlots, NEW t \in ActiveSlots,
         session_table_[s].client_id = session_table_[t].client_id
  PROVE  s = t
<1>1. s \in Slots /\ t \in Slots /\ s \in Int /\ t \in Int
  BY SlotsFinite DEF ActiveSlots
<1>2. s <= t /\ t <= s
  BY <1>1 DEF IInv, HeldSlotsFirst, FirstWithItsId, ActiveSlots
<1> QED
  BY <1>1, <1>2

\* A session whose slot is untouched has not ended.
LEMMA UntouchedNotEnded ==
  ASSUME NEW s, SessionEnded(s)
  PROVE  session_table_'[s] # session_table_[s] /\ s \in ActiveSlots
BY DEF SessionEnded, ActiveSlots

\* A reply that names one client names it once.
LEMMA OneNotice ==
  ASSUME NEW s, reply'.notified = <<session_table_[s].client_id>>
  PROVE  Notices(s) = 1
<1> DEFINE named == {i \in DOMAIN reply'.notified :
                       reply'.notified[i] = session_table_[s].client_id}
<1>1. named = {1}
  OBVIOUS
<1>2. Cardinality(named) = 1
  BY <1>1, FS_Singleton
<1> QED
  BY <1>2 DEF Notices

\* A registration touches its slot and those whose sessions it ends.
LEMMA OccupyTouches ==
  ASSUME TypeOK, NEW c \in Ids, NEW k \in Keys, NEW D, NEW target \in Slots,
         session_table_' = Occupy(TableWithout(D), target, c, k),
         NEW s \in Slots, s # target, s \notin D
  PROVE  session_table_'[s] = session_table_[s]
<1> DEFINE table == TableWithout(D)
           after == Occupy(table, target, c, k)
<1>1. /\ table \in [Slots -> SlotType] /\ now \in 0 .. TimeModulus - 1
      /\ table[s] = session_table_[s]
  BY TableWithoutFields DEF TypeOK
<1>2. session_table_' = after
  OBVIOUS
<1> HIDE DEF table
<1>3. after[s] = table[s]
  BY <1>1, OccupyFields
<1> HIDE DEF after
<1> QED
  BY <1>1, <1>2, <1>3

\* A registration notifies the session it replaces or evicts.
LEMMA RegisterNotifies ==
  ASSUME IInv, NEW c \in Ids, NEW k \in Keys, RegisterToken(c, k),
         NEW s \in Slots, SessionEnded(s)
  PROVE  Notices(s) = 1
<1>1. TypeOK
  BY DEF IInv
<1>2. session_table_'[s] # session_table_[s] /\ s \in ActiveSlots
  BY UntouchedNotEnded
<1>3. CASE RejectRegistration(c) \/ RegisterTableFull(c)
  BY <1>2, <1>3 DEF RejectRegistration, RegisterTableFull, Refuse
<1>4. CASE RegisterInFreeSlot(c, k)
  <2> DEFINE target == FindFreeSlot(c)
             D == LiveSlot(c)
  <2>1. /\ FreeSlots(c) # {}
        /\ session_table_' = Occupy(TableWithout(D), target, c, k)
        /\ reply'.notified = IF D = {} THEN <<>> ELSE <<c>>
    BY <1>4 DEF RegisterInFreeSlot, Returns
  <2>2. FreeSlots(c) \in SUBSET Slots
    BY DEF FreeSlots
  <2>3. target \in FreeSlots(c)
    BY <2>1, <2>2, LowestIsLeast DEF FindFreeSlot
  <2>4. target \in Slots /\ target \notin ActiveSlots \ D
    BY <2>3 DEF FreeSlots, ActiveSlots
  <2> HIDE DEF target, D
  <2>5. s \in D
    BY <1>1, <1>2, <2>1, <2>4, OccupyTouches
  <2>6. session_table_[s].client_id = c
    BY <2>5, LiveSlotIsActive DEF D
  <2> QED
    BY <2>1, <2>5, <2>6, OneNotice
<1>5. CASE RegisterByEviction(c, k)
  <2> DEFINE target == Head(insertion_order_)
             D == {target}
  <2>1. /\ insertion_order_ # <<>>
        /\ session_table_' = Occupy(TableWithout(D), target, c, k)
        /\ reply'.notified = <<session_table_[target].client_id>>
    BY <1>5 DEF RegisterByEviction, Returns
  <2>2. target \in ActiveSlots
    BY <1>1, <2>1, TailElements DEF TypeOK, IInv, OrderMatchesTable
  <2>3. target \in Slots
    BY <2>2 DEF ActiveSlots
  <2>4. s \notin D => s # target
    OBVIOUS
  <2> HIDE DEF target, D
  <2>5. s \in D
    BY <1>1, <1>2, <2>1, <2>3, <2>4, OccupyTouches
  <2>6. s = target
    BY <2>5 DEF D
  <2> QED
    BY <2>1, <2>6, OneNotice
<1> QED
  BY <1>3, <1>4, <1>5 DEF RegisterToken

\* A scan notifies every expired session, and no two of them alike.
LEMMA ExpiryNotifies ==
  ASSUME IInv, EvaluateTokenExpiry, NEW s \in Slots, SessionEnded(s)
  PROVE  Notices(s) = 1
<1> DEFINE D == Expired
           n == Cardinality(D)
           e == Ascending(D)
           named == {i \in DOMAIN reply'.notified :
                       reply'.notified[i] = session_table_[s].client_id}
<1>1. D \in SUBSET Int /\ IsFiniteSet(D) /\ D \in SUBSET ActiveSlots
  <2>1. D \in SUBSET Slots /\ D \in SUBSET ActiveSlots
    BY DEF Expired, ActiveSlots
  <2>2. D \in SUBSET Int
    BY <2>1, SlotsFinite
  <2>3. IsFiniteSet(D)
    BY <2>1, SlotsFinite, FS_Subset, Zenon
  <2> QED
    BY <2>1, <2>2, <2>3
<1>2. /\ n \in Nat /\ e \in [1 .. n -> D]
      /\ \A i, j \in 1 .. n : i < j => e[i] < e[j]
      /\ \A x \in D : \E i \in 1 .. n : e[i] = x
  BY <1>1, AscendingEnumerates
<1>3. /\ session_table_' = TableWithout(D)
      /\ reply'.notified = [i \in 1 .. n |-> session_table_[e[i]].client_id]
  BY DEF EvaluateTokenExpiry, EndSessions, Returns, ClientsOf
<1> HIDE DEF D, n, e
<1>4. s \in D
  BY <1>3, UntouchedNotEnded, TableWithoutFields DEF IInv
<1>5. PICK i \in 1 .. n : e[i] = s
  BY <1>2, <1>4
<1>6. ASSUME NEW j \in 1 .. n, session_table_[e[j]].client_id = session_table_[s].client_id
      PROVE  j = i
  <2>1. e[j] = s
    <3>1. e[j] \in ActiveSlots /\ s \in ActiveSlots
      BY <1>1, <1>2, <1>4
    <3> QED
      BY <1>6, <3>1, LiveIdsDiffer
  <2>2. s \in Int /\ ~(s < s)
    BY <1>1, <1>4
  <2>3. ~(i < j) /\ ~(j < i)
    BY <1>2, <1>5, <2>1, <2>2
  <2> QED
    BY <1>2, <2>3
<1>7. named = {i}
  BY <1>3, <1>5, <1>6
<1>8. Cardinality(named) = 1
  BY <1>7, FS_Singleton
<1> QED
  BY <1>8 DEF Notices

\* Whatever ends a session notifies its client once.
LEMMA NextNotifies ==
  ASSUME IInv, [Next]_vars, NEW s \in Slots, SessionEnded(s)
  PROVE  Notices(s) = 1
<1>1. TypeOK
  BY DEF IInv
<1>2. session_table_'[s] # session_table_[s] /\ s \in ActiveSlots
  BY UntouchedNotEnded
<1>3. ASSUME NEW c \in Ids, NEW k \in Keys, RegisterToken(c, k) PROVE Notices(s) = 1
  BY <1>3, RegisterNotifies
<1>4. ASSUME NEW c \in Ids, ValidateToken(c) PROVE Notices(s) = 1
  <2>1. ASSUME NEW t \in LiveSlot(c), EndSessions({t}), Returns("kNotFound", ZeroKey, <<c>>)
        PROVE  Notices(s) = 1
    <3> DEFINE D == {t}
    <3>1. session_table_' = TableWithout(D)
      BY <2>1 DEF EndSessions
    <3>2. s \in D
      <4> HIDE DEF D
      <4> QED
        BY <1>1, <1>2, <3>1, TableWithoutFields
    <3>3. session_table_[s].client_id = c /\ reply'.notified = <<c>>
      BY <2>1, <3>2, LiveSlotIsActive DEF Returns
    <3> QED
      BY <3>3, OneNotice
  <2> QED
    BY <1>2, <1>4, <2>1 DEF ValidateToken, Refuse
<1>5. ASSUME NEW c \in Ids, NEW is_anomaly \in BOOLEAN, RevokeToken(c, is_anomaly)
      PROVE  Notices(s) = 1
  <2>1. CASE Matches(c) = {}
    BY <1>2, <1>5, <2>1 DEF RevokeToken, Refuse
  <2>2. CASE Matches(c) # {}
    <3> DEFINE t == FindSlotByClientId(c)
               D == {t}
               new == IF is_anomaly THEN Struck(TableWithout(D)[t]) ELSE TableWithout(D)[t]
    <3>1. /\ t \in Slots /\ session_table_[t].client_id = c
          /\ session_table_' = [TableWithout(D) EXCEPT ![t] = new]
          /\ reply' = [status |-> "kOk", key |-> ZeroKey, notified |-> <<c>>]
      BY <1>5, <2>2, FoundIsFirst DEF RevokeToken, Returns
    <3>2. s # t => s \notin D
      OBVIOUS
    <3> HIDE DEF t, D, new
    <3>3. /\ TableWithout(D) \in [Slots -> SlotType]
          /\ s \notin D => TableWithout(D)[s] = session_table_[s]
      BY <1>1, TableWithoutFields
    <3>4. s = t
      BY <1>2, <3>1, <3>2, <3>3
    <3> QED
      BY <3>1, <3>4, OneNotice
  <2> QED
    BY <2>1, <2>2
<1>6. CASE EvaluateTokenExpiry
  BY <1>6, ExpiryNotifies
<1>7. CASE TimePasses
  BY <1>2, <1>7 DEF TimePasses
<1>8. CASE UNCHANGED vars
  BY <1>2, <1>8 DEF vars
<1> QED
  BY <1>3, <1>4, <1>5, <1>6, <1>7, <1>8 DEF Next

-----------------------------------------------------------------------------
(* The sessions a call leaves behind.                                      *)

\* A session in slot s after the step was there before it, of the same client
\* and under the same key.
SessionKept(s) ==
  session_table_'[s].is_active =>
    /\ session_table_[s].is_active
    /\ session_table_'[s].client_id = session_table_[s].client_id
    /\ session_table_'[s].session_key = session_table_[s].session_key

\* Ending sessions keeps the others.
LEMMA TableWithoutKeeps ==
  ASSUME TypeOK, NEW D, session_table_' = TableWithout(D), NEW s \in Slots
  PROVE  SessionKept(s)
BY TableWithoutFields DEF SessionKept

\* Only a registration makes sessions.
LEMMA ValidateTokenKeeps ==
  ASSUME IInv, NEW c \in Ids, ValidateToken(c), NEW s \in Slots
  PROVE  SessionKept(s)
<1>1. CASE session_table_' = session_table_
  BY <1>1 DEF SessionKept
<1>2. ASSUME NEW t \in LiveSlot(c), EndSessions({t}) PROVE SessionKept(s)
  <2> DEFINE D == {t}
  <2>1. session_table_' = TableWithout(D)
    BY <1>2 DEF EndSessions
  <2> HIDE DEF D
  <2> QED
    BY <2>1, TableWithoutKeeps DEF IInv
<1> QED
  BY <1>1, <1>2 DEF ValidateToken, Refuse

\* A scan makes no session, and neither does the passage of time.
LEMMA ExpiryKeeps ==
  ASSUME IInv, EvaluateTokenExpiry, NEW s \in Slots
  PROVE  SessionKept(s)
<1>1. session_table_' = TableWithout(Expired)
  BY DEF EvaluateTokenExpiry, EndSessions
<1> QED
  BY <1>1, TableWithoutKeeps DEF IInv

\* A revocation makes no session, and leaves its client without one.
LEMMA RevokeTokenKeeps ==
  ASSUME IInv, NEW c \in Ids, NEW is_anomaly \in BOOLEAN, RevokeToken(c, is_anomaly),
         NEW s \in Slots
  PROVE  /\ SessionKept(s)
         /\ session_table_'[s].client_id = c => ~session_table_'[s].is_active
<1>1. TypeOK
  BY DEF IInv
<1>2. CASE Matches(c) = {}
  <2>1. session_table_' = session_table_
    BY <1>2 DEF RevokeToken, Refuse
  <2> QED
    BY <1>2, <2>1 DEF Matches, SessionKept
<1>3. CASE Matches(c) # {}
  <2> DEFINE t == FindSlotByClientId(c)
             D == {t}
             old == TableWithout(D)[t]
             new == IF is_anomaly THEN Struck(old) ELSE old
  <2>1. /\ t \in Slots /\ FirstWithItsId(t) /\ session_table_[t].client_id = c
        /\ session_table_' = [TableWithout(D) EXCEPT ![t] = new]
    BY <1>3, FoundIsFirst DEF RevokeToken
  <2>2. t \in D /\ (s # t => s \notin D)
    OBVIOUS
  <2> HIDE DEF t, D
  <2>3. /\ TableWithout(D) \in [Slots -> SlotType]
        /\ s \notin D => TableWithout(D)[s] = session_table_[s]
        /\ old \in SlotType /\ ~old.is_active
    BY <1>1, <2>1, <2>2, TableWithoutFields
  <2> HIDE DEF old
  <2>4. ~new.is_active
    BY <2>3, StruckFields
  <2> HIDE DEF new
  <2>5. CASE s = t
    BY <2>1, <2>3, <2>4, <2>5 DEF SessionKept
  <2>6. CASE s # t
    <3>1. session_table_'[s] = session_table_[s]
      BY <2>1, <2>2, <2>3, <2>6
    <3>2. session_table_[s].client_id = c => ~session_table_[s].is_active
      <4>1. s \in Int /\ t \in Int
        BY <2>1, SlotsFinite
      <4> QED
        BY <2>1, <2>6, <4>1 DEF IInv, HeldSlotsFirst, FirstWithItsId
    <3> QED
      BY <3>1, <3>2 DEF SessionKept
  <2> QED
    BY <2>5, <2>6
<1> QED
  BY <1>2, <1>3

\* A registration that is refused changes nothing, and its client has no session:
\* it is locked out, or there is no session at all.
LEMMA RegisterRefused ==
  ASSUME IInv, NEW c \in Ids, c # ZeroId, NEW k \in Keys, RegisterToken(c, k),
         reply'.status # "kOk", NEW s \in Slots
  PROVE  /\ session_table_' = session_table_
         /\ session_table_[s].client_id = c => ~session_table_[s].is_active
<1>1. CASE IsLockedOut(c) /\ Refuse("kLockedOut")
  <2>1. session_table_' = session_table_
    BY <1>1 DEF Refuse
  <2> DEFINE t == FindSlotByClientId(c)
  <2>2. /\ t \in Slots /\ FirstWithItsId(t) /\ session_table_[t].client_id = c
        /\ session_table_[t].is_locked_out
    BY <1>1, FoundIsFirst DEF IsLockedOut
  <2> HIDE DEF t
  <2>3. ASSUME session_table_[s].client_id = c, session_table_[s].is_active PROVE FALSE
    <3>1. s \in Int /\ t \in Int
      BY <2>2, SlotsFinite
    <3>2. s = t
      BY <2>2, <2>3, <3>1 DEF IInv, HeldSlotsFirst, FirstWithItsId
    <3> QED
      BY <2>2, <2>3, <3>2 DEF IInv, LockedIdle
  <2> QED
    BY <2>1, <2>3
<1>2. CASE RegisterTableFull(c)
  <2>1. insertion_order_ = <<>> /\ session_table_' = session_table_
    BY <1>2 DEF RegisterTableFull, Refuse
  <2>2. ActiveSlots = {}
    BY <2>1 DEF IInv, OrderMatchesTable, Elements
  <2> QED
    BY <2>1, <2>2 DEF ActiveSlots
<1>3. ~RegisterInFreeSlot(c, k) /\ ~RegisterByEviction(c, k)
  BY DEF RegisterInFreeSlot, RegisterByEviction, Returns
<1> QED
  BY <1>1, <1>2, <1>3 DEF RegisterToken, RejectRegistration

\* A registration that is granted makes one session, and whatever session its
\* client has afterwards is under the new key.
LEMMA RegisterGranted ==
  ASSUME IInv, NEW c \in Ids, NEW k \in Keys, RegisterToken(c, k),
         reply'.status = "kOk", NEW s \in Slots
  PROVE  /\ \/ SessionKept(s)
            \/ session_table_'[s].client_id = c /\ session_table_'[s].session_key = k
         /\ session_table_'[s].is_active /\ session_table_'[s].client_id = c =>
              session_table_'[s].session_key = k
<1>1. TypeOK
  BY DEF IInv
<1>2. ASSUME NEW D, NEW target \in Slots,
             session_table_' = Occupy(TableWithout(D), target, c, k),
             s # target /\ s \notin D /\ session_table_[s].client_id = c =>
               ~session_table_[s].is_active
      PROVE  /\ \/ SessionKept(s)
                \/ session_table_'[s].client_id = c /\ session_table_'[s].session_key = k
             /\ session_table_'[s].is_active /\ session_table_'[s].client_id = c =>
                  session_table_'[s].session_key = k
  <2> DEFINE table == TableWithout(D)
             after == Occupy(table, target, c, k)
  <2>1. table \in [Slots -> SlotType] /\ now \in 0 .. TimeModulus - 1
    BY <1>1, TableWithoutFields DEF TypeOK
  <2>2. /\ table[s].is_active <=> session_table_[s].is_active /\ s \notin D
        /\ s \notin D => table[s] = session_table_[s]
    BY <1>1, TableWithoutFields
  <2>3. session_table_' = after
    BY <1>2
  <2> HIDE DEF table
  <2>4. /\ s # target => after[s] = table[s]
        /\ after[target].client_id = c /\ after[target].session_key = k
    BY <1>2, <2>1, OccupyFields
  <2> HIDE DEF after
  <2>5. CASE s = target
    BY <2>3, <2>4, <2>5
  <2>6. CASE s # target
    <3>1. session_table_'[s] = table[s]
      BY <2>3, <2>4, <2>6
    <3> QED
      BY <1>2, <2>2, <2>6, <3>1 DEF SessionKept
  <2> QED
    BY <2>5, <2>6
<1>3. CASE RegisterInFreeSlot(c, k)
  <2> DEFINE target == FindFreeSlot(c)
             D == LiveSlot(c)
  <2>1. /\ ~IsLockedOut(c) /\ FreeSlots(c) # {}
        /\ session_table_' = Occupy(TableWithout(D), target, c, k)
    BY <1>3 DEF RegisterInFreeSlot
  <2>2. FreeSlots(c) \in SUBSET Slots
    BY DEF FreeSlots
  <2>3. target \in Slots
    BY <2>1, <2>2, LowestIsLeast DEF FindFreeSlot
  <2>4. session_table_[s].client_id = c /\ session_table_[s].is_active => s \in D
    BY <2>1, OwnSlotsAreFree
  <2> HIDE DEF target, D
  <2> QED
    BY <1>2, <2>1, <2>3, <2>4
<1>4. CASE RegisterByEviction(c, k)
  <2> DEFINE target == Head(insertion_order_)
             D == {target}
  <2>1. /\ ~IsLockedOut(c) /\ FreeSlots(c) = {} /\ insertion_order_ # <<>>
        /\ session_table_' = Occupy(TableWithout(D), target, c, k)
    BY <1>4 DEF RegisterByEviction
  <2>2. target \in ActiveSlots
    BY <1>1, <2>1, TailElements DEF TypeOK, IInv, OrderMatchesTable
  <2>3. target \in Slots
    BY <2>2 DEF ActiveSlots
  <2>4. session_table_[s].client_id # c
    BY <2>1, OwnSlotsAreFree
  <2> HIDE DEF target, D
  <2> QED
    BY <1>2, <2>1, <2>3, <2>4
<1>5. ASSUME Refuse("kInvalidParam") \/ Refuse("kLockedOut") \/ Refuse("kTableFull")
      PROVE  FALSE
  BY <1>5 DEF Refuse, Returns
<1> QED
  BY <1>3, <1>4, <1>5 DEF RegisterToken, RejectRegistration, RegisterTableFull

-----------------------------------------------------------------------------
(* The manager implements SessionTable.                                    *)

\* The live sessions, oldest first, and the ids locked out: the state of the
\* abstract table.
LiveSessions == [i \in DOMAIN insertion_order_ |-> SessionInSlot(insertion_order_[i])]
LockedIds == {session_table_[s].client_id : s \in {t \in Slots : session_table_[t].is_locked_out}}

\* The positions of the slots of D in the ring.
PositionsOf(D) == {i \in DOMAIN insertion_order_ : insertion_order_[i] \in D}

\* The abstract table withdraws, enumerates and counts as the manager does.
LEMMA SameWithout ==
  ASSUME NEW q, NEW D
  PROVE  /\ Abstract!Without(q, D) = Without(q, D)
         /\ Abstract!Cardinality(D) = Cardinality(D)
BY DEF Abstract!Without, Without, Abstract!Ascending, Ascending,
       Abstract!Cardinality, Cardinality

\* What the abstract operators say of the manager's state.
LEMMA AbstractOperators ==
  /\ \A c : Abstract!SessionsOf(c) = {i \in DOMAIN LiveSessions : LiveSessions[i].client = c}
  /\ \A I : Abstract!ClientsOf(I) = {LiveSessions[i].client : i \in I}
  /\ \A I : Abstract!Drop(I) = Without(LiveSessions, {LiveSessions[i] : i \in I})
  /\ \A status : Refuse(status) => Abstract!Returns(status, ZeroKey, <<>>)
  /\ \A status, key, notified :
       Returns(status, key, notified) => Abstract!Returns(status, key, notified)
<1>1. \A c : Abstract!SessionsOf(c) = {i \in DOMAIN LiveSessions : LiveSessions[i].client = c}
  BY DEF Abstract!SessionsOf, LiveSessions
<1>2. \A I : Abstract!ClientsOf(I) = {LiveSessions[i].client : i \in I}
  BY DEF Abstract!ClientsOf, LiveSessions
<1>3. \A I : Abstract!Drop(I) = Without(LiveSessions, {LiveSessions[i] : i \in I})
  BY SameWithout DEF Abstract!Drop, LiveSessions
<1>4. \A status, key, notified :
        Returns(status, key, notified) => Abstract!Returns(status, key, notified)
  BY DEF Abstract!Returns, Returns
<1>5. \A status : Refuse(status) => Abstract!Returns(status, ZeroKey, <<>>)
  BY <1>4 DEF Refuse
<1> QED
  BY <1>1, <1>2, <1>3, <1>4, <1>5

\* Position by position, the ring names the sessions, of which no two are of one
\* client.
LEMMA LiveSessionsFields ==
  ASSUME IInv
  PROVE  /\ Len(insertion_order_) \in Nat
         /\ DOMAIN insertion_order_ = 1 .. Len(insertion_order_)
         /\ DOMAIN LiveSessions = 1 .. Len(insertion_order_)
         /\ \A i \in DOMAIN LiveSessions :
              /\ insertion_order_[i] \in ActiveSlots /\ insertion_order_[i] \in Slots
              /\ LiveSessions[i] = SessionInSlot(insertion_order_[i])
              /\ LiveSessions[i].client = session_table_[insertion_order_[i]].client_id
              /\ LiveSessions[i].key = session_table_[insertion_order_[i]].session_key
              /\ LiveSessions[i].age = real_age[insertion_order_[i]]
         /\ \A s \in ActiveSlots : \E i \in DOMAIN LiveSessions : insertion_order_[i] = s
         /\ \A i, j \in DOMAIN LiveSessions :
              insertion_order_[i] = insertion_order_[j]
              \/ LiveSessions[i].client = LiveSessions[j].client => i = j
<1>1. insertion_order_ \in Seq(Slots)
  BY DEF IInv, TypeOK
<1>2. Distinct(insertion_order_) /\ Elements(insertion_order_) = ActiveSlots
  BY DEF IInv, OrderMatchesTable
<1>3. /\ Len(insertion_order_) \in Nat
      /\ DOMAIN insertion_order_ = 1 .. Len(insertion_order_)
      /\ DOMAIN LiveSessions = DOMAIN insertion_order_
  BY <1>1 DEF LiveSessions
<1>4. ASSUME NEW i \in DOMAIN insertion_order_
      PROVE  /\ insertion_order_[i] \in ActiveSlots /\ insertion_order_[i] \in Slots
             /\ LiveSessions[i] = SessionInSlot(insertion_order_[i])
             /\ LiveSessions[i].client = session_table_[insertion_order_[i]].client_id
             /\ LiveSessions[i].key = session_table_[insertion_order_[i]].session_key
             /\ LiveSessions[i].age = real_age[insertion_order_[i]]
  BY <1>2 DEF Elements, ActiveSlots, LiveSessions, SessionInSlot
<1>5. \A s \in ActiveSlots : \E i \in DOMAIN insertion_order_ : insertion_order_[i] = s
  BY <1>2 DEF Elements
<1>6. ASSUME NEW i \in DOMAIN insertion_order_, NEW j \in DOMAIN insertion_order_,
             insertion_order_[i] = insertion_order_[j]
             \/ LiveSessions[i].client = LiveSessions[j].client
      PROVE  i = j
  <2>1. insertion_order_[i] = insertion_order_[j]
    BY <1>4, <1>6, LiveIdsDiffer
  <2> QED
    BY <1>2, <2>1 DEF Distinct
<1> QED
  BY <1>3, <1>4, <1>5, <1>6

\* Withdrawing slots from the ring drops their sessions, and no others.
LEMMA DropMatches ==
  ASSUME IInv, NEW D
  PROVE  /\ DOMAIN Without(insertion_order_, D) = DOMAIN Abstract!Drop(PositionsOf(D))
         /\ DOMAIN Without(insertion_order_, D) = 1 .. Len(Without(insertion_order_, D))
         /\ Len(Without(insertion_order_, D)) \in Nat
         /\ \A i \in DOMAIN Without(insertion_order_, D) :
              /\ Without(insertion_order_, D)[i] \in ActiveSlots \ D
              /\ Abstract!Drop(PositionsOf(D))[i]
                 = SessionInSlot(Without(insertion_order_, D)[i])
<1> DEFINE q == insertion_order_
           ended == {LiveSessions[i] : i \in PositionsOf(D)}
           kept == {i \in DOMAIN q : q[i] \notin D}
           keptSessions == {i \in DOMAIN LiveSessions : LiveSessions[i] \notin ended}
<1>1. kept = keptSessions
  BY LiveSessionsFields DEF PositionsOf
<1>2. /\ Without(q, D) = [j \in 1 .. Cardinality(kept) |-> q[Ascending(kept)[j]]]
      /\ Without(LiveSessions, ended)
         = [j \in 1 .. Cardinality(kept) |-> LiveSessions[Ascending(kept)[j]]]
  BY <1>1 DEF Without
<1>3. kept \in SUBSET Int /\ IsFiniteSet(kept)
  <2>1. IsFiniteSet(1 .. Len(q)) /\ kept \in SUBSET (1 .. Len(q))
    BY LiveSessionsFields, FS_Interval
  <2> QED
    BY <2>1, FS_Subset
<1>4. /\ Cardinality(kept) \in Nat
      /\ \A j \in 1 .. Cardinality(kept) : Ascending(kept)[j] \in kept
  BY <1>3, AscendingEnumerates
<1>5. \A i \in kept : q[i] \in ActiveSlots \ D /\ LiveSessions[i] = SessionInSlot(q[i])
  BY LiveSessionsFields
<1>6. Abstract!Drop(PositionsOf(D)) = Without(LiveSessions, ended)
  BY AbstractOperators
<1>7. Len(Without(q, D)) = Cardinality(kept)
  BY <1>2, <1>4
<1> HIDE DEF kept, ended
<1> QED
  BY <1>2, <1>4, <1>5, <1>6, <1>7

\* A step that withdraws slots and leaves the sessions of the others as they are.
LEMMA DropStep ==
  ASSUME IInv, NEW D, insertion_order_' = Without(insertion_order_, D),
         \A s \in ActiveSlots \ D : SessionInSlot(s)' = SessionInSlot(s)
  PROVE  LiveSessions' = Abstract!Drop(PositionsOf(D))
<1> DEFINE kept == Without(insertion_order_, D)
           dropped == Abstract!Drop(PositionsOf(D))
<1>1. /\ DOMAIN kept = DOMAIN dropped
      /\ \A i \in DOMAIN kept : kept[i] \in ActiveSlots \ D /\ dropped[i] = SessionInSlot(kept[i])
  BY DropMatches
<1>2. LiveSessions' = [i \in DOMAIN kept |-> SessionInSlot(insertion_order_[i])']
  BY DEF LiveSessions
<1>3. ASSUME NEW i \in DOMAIN kept PROVE LiveSessions'[i] = dropped[i]
  <2>1. LiveSessions'[i] = [client |-> session_table_'[kept[i]].client_id,
                            key |-> session_table_'[kept[i]].session_key,
                            age |-> real_age'[kept[i]]]
    BY <1>2 DEF SessionInSlot
  <2>2. PICK s : s = kept[i]
    OBVIOUS
  <2>3. SessionInSlot(s)' = SessionInSlot(s)
    BY <1>1, <2>2
  <2> QED
    BY <1>1, <2>1, <2>2, <2>3 DEF SessionInSlot
<1> QED
  <2>1. dropped = [i \in DOMAIN kept |-> dropped[i]]
    <3>1. dropped = [i \in DOMAIN dropped |-> dropped[i]]
      BY AbstractOperators DEF Without
    <3> QED
      BY <1>1, <3>1
  <2>2. LiveSessions' = [i \in DOMAIN kept |-> LiveSessions'[i]]
    BY <1>2
  <2> QED
    BY <1>3, <2>1, <2>2

\* A client is locked out when a locked slot remembers it.
LEMMA LockedMatches ==
  ASSUME IInv, NEW c
  PROVE  IsLockedOut(c) <=> c \in LockedIds
<1>1. ASSUME IsLockedOut(c) PROVE c \in LockedIds
  <2>1. FindSlotByClientId(c) \in Slots
        /\ session_table_[FindSlotByClientId(c)].client_id = c
    BY <1>1, FoundIsFirst DEF IsLockedOut
  <2> QED
    BY <1>1, <2>1 DEF IsLockedOut, LockedIds
<1>2. ASSUME NEW s \in Slots, session_table_[s].is_locked_out, session_table_[s].client_id = c
      PROVE  IsLockedOut(c)
  <2>1. FindSlotByClientId(c) = s
    BY <1>2, FindFirst DEF IInv, HeldSlotsFirst
  <2> QED
    BY <1>2, <2>1 DEF IsLockedOut, Matches
<1> QED
  BY <1>1, <1>2 DEF LockedIds

\* The live slots of c are the slots with a session of c.
LEMMA LiveSlotIs ==
  ASSUME IInv, NEW c
  PROVE  /\ LiveSlot(c) = {s \in ActiveSlots : session_table_[s].client_id = c}
         /\ Abstract!SessionsOf(c) = PositionsOf(LiveSlot(c))
         /\ Abstract!SessionsOf(c) = {} <=> LiveSlot(c) = {}
<1>1. ASSUME NEW s \in ActiveSlots, session_table_[s].client_id = c
      PROVE  s \in LiveSlot(c)
  <2>1. s \in Slots /\ session_table_[s].is_active
    BY DEF ActiveSlots
  <2>2. FindSlotByClientId(c) = s
    BY <1>1, <2>1, FindFirst DEF IInv, HeldSlotsFirst
  <2> QED
    BY <1>1, <2>1, <2>2 DEF LiveSlot, Matches
<1>2. LiveSlot(c) = {s \in ActiveSlots : session_table_[s].client_id = c}
  BY <1>1 DEF LiveSlot, Matches, ActiveSlots
<1>3. Abstract!SessionsOf(c) = PositionsOf(LiveSlot(c))
  BY <1>2, LiveSessionsFields, AbstractOperators DEF PositionsOf
<1>4. PositionsOf(LiveSlot(c)) = {} <=> LiveSlot(c) = {}
  BY <1>2, LiveSessionsFields DEF PositionsOf
<1> QED
  BY <1>2, <1>3, <1>4

\* The slots a session may use.
UnlockedSlots == {s \in Slots : ~session_table_[s].is_locked_out}

\* Every client locked out costs the table one slot.
LEMMA RoomLeft ==
  ASSUME IInv
  PROVE  /\ IsFiniteSet(UnlockedSlots) /\ Cardinality(UnlockedSlots) \in Nat
         /\ kMaxActiveSessions - Abstract!Cardinality(LockedIds) = Cardinality(UnlockedSlots)
         /\ ActiveSlots \subseteq UnlockedSlots
<1> DEFINE L == {t \in Slots : session_table_[t].is_locked_out}
           f == [s \in L |-> session_table_[s].client_id]
<1>1. IsFiniteSet(Slots) /\ Cardinality(Slots) = kMaxActiveSessions /\ L \in SUBSET Slots
  BY SlotsFinite
<1>2. IsFiniteSet(L)
  BY <1>1, FS_Subset
<1>3. f \in Bijection(L, LockedIds)
  <2>1. ASSUME NEW s \in L, NEW t \in L, f[s] = f[t] PROVE s = t
    <3>1. s \in Slots /\ t \in Slots /\ s \in Int /\ t \in Int
      BY SlotsFinite
    <3>2. s <= t /\ t <= s
      BY <2>1, <3>1 DEF IInv, HeldSlotsFirst, FirstWithItsId
    <3> QED
      BY <3>1, <3>2
  <2>2. LockedIds = {f[s] : s \in L}
    BY DEF LockedIds
  <2> QED
    BY <2>1, <2>2 DEF Bijection, Injection, Surjection, IsInjective
<1>4. Cardinality(LockedIds) = Cardinality(L)
  BY <1>2, <1>3, FS_Bijection DEF ExistsBijection
<1>5. /\ IsFiniteSet(Slots \ L)
      /\ Cardinality(Slots \ L) = Cardinality(Slots) - Cardinality(Slots \cap L)
  BY <1>1, FS_Difference
<1>6. UnlockedSlots = Slots \ L /\ Slots \cap L = L
  BY DEF UnlockedSlots
<1>7. ActiveSlots \subseteq UnlockedSlots
  BY DEF ActiveSlots, UnlockedSlots, IInv, LockedIdle
<1>8. Abstract!Cardinality(LockedIds) = Cardinality(LockedIds)
  BY SameWithout
<1>9. Cardinality(UnlockedSlots) \in Nat
  BY <1>5, <1>6, FS_CardinalityType
<1> QED
  BY <1>1, <1>4, <1>5, <1>6, <1>7, <1>8, <1>9

\* A queue of distinct elements is as long as there are elements.
LEMMA DistinctLength ==
  ASSUME NEW S, NEW q \in Seq(S), Distinct(q)
  PROVE  /\ IsFiniteSet(Elements(q))
         /\ Len(q) = Cardinality(Elements(q))
<1>1. Len(q) \in Nat /\ DOMAIN q = 1 .. Len(q) /\ q = [i \in 1 .. Len(q) |-> q[i]]
  OBVIOUS
<1>2. q \in Bijection(1 .. Len(q), Elements(q))
  BY <1>1 DEF Bijection, Injection, Surjection, IsInjective, Distinct, Elements
<1>3. IsFiniteSet(1 .. Len(q))
  <2>1. \A n \in Nat : IsFiniteSet(1 .. n)
    BY FS_Interval
  <2> QED
    BY <1>1, <2>1
<1>4. Cardinality(1 .. Len(q)) = Len(q)
  BY <1>1, FS_Interval
<1> QED
  BY <1>2, <1>3, <1>4, FS_Bijection DEF ExistsBijection

\* Withdrawing slots leaves a session for every live slot that stays.
LEMMA QueueLength ==
  ASSUME IInv, NEW D
  PROVE  /\ IsFiniteSet(ActiveSlots \ D)
         /\ Len(Abstract!Drop(PositionsOf(D))) = Cardinality(ActiveSlots \ D)
         /\ Len(Without(insertion_order_, D)) = Cardinality(ActiveSlots \ D)
         /\ Abstract!Drop(PositionsOf(D))
            = [i \in DOMAIN Without(insertion_order_, D) |->
                 SessionInSlot(Without(insertion_order_, D)[i])]
<1> DEFINE w == Without(insertion_order_, D)
           dropped == Abstract!Drop(PositionsOf(D))
<1>1. /\ DOMAIN w = DOMAIN dropped /\ DOMAIN w = 1 .. Len(w) /\ Len(w) \in Nat
      /\ \A i \in DOMAIN w : dropped[i] = SessionInSlot(w[i])
  BY DropMatches
<1>2. insertion_order_ \in Seq(Slots) /\ Distinct(insertion_order_)
      /\ Elements(insertion_order_) = ActiveSlots
  BY DEF IInv, TypeOK, OrderMatchesTable
<1>3. w \in Seq(Slots) /\ Elements(w) = ActiveSlots \ D /\ Distinct(w)
  BY <1>2, WithoutElements
<1>4. IsFiniteSet(ActiveSlots \ D) /\ Len(w) = Cardinality(ActiveSlots \ D)
  BY <1>3, DistinctLength
<1>5. dropped = [i \in DOMAIN dropped |-> dropped[i]]
  BY AbstractOperators DEF Without
<1>6. dropped = [i \in DOMAIN w |-> SessionInSlot(w[i])]
  <2> HIDE DEF w, dropped
  <2> QED
    BY <1>1, <1>5
<1> HIDE DEF w, dropped
<1>7. Len(dropped) = Len(w)
  BY <1>1, <1>6
<1> QED
  BY <1>4, <1>6, <1>7 DEF w, dropped

\* A slot that gets a session puts it at the end of the queue.
LEMMA PushStep ==
  ASSUME TypeOK, NEW c \in Ids, NEW k \in Keys, NEW D, NEW target \in Slots,
         NEW rest \in Seq(Slots), \A i \in DOMAIN rest : rest[i] \notin D /\ rest[i] # target,
         Len(rest) < kMaxActiveSessions,
         session_table_' = Occupy(TableWithout(D), target, c, k),
         insertion_order_' = Pushed(rest, kMaxActiveSessions, target),
         real_age' = [s \in Slots |-> IF s = target \/ s \in D THEN 0 ELSE real_age[s]]
  PROVE  LiveSessions' = Append([i \in DOMAIN rest |-> SessionInSlot(rest[i])],
                                [client |-> c, key |-> k, age |-> 0])
<1> DEFINE old == [i \in DOMAIN rest |-> SessionInSlot(rest[i])]
           fresh == [client |-> c, key |-> k, age |-> 0]
           q == Append(rest, target)
<1>1. /\ Len(rest) \in Nat /\ DOMAIN rest = 1 .. Len(rest)
      /\ \A i \in DOMAIN rest : rest[i] \in Slots
  OBVIOUS
<1>2. /\ insertion_order_' = q
      /\ DOMAIN q = 1 .. Len(rest) + 1
      /\ \A i \in 1 .. Len(rest) : q[i] = rest[i]
      /\ q[Len(rest) + 1] = target
  BY <1>1 DEF Pushed
<1>3. LiveSessions' = [i \in DOMAIN q |-> [client |-> session_table_'[q[i]].client_id,
                                          key |-> session_table_'[q[i]].session_key,
                                          age |-> real_age'[q[i]]]]
  BY <1>2 DEF LiveSessions, SessionInSlot
<1>4. ASSUME NEW i \in 1 .. Len(rest) PROVE LiveSessions'[i] = old[i]
  <2>1. PICK s \in Slots : s = rest[i] /\ s \notin D /\ s # target
    BY <1>1
  <2>2. session_table_'[s] = session_table_[s]
    BY <2>1, OccupyTouches
  <2>3. real_age'[s] = real_age[s]
    BY <2>1
  <2> HIDE DEF q
  <2> QED
    BY <1>1, <1>2, <1>3, <2>1, <2>2, <2>3 DEF SessionInSlot
<1>5. LiveSessions'[Len(rest) + 1] = fresh
  <2>1. /\ session_table_'[target].client_id = c
        /\ session_table_'[target].session_key = k
    <3> DEFINE table == TableWithout(D)
    <3>1. table \in [Slots -> SlotType] /\ now \in 0 .. TimeModulus - 1
      BY TableWithoutFields DEF TypeOK
    <3>2. session_table_' = Occupy(table, target, c, k)
      OBVIOUS
    <3> HIDE DEF table
    <3> QED
      BY <3>1, <3>2, OccupyFields
  <2>2. real_age'[target] = 0
    OBVIOUS
  <2> HIDE DEF q
  <2> QED
    BY <1>1, <1>2, <1>3, <2>1, <2>2
<1>6. /\ Len(old) = Len(rest)
      /\ DOMAIN old = 1 .. Len(rest)
      /\ Append(old, fresh) = [i \in 1 .. Len(rest) + 1 |->
                                 IF i = Len(rest) + 1 THEN fresh ELSE old[i]]
  <2> DEFINE R == {old[i] : i \in DOMAIN rest} \cup {fresh}
  <2>1. old \in [1 .. Len(rest) -> R]
    BY <1>1
  <2> HIDE DEF old, R
  <2>2. old \in Seq(R)
    BY <1>1, <2>1
  <2>3. Len(old) = Len(rest)
    BY <1>1, <2>1
  <2> QED
    BY <1>1, <2>1, <2>2, <2>3
<1>7. LiveSessions' = [i \in 1 .. Len(rest) + 1 |-> LiveSessions'[i]]
  <2> HIDE DEF q
  <2> QED
    BY <1>2, <1>3
<1> HIDE DEF old, fresh
<1>8. PICK new : new = LiveSessions'
  OBVIOUS
<1>9. ASSUME NEW i \in 1 .. Len(rest) + 1
      PROVE  new[i] = IF i = Len(rest) + 1 THEN fresh ELSE old[i]
  <2>1. CASE i = Len(rest) + 1
    BY <1>5, <1>8, <2>1
  <2>2. CASE i # Len(rest) + 1
    <3>1. i \in 1 .. Len(rest)
      BY <1>1, <2>2
    <3> QED
      BY <1>4, <1>8, <2>2, <3>1
  <2> QED
    BY <2>1, <2>2
<1>10. new = [i \in 1 .. Len(rest) + 1 |-> new[i]]
  BY <1>7, <1>8
<1>11. new = Append(old, fresh)
  BY <1>6, <1>9, <1>10
<1> QED
  BY <1>8, <1>11 DEF old, fresh

\* A call that changes nothing is refused by the abstract table too.
LEMMA RefuseMatches ==
  ASSUME NEW status, Refuse(status)
  PROVE  Abstract!Refuse(status)
<1>1. Abstract!Returns(status, ZeroKey, <<>>)
  BY AbstractOperators
<1>2. LiveSessions' = LiveSessions /\ LockedIds' = LockedIds
  BY DEF Refuse, LiveSessions, LockedIds, SessionInSlot
<1> QED
  BY <1>1, <1>2 DEF Abstract!Refuse, LiveSessions, LockedIds

\* A queue and its parts, place by place.
LEMMA HeadAndTail ==
  ASSUME NEW S, NEW q \in Seq(S), Len(q) # 0
  PROVE  Head(q) = q[1] /\ Tail(q) = [i \in 1 .. Len(q) - 1 |-> q[i + 1]]
<1>1. /\ Len(q) \in Nat \ {0} /\ q # <<>> /\ Head(q) = q[1]
      /\ Tail(q) \in Seq(S) /\ DOMAIN Tail(q) = 1 .. Len(q) - 1
      /\ \A i \in 1 .. Len(q) - 1 : Tail(q)[i] = q[i + 1]
  OBVIOUS
<1>2. Tail(q) = [i \in DOMAIN Tail(q) |-> Tail(q)[i]]
  <2>1. \A r \in Seq(S) : r = [i \in DOMAIN r |-> r[i]]
    OBVIOUS
  <2> QED
    BY <1>1, <2>1
<1> QED
  BY <1>1, <1>2

\* A registration is one of the abstract table's.
LEMMA RegisterMatches ==
  ASSUME IInv, NEW c \in Ids, NEW k \in Keys, RegisterToken(c, k)
  PROVE  Abstract!Register(c, k)
<1> DEFINE others == Abstract!Drop(Abstract!SessionsOf(c))
           fresh == [client |-> c, key |-> k, age |-> 0]
           room == kMaxActiveSessions - Abstract!Cardinality(LockedIds)
           D == LiveSlot(c)
           w == Without(insertion_order_, D)
<1>1. TypeOK /\ insertion_order_ \in Seq(Slots)
  BY DEF IInv, TypeOK
<1>2. /\ Elements(insertion_order_) = ActiveSlots /\ Distinct(insertion_order_)
  BY DEF IInv, OrderMatchesTable
<1>3. /\ IsFiniteSet(UnlockedSlots) /\ room = Cardinality(UnlockedSlots)
      /\ Cardinality(UnlockedSlots) \in Nat
      /\ ActiveSlots \subseteq UnlockedSlots
  BY RoomLeft
<1>4. IsLockedOut(c) <=> c \in LockedIds
  BY LockedMatches
<1>5. /\ D = {s \in ActiveSlots : session_table_[s].client_id = c}
      /\ Abstract!SessionsOf(c) = PositionsOf(D)
      /\ Abstract!SessionsOf(c) = {} <=> D = {}
  BY LiveSlotIs
<1>6. /\ Len(others) = Cardinality(ActiveSlots \ D) /\ Len(w) = Len(others)
      /\ others = [i \in DOMAIN w |-> SessionInSlot(w[i])]
  BY <1>5, QueueLength
<1>7. Cardinality(UnlockedSlots) <= kMaxActiveSessions /\ kMaxActiveSessions \in Nat
  BY SlotsFinite, FS_Subset, SizeAssumption DEF UnlockedSlots
<1>8. \A status : Refuse(status) => Abstract!Refuse(status)
  BY RefuseMatches
<1>9. ASSUME NEW target \in Slots, NEW E, ~session_table_[target].is_locked_out,
             session_table_' = Occupy(TableWithout(E), target, c, k)
      PROVE  LockedIds' = LockedIds
  <2> DEFINE table == TableWithout(E)
             after == Occupy(table, target, c, k)
  <2>1. /\ table \in [Slots -> SlotType] /\ now \in 0 .. TimeModulus - 1
        /\ \A s \in Slots : /\ table[s].client_id = session_table_[s].client_id
                            /\ table[s].is_locked_out <=> session_table_[s].is_locked_out
    BY <1>1, TableWithoutFields DEF TypeOK
  <2>2. session_table_' = after
    BY <1>9
  <2> HIDE DEF table
  <2>3. /\ after[target].is_locked_out <=> table[target].is_locked_out
        /\ \A s \in Slots \ {target} : after[s] = table[s]
    BY <1>9, <2>1, OccupyFields
  <2> HIDE DEF after
  <2>4. \A s \in Slots : /\ session_table_'[s].is_locked_out <=> session_table_[s].is_locked_out
                         /\ session_table_[s].is_locked_out =>
                              session_table_'[s].client_id = session_table_[s].client_id
    BY <1>9, <2>1, <2>2, <2>3
  <2> QED
    BY <2>4 DEF LockedIds
<1>10. ASSUME RegisterInFreeSlot(c, k)
       PROVE  /\ c # ZeroId /\ c \notin LockedIds /\ LockedIds' = LockedIds
              /\ Len(others) < room
              /\ LiveSessions' = Append(others, fresh)
              /\ Returns("kOk", ZeroKey, IF D = {} THEN <<>> ELSE <<c>>)
  <2> DEFINE target == FindFreeSlot(c)
  <2>1. /\ c # ZeroId /\ ~IsLockedOut(c) /\ FreeSlots(c) # {}
        /\ session_table_' = Occupy(TableWithout(D), target, c, k)
        /\ insertion_order_' = Pushed(w, kMaxActiveSessions, target)
        /\ real_age' = [s \in Slots |-> IF s = target \/ s \in D THEN 0 ELSE real_age[s]]
        /\ Returns("kOk", ZeroKey, IF D = {} THEN <<>> ELSE <<c>>)
    BY <1>10 DEF RegisterInFreeSlot
  <2>2. FreeSlots(c) \in SUBSET Slots
    BY DEF FreeSlots
  <2>3. target \in FreeSlots(c)
    BY <2>1, <2>2, LowestIsLeast DEF FindFreeSlot
  <2>4. /\ target \in Slots /\ target \in UnlockedSlots /\ target \notin ActiveSlots \ D
        /\ ~session_table_[target].is_locked_out
    BY <2>3 DEF FreeSlots, ActiveSlots, UnlockedSlots
  <2> HIDE DEF target, D
  <2>5. Len(others) < room
    <3>1. /\ IsFiniteSet(UnlockedSlots \ {target})
          /\ Cardinality(UnlockedSlots \ {target}) = Cardinality(UnlockedSlots) - 1
      BY <1>3, <2>4, FS_RemoveElement
    <3>2. ActiveSlots \ D \in SUBSET (UnlockedSlots \ {target})
      BY <1>3, <2>4
    <3>3. Cardinality(ActiveSlots \ D) <= Cardinality(UnlockedSlots \ {target})
      BY <3>1, <3>2, FS_Subset
    <3>4. Cardinality(ActiveSlots \ D) \in Nat
      BY <3>1, <3>2, FS_Subset, FS_CardinalityType
    <3> QED
      BY <1>3, <1>6, <3>1, <3>3, <3>4
  <2>6. w \in Seq(Slots) /\ Elements(w) = ActiveSlots \ D
    BY <1>1, <1>2, WithoutElements
  <2>7. \A i \in DOMAIN w : w[i] \notin D /\ w[i] # target
    BY <2>4, <2>6 DEF Elements
  <2>8. Len(w) < kMaxActiveSessions
    BY <1>3, <1>6, <1>7, <2>5, <2>6
  <2> HIDE DEF w
  <2>9. LiveSessions' = Append([i \in DOMAIN w |-> SessionInSlot(w[i])], fresh)
    BY <1>1, <2>1, <2>4, <2>6, <2>7, <2>8, PushStep
  <2>10. LockedIds' = LockedIds
    BY <1>9, <2>1, <2>4
  <2> QED
    BY <1>4, <1>6, <2>1, <2>5, <2>9, <2>10
<1>11. ASSUME RegisterByEviction(c, k) \/ RegisterTableFull(c)
       PROVE  /\ c # ZeroId /\ c \notin LockedIds
              /\ Len(others) = room /\ room = Cardinality(ActiveSlots)
  <2>1. c # ZeroId /\ ~IsLockedOut(c) /\ FreeSlots(c) = {}
    BY <1>11 DEF RegisterByEviction, RegisterTableFull
  <2>2. UnlockedSlots \subseteq ActiveSlots
    BY <2>1 DEF FreeSlots, UnlockedSlots, ActiveSlots
  <2>3. D = {}
    <3>1. \A t \in Slots : session_table_[t].client_id # c
      BY <2>1, OwnSlotsAreFree
    <3> QED
      BY <1>5, <3>1 DEF ActiveSlots
  <2>4. ActiveSlots \ D = ActiveSlots /\ ActiveSlots = UnlockedSlots
    BY <1>3, <2>2, <2>3
  <2> QED
    BY <1>3, <1>4, <1>6, <2>1, <2>4
<1>12. ASSUME RegisterByEviction(c, k)
       PROVE  /\ LockedIds' = LockedIds
              /\ room > 0
              /\ LiveSessions' = Append(Tail(LiveSessions), fresh)
              /\ Returns("kOk", ZeroKey, <<Head(LiveSessions).client>>)
  <2> DEFINE target == Head(insertion_order_)
             rest == Tail(insertion_order_)
             E == {target}
  <2>1. /\ insertion_order_ # <<>>
        /\ session_table_' = Occupy(TableWithout(E), target, c, k)
        /\ insertion_order_' = Pushed(rest, kMaxActiveSessions, target)
        /\ real_age' = [real_age EXCEPT ![target] = 0]
        /\ Returns("kOk", ZeroKey, <<session_table_[target].client_id>>)
    BY <1>12 DEF RegisterByEviction
  <2>2. /\ target \in ActiveSlots /\ rest \in Seq(Slots)
        /\ Elements(rest) = ActiveSlots \ E
    BY <1>1, <1>2, <2>1, TailElements
  <2>3. target \in Slots /\ ~session_table_[target].is_locked_out
    BY <2>2 DEF ActiveSlots, IInv, LockedIdle
  <2>4. \A i \in DOMAIN rest : rest[i] \notin E /\ rest[i] # target
    BY <2>2 DEF Elements
  <2>5. /\ Len(insertion_order_) \in Nat \ {0}
        /\ DOMAIN insertion_order_ = 1 .. Len(insertion_order_)
        /\ Len(rest) = Len(insertion_order_) - 1
        /\ target = insertion_order_[1]
        /\ DOMAIN rest = 1 .. Len(insertion_order_) - 1
        /\ \A i \in DOMAIN rest : rest[i] = insertion_order_[i + 1]
    BY <1>1, <2>1
  <2>6. /\ Len(insertion_order_) = Cardinality(ActiveSlots)
        /\ Cardinality(ActiveSlots) <= kMaxActiveSessions
    <3>1. Len(insertion_order_) = Cardinality(ActiveSlots)
      BY <1>1, <1>2, DistinctLength
    <3>2. Cardinality(ActiveSlots) <= kMaxActiveSessions
      BY SlotsFinite, FS_Subset DEF ActiveSlots
    <3> QED
      BY <3>1, <3>2
  <2>7. room > 0
    BY <1>11, <1>12, <2>5, <2>6
  <2>8. Len(rest) < kMaxActiveSessions
    BY <1>7, <2>5, <2>6
  <2>9. real_age' = [s \in Slots |-> IF s = target \/ s \in E THEN 0 ELSE real_age[s]]
    BY <1>1, <2>1, <2>3 DEF TypeOK
  <2> HIDE DEF target, rest, E
  <2>10. LiveSessions' = Append([i \in DOMAIN rest |-> SessionInSlot(rest[i])], fresh)
    <3>1. /\ session_table_' = Occupy(TableWithout(E), target, c, k)
          /\ insertion_order_' = Pushed(rest, kMaxActiveSessions, target)
      BY <2>1
    <3> QED
      BY <1>1, <3>1, <2>2, <2>3, <2>4, <2>8, <2>9, PushStep
  <2>11. LiveSessions = [i \in 1 .. Len(insertion_order_) |-> SessionInSlot(insertion_order_[i])]
    BY <2>5 DEF LiveSessions
  <2>12. /\ [i \in DOMAIN rest |-> SessionInSlot(rest[i])] = Tail(LiveSessions)
         /\ Head(LiveSessions) = SessionInSlot(target)
    <3> DEFINE R == {SessionInSlot(insertion_order_[i]) : i \in 1 .. Len(insertion_order_)}
               tail == [i \in DOMAIN rest |-> SessionInSlot(rest[i])]
    <3>1. LiveSessions \in [1 .. Len(insertion_order_) -> R]
      BY <2>11
    <3> HIDE DEF R
    <3>2. LiveSessions \in Seq(R) /\ Len(LiveSessions) = Len(insertion_order_)
      BY <2>5, <3>1
    <3>3. /\ Tail(LiveSessions) = [i \in 1 .. Len(insertion_order_) - 1 |-> LiveSessions[i + 1]]
          /\ Head(LiveSessions) = LiveSessions[1]
      BY <2>5, <3>2, HeadAndTail
    <3>4. Head(LiveSessions) = SessionInSlot(target)
      BY <2>5, <2>11, <3>3
    <3>5. ASSUME NEW i \in DOMAIN rest
          PROVE  SessionInSlot(rest[i]) = LiveSessions[i + 1]
      <4>1. i + 1 \in 1 .. Len(insertion_order_)
        BY <2>5
      <4> QED
        BY <2>5, <2>11, <4>1
    <3>6. tail = Tail(LiveSessions)
      BY <2>5, <3>3, <3>5
    <3> QED
      BY <3>4, <3>6
  <2>13. LockedIds' = LockedIds
    BY <1>9, <2>1, <2>3
  <2>14. Head(LiveSessions).client = session_table_[target].client_id
    BY <2>12 DEF SessionInSlot
  <2> QED
    BY <2>1, <2>7, <2>10, <2>12, <2>13, <2>14
<1>13. ASSUME RegisterTableFull(c)
       PROVE  room = 0 /\ Refuse("kTableFull") /\ LockedIds' = LockedIds
  <2>1. insertion_order_ = <<>> /\ Refuse("kTableFull")
    BY <1>13 DEF RegisterTableFull
  <2>2. ActiveSlots = {}
    BY <1>2, <2>1 DEF Elements
  <2>3. LockedIds' = LockedIds
    BY <2>1 DEF Refuse, LockedIds
  <2> QED
    BY <1>11, <1>13, <2>1, <2>2, <2>3, FS_EmptySet
<1>14. ASSUME NEW status, NEW key, NEW notified, Returns(status, key, notified)
       PROVE  Abstract!Returns(status, key, notified)
  BY <1>14, AbstractOperators
<1> HIDE DEF others, room, w
<1>15. CASE RejectRegistration(c)
  BY <1>4, <1>8, <1>15 DEF RejectRegistration, Abstract!Register, LockedIds
<1>16. CASE RegisterInFreeSlot(c, k)
  <2>1. Abstract!Returns("kOk", ZeroKey, IF Abstract!SessionsOf(c) = {} THEN <<>> ELSE <<c>>)
    BY <1>5, <1>10, <1>14, <1>16
  <2> QED
    BY <1>10, <1>16, <2>1 DEF Abstract!Register, LockedIds, LiveSessions, others, room
<1>17. CASE RegisterByEviction(c, k)
  <2>1. Abstract!Returns("kOk", ZeroKey, <<Head(LiveSessions).client>>)
    BY <1>12, <1>14, <1>17
  <2> QED
    BY <1>11, <1>12, <1>17, <2>1 DEF Abstract!Register, LockedIds, LiveSessions, others, room
<1>18. CASE RegisterTableFull(c)
  <2>1. Abstract!Refuse("kTableFull")
    BY <1>8, <1>13, <1>18
  <2> QED
    BY <1>11, <1>13, <1>18, <2>1 DEF Abstract!Register, LockedIds, LiveSessions, room
<1> QED
  BY <1>15, <1>16, <1>17, <1>18 DEF RegisterToken

\* Ending sessions drops them from the abstract table, and locks nobody out.
LEMMA EndMatches ==
  ASSUME IInv, NEW D, EndSessions(D)
  PROVE  LiveSessions' = Abstract!Drop(PositionsOf(D)) /\ LockedIds' = LockedIds
<1>1. TypeOK
  BY DEF IInv
<1>2. \A s \in Slots :
        /\ session_table_'[s].client_id = session_table_[s].client_id
        /\ session_table_'[s].is_locked_out <=> session_table_[s].is_locked_out
        /\ s \notin D => session_table_'[s] = session_table_[s] /\ real_age'[s] = real_age[s]
  BY <1>1, TableWithoutFields DEF EndSessions
<1>3. LockedIds' = LockedIds
  BY <1>2 DEF LockedIds
<1>4. \A s \in ActiveSlots \ D : SessionInSlot(s)' = SessionInSlot(s)
  BY <1>2 DEF SessionInSlot, ActiveSlots
<1>5. insertion_order_' = Without(insertion_order_, D)
  BY DEF EndSessions
<1> QED
  BY <1>3, <1>4, <1>5, DropStep

\* A validation is one of the abstract table's: the key handed out is that of
\* the client's session, and a session past its lifetime ends.
LEMMA ValidateMatches ==
  ASSUME IInv, NEW c \in Ids, ValidateToken(c)
  PROVE  Abstract!Validate(c)
<1>1. IsLockedOut(c) <=> c \in LockedIds
  BY LockedMatches
<1>2. Abstract!SessionsOf(c) = {} <=> LiveSlot(c) = {}
  BY LiveSlotIs
<1>3. ASSUME NEW s \in LiveSlot(c)
      PROVE  \E i \in Abstract!SessionsOf(c) :
               /\ LiveSessions[i] = SessionInSlot(s)
               /\ PositionsOf({s}) = {i}
  <2>1. s \in ActiveSlots /\ session_table_[s].client_id = c
    BY LiveSlotIsActive DEF ActiveSlots
  <2>2. PICK i \in DOMAIN LiveSessions : insertion_order_[i] = s
    BY <2>1, LiveSessionsFields
  <2>3. i \in Abstract!SessionsOf(c)
    BY <2>1, <2>2, LiveSessionsFields, AbstractOperators
  <2>4. LiveSessions[i] = SessionInSlot(s) /\ PositionsOf({s}) = {i}
    BY <2>2, LiveSessionsFields DEF PositionsOf
  <2> QED
    BY <2>3, <2>4
<1>4. ASSUME NEW s \in LiveSlot(c)
      PROVE  /\ SessionInSlot(s).key = session_table_[s].session_key
             /\ IsExpired(s) <=> SessionInSlot(s).age > kTokenLifetimeMs
             /\ ~IsExpired(s) <=> SessionInSlot(s).age <= kTokenLifetimeMs
  <2>1. s \in ActiveSlots /\ s \in Slots
    BY LiveSlotIsActive DEF ActiveSlots
  <2>2. Age(s) = real_age[s] /\ real_age[s] \in Nat
    BY <2>1 DEF IInv, AgeExact, TypeOK
  <2> QED
    BY <2>2, TimeAssumption DEF SessionInSlot, IsExpired
<1>5. CASE IsLockedOut(c) /\ Refuse("kLockedOut")
  BY <1>1, <1>5, RefuseMatches DEF Abstract!Validate, LockedIds
<1>6. CASE ~IsLockedOut(c) /\ LiveSlot(c) = {} /\ Refuse("kNotFound")
  BY <1>1, <1>2, <1>6, RefuseMatches DEF Abstract!Validate, LockedIds
<1>7. ASSUME NEW s \in LiveSlot(c), IsExpired(s), EndSessions({s}),
             Returns("kNotFound", ZeroKey, <<c>>)
      PROVE  Abstract!Validate(c)
  <2>1. PICK i \in Abstract!SessionsOf(c) :
          LiveSessions[i] = SessionInSlot(s) /\ PositionsOf({s}) = {i}
    BY <1>3
  <2>2. LiveSessions' = Abstract!Drop({i}) /\ LockedIds' = LockedIds
    BY <1>7, <2>1, EndMatches
  <2>3. LiveSessions[i].age > kTokenLifetimeMs
    BY <1>4, <1>7, <2>1
  <2>4. Abstract!Returns("kNotFound", ZeroKey, <<c>>)
    BY <1>7, AbstractOperators
  <2> QED
    BY <2>2, <2>3, <2>4 DEF Abstract!Validate, LiveSessions, LockedIds
<1>8. ASSUME NEW s \in LiveSlot(c), ~IsExpired(s),
             Returns("kOk", session_table_[s].session_key, <<>>),
             UNCHANGED <<session_table_, insertion_order_, real_age>>
      PROVE  Abstract!Validate(c)
  <2>1. PICK i \in Abstract!SessionsOf(c) : LiveSessions[i] = SessionInSlot(s)
    BY <1>3
  <2>2. LiveSessions' = LiveSessions /\ LockedIds' = LockedIds
    BY <1>8 DEF LiveSessions, LockedIds, SessionInSlot
  <2>3. /\ LiveSessions[i].age <= kTokenLifetimeMs
        /\ LiveSessions[i].key = session_table_[s].session_key
    BY <1>4, <1>8, <2>1
  <2>4. Abstract!Returns("kOk", session_table_[s].session_key, <<>>)
    BY <1>8, AbstractOperators
  <2>5. Abstract!Returns("kOk", LiveSessions[i].key, <<>>)
    BY <2>3, <2>4
  <2> QED
    BY <2>2, <2>3, <2>5 DEF Abstract!Validate, LiveSessions, LockedIds
<1> QED
  BY <1>5, <1>6, <1>7, <1>8 DEF ValidateToken

\* A revocation is one of the abstract table's: it ends the client's session, and
\* only an anomaly locks the client out.
LEMMA RevokeMatches ==
  ASSUME IInv, NEW c \in Ids, NEW is_anomaly \in BOOLEAN, RevokeToken(c, is_anomaly)
  PROVE  Abstract!Revoke(c, is_anomaly)
<1>1. TypeOK
  BY DEF IInv
<1>2. /\ LiveSlot(c) = {s \in ActiveSlots : session_table_[s].client_id = c}
      /\ Abstract!SessionsOf(c) = PositionsOf(LiveSlot(c))
      /\ Abstract!SessionsOf(c) = {} <=> LiveSlot(c) = {}
  BY LiveSlotIs
<1>3. CASE Matches(c) = {}
  <2>1. Refuse("kNotFound")
    BY <1>3 DEF RevokeToken
  <2>2. LiveSlot(c) = {}
    BY <1>3 DEF LiveSlot
  <2> QED
    BY <1>2, <2>1, <2>2, RefuseMatches DEF Abstract!Revoke
<1>4. CASE Matches(c) # {}
  <2> DEFINE t == FindSlotByClientId(c)
             D == {t}
             old == TableWithout(D)[t]
             new == IF is_anomaly THEN Struck(old) ELSE old
  <2>1. /\ t \in Slots /\ session_table_[t].client_id = c
        /\ session_table_' = [TableWithout(D) EXCEPT ![t] = new]
        /\ insertion_order_' = Without(insertion_order_, D)
        /\ real_age' = [real_age EXCEPT ![t] = 0]
        /\ Returns("kOk", ZeroKey, <<c>>)
    BY <1>4, FoundIsFirst DEF RevokeToken
  <2>2. PositionsOf(D) = Abstract!SessionsOf(c)
    <3>1. ASSUME NEW i \in DOMAIN insertion_order_
          PROVE  insertion_order_[i] \in LiveSlot(c) <=> insertion_order_[i] \in D
      <4>1. insertion_order_[i] \in ActiveSlots
        BY LiveSessionsFields
      <4>2. insertion_order_[i] \in LiveSlot(c) => insertion_order_[i] \in D
        BY LiveSlotIsActive
      <4> QED
        BY <1>2, <2>1, <4>1, <4>2
    <3> QED
      BY <1>2, <3>1 DEF PositionsOf
  <2>3. t \in D /\ \A s \in Slots : s # t => s \notin D
    OBVIOUS
  <2> HIDE DEF t, D
  <2>4. /\ TableWithout(D) \in [Slots -> SlotType]
        /\ \A s \in Slots : s # t => TableWithout(D)[s] = session_table_[s]
        /\ old \in SlotType /\ old.client_id = c
        /\ old.is_locked_out <=> session_table_[t].is_locked_out
    BY <1>1, <2>1, <2>3, TableWithoutFields
  <2> HIDE DEF old
  <2>5. /\ new.client_id = c
        /\ session_table_[t].is_locked_out => new.is_locked_out
        /\ new.is_locked_out => session_table_[t].is_locked_out \/ is_anomaly
    BY <2>4, StruckFields
  <2> HIDE DEF new
  <2>6. /\ session_table_'[t] = new
        /\ \A s \in Slots : s # t => session_table_'[s] = session_table_[s]
        /\ \A s \in Slots : s # t => real_age'[s] = real_age[s]
    BY <1>1, <2>1, <2>4 DEF TypeOK
  <2>7. LiveSessions' = Abstract!Drop(PositionsOf(D))
    <3>1. \A s \in ActiveSlots \ D : SessionInSlot(s)' = SessionInSlot(s)
      BY <2>3, <2>6 DEF SessionInSlot, ActiveSlots
    <3> QED
      BY <2>1, <3>1, DropStep
  <2>8. LockedIds' = LockedIds \/ (is_anomaly /\ LockedIds' = LockedIds \cup {c})
    <3>1. CASE new.is_locked_out <=> session_table_[t].is_locked_out
      <4>1. \A s \in Slots :
              /\ session_table_'[s].client_id = session_table_[s].client_id
              /\ session_table_'[s].is_locked_out <=> session_table_[s].is_locked_out
        BY <2>1, <2>5, <2>6, <3>1
      <4> QED
        BY <4>1 DEF LockedIds
    <3>2. CASE new.is_locked_out /\ ~session_table_[t].is_locked_out
      <4>1. \A s \in Slots :
              /\ session_table_'[s].client_id = session_table_[s].client_id
              /\ session_table_'[s].is_locked_out <=> session_table_[s].is_locked_out \/ s = t
        BY <2>1, <2>5, <2>6, <3>2
      <4>2. LockedIds' = LockedIds \cup {c}
        BY <2>1, <4>1 DEF LockedIds
      <4> QED
        BY <2>5, <3>2, <4>2
    <3> QED
      BY <2>5, <3>1, <3>2
  <2>9. Abstract!Returns("kOk", ZeroKey, <<c>>)
    BY <2>1, AbstractOperators
  <2> QED
    BY <2>2, <2>7, <2>8, <2>9 DEF Abstract!Revoke, LiveSessions, LockedIds
<1> QED
  BY <1>3, <1>4

\* A scan is the abstract table's: exactly the sessions past their lifetime end,
\* and as many notices name exactly their clients.
LEMMA ExpireMatches ==
  ASSUME IInv, EvaluateTokenExpiry
  PROVE  Abstract!Expire
<1> DEFINE D == Expired
           n == Cardinality(D)
           e == Ascending(D)
           old == {i \in DOMAIN LiveSessions : LiveSessions[i].age > kTokenLifetimeMs}
           clients == {LiveSessions[i].client : i \in old}
           notified == [i \in 1 .. n |-> session_table_[e[i]].client_id]
<1>1. D \in SUBSET Int /\ IsFiniteSet(D) /\ D \in SUBSET ActiveSlots
  <2>1. D \in SUBSET Slots /\ D \in SUBSET ActiveSlots
    BY DEF Expired, ActiveSlots
  <2>2. D \in SUBSET Int
    BY <2>1, SlotsFinite
  <2>3. IsFiniteSet(D)
    BY <2>1, SlotsFinite, FS_Subset, Zenon
  <2> QED
    BY <2>1, <2>2, <2>3
<1>2. /\ n \in Nat /\ e \in [1 .. n -> D]
      /\ \A x \in D : \E i \in 1 .. n : e[i] = x
  BY <1>1, AscendingEnumerates
<1>3. \A s \in ActiveSlots : s \in D <=> real_age[s] > kTokenLifetimeMs
  BY DEF Expired, ActiveSlots, IsExpired, IInv, AgeExact
<1>4. old = PositionsOf(D)
  BY <1>3, LiveSessionsFields DEF PositionsOf
<1>5. /\ EndSessions(D)
      /\ reply' = [status |-> "none", key |-> ZeroKey, notified |-> notified]
  BY DEF EvaluateTokenExpiry, Returns, ClientsOf
<1>6. LiveSessions' = Abstract!Drop(old) /\ LockedIds' = LockedIds
  BY <1>4, <1>5, EndMatches
<1> HIDE DEF D, n, e
<1>7. /\ \A i \in old : insertion_order_[i] \in D
      /\ \A s \in D : \E i \in old : insertion_order_[i] = s
  BY <1>1, <1>4, LiveSessionsFields DEF PositionsOf
<1>8. clients = {session_table_[s].client_id : s \in D}
  BY <1>7, LiveSessionsFields
<1>9. Abstract!Cardinality(old) = n
  <2> DEFINE f == [i \in old |-> insertion_order_[i]]
  <2>1. f \in Bijection(old, D)
    <3>1. \A i, j \in old : f[i] = f[j] => i = j
      BY LiveSessionsFields
    <3> QED
      BY <1>7, <3>1 DEF Bijection, Injection, Surjection, IsInjective
  <2>2. IsFiniteSet(old)
    <3>1. /\ \A m \in Nat : IsFiniteSet(1 .. m)
          /\ old \in SUBSET (1 .. Len(insertion_order_)) /\ Len(insertion_order_) \in Nat
      BY LiveSessionsFields, FS_Interval
    <3> QED
      BY <3>1, FS_Subset
  <2>3. Cardinality(D) = Cardinality(old)
    BY <2>1, <2>2, FS_Bijection DEF ExistsBijection
  <2> QED
    BY <2>3, SameWithout DEF n
<1>10. /\ DOMAIN notified = 1 .. n
       /\ \A i \in 1 .. n : notified[i] \in clients
       /\ \A d \in clients : \E i \in 1 .. n : notified[i] = d
  <2>1. ASSUME NEW i \in 1 .. n PROVE notified[i] \in clients
    <3>1. e[i] \in D /\ notified[i] = session_table_[e[i]].client_id
      BY <1>2
    <3> QED
      BY <1>8, <3>1
  <2>2. ASSUME NEW s \in D PROVE \E i \in 1 .. n : notified[i] = session_table_[s].client_id
    BY <1>2
  <2> HIDE DEF clients
  <2> QED
    BY <1>8, <2>1, <2>2
<1>11. clients = Abstract!ClientsOf(old)
  BY AbstractOperators
<1>12. notified \in [1 .. Abstract!Cardinality(old) -> Abstract!ClientsOf(old)]
  BY <1>9, <1>10, <1>11
<1>13. reply'.notified = notified /\ reply'.status = "none" /\ reply'.key = ZeroKey
  BY <1>5
<1> HIDE DEF old, clients, notified
<1>14. Abstract!Elements(reply'.notified) = Abstract!ClientsOf(old)
  BY <1>10, <1>11, <1>13 DEF Abstract!Elements
<1>15. reply' \in [status : {"none"}, key : {ZeroKey},
                   notified : [1 .. Abstract!Cardinality(old) -> Abstract!ClientsOf(old)]]
  BY <1>5, <1>12
<1> QED
  BY <1>6, <1>14, <1>15 DEF Abstract!Expire, LiveSessions, LockedIds, old

\* Time ages all sessions alike, and none beyond what the scans allow.
LEMMA AgeMatches ==
  ASSUME IInv, TimePasses
  PROVE  Abstract!Age
<1>1. ASSUME NEW s \in ActiveSlots
      PROVE  /\ real_age[s] < kTokenLifetimeMs + TickPeriod
             /\ real_age'[s] = real_age[s] + 1
  <2>1. s \in Slots /\ session_table_[s].is_active /\ real_age[s] \in Nat
    BY DEF ActiveSlots, IInv, TypeOK
  <2>2. real_age[s] <= kTokenLifetimeMs + since_scan
    BY DEF IInv, StaleWindowBounded
  <2>3. /\ since_scan < TickPeriod /\ since_scan \in Nat
        /\ real_age' = [u \in Slots |->
                          IF session_table_[u].is_active /\ real_age[u] < RealAgeBound
                          THEN real_age[u] + 1 ELSE real_age[u]]
    BY TimeAssumption DEF TimePasses, IInv, TypeOK
  <2>4. real_age[s] < kTokenLifetimeMs + TickPeriod
    BY <2>1, <2>2, <2>3, TimeAssumption
  <2>5. real_age[s] < RealAgeBound
    BY <2>1, <2>4, TimeAssumption DEF RealAgeBound
  <2> QED
    BY <2>1, <2>3, <2>4, <2>5
<1>2. \A i \in DOMAIN LiveSessions : LiveSessions[i].age < kTokenLifetimeMs + TickPeriod
  BY <1>1, LiveSessionsFields
<1>3. /\ session_table_' = session_table_ /\ insertion_order_' = insertion_order_
      /\ Returns("none", ZeroKey, <<>>)
  BY DEF TimePasses
<1>4. LockedIds' = LockedIds
  BY <1>3 DEF LockedIds
<1>5. LiveSessions' = [i \in DOMAIN LiveSessions |-> [LiveSessions[i] EXCEPT !.age = @ + 1]]
  <2>1. LiveSessions' = [i \in DOMAIN insertion_order_ |->
                           [client |-> session_table_[insertion_order_[i]].client_id,
                            key |-> session_table_[insertion_order_[i]].session_key,
                            age |-> real_age'[insertion_order_[i]]]]
    BY <1>3 DEF LiveSessions, SessionInSlot
  <2>2. ASSUME NEW i \in DOMAIN insertion_order_
        PROVE  [LiveSessions[i] EXCEPT !.age = @ + 1]
               = [client |-> session_table_[insertion_order_[i]].client_id,
                  key |-> session_table_[insertion_order_[i]].session_key,
                  age |-> real_age'[insertion_order_[i]]]
    <3>1. real_age'[insertion_order_[i]] = real_age[insertion_order_[i]] + 1
      BY <1>1, LiveSessionsFields
    <3>2. LiveSessions[i] = SessionInSlot(insertion_order_[i])
      BY LiveSessionsFields
    <3> QED
      BY <3>1, <3>2 DEF SessionInSlot
  <2>3. DOMAIN LiveSessions = DOMAIN insertion_order_
    BY DEF LiveSessions
  <2> QED
    BY <2>1, <2>2, <2>3
<1>6. Abstract!Returns("none", ZeroKey, <<>>)
  BY <1>3, AbstractOperators
<1> QED
  BY <1>2, <1>4, <1>5, <1>6 DEF Abstract!Age, LiveSessions, LockedIds

\* Every step of the manager is a step of the abstract table.
LEMMA NextMatches == IInv /\ [Next]_vars => [Abstract!Next]_(Abstract!vars)
<1> SUFFICES ASSUME IInv, [Next]_vars PROVE [Abstract!Next]_(Abstract!vars)
  OBVIOUS
<1>1. ASSUME NEW c \in Ids, NEW k \in Keys, RegisterToken(c, k) PROVE Abstract!Next
  BY <1>1, RegisterMatches DEF Abstract!Next, Ids
<1>2. ASSUME NEW c \in Ids, ValidateToken(c) PROVE Abstract!Next
  BY <1>2, ValidateMatches DEF Abstract!Next, Ids
<1>3. ASSUME NEW c \in Ids, NEW is_anomaly \in BOOLEAN, RevokeToken(c, is_anomaly)
      PROVE  Abstract!Next
  BY <1>3, RevokeMatches DEF Abstract!Next, Ids
<1>4. CASE EvaluateTokenExpiry
  BY <1>4, ExpireMatches DEF Abstract!Next
<1>5. CASE TimePasses
  BY <1>5, AgeMatches DEF Abstract!Next
<1>6. CASE UNCHANGED vars
  <2>1. LiveSessions' = LiveSessions /\ LockedIds' = LockedIds /\ reply' = reply
    BY <1>6 DEF vars, LiveSessions, LockedIds, SessionInSlot
  <2> QED
    BY <2>1 DEF Abstract!vars, LiveSessions, LockedIds
<1> QED
  BY <1>1, <1>2, <1>3, <1>4, <1>5, <1>6 DEF Next

-----------------------------------------------------------------------------
(* What a call means for each client.                                      *)

\* A client is locked out just when its id is locked.
LEMMA LocksBefore == IInv => \A d : IsLockedOut(d) <=> d \in LockedIds
BY LockedMatches

\* The same, said of the state after a step.
LEMMA LocksAfter == IInv' => \A d : IsLockedOut(d)' <=> d \in LockedIds'
<1>1. IInv => \A d : IsLockedOut(d) <=> d \in LockedIds
  BY LockedMatches
<1>2. IInv' => (\A d : IsLockedOut(d) <=> d \in LockedIds)'
  BY <1>1, PTL
<1> QED
  BY <1>2

\* Only a revocation locks anyone out.
LEMMA LocksKept ==
  ASSUME IInv, IInv',
         \/ \E c \in Ids, k \in Keys : RegisterToken(c, k)
         \/ \E c \in Ids : ValidateToken(c)
         \/ EvaluateTokenExpiry
         \/ TimePasses,
         NEW d
  PROVE  IsLockedOut(d)' <=> IsLockedOut(d)
<1> USE DEF Abstract!Refuse, LockedIds
<1>1. ASSUME NEW c \in Ids, NEW k \in Keys, RegisterToken(c, k)
      PROVE  LockedIds' = LockedIds
  BY <1>1, RegisterMatches DEF Abstract!Register
<1>2. ASSUME NEW c \in Ids, ValidateToken(c) PROVE LockedIds' = LockedIds
  BY <1>2, ValidateMatches DEF Abstract!Validate
<1>3. ASSUME EvaluateTokenExpiry PROVE LockedIds' = LockedIds
  BY <1>3, ExpireMatches DEF Abstract!Expire
<1>4. ASSUME TimePasses PROVE LockedIds' = LockedIds
  BY <1>4, AgeMatches DEF Abstract!Age
<1>5. LockedIds' = LockedIds
  BY <1>1, <1>2, <1>3, <1>4
<1> HIDE DEF LockedIds
<1> QED
  BY <1>5, LocksBefore, LocksAfter

\* A revocation locks its client out, or nobody, and unlocks nobody.
LEMMA RevokeLocks ==
  ASSUME IInv, IInv', NEW c \in Ids, NEW is_anomaly \in BOOLEAN, RevokeToken(c, is_anomaly),
         NEW d
  PROVE  /\ IsLockedOut(d) => IsLockedOut(d)'
         /\ IsLockedOut(d)' /\ d # c => IsLockedOut(d)
<1>1. LockedIds' = LockedIds \/ LockedIds' = LockedIds \cup {c}
  BY RevokeMatches DEF Abstract!Revoke, Abstract!Refuse, LockedIds
<1> QED
  BY <1>1, LocksBefore, LocksAfter

\* A validation and a revocation leave the slots of other clients alone, and no
\* call but a registration changes which client a slot remembers.
LEMMA OthersStay ==
  ASSUME IInv, NEW c \in Ids,
         ValidateToken(c) \/ \E is_anomaly \in BOOLEAN : RevokeToken(c, is_anomaly),
         NEW s \in Slots
  PROVE  /\ session_table_'[s].client_id = session_table_[s].client_id
         /\ session_table_[s].client_id # c => session_table_'[s] = session_table_[s]
<1>1. TypeOK
  BY DEF IInv
<1>2. CASE session_table_' = session_table_
  BY <1>2
<1>3. ASSUME NEW t \in LiveSlot(c), EndSessions({t})
      PROVE  /\ session_table_'[s].client_id = session_table_[s].client_id
             /\ session_table_[s].client_id # c => session_table_'[s] = session_table_[s]
  <2> DEFINE D == {t}
  <2>1. session_table_' = TableWithout(D)
    BY <1>3 DEF EndSessions
  <2>2. session_table_[s].client_id # c => s \notin D
    BY DEF LiveSlot, Matches
  <2> HIDE DEF D
  <2> QED
    BY <1>1, <2>1, <2>2, TableWithoutFields
<1>4. ASSUME NEW is_anomaly \in BOOLEAN, RevokeToken(c, is_anomaly), Matches(c) # {}
      PROVE  /\ session_table_'[s].client_id = session_table_[s].client_id
             /\ session_table_[s].client_id # c => session_table_'[s] = session_table_[s]
  <2> DEFINE t == FindSlotByClientId(c)
             D == {t}
             old == TableWithout(D)[t]
             new == IF is_anomaly THEN Struck(old) ELSE old
  <2>1. /\ t \in Slots /\ session_table_[t].client_id = c
        /\ session_table_' = [TableWithout(D) EXCEPT ![t] = new]
    BY <1>4, FoundIsFirst DEF RevokeToken
  <2>2. s # t => s \notin D
    OBVIOUS
  <2> HIDE DEF t, D
  <2>3. /\ TableWithout(D) \in [Slots -> SlotType]
        /\ old \in SlotType /\ old.client_id = c
        /\ TableWithout(D)[s].client_id = session_table_[s].client_id
        /\ s \notin D => TableWithout(D)[s] = session_table_[s]
    BY <1>1, <2>1, TableWithoutFields
  <2> HIDE DEF old
  <2>4. new.client_id = c
    BY <2>3, StruckFields
  <2> HIDE DEF new
  <2> QED
    BY <2>1, <2>2, <2>3, <2>4
<1> QED
  BY <1>2, <1>3, <1>4 DEF ValidateToken, RevokeToken, Refuse

\* A scan ends sessions and lets every slot remember its client.
LEMMA ScanKeepsIds ==
  ASSUME IInv, EvaluateTokenExpiry, NEW s \in Slots
  PROVE  session_table_'[s].client_id = session_table_[s].client_id
<1>1. session_table_' = TableWithout(Expired)
  BY DEF EvaluateTokenExpiry, EndSessions
<1> QED
  BY <1>1, TableWithoutFields DEF IInv

\* A registration that is granted makes one session in one slot, ends its client's
\* others, and leaves the slots of other clients alone, but that a full table costs
\* one of them its session.
LEMMA RegisterSpares ==
  ASSUME IInv, NEW c \in Ids, NEW k \in Keys, RegisterToken(c, k), reply'.status = "kOk"
  PROVE  \E t \in Slots :
           /\ session_table_'[t].client_id = c /\ session_table_'[t].session_key = k
           /\ session_table_'[t].is_active
           /\ \A s \in Slots \ {t} :
                /\ session_table_'[s].client_id = session_table_[s].client_id
                /\ session_table_[s].client_id # c => session_table_'[s] = session_table_[s]
                /\ session_table_[s].client_id = c => ~session_table_'[s].is_active
           /\ session_table_[t].is_active /\ session_table_[t].client_id # c =>
                FreeSlots(c) = {}
<1>1. TypeOK
  BY DEF IInv
<1>2. ASSUME NEW D, NEW target \in Slots,
             session_table_' = Occupy(TableWithout(D), target, c, k),
             \A s \in Slots \ {target} :
               /\ s \in D => session_table_[s].client_id = c
               /\ session_table_[s].client_id = c /\ session_table_[s].is_active => s \in D
      PROVE  /\ session_table_'[target].client_id = c
             /\ session_table_'[target].session_key = k
             /\ session_table_'[target].is_active
             /\ \A s \in Slots \ {target} :
                  /\ session_table_'[s].client_id = session_table_[s].client_id
                  /\ session_table_[s].client_id # c => session_table_'[s] = session_table_[s]
                  /\ session_table_[s].client_id = c => ~session_table_'[s].is_active
  <2> DEFINE table == TableWithout(D)
             after == Occupy(table, target, c, k)
  <2>1. /\ table \in [Slots -> SlotType] /\ now \in 0 .. TimeModulus - 1
        /\ \A s \in Slots :
             /\ s \notin D => table[s] = session_table_[s]
             /\ table[s].client_id = session_table_[s].client_id
             /\ table[s].is_active <=> session_table_[s].is_active /\ s \notin D
    BY <1>1, TableWithoutFields DEF TypeOK
  <2>2. session_table_' = after
    BY <1>2
  <2> HIDE DEF table
  <2>3. /\ \A s \in Slots \ {target} : after[s] = table[s]
        /\ after[target].client_id = c /\ after[target].session_key = k
        /\ after[target].is_active
    BY <1>2, <2>1, OccupyFields
  <2> HIDE DEF after
  <2>4. ASSUME NEW s \in Slots \ {target}
        PROVE  /\ session_table_'[s].client_id = session_table_[s].client_id
               /\ session_table_[s].client_id # c => session_table_'[s] = session_table_[s]
               /\ session_table_[s].client_id = c => ~session_table_'[s].is_active
    BY <1>2, <2>1, <2>2, <2>3
  <2> QED
    BY <2>2, <2>3, <2>4
<1>3. CASE RegisterInFreeSlot(c, k)
  <2> DEFINE target == FindFreeSlot(c)
             D == LiveSlot(c)
  <2>1. /\ ~IsLockedOut(c) /\ FreeSlots(c) # {}
        /\ session_table_' = Occupy(TableWithout(D), target, c, k)
    BY <1>3 DEF RegisterInFreeSlot
  <2>2. FreeSlots(c) \in SUBSET Slots
    BY DEF FreeSlots
  <2>3. target \in FreeSlots(c) /\ target \in Slots
    BY <2>1, <2>2, LowestIsLeast DEF FindFreeSlot
  <2>4. \A s \in Slots \ {target} :
          /\ s \in D => session_table_[s].client_id = c
          /\ session_table_[s].client_id = c /\ session_table_[s].is_active => s \in D
    BY <2>1, OwnSlotsAreFree DEF LiveSlot, Matches
  <2>5. session_table_[target].is_active => session_table_[target].client_id = c
    BY <2>3 DEF FreeSlots, LiveSlot, Matches
  <2> HIDE DEF target, D
  <2> QED
    BY <1>2, <2>1, <2>3, <2>4, <2>5
<1>4. CASE RegisterByEviction(c, k)
  <2> DEFINE target == Head(insertion_order_)
             D == {target}
  <2>1. /\ ~IsLockedOut(c) /\ FreeSlots(c) = {} /\ insertion_order_ # <<>>
        /\ session_table_' = Occupy(TableWithout(D), target, c, k)
    BY <1>4 DEF RegisterByEviction
  <2>2. target \in ActiveSlots
    BY <1>1, <2>1, TailElements DEF TypeOK, IInv, OrderMatchesTable
  <2>3. target \in Slots
    BY <2>2 DEF ActiveSlots
  <2>4. \A s \in Slots \ {target} : s \notin D /\ session_table_[s].client_id # c
    BY <2>1, OwnSlotsAreFree
  <2> HIDE DEF target, D
  <2> QED
    BY <1>2, <2>1, <2>3, <2>4
<1>5. ASSUME Refuse("kInvalidParam") \/ Refuse("kLockedOut") \/ Refuse("kTableFull")
      PROVE  FALSE
  BY <1>5 DEF Refuse, Returns
<1> QED
  BY <1>3, <1>4, <1>5 DEF RegisterToken, RejectRegistration, RegisterTableFull

\* A registration hands no key out.  It is refused to a client that is locked out,
\* and to another only if there is no room.
LEMMA RegisterReply ==
  ASSUME NEW c, c # ZeroId, NEW k, RegisterToken(c, k)
  PROVE  /\ reply'.key = ZeroKey
         /\ reply'.status = "kOk" => ~IsLockedOut(c)
         /\ reply'.status # "kOk" =>
              \/ reply'.status = "kLockedOut" /\ IsLockedOut(c)
              \/ reply'.status = "kTableFull" /\ ~IsLockedOut(c) /\ FreeSlots(c) = {}
<1>1. ASSUME NEW status, NEW notified, Returns(status, ZeroKey, notified)
      PROVE  reply'.key = ZeroKey /\ reply'.status = status
  BY <1>1 DEF Returns
<1>2. CASE IsLockedOut(c) /\ Refuse("kLockedOut")
  BY <1>1, <1>2 DEF Refuse
<1>3. CASE RegisterInFreeSlot(c, k)
  BY <1>1, <1>3 DEF RegisterInFreeSlot
<1>4. CASE RegisterByEviction(c, k)
  BY <1>1, <1>4 DEF RegisterByEviction
<1>5. CASE RegisterTableFull(c)
  BY <1>1, <1>5 DEF RegisterTableFull, Refuse
<1> QED
  BY <1>2, <1>3, <1>4, <1>5 DEF RegisterToken, RejectRegistration

\* In a table without a free slot for a client, every slot is held, each by a
\* client of its own, and none by that client.
LEMMA FullTable ==
  ASSUME IInv, NEW c \in Ids, ~IsLockedOut(c), FreeSlots(c) = {}, NEW s \in Slots
  PROVE  /\ session_table_[s].client_id # c
         /\ session_table_[s].is_active \/ IsLockedOut(session_table_[s].client_id)
         /\ \A t \in Slots :
              session_table_[t].client_id = session_table_[s].client_id => t = s
<1>1. \A t \in Slots :
        session_table_[t].is_active \/ session_table_[t].is_locked_out
  BY DEF FreeSlots
<1>2. session_table_[s].client_id # c
  BY OwnSlotsAreFree
<1>3. session_table_[s].is_locked_out => IsLockedOut(session_table_[s].client_id)
  BY LockedMatches DEF LockedIds
<1>4. ASSUME NEW t \in Slots, session_table_[t].client_id = session_table_[s].client_id
      PROVE  t = s
  <2>1. s <= t /\ t <= s
    BY <1>1, <1>4 DEF IInv, HeldSlotsFirst, FirstWithItsId
  <2> QED
    BY <2>1, SlotsFinite
<1> QED
  BY <1>1, <1>2, <1>3, <1>4

\* A validation hands out the key of the client's session or finds none, and ends
\* at most that session.
LEMMA ValidateOutcome ==
  ASSUME IInv, NEW c \in Ids, ValidateToken(c), ~IsLockedOut(c)
  PROVE  \/ /\ reply'.status = "kNotFound" /\ reply'.key = ZeroKey
            /\ session_table_' = session_table_
            /\ \A s \in Slots : session_table_[s].client_id = c => ~session_table_[s].is_active
         \/ /\ reply'.status = "kNotFound" /\ reply'.key = ZeroKey
            /\ \E s \in Slots : session_table_[s].client_id = c /\ session_table_[s].is_active
            /\ \A s \in Slots :
                 session_table_'[s].client_id = c => ~session_table_'[s].is_active
         \/ /\ reply'.status = "kOk"
            /\ session_table_' = session_table_
            /\ \E s \in Slots : /\ session_table_[s].client_id = c
                                /\ session_table_[s].is_active
                                /\ reply'.key = session_table_[s].session_key
<1>1. /\ TypeOK
      /\ LiveSlot(c) = {s \in ActiveSlots : session_table_[s].client_id = c}
  BY LiveSlotIs DEF IInv
<1>2. CASE LiveSlot(c) = {} /\ Refuse("kNotFound")
  BY <1>1, <1>2 DEF Refuse, Returns, ActiveSlots
<1>3. ASSUME NEW t \in LiveSlot(c), EndSessions({t}), Returns("kNotFound", ZeroKey, <<c>>)
      PROVE  /\ reply'.status = "kNotFound" /\ reply'.key = ZeroKey
             /\ \E s \in Slots : session_table_[s].client_id = c /\ session_table_[s].is_active
             /\ \A s \in Slots :
                  session_table_'[s].client_id = c => ~session_table_'[s].is_active
  <2> DEFINE D == {t}
  <2>1. session_table_' = TableWithout(D) /\ t \in D
    BY <1>3 DEF EndSessions
  <2>2. LiveSlot(c) = {t}
    BY DEF LiveSlot
  <2> HIDE DEF D
  <2>3. ASSUME NEW s \in Slots, session_table_'[s].client_id = c, session_table_'[s].is_active
        PROVE  FALSE
    <3>1. session_table_[s].client_id = c /\ session_table_[s].is_active /\ s \notin D
      BY <1>1, <2>1, <2>3, TableWithoutFields
    <3> QED
      BY <1>1, <2>1, <2>2, <3>1 DEF ActiveSlots
  <2> QED
    BY <1>1, <1>3, <2>3 DEF Returns, ActiveSlots
<1>4. ASSUME NEW t \in LiveSlot(c), Returns("kOk", session_table_[t].session_key, <<>>),
             session_table_' = session_table_
      PROVE  /\ reply'.status = "kOk"
             /\ \E s \in Slots : /\ session_table_[s].client_id = c
                                 /\ session_table_[s].is_active
                                 /\ reply'.key = session_table_[s].session_key
  BY <1>1, <1>4 DEF Returns, ActiveSlots
<1> QED
  BY <1>2, <1>3, <1>4 DEF ValidateToken

\* A revocation hands no key out, and finds no slot only if there is none.
LEMMA RevokeReply ==
  ASSUME NEW c, NEW is_anomaly, RevokeToken(c, is_anomaly)
  PROVE  /\ reply'.key = ZeroKey
         /\ \/ reply'.status = "kOk"
            \/ /\ reply'.status = "kNotFound"
               /\ \A s \in Slots : session_table_[s].client_id # c
BY DEF RevokeToken, Refuse, Returns, Matches

-----------------------------------------------------------------------------
(* Theorems.                                                               *)

\* The table starts empty.
LEMMA InitIInv == Init => IInv
<1> SUFFICES ASSUME Init PROVE IInv
  OBVIOUS
<1>1. /\ session_table_ = [s \in Slots |-> EmptySlot]
      /\ insertion_order_ = <<>>
      /\ now \in 0 .. TimeModulus - 1 /\ since_scan = 0
      /\ real_age = [s \in Slots |-> 0]
      /\ reply = [status |-> "none", key |-> ZeroKey, notified |-> <<>>]
  BY DEF Init
<1>2. /\ EmptySlot \in SlotType
      /\ ~EmptySlot.is_active /\ ~EmptySlot.is_locked_out
      /\ EmptySlot.session_key = ZeroKey
  BY TimeAssumption, AnomalyAssumption DEF EmptySlot, SlotType, Ids
<1>3. \A s \in Slots : session_table_[s] = EmptySlot
  BY <1>1
<1>4. ActiveSlots = {}
  BY <1>2, <1>3 DEF ActiveSlots
<1>5. TypeOK
  BY <1>1, <1>2, TimeAssumption DEF TypeOK, Statuses
<1>6. OrderMatchesTable
  BY <1>1, <1>4 DEF OrderMatchesTable, Distinct, Elements
<1>7. HeldSlotsFirst /\ LockedIdle /\ SecretsErased
  BY <1>2, <1>3 DEF HeldSlotsFirst, LockedIdle, SecretsErased
<1>8. AgeExact /\ StaleWindowBounded
  BY <1>4 DEF AgeExact, StaleWindowBounded
<1> QED
  BY <1>5, <1>6, <1>7, <1>8 DEF IInv

\* IInv says of every live session that the lookup of its client finds it,
LEMMA Reachable == IInv => SessionsReachable
BY FindFirst DEF IInv, HeldSlotsFirst, SessionsReachable, ActiveSlots

\* and of every locked-out client that no slot holds a session of it.
LEMMA LockedSessionless == IInv => NoSessionWhileLocked
<1> SUFFICES ASSUME IInv, NEW s \in Slots, NEW t \in Slots,
                    session_table_[s].is_locked_out,
                    session_table_[t].client_id = session_table_[s].client_id,
                    session_table_[t].is_active
             PROVE  FALSE
  BY DEF NoSessionWhileLocked
<1>1. s <= t /\ t <= s /\ s \in Int /\ t \in Int
  BY SlotsFinite DEF IInv, HeldSlotsFirst, FirstWithItsId
<1>2. s = t
  BY <1>1
<1> QED
  BY <1>2 DEF IInv, LockedIdle

\* Every call, and the passage of time, keeps the invariant.
LEMMA NextIInv == IInv /\ [Next]_vars => IInv'
<1> SUFFICES ASSUME IInv, [Next]_vars PROVE IInv'
  OBVIOUS
<1>1. ASSUME NEW c \in Ids, NEW k \in Keys, RegisterToken(c, k) PROVE IInv'
  BY <1>1, RegisterTokenStep
<1>2. ASSUME NEW c \in Ids, ValidateToken(c) PROVE IInv'
  BY <1>2, ValidateTokenStep
<1>3. ASSUME NEW c \in Ids, NEW is_anomaly \in BOOLEAN, RevokeToken(c, is_anomaly)
      PROVE  IInv'
  BY <1>3, RevokeTokenStep
<1>4. CASE EvaluateTokenExpiry
  BY <1>4, EvaluateTokenExpiryStep
<1>5. CASE TimePasses
  BY <1>5, TimePassesStep
<1>6. CASE UNCHANGED vars
  <2>1. reply' \in [status : Statuses, key : Keys \cup {ZeroKey}, notified : Seq(Ids)]
    BY <1>6 DEF vars, IInv, TypeOK
  <2> QED
    BY <1>6, <2>1, ReplyStep DEF vars
<1> QED
  BY <1>1, <1>2, <1>3, <1>4, <1>5, <1>6 DEF Next

\* IInv is an invariant of the manager.
THEOREM Invariance == Spec => []IInv
<1>1. Init => IInv
  BY InitIInv
<1>2. IInv /\ [Next]_vars => IInv'
  BY NextIInv
<1> QED
  BY <1>1, <1>2, PTL DEF Spec

\* Slots, ring, clock and replies stay within their types, the counters in theirs.
THEOREM TypeCorrect == Spec => []TypeOK
<1>1. IInv => TypeOK
  BY DEF IInv
<1> QED
  BY <1>1, Invariance, PTL

\* The ring holds exactly the slots with a live session, each once: eviction
\* frees the session it names, and Push (cpp:128) is never refused.
THEOREM RingMatchesTable == Spec => []OrderMatchesTable
<1>1. IInv => OrderMatchesTable
  BY DEF IInv
<1> QED
  BY <1>1, Invariance, PTL

\* FindSlotByClientId finds the session of every client that has one.
THEOREM EverySessionReachable == Spec => []SessionsReachable
BY Reachable, Invariance, PTL

\* A client with a locked slot has no session anywhere in the table.
THEOREM LockedClientsHaveNoSession == Spec => []NoSessionWhileLocked
BY LockedSessionless, Invariance, PTL

\* The key and the nonce of a session are gone as soon as the session is.
THEOREM KeysErased == Spec => []SecretsErased
<1>1. IInv => SecretsErased
  BY DEF IInv
<1> QED
  BY <1>1, Invariance, PTL

\* The age computed from two timestamps is the time that has passed, however
\* often the clock has wrapped.
THEOREM AgesExact == Spec => []AgeExact
<1>1. IInv => AgeExact
  BY DEF IInv
<1> QED
  BY <1>1, Invariance, PTL

\* No session outlives its lifetime by more than the time since the last scan.
THEOREM SessionsExpire == Spec => []StaleWindowBounded
<1>1. IInv => StaleWindowBounded
  BY DEF IInv
<1> QED
  BY <1>1, Invariance, PTL

\* Once locked out, a client stays locked out: no call, in any order, and no
\* reuse of a slot takes the lockout back.
THEOREM LockoutsPermanent == Spec => LockoutPermanent
<1>1. IInv /\ [Next]_vars => [\A c \in Ids : IsLockedOut(c) => IsLockedOut(c)']_vars
  BY LockoutStep
<1> QED
  BY <1>1, Invariance, PTL DEF Spec, LockoutPermanent

\* The head of the ring, which RegisterToken evicts, is the oldest session.
THEOREM OldestEvictedFirst == Spec => []OldestFirst
<1>1. Init => OldestFirst
  BY DEF Init, OldestFirst
<1>2. IInv /\ OldestFirst /\ [Next]_vars => OldestFirst'
  BY NextOldestFirst
<1> QED
  BY <1>1, <1>2, Invariance, PTL DEF Spec

\* A session that ends, by replacement, eviction, revocation or expiry, is
\* notified to the owner exactly once, in the step in which it ends.
THEOREM EndsNotifiedOnce == Spec => NotifiedOnce
<1>1. IInv /\ [Next]_vars =>
        [\A s \in Slots : SessionEnded(s) =>
           Cardinality({i \in DOMAIN reply'.notified :
                          reply'.notified[i] = session_table_[s].client_id}) = 1]_vars
  BY NextNotifies DEF Notices
<1> QED
  BY <1>1, Invariance, PTL DEF Spec, NotifiedOnce

\* The table of slots keeps the promises of SessionTable: whatever the callers do,
\* the answers, the notices and the sessions are those of a queue of sessions that
\* knows no slots, no timestamps and no counters.
THEOREM TableImplemented == Spec => ImplementsSessionTable
<1>1. Init => Abstract!Init
  <2> SUFFICES ASSUME Init PROVE Abstract!Init
    OBVIOUS
  <2>1. /\ session_table_ = [s \in Slots |-> EmptySlot]
        /\ insertion_order_ = <<>>
        /\ reply = [status |-> "none", key |-> ZeroKey, notified |-> <<>>]
    BY DEF Init
  <2>2. LiveSessions = <<>>
    BY <2>1 DEF LiveSessions
  <2>3. LockedIds = {}
    BY <2>1 DEF LockedIds, EmptySlot
  <2> QED
    BY <2>1, <2>2, <2>3 DEF Abstract!Init, LiveSessions, LockedIds
<1>2. IInv /\ [Next]_vars => [Abstract!Next]_(Abstract!vars)
  BY NextMatches
<1> QED
  BY <1>1, <1>2, Invariance, PTL DEF Spec, ImplementsSessionTable, Abstract!Spec
=============================================================================
