------------------------ MODULE SomeIpAdaptor_proofs ------------------------
(***************************************************************************)
(* Theorems about SomeIpAdaptor, for any number of zone slots, any size of *)
(* the session table at least that large, any set of clients and peers,    *)
(* any number of nonces, and every lifetime and clock the manager allows.  *)
(*                                                                         *)
(* The manager is not proved again: its inductive invariant and what its   *)
(* operations do to sessions are taken from TokenLifecycleManager_proofs,  *)
(* instantiated with the keys handshakes derive, and the engines' handlers *)
(* from SpdmEngine_proofs.  What is left to show is that the two halves    *)
(* stay together.  A session is under the key of its engine's handshake    *)
(* because a refused registration means that the client has no session, a  *)
(* granted one that it has no other; no key is registered twice because a  *)
(* nonce is drawn that no transmitted challenge holds, and only keys of    *)
(* transmitted challenges are registered.                                  *)
(*                                                                         *)
(* The last sections show that the adaptor implements ZoneAuthentication.  *)
(* That takes one fact more: the table remembers no client but those that  *)
(* have a zone slot, so that it has room for every one of them unless the  *)
(* all-zero id, locked out, has taken a slot for good.                     *)
(***************************************************************************)
EXTENDS AdaptorRecovery, SpdmEngine_proofs, FiniteSetTheorems

\* The manager's theorems, for the keys handshakes derive.
T == INSTANCE TokenLifecycleManager_proofs WITH Keys <- Derived

-----------------------------------------------------------------------------
(* The manager of the theorems is the manager the adaptor drives.          *)

\* The slots are the same.
LEMMA SameSlots == T!Slots = tlm_!Slots
BY DEF T!Slots, tlm_!Slots

\* The type invariant is the same, before a step and after it.
LEMMA SameTypes == (T!TypeOK <=> tlm_!TypeOK) /\ (T!TypeOK' <=> tlm_!TypeOK')
<1> USE DEF T!TypeOK, tlm_!TypeOK, T!Slots, tlm_!Slots, T!SlotType, tlm_!SlotType,
            T!Ids, tlm_!Ids, T!Statuses, tlm_!Statuses
<1>1. T!TypeOK <=> tlm_!TypeOK
  OBVIOUS
<1>2. T!TypeOK' <=> tlm_!TypeOK'
  OBVIOUS
<1> QED
  BY <1>1, <1>2

\* The initial states are the same.
LEMMA SameInit == T!Init <=> tlm_!Init
BY DEF T!Init, tlm_!Init, T!Slots, tlm_!Slots, T!EmptySlot, tlm_!EmptySlot

\* So are the replies, and what a refusal leaves alone,
LEMMA SameReply ==
  ASSUME NEW status
  PROVE  /\ \A key, notified :
              T!Returns(status, key, notified) <=> tlm_!Returns(status, key, notified)
         /\ T!Refuse(status) <=> tlm_!Refuse(status)
BY DEF T!Refuse, tlm_!Refuse, T!Returns, tlm_!Returns

\* the first of some slots,
LEMMA SameLowest == ASSUME NEW S PROVE T!Lowest(S) = tlm_!Lowest(S)
BY DEF T!Lowest, tlm_!Lowest

\* what a lookup finds and which slots are free,
LEMMA SameLookups ==
  ASSUME NEW c
  PROVE  /\ T!Matches(c) = tlm_!Matches(c)
         /\ T!FindSlotByClientId(c) = tlm_!FindSlotByClientId(c)
         /\ T!IsLockedOut(c) <=> tlm_!IsLockedOut(c)
         /\ T!LiveSlot(c) = tlm_!LiveSlot(c)
         /\ T!FreeSlots(c) = tlm_!FreeSlots(c)
         /\ T!FindFreeSlot(c) = tlm_!FindFreeSlot(c)
<1>1. T!Matches(c) = tlm_!Matches(c)
  BY DEF T!Matches, tlm_!Matches, T!Slots, tlm_!Slots
<1>2. T!FindSlotByClientId(c) = tlm_!FindSlotByClientId(c)
  BY <1>1, SameLowest DEF T!FindSlotByClientId, tlm_!FindSlotByClientId
<1>3. T!IsLockedOut(c) <=> tlm_!IsLockedOut(c)
  BY <1>1, <1>2 DEF T!IsLockedOut, tlm_!IsLockedOut
<1>4. T!LiveSlot(c) = tlm_!LiveSlot(c)
  BY <1>1, <1>2 DEF T!LiveSlot, tlm_!LiveSlot
<1>5. T!FreeSlots(c) = tlm_!FreeSlots(c)
  BY <1>4 DEF T!FreeSlots, tlm_!FreeSlots, T!Slots, tlm_!Slots
<1>6. T!FindFreeSlot(c) = tlm_!FindFreeSlot(c)
  BY <1>5, SameLowest DEF T!FindFreeSlot, tlm_!FindFreeSlot
<1> QED
  BY <1>1, <1>2, <1>3, <1>4, <1>5, <1>6

\* the ring without some slots and with one more,
LEMMA SameQueue ==
  ASSUME NEW q, NEW D, NEW capacity, NEW x
  PROVE  /\ T!Without(q, D) = tlm_!Without(q, D)
         /\ T!Pushed(q, capacity, x) = tlm_!Pushed(q, capacity, x)
<1>1. T!Without(q, D) = tlm_!Without(q, D)
  BY DEF T!Without, tlm_!Without, T!Ascending, tlm_!Ascending, T!Cardinality, tlm_!Cardinality
<1>2. T!Pushed(q, capacity, x) = tlm_!Pushed(q, capacity, x)
  BY DEF T!Pushed, tlm_!Pushed
<1> QED
  BY <1>1, <1>2

\* the table without the sessions of some slots,
LEMMA SameTables ==
  ASSUME NEW D
  PROVE  T!TableWithout(D) = tlm_!TableWithout(D)
<1>1. \A slot : T!Ended(slot) = tlm_!Ended(slot)
  BY Zenon DEF T!Ended, tlm_!Ended
<1> QED
  BY <1>1, Zenon DEF T!TableWithout, tlm_!TableWithout, T!Slots, tlm_!Slots

\* the end of sessions,
LEMMA SameEnds == ASSUME NEW D PROVE T!EndSessions(D) <=> tlm_!EndSessions(D)
<1>1. /\ T!Without(insertion_order_, D) = tlm_!Without(insertion_order_, D)
      /\ T!TableWithout(D) = tlm_!TableWithout(D)
  BY SameQueue, SameTables
<1> QED
  BY <1>1 DEF T!EndSessions, tlm_!EndSessions, T!Slots, tlm_!Slots

\* RegisterToken,
LEMMA SameRegister ==
  ASSUME NEW c, NEW k
  PROVE  T!RegisterToken(c, k) <=> tlm_!RegisterToken(c, k)
<1>1. T!RejectRegistration(c) <=> tlm_!RejectRegistration(c)
  BY SameReply, SameLookups DEF T!RejectRegistration, tlm_!RejectRegistration
<1>2. \A table, target : T!Occupy(table, target, c, k) = tlm_!Occupy(table, target, c, k)
  BY Zenon DEF T!Occupy, tlm_!Occupy
<1>3. T!RegisterInFreeSlot(c, k) <=> tlm_!RegisterInFreeSlot(c, k)
  <2> DEFINE D == tlm_!LiveSlot(c)
             target == tlm_!FindFreeSlot(c)
             told == IF D = {} THEN <<>> ELSE <<c>>
  <2>1. /\ T!LiveSlot(c) = D
        /\ T!FreeSlots(c) = tlm_!FreeSlots(c)
        /\ T!FindFreeSlot(c) = target
        /\ T!IsLockedOut(c) <=> tlm_!IsLockedOut(c)
    BY SameLookups
  <2>2. [s \in T!Slots |-> IF s = target \/ s \in D THEN 0 ELSE real_age[s]]
        = [s \in tlm_!Slots |-> IF s = target \/ s \in D THEN 0 ELSE real_age[s]]
    BY SameSlots
  <2>3. T!Occupy(T!TableWithout(D), target, c, k) = tlm_!Occupy(tlm_!TableWithout(D), target, c, k)
    BY <1>2, SameTables
  <2>4. T!Pushed(T!Without(insertion_order_, D), kMaxActiveSessions, target)
        = tlm_!Pushed(tlm_!Without(insertion_order_, D), kMaxActiveSessions, target)
    BY SameQueue
  <2>5. T!Returns("kOk", ZeroKey, told) <=> tlm_!Returns("kOk", ZeroKey, told)
    BY SameReply
  <2> QED
    BY <2>1, <2>2, <2>3, <2>4, <2>5, Zenon DEF T!RegisterInFreeSlot, tlm_!RegisterInFreeSlot
<1>4. T!RegisterByEviction(c, k) <=> tlm_!RegisterByEviction(c, k)
  BY <1>2, SameLookups, SameQueue, SameTables, SameReply, Zenon
  DEF T!RegisterByEviction, tlm_!RegisterByEviction
<1>5. T!RegisterTableFull(c) <=> tlm_!RegisterTableFull(c)
  BY SameReply, SameLookups DEF T!RegisterTableFull, tlm_!RegisterTableFull
<1> QED
  BY <1>1, <1>3, <1>4, <1>5 DEF T!RegisterToken, tlm_!RegisterToken

\* ValidateToken,
LEMMA SameValidate ==
  ASSUME NEW c
  PROVE  T!ValidateToken(c) <=> tlm_!ValidateToken(c)
<1>1. \A s : T!IsExpired(s) <=> tlm_!IsExpired(s)
  BY DEF T!IsExpired, tlm_!IsExpired, T!Age, tlm_!Age
<1> QED
  BY <1>1, SameLookups, SameEnds, SameReply, Zenon DEF T!ValidateToken, tlm_!ValidateToken

\* RevokeToken,
LEMMA SameRevoke ==
  ASSUME NEW c, NEW is_anomaly
  PROVE  T!RevokeToken(c, is_anomaly) <=> tlm_!RevokeToken(c, is_anomaly)
<1>1. \A slot : T!Struck(slot) = tlm_!Struck(slot)
  BY Zenon DEF T!Struck, tlm_!Struck
<1> QED
  BY <1>1, SameLookups, SameQueue, SameTables, SameReply, Zenon
  DEF T!RevokeToken, tlm_!RevokeToken

\* EvaluateTokenExpiry,
LEMMA SameExpiry == T!EvaluateTokenExpiry <=> tlm_!EvaluateTokenExpiry
<1>1. \A s : T!IsExpired(s) <=> tlm_!IsExpired(s)
  BY DEF T!IsExpired, tlm_!IsExpired, T!Age, tlm_!Age
<1>2. T!Expired = tlm_!Expired
  BY <1>1 DEF T!Expired, tlm_!Expired, T!Slots, tlm_!Slots
<1>3. \A D : T!ClientsOf(D) = tlm_!ClientsOf(D)
  BY DEF T!ClientsOf, tlm_!ClientsOf, T!Ascending, tlm_!Ascending,
         T!Cardinality, tlm_!Cardinality
<1> QED
  BY <1>2, <1>3, SameEnds, SameReply, Zenon DEF T!EvaluateTokenExpiry, tlm_!EvaluateTokenExpiry

\* and the passage of time.
LEMMA SameTime == T!TimePasses <=> tlm_!TimePasses
BY DEF T!TimePasses, tlm_!TimePasses, T!Returns, tlm_!Returns, T!Slots, tlm_!Slots,
       T!RealAgeBound, tlm_!RealAgeBound

-----------------------------------------------------------------------------
(* What the adaptor sees of a call of the manager.                         *)

\* The adaptor's constants are fit for the manager.
LEMMA ManagerAssumptions ==
  /\ ZeroId \notin Clients /\ ZeroKey \notin Derived
  /\ kMaxActiveSessions \in Nat \ {0}
  /\ kMaxAnomalyCount \in Nat \ {0} /\ CounterMax \in Nat /\ kMaxAnomalyCount <= CounterMax
  /\ kTokenLifetimeMs \in Nat /\ TickPeriod \in Nat /\ TimeModulus \in Nat
  /\ TickPeriod > 0 /\ kTokenLifetimeMs + TickPeriod < TimeModulus
BY PeerAssumption, PoolAssumption, KeyAssumption, AnomalyAssumption, TimeAssumption

\* A hook that leaves the manager alone.
LEMMA ManagerIdle ==
  ASSUME T!IInv, WithoutTlm
  PROVE  /\ T!IInv' /\ session_table_' = session_table_
         /\ \A s \in tlm_!Slots : T!SessionKept(s)
<1>1. T!Refuse("none")
  BY SameReply DEF WithoutTlm
<1>2. reply' \in [status : T!Statuses, key : Derived \cup {ZeroKey}, notified : Seq(T!Ids)]
  BY <1>1 DEF T!Refuse, T!Returns, T!Statuses
<1>3. UNCHANGED <<session_table_, insertion_order_, now, since_scan, real_age>>
  BY <1>1 DEF T!Refuse
<1>4. T!IInv'
  BY <1>2, <1>3, T!ReplyStep, ManagerAssumptions
<1> QED
  BY <1>3, <1>4 DEF T!SessionKept

\* A registration: refused, it leaves the table alone, in which its client has no
\* session; granted, it makes one session, under the new key.
LEMMA ManagerRegister ==
  ASSUME T!IInv, NEW c \in Clients, NEW k \in Derived, tlm_!RegisterToken(c, k)
  PROVE  /\ T!IInv'
         /\ \A s \in tlm_!Slots :
              /\ reply'.status # "kOk" =>
                   /\ session_table_' = session_table_
                   /\ session_table_[s].client_id = c => ~session_table_[s].is_active
              /\ reply'.status = "kOk" =>
                   /\ \/ T!SessionKept(s)
                      \/ session_table_'[s].client_id = c /\ session_table_'[s].session_key = k
                   /\ session_table_'[s].is_active /\ session_table_'[s].client_id = c =>
                        session_table_'[s].session_key = k
<1>1. T!RegisterToken(c, k) /\ c \in T!Ids /\ c # ZeroId
  BY SameRegister, PeerAssumption DEF T!Ids
<1>2. T!IInv'
  BY <1>1, T!RegisterTokenStep, ManagerAssumptions
<1>3. ASSUME NEW s \in T!Slots, reply'.status # "kOk"
      PROVE  /\ session_table_' = session_table_
             /\ session_table_[s].client_id = c => ~session_table_[s].is_active
  BY <1>1, <1>3, T!RegisterRefused, ManagerAssumptions
<1>4. ASSUME NEW s \in T!Slots, reply'.status = "kOk"
      PROVE  /\ \/ T!SessionKept(s)
                \/ session_table_'[s].client_id = c /\ session_table_'[s].session_key = k
             /\ session_table_'[s].is_active /\ session_table_'[s].client_id = c =>
                  session_table_'[s].session_key = k
  BY <1>1, <1>4, T!RegisterGranted, ManagerAssumptions
<1> QED
  BY <1>2, <1>3, <1>4, SameSlots

\* A revocation leaves its client without a session.
LEMMA ManagerRevoke ==
  ASSUME T!IInv, NEW c \in Ids, NEW is_anomaly \in BOOLEAN, tlm_!RevokeToken(c, is_anomaly)
  PROVE  /\ T!IInv'
         /\ \A s \in tlm_!Slots :
              /\ T!SessionKept(s)
              /\ session_table_'[s].client_id = c => ~session_table_'[s].is_active
<1>1. T!RevokeToken(c, is_anomaly) /\ c \in T!Ids
  BY SameRevoke DEF T!Ids, Ids
<1>2. T!IInv'
  BY <1>1, T!RevokeTokenStep, ManagerAssumptions
<1>3. ASSUME NEW s \in T!Slots
      PROVE  /\ T!SessionKept(s)
             /\ session_table_'[s].client_id = c => ~session_table_'[s].is_active
  BY <1>1, T!RevokeTokenKeeps, ManagerAssumptions
<1> QED
  BY <1>2, <1>3, SameSlots

\* A validation, a scan and the passage of time end sessions or leave them.
LEMMA ManagerKeeps ==
  ASSUME T!IInv,
         \/ \E c \in Ids : tlm_!ValidateToken(c)
         \/ tlm_!EvaluateTokenExpiry
         \/ tlm_!TimePasses
  PROVE  T!IInv' /\ \A s \in tlm_!Slots : T!SessionKept(s)
<1>1. ASSUME NEW c \in Ids, tlm_!ValidateToken(c)
      PROVE  T!IInv' /\ \A s \in T!Slots : T!SessionKept(s)
  <2>1. T!ValidateToken(c) /\ c \in T!Ids
    BY <1>1, SameValidate DEF T!Ids, Ids
  <2>2. T!IInv'
    BY <2>1, T!ValidateTokenStep, ManagerAssumptions
  <2>3. \A s \in T!Slots : T!SessionKept(s)
    BY <2>1, T!ValidateTokenKeeps, ManagerAssumptions
  <2> QED
    BY <2>2, <2>3
<1>2. ASSUME tlm_!EvaluateTokenExpiry
      PROVE  T!IInv' /\ \A s \in T!Slots : T!SessionKept(s)
  <2>1. T!EvaluateTokenExpiry
    BY <1>2, SameExpiry
  <2>2. T!IInv'
    BY <2>1, T!EvaluateTokenExpiryStep, ManagerAssumptions
  <2>3. \A s \in T!Slots : T!SessionKept(s)
    BY <2>1, T!ExpiryKeeps, ManagerAssumptions
  <2> QED
    BY <2>2, <2>3
<1>3. ASSUME tlm_!TimePasses
      PROVE  T!IInv' /\ \A s \in T!Slots : T!SessionKept(s)
  <2>1. T!TimePasses
    BY <1>3, SameTime
  <2>2. T!IInv'
    BY <2>1, T!TimePassesStep, ManagerAssumptions
  <2>3. session_table_' = session_table_
    BY <2>1 DEF T!TimePasses
  <2> QED
    BY <2>2, <2>3 DEF T!SessionKept
<1> QED
  BY <1>1, <1>2, <1>3, SameSlots

-----------------------------------------------------------------------------
(* The invariant, slot by slot and session by session.                     *)

\* No client has two zone slots.
OneSlotEach == \A c \in Clients : \A y, z \in FindSlot(c) : y = z

\* The key of the handshake an engine is in, or was in last.
HandshakeKey(z) == [nonce |-> engines_[z].pending_nonce, client |-> slot_records_[z]]

\* An engine holds no id but its own client's; revoked, its client has no session;
\* authenticated, its client's session is under the key of its handshake; waiting
\* for a response, the key it is about to yield has never been registered.
SlotSound(z) ==
  /\ engines_[z].pending_client_id \in {ZeroId, slot_records_[z]}
  /\ engines_[z].authenticated_client_id \in {ZeroId, slot_records_[z]}
  /\ engines_[z].state = "kRevoked" => SessionsOf(slot_records_[z]) = {}
  /\ engines_[z].state = "kAuthenticated" =>
       \A s \in SessionsOf(slot_records_[z]) :
         session_table_[s].session_key = HandshakeKey(z)
  /\ engines_[z].state = "kChallengeSent" => HandshakeKey(z) \notin spent

\* A session belongs to a peer, under a key derived for it and registered.
SessionSound(s) ==
  session_table_[s].is_active =>
    /\ session_table_[s].client_id \in Peers
    /\ session_table_[s].session_key.client = session_table_[s].client_id
    /\ session_table_[s].session_key \in spent

IInv ==
  /\ TypeOK
  /\ T!IInv
  /\ OneSlotEach
  /\ \A z \in ZoneSlot : SlotSound(z)
  /\ \A s \in tlm_!Slots : SessionSound(s)

-----------------------------------------------------------------------------
(* What leaves a slot or a session sound.                                  *)

\* The sessions of a client, one by one.
LEMMA NoSessions ==
  ASSUME NEW c
  PROVE  /\ SessionsOf(c) = {} <=>
              \A s \in tlm_!Slots : session_table_[s].client_id = c =>
                ~session_table_[s].is_active
         /\ \A s : s \in SessionsOf(c) <=>
              /\ s \in tlm_!Slots /\ session_table_[s].is_active
              /\ session_table_[s].client_id = c
BY DEF SessionsOf, ActiveSlots

\* A slot of which neither the engine nor the record changes stays sound if no
\* session is made for its client and no key of its client's is registered.
LEMMA SlotUntouched ==
  ASSUME NEW z \in ZoneSlot, SlotSound(z),
         engines_'[z] = engines_[z], slot_records_'[z] = slot_records_[z],
         \A s \in tlm_!Slots :
           T!SessionKept(s) \/ session_table_'[s].client_id # slot_records_[z],
         \A k \in spent' : k \in spent \/ k.client # slot_records_[z]
  PROVE  SlotSound(z)'
<1> DEFINE c == slot_records_[z]
<1>1. \A s \in SessionsOf(c)' :
        s \in SessionsOf(c) /\ session_table_'[s].session_key = session_table_[s].session_key
  <2> SUFFICES ASSUME NEW s, s \in SessionsOf(c)'
               PROVE  /\ s \in SessionsOf(c)
                      /\ session_table_'[s].session_key = session_table_[s].session_key
    OBVIOUS
  <2>1. s \in tlm_!Slots /\ session_table_'[s].is_active /\ session_table_'[s].client_id = c
    BY DEF SessionsOf, ActiveSlots, tlm_!Slots
  <2> QED
    BY <2>1 DEF T!SessionKept, SessionsOf, ActiveSlots
<1>2. HandshakeKey(z)' = HandshakeKey(z) /\ HandshakeKey(z).client = c
  BY DEF HandshakeKey
<1>3. SessionsOf(slot_records_[z])' = SessionsOf(c)'
  BY DEF SessionsOf, ActiveSlots, tlm_!Slots
<1> QED
  BY <1>1, <1>2, <1>3 DEF SlotSound

\* A revoked engine forgets its handshake; its client must have no session left.
LEMMA SlotRevoked ==
  ASSUME NEW z \in ZoneSlot, NEW e \in Engine,
         e.authenticated_client_id \in {ZeroId, slot_records_[z]},
         engines_'[z] = Revoked(e), slot_records_'[z] = slot_records_[z],
         \A s \in tlm_!Slots :
           session_table_'[s].client_id = slot_records_[z] => ~session_table_'[s].is_active
  PROVE  SlotSound(z)'
<1>1. /\ engines_'[z].state = "kRevoked"
      /\ engines_'[z].pending_client_id = ZeroId
      /\ engines_'[z].authenticated_client_id = e.authenticated_client_id
  BY RevokedFields
<1>2. SessionsOf(slot_records_[z])' = {}
  BY DEF SessionsOf, ActiveSlots, tlm_!Slots
<1> QED
  BY <1>1, <1>2 DEF SlotSound

\* An engine that was reset holds nothing.
LEMMA SlotReset ==
  ASSUME NEW z \in ZoneSlot, NEW e \in Engine, engines_'[z] = WasReset(e)
  PROVE  SlotSound(z)'
<1>1. /\ engines_'[z].state = "kUnauthenticated"
      /\ engines_'[z].pending_client_id = ZeroId
      /\ engines_'[z].authenticated_client_id = ZeroId
  BY ResetFields
<1> QED
  BY <1>1 DEF SlotSound

\* A session that is kept stays sound.
LEMMA SessionStays ==
  ASSUME NEW s \in tlm_!Slots, SessionSound(s), T!SessionKept(s), spent \subseteq spent'
  PROVE  SessionSound(s)'
BY DEF SessionSound, T!SessionKept

\* The parts of the invariant.
LEMMA Assembled ==
  ASSUME engines_' \in [ZoneSlot -> Engine], slot_records_' \in [ZoneSlot -> Ids],
         challenges' \subseteq Derived, spent' \subseteq challenges',
         answer' \in AdaptorStatuses, T!IInv', OneSlotEach',
         \A z \in ZoneSlot : SlotSound(z)', \A s \in tlm_!Slots : SessionSound(s)'
  PROVE  IInv'
<1>1. tlm_!TypeOK'
  BY SameTypes DEF T!IInv
<1>2. TypeOK'
  BY <1>1 DEF TypeOK
<1>3. (\A z \in ZoneSlot : SlotSound(z))' /\ (\A s \in tlm_!Slots : SessionSound(s))'
  BY DEF ZoneSlot, tlm_!Slots
<1> QED
  BY <1>2, <1>3 DEF IInv

\* While no record changes, no client gets a second zone slot.
LEMMA RecordsKept ==
  ASSUME OneSlotEach, slot_records_' = slot_records_
  PROVE  OneSlotEach'
BY DEF OneSlotEach, FindSlot, ZoneSlot

\* The keys of sessions made in a step have never been registered before.
NewKeysUnspent ==
  \A s \in tlm_!Slots :
    /\ session_table_'[s].is_active
    /\ session_table_'[s].session_key # session_table_[s].session_key
    => session_table_'[s].session_key \notin spent

\* A step that makes no session registers no key.
LEMMA KeptNotNew ==
  ASSUME \A s \in tlm_!Slots : T!SessionKept(s)
  PROVE  NewKeysUnspent
BY DEF NewKeysUnspent, T!SessionKept

-----------------------------------------------------------------------------
(* The invariant, hook by hook.                                            *)

\* A hook that leaves the pool alone and makes no session: a refusal, the gate,
\* the tick.
LEMMA PoolKept ==
  ASSUME IInv, UNCHANGED <<engines_, slot_records_, challenges, spent>>,
         answer' \in AdaptorStatuses, T!IInv', \A s \in tlm_!Slots : T!SessionKept(s)
  PROVE  IInv' /\ NewKeysUnspent
<1>1. \A z \in ZoneSlot : SlotSound(z)'
  BY SlotUntouched DEF IInv
<1>2. \A s \in tlm_!Slots : SessionSound(s)'
  BY SessionStays DEF IInv
<1>3. OneSlotEach'
  BY RecordsKept DEF IInv
<1> QED
  BY <1>1, <1>2, <1>3, Assembled, KeptNotNew DEF IInv, TypeOK

\* A refused frame or call changes the answer alone.
LEMMA RefusedStep ==
  ASSUME IInv, NEW status \in AdaptorStatuses, RefusedWith(status)
  PROVE  IInv' /\ NewKeysUnspent
<1>1. /\ UNCHANGED <<engines_, slot_records_, challenges, spent>>
      /\ answer' \in AdaptorStatuses /\ WithoutTlm
  BY DEF RefusedWith
<1>2. T!IInv' /\ \A s \in tlm_!Slots : T!SessionKept(s)
  BY <1>1, ManagerIdle DEF IInv
<1> QED
  BY <1>1, <1>2, PoolKept

\* A client that has a zone slot is not the all-zero id, and the slot is its only one.
LEMMA FoundSlot ==
  ASSUME IInv, NEW c \in Ids, NEW z \in FindSlot(c)
  PROVE  /\ z \in ZoneSlot /\ c \in Clients /\ c # ZeroId /\ slot_records_[z] = c
         /\ engines_[z] \in Engine /\ SlotSound(z)
         /\ \A y \in ZoneSlot \ {z} : slot_records_[y] # c
<1>1. z \in ZoneSlot /\ c # ZeroId /\ slot_records_[z] = c
  BY DEF FindSlot
<1>2. c \in Clients
  BY <1>1 DEF Ids
<1>3. ASSUME NEW y \in ZoneSlot, slot_records_[y] = c PROVE y = z
  BY <1>1, <1>2, <1>3 DEF IInv, OneSlotEach, FindSlot
<1> QED
  BY <1>1, <1>2, <1>3 DEF IInv, TypeOK

\* A hook that changes the engine of one slot and leaves the manager alone.
LEMMA EngineStep ==
  ASSUME IInv, NEW z \in ZoneSlot, NEW e \in Engine,
         engines_' = [engines_ EXCEPT ![z] = e],
         \A y \in ZoneSlot \ {z} : slot_records_'[y] = slot_records_[y],
         slot_records_' \in [ZoneSlot -> Ids],
         challenges' \subseteq Derived, challenges \subseteq challenges', spent' = spent,
         answer' \in AdaptorStatuses, WithoutTlm, OneSlotEach', SlotSound(z)'
  PROVE  IInv' /\ NewKeysUnspent
<1>1. T!IInv' /\ \A s \in tlm_!Slots : T!SessionKept(s)
  BY ManagerIdle DEF IInv
<1>2. ASSUME NEW y \in ZoneSlot PROVE SlotSound(y)'
  <2>1. CASE y = z
    BY <2>1
  <2>2. CASE y # z
    <3>1. engines_'[y] = engines_[y] /\ slot_records_'[y] = slot_records_[y]
      BY <2>2 DEF IInv, TypeOK
    <3> QED
      BY <1>1, <3>1, SlotUntouched DEF IInv
  <2> QED
    BY <2>1, <2>2
<1>3. \A s \in tlm_!Slots : SessionSound(s)'
  BY <1>1, SessionStays DEF IInv
<1>4. engines_' \in [ZoneSlot -> Engine] /\ spent' \subseteq challenges'
  BY DEF IInv, TypeOK
<1> QED
  BY <1>1, <1>2, <1>3, <1>4, Assembled, KeptNotNew

\* OnPeerOffered: a slot is reset, and one that is assigned was unoccupied while
\* the client had none.
LEMMA OnPeerOfferedStep ==
  ASSUME IInv, NEW c \in Ids, OnPeerOffered(c)
  PROVE  IInv' /\ NewKeysUnspent
<1>1. CASE RejectOffer(c)
  BY <1>1, RefusedStep DEF RejectOffer, AdaptorStatuses
<1>2. CASE ReOffer(c)
  <2>1. PICK z \in FindSlot(c) : engines_' = [engines_ EXCEPT ![z] = WasReset(engines_[z])]
    BY <1>2 DEF ReOffer
  <2>2. z \in ZoneSlot /\ engines_[z] \in Engine /\ WasReset(engines_[z]) \in Engine
    BY FoundSlot, ResetFields
  <2>3. engines_'[z] = WasReset(engines_[z])
    BY <2>1, <2>2 DEF IInv, TypeOK
  <2>4. SlotSound(z)'
    BY <2>2, <2>3, SlotReset
  <2>5. OneSlotEach'
    BY <1>2, RecordsKept DEF ReOffer, IInv
  <2> QED
    BY <1>2, <2>1, <2>2, <2>4, <2>5, EngineStep DEF ReOffer, IInv, TypeOK, AdaptorStatuses
<1>3. CASE AssignSlot(c)
  <2>1. PICK z : z = tlm_!Lowest(FreeEngineSlots)
    OBVIOUS
  <2>2. /\ c # ZeroId /\ FindSlot(c) = {} /\ FreeEngineSlots # {}
        /\ slot_records_' = [slot_records_ EXCEPT ![z] = c]
        /\ engines_' = [engines_ EXCEPT ![z] = WasReset(engines_[z])]
        /\ answer' = "kOk" /\ WithoutTlm /\ UNCHANGED <<challenges, spent>>
    BY <1>3, <2>1 DEF AssignSlot
  <2>3. FreeEngineSlots \in SUBSET T!Slots
    BY PoolAssumption DEF FreeEngineSlots, ZoneSlot, T!Slots
  <2>4. z \in ZoneSlot /\ slot_records_[z] = ZeroId
    <3>1. T!Lowest(FreeEngineSlots) \in FreeEngineSlots
      BY <2>2, <2>3, T!LowestIsLeast, ManagerAssumptions
    <3> QED
      BY <2>1, <3>1, SameLowest DEF FreeEngineSlots
  <2>5. engines_[z] \in Engine /\ WasReset(engines_[z]) \in Engine
    BY <2>4, ResetFields DEF IInv, TypeOK
  <2>6. engines_'[z] = WasReset(engines_[z])
    BY <2>2, <2>4 DEF IInv, TypeOK
  <2>7. SlotSound(z)'
    BY <2>4, <2>5, <2>6, SlotReset
  <2>8. /\ slot_records_' \in [ZoneSlot -> Ids] /\ slot_records_'[z] = c
        /\ \A y \in ZoneSlot \ {z} : slot_records_'[y] = slot_records_[y]
    BY <2>2, <2>4 DEF IInv, TypeOK
  <2>9. OneSlotEach'
    <3>1. \A y \in ZoneSlot : slot_records_[y] # c
      BY <2>2 DEF FindSlot
    <3>2. ASSUME NEW d \in Clients, NEW x \in ZoneSlot, NEW y \in ZoneSlot,
                 slot_records_'[x] = d, slot_records_'[y] = d, d # ZeroId
          PROVE  x = y
      <4>1. CASE d = c
        BY <2>8, <3>1, <3>2, <4>1
      <4>2. CASE d # c
        <5>1. slot_records_[x] = d /\ slot_records_[y] = d
          BY <2>8, <3>2, <4>2
        <5> QED
          BY <3>2, <5>1 DEF IInv, OneSlotEach, FindSlot
      <4> QED
        BY <4>1, <4>2
    <3> QED
      BY <3>2 DEF OneSlotEach, FindSlot, ZoneSlot
  <2> QED
    BY <2>2, <2>4, <2>5, <2>7, <2>8, <2>9, EngineStep DEF IInv, TypeOK, AdaptorStatuses
<1> QED
  BY <1>1, <1>2, <1>3 DEF OnPeerOffered

\* A nonce that is drawn is in no challenge transmitted so far.
LEMMA FreshNonces ==
  /\ Fresh \in SUBSET Nonces
  /\ \A n \in Fresh : \A h \in challenges : h.nonce # n
BY DEF Fresh, InUse

\* OnAuthRequest: the challenge of an engine that starts to wait is new.
LEMMA OnAuthRequestStep ==
  ASSUME IInv, NEW request \in Requests, OnAuthRequest(request)
  PROVE  IInv' /\ NewKeysUnspent
<1> DEFINE c == request.client_id
<1>1. c \in Ids
  BY DEF Requests
<1>2. CASE OnUnknownPeer(request)
  BY <1>2, RefusedStep DEF OnUnknownPeer, AdaptorStatuses
<1>3. ASSUME NEW z \in FindSlot(c), NEW o \in AuthRequestOutcomes(engines_[z], request, Fresh),
             engines_' = [engines_ EXCEPT ![z] = o.engine],
             \/ /\ o.status = "kOk"
                /\ challenges' = challenges \cup
                     {[nonce |-> o.engine.pending_nonce, client |-> c]}
                /\ answer' = "kOk"
             \/ o.status # "kOk" /\ answer' = "kProtocolError" /\ UNCHANGED challenges,
             WithoutTlm, UNCHANGED <<slot_records_, spent>>
      PROVE  IInv' /\ NewKeysUnspent
  <2>1. /\ z \in ZoneSlot /\ c \in Clients /\ slot_records_[z] = c
        /\ engines_[z] \in Engine /\ SlotSound(z)
    BY <1>1, FoundSlot
  <2>2. /\ o.engine \in Engine
        /\ o.engine.authenticated_client_id = engines_[z].authenticated_client_id
        /\ \/ o.status # "kOk" /\ o.engine = engines_[z]
           \/ /\ o.status # "kOk" /\ o.engine.state = "kUnauthenticated"
              /\ o.engine.pending_client_id = engines_[z].pending_client_id
           \/ /\ o.status = "kOk" /\ o.engine.state = "kChallengeSent"
              /\ o.engine.pending_nonce \in Fresh
              /\ o.engine.pending_client_id = c
    <3>1. c \in Clients \cup {ZeroId}
      BY <2>1
    <3> QED
      BY <2>1, <3>1, FreshNonces, RequestOutcome
  <2>3. engines_'[z] = o.engine /\ slot_records_'[z] = c
    BY <1>3, <2>1 DEF IInv, TypeOK
  <2>4. challenges' \subseteq Derived /\ challenges \subseteq challenges'
    <3>1. CASE o.status = "kOk"
      BY <1>3, <2>1, <2>2, <3>1, FreshNonces DEF IInv, TypeOK, Derived
    <3>2. CASE o.status # "kOk"
      BY <1>3, <3>2 DEF IInv, TypeOK
    <3> QED
      BY <3>1, <3>2
  <2>5. SlotSound(z)'
    <3>1. CASE o.engine = engines_[z]
      <4>1. \A s \in tlm_!Slots : T!SessionKept(s)
        BY <1>3, ManagerIdle DEF IInv
      <4> QED
        BY <1>3, <2>1, <2>3, <3>1, <4>1, SlotUntouched
    <3>2. CASE /\ o.engine.state = "kUnauthenticated"
               /\ o.engine.pending_client_id = engines_[z].pending_client_id
      BY <2>1, <2>2, <2>3, <3>2 DEF SlotSound
    <3>3. CASE /\ o.engine.state = "kChallengeSent"
               /\ o.engine.pending_nonce \in Fresh
               /\ o.engine.pending_client_id = c
      <4>1. HandshakeKey(z)' = [nonce |-> o.engine.pending_nonce, client |-> c]
        BY <2>3 DEF HandshakeKey
      <4>2. HandshakeKey(z)' \notin spent'
        <5>1. HandshakeKey(z)' \notin challenges
          BY <3>3, <4>1, FreshNonces
        <5> QED
          BY <1>3, <5>1 DEF IInv, TypeOK
      <4> QED
        BY <2>1, <2>2, <2>3, <3>3, <4>2 DEF SlotSound
    <3> QED
      BY <2>2, <3>1, <3>2, <3>3
  <2>6. OneSlotEach'
    BY <1>3, RecordsKept DEF IInv
  <2>7. slot_records_' \in [ZoneSlot -> Ids] /\ answer' \in AdaptorStatuses
    BY <1>3 DEF IInv, TypeOK, AdaptorStatuses
  <2> QED
    BY <1>3, <2>1, <2>2, <2>4, <2>5, <2>6, <2>7, EngineStep
<1> QED
  BY <1>2, <1>3 DEF OnAuthRequest

\* RevokeSession: both halves go, or there was neither.
LEMMA RevokeSessionStep ==
  ASSUME IInv, NEW c \in Ids, NEW is_anomaly \in BOOLEAN, RevokeSession(c, is_anomaly)
  PROVE  IInv' /\ NewKeysUnspent
<1>1. /\ engines_' = [z \in ZoneSlot |-> IF z \in FindSlot(c) THEN Revoked(engines_[z])
                                         ELSE engines_[z]]
      /\ tlm_!RevokeToken(c, is_anomaly)
      /\ answer' \in AdaptorStatuses
      /\ UNCHANGED <<slot_records_, challenges, spent>>
  BY DEF RevokeSession, AdaptorStatuses
<1>2. /\ T!IInv'
      /\ \A s \in tlm_!Slots :
           /\ T!SessionKept(s)
           /\ session_table_'[s].client_id = c => ~session_table_'[s].is_active
  BY <1>1, ManagerRevoke DEF IInv
<1>3. \A z \in ZoneSlot : engines_[z] \in Engine /\ Revoked(engines_[z]) \in Engine
  BY RevokedFields DEF IInv, TypeOK
<1>4. engines_' \in [ZoneSlot -> Engine]
  BY <1>1, <1>3
<1>5. ASSUME NEW z \in ZoneSlot PROVE SlotSound(z)'
  <2>1. CASE z \in FindSlot(c)
    <3>1. slot_records_[z] = c /\ SlotSound(z)
      BY <2>1, FoundSlot
    <3>2. engines_'[z] = Revoked(engines_[z]) /\ slot_records_'[z] = slot_records_[z]
      BY <1>1, <2>1
    <3>3. engines_[z].authenticated_client_id \in {ZeroId, slot_records_[z]}
      BY <3>1 DEF SlotSound
    <3> QED
      BY <1>2, <1>3, <3>1, <3>2, <3>3, SlotRevoked
  <2>2. CASE z \notin FindSlot(c)
    BY <1>1, <1>2, <2>2, SlotUntouched DEF IInv
  <2> QED
    BY <2>1, <2>2
<1>6. \A s \in tlm_!Slots : SessionSound(s)'
  BY <1>1, <1>2, SessionStays DEF IInv
<1>7. OneSlotEach'
  BY <1>1, RecordsKept DEF IInv
<1> QED
  BY <1>1, <1>2, <1>4, <1>5, <1>6, <1>7, Assembled, KeptNotNew DEF IInv, TypeOK

\* A response the engine refuses: the engine is revoked, if it was waiting, and
\* the sessions of the client end with it.
LEMMA RejectedResponseStep ==
  ASSUME IInv, NEW response \in Responses, NEW z \in FindSlot(response.client_id),
         RejectedResponse(z, response)
  PROVE  IInv' /\ NewKeysUnspent
<1> DEFINE c == response.client_id
<1>1. c \in Ids
  BY DEF Responses
<1>2. PICK o \in AuthResponseOutcomes(engines_[z], response) :
        /\ o.status # "kOk"
        /\ engines_' = [engines_ EXCEPT ![z] = o.engine]
        /\ tlm_!RevokeToken(c, TRUE)
        /\ answer' = "kProtocolError"
        /\ UNCHANGED <<slot_records_, challenges, spent>>
  BY DEF RejectedResponse
<1>3. /\ z \in ZoneSlot /\ c \in Clients /\ slot_records_[z] = c
      /\ engines_[z] \in Engine /\ SlotSound(z)
  BY <1>1, FoundSlot
<1>4. o.engine \in Engine /\ (o.engine = engines_[z] \/ o.engine = Revoked(engines_[z]))
  <2>1. c \in Clients \cup {ZeroId}
    BY <1>3
  <2> QED
    BY <1>2, <1>3, <2>1, ResponseOutcome
<1>5. /\ T!IInv'
      /\ \A s \in tlm_!Slots :
           /\ T!SessionKept(s)
           /\ session_table_'[s].client_id = c => ~session_table_'[s].is_active
  BY <1>1, <1>2, ManagerRevoke DEF IInv
<1>6. engines_' \in [ZoneSlot -> Engine] /\ engines_'[z] = o.engine
  BY <1>2, <1>3, <1>4 DEF IInv, TypeOK
<1>7. ASSUME NEW y \in ZoneSlot PROVE SlotSound(y)'
  <2>1. CASE y = z /\ o.engine = Revoked(engines_[z])
    <3>1. engines_[z].authenticated_client_id \in {ZeroId, slot_records_[z]}
      BY <1>3 DEF SlotSound
    <3> QED
      BY <1>2, <1>3, <1>5, <1>6, <2>1, <3>1, SlotRevoked
  <2>2. CASE y # z \/ o.engine = engines_[z]
    <3>1. engines_'[y] = engines_[y]
      BY <1>2, <1>6, <2>2 DEF IInv, TypeOK
    <3> QED
      BY <1>2, <1>5, <3>1, SlotUntouched DEF IInv
  <2> QED
    BY <1>4, <2>1, <2>2
<1>8. \A s \in tlm_!Slots : SessionSound(s)'
  BY <1>2, <1>5, SessionStays DEF IInv
<1>9. OneSlotEach'
  BY <1>2, RecordsKept DEF IInv
<1> QED
  BY <1>2, <1>5, <1>6, <1>7, <1>8, <1>9, Assembled, KeptNotNew DEF IInv, TypeOK, AdaptorStatuses

\* A response the engine accepts answers the challenge the engine waits for: the
\* key is one whose challenge was transmitted and that was never registered.
LEMMA AcceptedKey ==
  ASSUME IInv, NEW response \in Responses, NEW z \in FindSlot(response.client_id),
         NEW o \in AuthResponseOutcomes(engines_[z], response), o.status = "kOk"
  PROVE  /\ z \in ZoneSlot /\ slot_records_[z] = response.client_id
         /\ response.client_id \in Peers /\ response.client_id \in Clients
         /\ o.engine \in Engine /\ o.engine.state = "kAuthenticated"
         /\ o.engine.pending_client_id \in {ZeroId, response.client_id}
         /\ o.engine.authenticated_client_id = response.client_id
         /\ HandshakeKey(z) = [nonce |-> o.engine.pending_nonce, client |-> response.client_id]
         /\ HandshakeKey(z) \in challenges
         /\ HandshakeKey(z) \in Derived
         /\ HandshakeKey(z) \notin spent
<1> DEFINE c == response.client_id
<1>1. c \in Ids /\ response.signature \in challenges \cup {Garbled}
  BY DEF Responses
<1>2. /\ z \in ZoneSlot /\ c \in Clients /\ c # ZeroId /\ slot_records_[z] = c
      /\ engines_[z] \in Engine /\ SlotSound(z)
  BY <1>1, FoundSlot
<1>3. /\ o.engine \in Engine
      /\ engines_[z].state = "kChallengeSent" /\ o.engine.state = "kAuthenticated"
      /\ c \in Peers
      /\ response.signature = [nonce |-> engines_[z].pending_nonce, client |-> c]
      /\ o.engine.pending_nonce = engines_[z].pending_nonce
      /\ o.engine.pending_client_id = engines_[z].pending_client_id
      /\ o.engine.authenticated_client_id = c
  <2>1. c \in Clients \cup {ZeroId}
    BY <1>2
  <2> QED
    BY <1>2, <2>1, ResponseOutcome
<1>4. HandshakeKey(z) = response.signature
  BY <1>2, <1>3 DEF HandshakeKey
<1>5. response.signature # Garbled
  <2>1. response.signature.client = c /\ Garbled.client = ZeroId
    BY <1>3 DEF Garbled
  <2> QED
    BY <1>2, <2>1
<1>6. HandshakeKey(z) \in challenges
  BY <1>1, <1>4, <1>5
<1>7. HandshakeKey(z) \in Derived
  BY <1>6 DEF IInv, TypeOK
<1>8. HandshakeKey(z) \notin spent /\ engines_[z].pending_client_id \in {ZeroId, slot_records_[z]}
  BY <1>2, <1>3 DEF SlotSound
<1> QED
  BY <1>2, <1>3, <1>4, <1>6, <1>7, <1>8

\* The engine is satisfied: both halves of the session are made, or neither.
LEMMA AcceptedResponseStep ==
  ASSUME IInv, NEW response \in Responses, NEW z \in FindSlot(response.client_id),
         AcceptedResponse(z, response)
  PROVE  IInv' /\ NewKeysUnspent
<1> DEFINE c == response.client_id
<1>1. PICK o \in AuthResponseOutcomes(engines_[z], response) :
        LET key == [nonce |-> o.engine.pending_nonce, client |-> c] IN
        /\ o.status = "kOk"
        /\ tlm_!RegisterToken(c, key)
        /\ \/ /\ reply'.status = "kOk"
              /\ engines_' = [engines_ EXCEPT ![z] = o.engine]
              /\ spent' = spent \cup {key}
              /\ answer' = "kOk"
           \/ /\ reply'.status # "kOk"
              /\ engines_' = [engines_ EXCEPT ![z] = Revoked(o.engine)]
              /\ answer' = IF reply'.status = "kLockedOut" THEN "kLockedOut" ELSE "kSessionError"
              /\ UNCHANGED spent
        /\ UNCHANGED <<slot_records_, challenges>>
  BY DEF AcceptedResponse
<1>2. PICK k : k = [nonce |-> o.engine.pending_nonce, client |-> c]
  OBVIOUS
<1>3. /\ z \in ZoneSlot /\ slot_records_[z] = c
      /\ c \in Peers /\ c \in Clients /\ c \in Ids
      /\ o.engine \in Engine /\ o.engine.state = "kAuthenticated"
      /\ o.engine.pending_client_id \in {ZeroId, c}
      /\ o.engine.authenticated_client_id = c
      /\ k \in challenges /\ k \in Derived /\ k \notin spent /\ k.client = c
  BY <1>1, <1>2, AcceptedKey DEF Ids
<1>4. /\ T!IInv'
      /\ \A s \in tlm_!Slots :
           /\ reply'.status # "kOk" =>
                /\ session_table_' = session_table_
                /\ session_table_[s].client_id = c => ~session_table_[s].is_active
           /\ reply'.status = "kOk" =>
                /\ \/ T!SessionKept(s)
                   \/ session_table_'[s].client_id = c /\ session_table_'[s].session_key = k
                /\ session_table_'[s].is_active /\ session_table_'[s].client_id = c =>
                     session_table_'[s].session_key = k
  BY <1>1, <1>2, <1>3, ManagerRegister DEF IInv
<1>5. OneSlotEach'
  BY <1>1, RecordsKept DEF IInv
<1>6. \A y \in ZoneSlot \ {z} :
        engines_'[y] = engines_[y] /\ slot_records_'[y] = slot_records_[y] /\ slot_records_[y] # c
  BY <1>1, <1>3, FoundSlot DEF IInv, TypeOK
<1>7. slot_records_' \in [ZoneSlot -> Ids] /\ challenges' \subseteq Derived
  BY <1>1 DEF IInv, TypeOK
<1>8. CASE reply'.status = "kOk"
  <2>1. /\ engines_' \in [ZoneSlot -> Engine] /\ engines_'[z] = o.engine
        /\ spent' = spent \cup {k} /\ answer' \in AdaptorStatuses
    BY <1>1, <1>2, <1>3, <1>8 DEF IInv, TypeOK, AdaptorStatuses
  <2>2. SlotSound(z)'
    <3>1. HandshakeKey(z)' = k
      BY <1>1, <1>2, <1>3, <2>1 DEF HandshakeKey
    <3>2. \A s \in SessionsOf(slot_records_[z])' : session_table_'[s].session_key = k
      BY <1>1, <1>3, <1>4, <1>8 DEF SessionsOf, ActiveSlots, tlm_!Slots
    <3> QED
      BY <1>1, <1>3, <2>1, <3>1, <3>2 DEF SlotSound
  <2>3. ASSUME NEW y \in ZoneSlot \ {z} PROVE SlotSound(y)'
    <3>1. \A s \in tlm_!Slots :
            T!SessionKept(s) \/ session_table_'[s].client_id # slot_records_[y]
      BY <1>4, <1>6, <1>8
    <3>2. \A h \in spent' : h \in spent \/ h.client # slot_records_[y]
      BY <1>3, <1>6, <2>1
    <3> QED
      BY <1>6, <3>1, <3>2, SlotUntouched DEF IInv
  <2>4. ASSUME NEW s \in tlm_!Slots PROVE SessionSound(s)'
    <3>1. CASE T!SessionKept(s)
      BY <2>1, <3>1, SessionStays DEF IInv
    <3>2. CASE session_table_'[s].client_id = c /\ session_table_'[s].session_key = k
      BY <1>3, <2>1, <3>2 DEF SessionSound
    <3> QED
      BY <1>4, <1>8, <3>1, <3>2
  <2>5. spent' \subseteq challenges'
    BY <1>1, <1>3, <2>1 DEF IInv, TypeOK
  <2>6. NewKeysUnspent
    BY <1>3, <1>4, <1>8 DEF NewKeysUnspent, T!SessionKept
  <2>7. \A y \in ZoneSlot : SlotSound(y)'
    BY <2>2, <2>3
  <2> QED
    BY <1>4, <1>5, <1>7, <2>1, <2>4, <2>5, <2>6, <2>7, Assembled
<1>9. CASE reply'.status # "kOk"
  <2>1. engines_' = [engines_ EXCEPT ![z] = Revoked(o.engine)] /\ spent' = spent
    BY <1>1, <1>9
  <2>2. Revoked(o.engine) \in Engine
    BY <1>3, RevokedFields
  <2>3. engines_' \in [ZoneSlot -> Engine] /\ engines_'[z] = Revoked(o.engine)
    BY <1>3, <2>1, <2>2 DEF IInv, TypeOK
  <2>4. answer' \in AdaptorStatuses
    BY <1>1, <1>9 DEF AdaptorStatuses
  <2>5. \A s \in tlm_!Slots : T!SessionKept(s)
    BY <1>4, <1>9 DEF T!SessionKept
  <2>6. SlotSound(z)'
    <3>1. \A s \in tlm_!Slots :
            session_table_'[s].client_id = slot_records_[z] => ~session_table_'[s].is_active
      BY <1>3, <1>4, <1>9
    <3>2. slot_records_'[z] = slot_records_[z]
      BY <1>1
    <3> QED
      BY <1>3, <2>3, <3>1, <3>2, SlotRevoked
  <2>7. ASSUME NEW y \in ZoneSlot \ {z} PROVE SlotSound(y)'
    BY <1>6, <2>1, <2>5, SlotUntouched DEF IInv
  <2>8. \A s \in tlm_!Slots : SessionSound(s)'
    BY <2>1, <2>5, SessionStays DEF IInv
  <2>9. spent' \subseteq challenges'
    BY <1>1, <2>1 DEF IInv, TypeOK
  <2>10. \A y \in ZoneSlot : SlotSound(y)'
    BY <2>6, <2>7
  <2> QED
    BY <1>4, <1>5, <1>7, <2>3, <2>4, <2>5, <2>8, <2>9, <2>10, Assembled, KeptNotNew
<1> QED
  BY <1>8, <1>9

-----------------------------------------------------------------------------
(* Theorems.                                                               *)

\* The pool starts unoccupied, the table empty.
LEMMA InitIInv == Init => IInv
<1> SUFFICES ASSUME Init PROVE IInv
  OBVIOUS
<1>1. /\ engines_ = [z \in ZoneSlot |-> NewEngine]
      /\ slot_records_ = [z \in ZoneSlot |-> ZeroId]
      /\ challenges = {} /\ spent = {} /\ answer = "none" /\ tlm_!Init
  BY DEF Init
<1>2. T!IInv
  BY <1>1, SameInit, T!InitIInv, ManagerAssumptions
<1>3. TypeOK
  <2>1. tlm_!TypeOK
    BY <1>2, SameTypes DEF T!IInv
  <2> QED
    BY <1>1, <2>1, NewEngineFields DEF TypeOK, AdaptorStatuses, Ids
<1>4. OneSlotEach
  BY <1>1 DEF OneSlotEach, FindSlot
<1>5. \A z \in ZoneSlot : SlotSound(z)
  BY <1>1, NewEngineFields DEF SlotSound
<1>6. \A s \in tlm_!Slots : SessionSound(s)
  BY <1>1 DEF tlm_!Init, tlm_!EmptySlot, SessionSound
<1> QED
  BY <1>2, <1>3, <1>4, <1>5, <1>6 DEF IInv

\* Every hook, and the passage of time, keeps the invariant.
LEMMA NextIInv == IInv /\ [Next]_vars => IInv' /\ NewKeysUnspent
<1> SUFFICES ASSUME IInv, [Next]_vars PROVE IInv' /\ NewKeysUnspent
  OBVIOUS
<1>1. ASSUME NEW c \in Ids, OnPeerOffered(c) PROVE IInv' /\ NewKeysUnspent
  BY <1>1, OnPeerOfferedStep
<1>2. CASE OnShortFrame
  BY <1>2, RefusedStep DEF OnShortFrame, AdaptorStatuses
<1>3. ASSUME NEW request \in Requests, OnAuthRequest(request) PROVE IInv' /\ NewKeysUnspent
  BY <1>3, OnAuthRequestStep
<1>4. ASSUME NEW response \in Responses, OnAuthResponse(response)
      PROVE  IInv' /\ NewKeysUnspent
  <2>1. CASE OnUnknownPeer(response)
    BY <2>1, RefusedStep DEF OnUnknownPeer, AdaptorStatuses
  <2>2. ASSUME NEW z \in FindSlot(response.client_id), RejectedResponse(z, response)
        PROVE  IInv' /\ NewKeysUnspent
    BY <2>2, RejectedResponseStep
  <2>3. ASSUME NEW z \in FindSlot(response.client_id), AcceptedResponse(z, response)
        PROVE  IInv' /\ NewKeysUnspent
    BY <2>3, AcceptedResponseStep
  <2> QED
    BY <1>4, <2>1, <2>2, <2>3 DEF OnAuthResponse
<1>5. ASSUME \/ \E c \in Ids : tlm_!ValidateToken(c)
             \/ tlm_!EvaluateTokenExpiry
             \/ tlm_!TimePasses,
             answer' \in AdaptorStatuses,
             UNCHANGED <<engines_, slot_records_, challenges, spent>>
      PROVE  IInv' /\ NewKeysUnspent
  <2>1. T!IInv' /\ \A s \in tlm_!Slots : T!SessionKept(s)
    BY <1>5, ManagerKeeps DEF IInv
  <2> QED
    BY <1>5, <2>1, PoolKept
<1>6. CASE OnSessionTick
  BY <1>5, <1>6 DEF OnSessionTick, AdaptorStatuses
<1>7. ASSUME NEW c \in Ids, IsSessionActive(c) PROVE IInv' /\ NewKeysUnspent
  <2>1. CASE RefusedWith("kLockedOut")
    BY <2>1, RefusedStep DEF AdaptorStatuses
  <2>2. CASE ~RefusedWith("kLockedOut")
    BY <1>5, <1>7, <2>2 DEF IsSessionActive, AdaptorStatuses
  <2> QED
    BY <2>1, <2>2
<1>8. ASSUME NEW c \in Ids, NEW is_anomaly \in BOOLEAN, RevokeSession(c, is_anomaly)
      PROVE  IInv' /\ NewKeysUnspent
  BY <1>8, RevokeSessionStep
<1>9. CASE TimePasses
  BY <1>5, <1>9 DEF TimePasses, AdaptorStatuses
<1>10. CASE UNCHANGED vars
  <2>1. T!IInv' /\ session_table_' = session_table_
    <3>1. UNCHANGED T!vars
      BY <1>10 DEF vars, tlm_vars, T!vars
    <3>2. T!IInv /\ [T!Next]_(T!vars) => T!IInv'
      BY T!NextIInv, ManagerAssumptions
    <3> QED
      BY <1>10, <3>1, <3>2 DEF IInv, vars, tlm_vars
  <2>2. \A s \in tlm_!Slots : T!SessionKept(s)
    BY <2>1 DEF T!SessionKept
  <2> QED
    BY <1>10, <2>1, <2>2, PoolKept DEF vars, IInv, TypeOK
<1> QED
  BY <1>1, <1>2, <1>3, <1>4, <1>6, <1>7, <1>8, <1>9, <1>10 DEF Next

\* What the invariant says of pool and table together.
LEMMA SafeState ==
  ASSUME IInv
  PROVE  TypeOK /\ SlotsBound /\ SessionsProven /\ RevokedEngineHasNoSession /\ SessionKeyCurrent
<1>1. SlotsBound /\ RevokedEngineHasNoSession /\ SessionKeyCurrent
  BY DEF IInv, OneSlotEach, SlotSound, SlotsBound, RevokedEngineHasNoSession,
         SessionKeyCurrent, HandshakeKey
<1>2. TypeOK /\ SessionsProven
  BY DEF IInv, SessionSound, SessionsProven, ActiveSlots
<1> QED
  BY <1>1, <1>2

\* IInv is an invariant of the adaptor.
THEOREM Invariance == Spec => []IInv
<1>1. Init => IInv
  BY InitIInv
<1>2. IInv /\ [Next]_vars => IInv'
  BY NextIInv
<1> QED
  BY <1>1, <1>2, PTL DEF Spec

\* Engines, records, challenges and the manager's state stay within their types,
\* and a key is registered only if its challenge was transmitted.
THEOREM PoolTyped == Spec => []TypeOK
<1>1. IInv => TypeOK
  BY SafeState
<1> QED
  BY <1>1, Invariance, PTL

\* A client has one zone slot, and an engine holds no id but that of its client.
THEOREM EnginesNotMixedUp == Spec => []SlotsBound
<1>1. IInv => SlotsBound
  BY SafeState
<1> QED
  BY <1>1, Invariance, PTL

\* A live session belongs to a peer, and its key was derived for this client from
\* a nonce it was sent and proved to have signed.
THEOREM EverySessionProven == Spec => []SessionsProven
<1>1. IInv => SessionsProven
  BY SafeState
<1> QED
  BY <1>1, Invariance, PTL

\* An engine that is revoked leaves no session behind: its client has none in the
\* table.
THEOREM RevocationsComplete == Spec => []RevokedEngineHasNoSession
<1>1. IInv => RevokedEngineHasNoSession
  BY SafeState
<1> QED
  BY <1>1, Invariance, PTL

\* The session of a client whose engine is authenticated is under the key of that
\* engine's handshake, not of an earlier one.
THEOREM KeysCurrent == Spec => []SessionKeyCurrent
<1>1. IInv => SessionKeyCurrent
  BY SafeState
<1> QED
  BY <1>1, Invariance, PTL

\* A key is registered at most once: no response, however late or often it comes,
\* opens a session a second time.
THEOREM KeysRegisteredOnce == Spec => KeyRegisteredOnce
<1>1. IInv /\ [Next]_vars =>
        [\A s \in tlm_!Slots :
           /\ session_table_'[s].is_active
           /\ session_table_'[s].session_key # session_table_[s].session_key
           => session_table_'[s].session_key \notin spent]_vars
  BY NextIInv DEF NewKeysUnspent
<1> QED
  BY <1>1, Invariance, PTL DEF Spec, KeyRegisteredOnce

-----------------------------------------------------------------------------
(* The adaptor implements ZoneAuthentication.  What the abstract state is. *)

\* The state of ZoneAuthentication.
Stages == [c \in Clients |-> Stage(c)]
Sessions == [c \in Clients |-> SessionKeyOf(c)]
LockedOut == {c \in Clients : tlm_!IsLockedOut(c)}
Crowded == tlm_!IsLockedOut(ZeroId)

\* The stage of a client in some pool, and the key of its session in some table.
StageIn(engines, records, c) ==
  IF \E z \in ZoneSlot : records[z] = c
  THEN engines[CHOOSE z \in ZoneSlot : records[z] = c].state ELSE "absent"
KeyIn(table, c) ==
  IF \E s \in tlm_!Slots : table[s].client_id = c /\ table[s].is_active
  THEN table[CHOOSE s \in tlm_!Slots :
         table[s].client_id = c /\ table[s].is_active].session_key
  ELSE ZeroKey

\* They are what the mapping computes.
LEMMA MappingIs ==
  /\ \A c : Stage(c) = StageIn(engines_, slot_records_, c)
  /\ \A c : Stage(c)' = StageIn(engines_', slot_records_', c)
  /\ \A c : SessionKeyOf(c) = KeyIn(session_table_, c)
  /\ \A c : SessionKeyOf(c)' = KeyIn(session_table_', c)
BY DEF Stage, StageIn, SessionKeyOf, KeyIn, ZoneSlot, tlm_!Slots

\* No two live sessions of a table are of one client; no two slots of a pool.
OneSessionIn(table) ==
  \A s, t \in tlm_!Slots :
    /\ table[s].is_active /\ table[t].is_active
    /\ table[s].client_id = table[t].client_id
    => s = t
OneSlotIn(records) ==
  \A y, z \in ZoneSlot : records[y] \in Clients /\ records[y] = records[z] => y = z

\* The invariant says so before a step,
LEMMA OneEach == IInv => OneSessionIn(session_table_) /\ OneSlotIn(slot_records_)
<1> SUFFICES ASSUME IInv PROVE OneSessionIn(session_table_) /\ OneSlotIn(slot_records_)
  OBVIOUS
<1>1. \A s, t \in T!ActiveSlots :
        session_table_[s].client_id = session_table_[t].client_id => s = t
  BY T!LiveIdsDiffer, ManagerAssumptions DEF IInv
<1>2. OneSessionIn(session_table_)
  BY <1>1, SameSlots DEF OneSessionIn, T!ActiveSlots
<1>3. OneSlotIn(slot_records_)
  BY PeerAssumption DEF IInv, OneSlotEach, FindSlot, OneSlotIn
<1> QED
  BY <1>2, <1>3

\* and after it.
LEMMA OneEachAfter == IInv' => OneSessionIn(session_table_') /\ OneSlotIn(slot_records_')
<1>1. IInv' => (OneSessionIn(session_table_) /\ OneSlotIn(slot_records_))'
  BY OneEach, PTL
<1> QED
  BY <1>1 DEF OneSessionIn, OneSlotIn, tlm_!Slots, ZoneSlot

\* The stage of a client that has a slot, and of one that has none.
LEMMA StageInIs ==
  ASSUME NEW engines, NEW records, OneSlotIn(records), NEW c \in Clients
  PROVE  /\ \A z \in ZoneSlot :
              records[z] = c => StageIn(engines, records, c) = engines[z].state
         /\ (\A z \in ZoneSlot : records[z] # c) => StageIn(engines, records, c) = "absent"
<1>1. ASSUME NEW z \in ZoneSlot, records[z] = c
      PROVE  StageIn(engines, records, c) = engines[z].state
  <2> DEFINE y == CHOOSE y \in ZoneSlot : records[y] = c
  <2>1. y \in ZoneSlot /\ records[y] = c
    BY <1>1
  <2>2. y = z
    BY <1>1, <2>1 DEF OneSlotIn
  <2> QED
    BY <1>1, <2>2 DEF StageIn
<1> QED
  BY <1>1 DEF StageIn

\* The key of a client that has a session, and of one that has none.
LEMMA KeyInIs ==
  ASSUME NEW table, OneSessionIn(table), NEW c
  PROVE  /\ \A s \in tlm_!Slots :
              table[s].client_id = c /\ table[s].is_active =>
                KeyIn(table, c) = table[s].session_key
         /\ (\A s \in tlm_!Slots : table[s].client_id = c => ~table[s].is_active) =>
              KeyIn(table, c) = ZeroKey
<1>1. ASSUME NEW s \in tlm_!Slots, table[s].client_id = c, table[s].is_active
      PROVE  KeyIn(table, c) = table[s].session_key
  <2> DEFINE t == CHOOSE t \in tlm_!Slots : table[t].client_id = c /\ table[t].is_active
  <2>1. t \in tlm_!Slots /\ table[t].client_id = c /\ table[t].is_active
    BY <1>1
  <2>2. t = s
    BY <1>1, <2>1 DEF OneSessionIn
  <2> QED
    BY <1>1, <2>2 DEF KeyIn
<1> QED
  BY <1>1 DEF KeyIn

\* A client whose sessions are the same in two tables has the same key in both.
LEMMA SameKey ==
  ASSUME NEW before, NEW after, OneSessionIn(before), OneSessionIn(after), NEW d,
         \A s \in tlm_!Slots :
           \/ before[s].client_id = d /\ before[s].is_active
           \/ after[s].client_id = d /\ after[s].is_active
           => after[s] = before[s]
  PROVE  KeyIn(after, d) = KeyIn(before, d)
<1>1. ASSUME NEW s \in tlm_!Slots, before[s].client_id = d, before[s].is_active
      PROVE  KeyIn(after, d) = KeyIn(before, d)
  BY <1>1, KeyInIs
<1>2. ASSUME \A s \in tlm_!Slots : before[s].client_id = d => ~before[s].is_active
      PROVE  KeyIn(after, d) = KeyIn(before, d)
  BY <1>2, KeyInIs
<1> QED
  BY <1>1, <1>2

\* A client whose sessions do not change keeps its key.
LEMMA KeyKept ==
  ASSUME IInv, IInv', NEW d,
         \A s \in tlm_!Slots :
           \/ session_table_[s].client_id = d /\ session_table_[s].is_active
           \/ session_table_'[s].client_id = d /\ session_table_'[s].is_active
           => session_table_'[s] = session_table_[s]
  PROVE  SessionKeyOf(d)' = SessionKeyOf(d)
BY OneEach, OneEachAfter, SameKey, MappingIs

\* A client has a key just when it has a session, and it is the session's.
LEMMA KeyOf ==
  ASSUME IInv, NEW c
  PROVE  /\ \A s \in tlm_!Slots :
              session_table_[s].client_id = c /\ session_table_[s].is_active =>
                SessionKeyOf(c) = session_table_[s].session_key /\ SessionKeyOf(c) # ZeroKey
         /\ (\A s \in tlm_!Slots : session_table_[s].client_id = c => ~session_table_[s].is_active)
              <=> SessionKeyOf(c) = ZeroKey
<1>1. ASSUME NEW s \in tlm_!Slots, session_table_[s].client_id = c, session_table_[s].is_active
      PROVE  SessionKeyOf(c) = session_table_[s].session_key /\ SessionKeyOf(c) # ZeroKey
  <2>1. SessionKeyOf(c) = session_table_[s].session_key
    BY <1>1, OneEach, KeyInIs, MappingIs
  <2>2. session_table_[s].session_key \in Derived
    BY <1>1 DEF IInv, SessionSound, TypeOK
  <2> QED
    BY <2>1, <2>2, KeyAssumption
<1>2. (\A s \in tlm_!Slots : session_table_[s].client_id = c => ~session_table_[s].is_active)
        => SessionKeyOf(c) = ZeroKey
  BY OneEach, KeyInIs, MappingIs
<1> QED
  BY <1>1, <1>2

\* The same after a step.
LEMMA KeyOfAfter ==
  ASSUME IInv', NEW c
  PROVE  /\ \A s \in tlm_!Slots :
              session_table_'[s].client_id = c /\ session_table_'[s].is_active =>
                SessionKeyOf(c)' = session_table_'[s].session_key
         /\ (\A s \in tlm_!Slots :
               session_table_'[s].client_id = c => ~session_table_'[s].is_active)
              => SessionKeyOf(c)' = ZeroKey
BY OneEachAfter, KeyInIs, MappingIs

\* A client is offered when it has a zone slot, and its stage is its engine's state.
LEMMA StageOf ==
  ASSUME IInv, NEW c \in Clients
  PROVE  /\ \A z \in ZoneSlot :
              slot_records_[z] = c => Stage(c) = engines_[z].state /\ Stage(c) # "absent"
         /\ (\A z \in ZoneSlot : slot_records_[z] # c) <=> Stage(c) = "absent"
         /\ c \in Abstract!Offered <=> FindSlot(c) # {}
<1>1. ASSUME NEW z \in ZoneSlot, slot_records_[z] = c
      PROVE  Stage(c) = engines_[z].state /\ Stage(c) # "absent"
  <2>1. Stage(c) = engines_[z].state
    BY <1>1, OneEach, StageInIs, MappingIs
  <2>2. engines_[z].state \in States
    BY DEF IInv, TypeOK, Engine
  <2> QED
    BY <2>1, <2>2 DEF States
<1>2. (\A z \in ZoneSlot : slot_records_[z] # c) => Stage(c) = "absent"
  BY OneEach, StageInIs, MappingIs
<1>3. c \in Abstract!Offered <=> Stage(c) # "absent"
  BY DEF Abstract!Offered
<1>4. FindSlot(c) # {} <=> \E z \in ZoneSlot : slot_records_[z] = c
  BY PeerAssumption DEF FindSlot
<1> QED
  BY <1>1, <1>2, <1>3, <1>4

\* When one engine changes, so does the stage of its client alone.
LEMMA OneStage ==
  ASSUME IInv, IInv', NEW z \in ZoneSlot, slot_records_'[z] \in Clients,
         \A y \in ZoneSlot \ {z} :
           slot_records_'[y] = slot_records_[y] /\ engines_'[y] = engines_[y],
         slot_records_[z] \in {slot_records_'[z], ZeroId}
  PROVE  Stages' = [Stages EXCEPT ![slot_records_'[z]] = engines_'[z].state]
<1> DEFINE c == slot_records_'[z]
<1>1. ASSUME NEW d \in Clients
      PROVE  Stage(d)' = IF d = c THEN engines_'[z].state ELSE Stage(d)
  <2>1. CASE d = c
    BY <2>1, OneEachAfter, StageInIs, MappingIs
  <2>2. CASE d # c
    <3>1. d # ZeroId /\ d # slot_records_[z]
      BY <2>2, PeerAssumption
    <3>2. ASSUME NEW y \in ZoneSlot, slot_records_[y] = d
          PROVE  Stage(d)' = Stage(d)
      <4>1. y # z /\ slot_records_'[y] = d /\ engines_'[y] = engines_[y]
        BY <3>1, <3>2
      <4>2. Stage(d)' = engines_'[y].state
        BY <4>1, OneEachAfter, StageInIs, MappingIs
      <4>3. Stage(d) = engines_[y].state
        BY <3>2, StageOf
      <4> QED
        BY <4>1, <4>2, <4>3
    <3>3. ASSUME \A y \in ZoneSlot : slot_records_[y] # d
          PROVE  Stage(d)' = Stage(d)
      <4>1. \A y \in ZoneSlot : slot_records_'[y] # d
        BY <2>2, <3>3
      <4>2. Stage(d)' = "absent"
        BY <4>1, OneEachAfter, StageInIs, MappingIs
      <4> QED
        BY <3>3, <4>2, StageOf
    <3> QED
      BY <2>2, <3>2, <3>3
  <2> QED
    BY <2>1, <2>2
<1>2. Stages' = [d \in Clients |-> Stage(d)'] /\ Stages = [d \in Clients |-> Stage(d)]
  BY DEF Stages
<1> QED
  BY <1>1, <1>2

-----------------------------------------------------------------------------
(* What a hook leaves alone.                                               *)

\* Lockouts are the manager's.
LEMMA LockedIs ==
  /\ \A c : tlm_!IsLockedOut(c) <=> T!IsLockedOut(c)
  /\ \A c : tlm_!IsLockedOut(c)' <=> T!IsLockedOut(c)'
<1>1. \A c : tlm_!IsLockedOut(c) <=> T!IsLockedOut(c)
  BY SameLookups
<1>2. (\A c : tlm_!IsLockedOut(c) <=> T!IsLockedOut(c))'
  BY <1>1, SameLookups, PTL
<1> QED
  BY <1>1, <1>2

\* Whether a client is locked out is a truth value.
LEMMA LockedBoolean ==
  \A c : tlm_!IsLockedOut(c) \in BOOLEAN /\ tlm_!IsLockedOut(c)' \in BOOLEAN
BY DEF tlm_!IsLockedOut

\* Where no lockout changes, the locked-out clients and the crowding stay.
LEMMA LocksStay ==
  ASSUME \A d : tlm_!IsLockedOut(d)' <=> tlm_!IsLockedOut(d)
  PROVE  LockedOut' = LockedOut /\ Crowded' = Crowded
<1>1. LockedOut' = LockedOut
  BY DEF LockedOut
<1>2. Crowded' = Crowded
  BY LockedBoolean, Zenon DEF Crowded
<1> QED
  BY <1>1, <1>2

\* The sessions stay where none changes,
LEMMA SessionsStay ==
  ASSUME \A d \in Clients : SessionKeyOf(d)' = SessionKeyOf(d)
  PROVE  Sessions' = Sessions
<1>1. Sessions' = [d \in Clients |-> SessionKeyOf(d)']
  BY DEF Sessions
<1> QED
  BY <1>1 DEF Sessions

\* and the stages where no engine does.
LEMMA StagesStay ==
  ASSUME engines_' = engines_, slot_records_' = slot_records_
  PROVE  Stages' = Stages
BY DEF Stages, Stage, ZoneSlot

\* A hook that leaves the manager alone changes no session and no lockout, and
\* hands no key out.
LEMMA ManagerAlone ==
  ASSUME WithoutTlm
  PROVE  /\ Sessions' = Sessions /\ LockedOut' = LockedOut /\ Crowded' = Crowded
         /\ reply'.key = ZeroKey
<1>1. session_table_' = session_table_ /\ reply'.key = ZeroKey
  BY DEF WithoutTlm, tlm_!Refuse, tlm_!Returns
<1>2. \A d \in Clients : SessionKeyOf(d)' = SessionKeyOf(d)
  BY <1>1, MappingIs
<1>3. \A d : tlm_!IsLockedOut(d)' <=> tlm_!IsLockedOut(d)
  BY <1>1 DEF tlm_!IsLockedOut, tlm_!Matches, tlm_!FindSlotByClientId, tlm_!Slots
<1> QED
  BY <1>1, <1>2, <1>3, SessionsStay, LocksStay

\* A refusal is one of the abstract hooks', with the same answer.
LEMMA RefusalMatches ==
  ASSUME NEW status, RefusedWith(status)
  PROVE  Abstract!Refuse(status)
<1>1. /\ WithoutTlm /\ answer' = status /\ spent' = spent
      /\ engines_' = engines_ /\ slot_records_' = slot_records_
  BY DEF RefusedWith
<1>2. Stages' = Stages
  BY <1>1, StagesStay
<1>3. /\ Sessions' = Sessions /\ LockedOut' = LockedOut /\ Crowded' = Crowded
      /\ reply'.key = ZeroKey
  BY <1>1, ManagerAlone
<1>4. Abstract!Answers(status, ZeroKey)
  BY <1>1, <1>3 DEF Abstract!Answers
<1> QED
  BY <1>1, <1>2, <1>3, <1>4
  DEF Abstract!Refuse, Stages, Sessions, LockedOut, Crowded

-----------------------------------------------------------------------------
(* The table remembers no client but those offered, so that a table not    *)
(* crowded has a slot for every one of them.                               *)

\* Every id in the table is a client's that has a zone slot, or the all-zero one.
Remembered(s) ==
  \/ session_table_[s].client_id = ZeroId
  \/ \E z \in ZoneSlot : slot_records_[z] = session_table_[s].client_id

RInv == IInv /\ \A s \in tlm_!Slots : Remembered(s)

\* A slot that is free for nobody else: without room for a client that has a zone
\* slot, or could have one, the all-zero id is locked out.
LEMMA NoRoomIsCrowded ==
  ASSUME RInv, NEW c \in Clients, NEW z \in ZoneSlot, slot_records_[z] \in {c, ZeroId},
         ~T!IsLockedOut(c), T!FreeSlots(c) = {}
  PROVE  Crowded
<1> SUFFICES ASSUME ~T!IsLockedOut(ZeroId) PROVE FALSE
  BY LockedIs DEF Crowded
<1> DEFINE Id(s) == session_table_[s].client_id
           place == [s \in T!Slots |-> CHOOSE y \in ZoneSlot : slot_records_[y] = Id(s)]
<1>1. ASSUME NEW s \in T!Slots
      PROVE  /\ Id(s) # c
             /\ \A t \in T!Slots : Id(t) = Id(s) => t = s
             /\ Id(s) # ZeroId
  <2>1. c \in T!Ids
    BY DEF T!Ids
  <2>2. /\ Id(s) # c
        /\ session_table_[s].is_active \/ T!IsLockedOut(Id(s))
        /\ \A t \in T!Slots : Id(t) = Id(s) => t = s
    BY <2>1, T!FullTable, ManagerAssumptions DEF RInv, IInv
  <2>3. session_table_[s].is_active => Id(s) # ZeroId
    BY SameSlots, PeerAssumption DEF RInv, IInv, SessionSound
  <2> QED
    BY <2>2, <2>3
<1>2. ASSUME NEW s \in T!Slots
      PROVE  place[s] \in ZoneSlot \ {z} /\ slot_records_[place[s]] = Id(s)
  <2>1. \E y \in ZoneSlot : slot_records_[y] = Id(s)
    BY <1>1, SameSlots DEF RInv, Remembered
  <2> QED
    BY <1>1, <2>1
<1>3. place \in [T!Slots -> ZoneSlot \ {z}]
  BY <1>2
<1>4. ASSUME NEW s \in T!Slots, NEW t \in T!Slots, place[s] = place[t] PROVE s = t
  BY <1>1, <1>2, <1>4
<1> HIDE DEF place
<1>5. place \in Injection(T!Slots, ZoneSlot \ {z})
  BY <1>3, <1>4 DEF Injection, IsInjective
<1>6. /\ IsFiniteSet(ZoneSlot) /\ Cardinality(ZoneSlot) = ZoneSlots
      /\ Cardinality(T!Slots) = kMaxActiveSessions
  BY PoolAssumption, FS_Interval DEF ZoneSlot, T!Slots
<1>7. IsFiniteSet(ZoneSlot \ {z}) /\ Cardinality(ZoneSlot \ {z}) = ZoneSlots - 1
  BY <1>6, FS_RemoveElement
<1>8. Cardinality(T!Slots) <= Cardinality(ZoneSlot \ {z})
  BY <1>5, <1>7, FS_Injection
<1> QED
  BY <1>6, <1>7, <1>8, PoolAssumption

\* A slot that goes on remembering a client, or begins to remember one that has a
\* zone slot, is in order, as no zone slot is given back.
LEMMA RememberedKept ==
  ASSUME NEW s \in tlm_!Slots, Remembered(s),
         \A z \in ZoneSlot : slot_records_[z] \in {slot_records_'[z], ZeroId},
         \/ session_table_'[s].client_id = session_table_[s].client_id
         \/ \E z \in ZoneSlot : slot_records_'[z] = session_table_'[s].client_id
  PROVE  Remembered(s)'
<1>1. Remembered(s)' <=> \/ session_table_'[s].client_id = ZeroId
                         \/ \E z \in ZoneSlot : slot_records_'[z] = session_table_'[s].client_id
  BY DEF Remembered, ZoneSlot
<1> QED
  BY <1>1 DEF Remembered

\* What the hooks do to the ids the table remembers.
LEMMA IdsKept ==
  ASSUME IInv, NEW s \in tlm_!Slots,
         \/ WithoutTlm
         \/ \E c \in Ids : tlm_!ValidateToken(c)
         \/ \E c \in Ids, is_anomaly \in BOOLEAN : tlm_!RevokeToken(c, is_anomaly)
         \/ tlm_!EvaluateTokenExpiry
         \/ tlm_!TimePasses
  PROVE  session_table_'[s].client_id = session_table_[s].client_id
<1>1. s \in T!Slots /\ T!IInv
  BY SameSlots DEF IInv
<1>2. CASE WithoutTlm
  BY <1>2 DEF WithoutTlm, tlm_!Refuse
<1>3. ASSUME NEW c \in Ids, tlm_!ValidateToken(c)
      PROVE  session_table_'[s].client_id = session_table_[s].client_id
  <2>1. T!ValidateToken(c) /\ c \in T!Ids
    BY <1>3, SameValidate DEF T!Ids, Ids
  <2> QED
    BY <1>1, <2>1, T!OthersStay, ManagerAssumptions
<1>4. ASSUME NEW c \in Ids, NEW is_anomaly \in BOOLEAN, tlm_!RevokeToken(c, is_anomaly)
      PROVE  session_table_'[s].client_id = session_table_[s].client_id
  <2>1. T!RevokeToken(c, is_anomaly) /\ c \in T!Ids
    BY <1>4, SameRevoke DEF T!Ids, Ids
  <2> QED
    BY <1>1, <2>1, T!OthersStay, ManagerAssumptions
<1>5. CASE tlm_!EvaluateTokenExpiry
  <2>1. T!EvaluateTokenExpiry
    BY <1>5, SameExpiry
  <2> QED
    BY <1>1, <2>1, T!ScanKeepsIds, ManagerAssumptions
<1>6. CASE tlm_!TimePasses
  BY <1>6 DEF tlm_!TimePasses
<1> QED
  BY <1>2, <1>3, <1>4, <1>5, <1>6

\* A registration makes the table remember its client.
LEMMA RegisterIds ==
  ASSUME IInv, NEW s \in tlm_!Slots, NEW c \in Clients, NEW k \in Derived,
         tlm_!RegisterToken(c, k)
  PROVE  \/ session_table_'[s].client_id = session_table_[s].client_id
         \/ session_table_'[s].client_id = c
<1>1. T!RegisterToken(c, k) /\ c \in T!Ids /\ c # ZeroId /\ s \in T!Slots /\ T!IInv
  BY SameRegister, SameSlots, PeerAssumption DEF T!Ids, IInv
<1>2. CASE reply'.status = "kOk"
  BY <1>1, <1>2, T!RegisterSpares, ManagerAssumptions
<1>3. CASE reply'.status # "kOk"
  BY <1>1, <1>3, T!RegisterRefused, ManagerAssumptions
<1> QED
  BY <1>2, <1>3

\* No zone slot is given back, and one that is assigned was unoccupied.
LEMMA RecordsGrow ==
  ASSUME IInv, [Next]_vars, NEW z \in ZoneSlot
  PROVE  slot_records_[z] \in {slot_records_'[z], ZeroId}
<1>1. ASSUME NEW c \in Ids, AssignSlot(c)
      PROVE  slot_records_[z] \in {slot_records_'[z], ZeroId}
  <2>1. PICK y : y = tlm_!Lowest(FreeEngineSlots)
    OBVIOUS
  <2>2. slot_records_' = [slot_records_ EXCEPT ![y] = c] /\ FreeEngineSlots # {}
    BY <1>1, <2>1 DEF AssignSlot
  <2>3. FreeEngineSlots \in SUBSET T!Slots
    BY PoolAssumption DEF FreeEngineSlots, ZoneSlot, T!Slots
  <2>4. T!Lowest(FreeEngineSlots) \in FreeEngineSlots
    BY <2>2, <2>3, T!LowestIsLeast, ManagerAssumptions
  <2>5. slot_records_[y] = ZeroId
    BY <2>1, <2>4, SameLowest DEF FreeEngineSlots
  <2> QED
    BY <2>2, <2>5 DEF IInv, TypeOK
<1>2. ASSUME NEW c \in Ids, ReOffer(c) \/ RejectOffer(c) PROVE slot_records_' = slot_records_
  BY <1>2 DEF ReOffer, RejectOffer, RefusedWith
<1>3. CASE UNCHANGED slot_records_
  BY <1>3
<1>4. \/ \E c \in Ids : AssignSlot(c) \/ ReOffer(c) \/ RejectOffer(c)
      \/ UNCHANGED slot_records_
  BY DEF Next, vars, OnPeerOffered, OnShortFrame, RefusedWith, OnAuthRequest, OnUnknownPeer,
         OnAuthResponse, RejectedResponse, AcceptedResponse, OnSessionTick, IsSessionActive,
         RevokeSession, TimePasses
<1> QED
  BY <1>1, <1>2, <1>3, <1>4

\* Every hook keeps the table in order.
LEMMA NextRInv == RInv /\ [Next]_vars => RInv'
<1> SUFFICES ASSUME RInv, [Next]_vars PROVE RInv'
  OBVIOUS
<1>1. IInv /\ IInv'
  BY NextIInv DEF RInv
<1>2. ASSUME NEW s \in tlm_!Slots
      PROVE  \/ session_table_'[s].client_id = session_table_[s].client_id
             \/ \E z \in ZoneSlot : slot_records_'[z] = session_table_'[s].client_id
  <2>1. ASSUME NEW response \in Responses, NEW z \in FindSlot(response.client_id),
               AcceptedResponse(z, response)
        PROVE  \/ session_table_'[s].client_id = session_table_[s].client_id
               \/ \E y \in ZoneSlot : slot_records_'[y] = session_table_'[s].client_id
    <3>1. PICK o \in AuthResponseOutcomes(engines_[z], response) :
            /\ o.status = "kOk"
            /\ tlm_!RegisterToken(response.client_id,
                 [nonce |-> o.engine.pending_nonce, client |-> response.client_id])
            /\ UNCHANGED slot_records_
      BY <2>1 DEF AcceptedResponse
    <3>2. PICK k : k = [nonce |-> o.engine.pending_nonce, client |-> response.client_id]
      OBVIOUS
    <3>3. /\ z \in ZoneSlot /\ slot_records_[z] = response.client_id
          /\ response.client_id \in Clients /\ k \in Derived
      BY <1>1, <3>1, <3>2, AcceptedKey
    <3>4. tlm_!RegisterToken(response.client_id, k)
      BY <3>1, <3>2
    <3> QED
      BY <1>1, <3>1, <3>3, <3>4, RegisterIds
  <2>2. ASSUME NEW response \in Responses, NEW z \in FindSlot(response.client_id),
               RejectedResponse(z, response)
        PROVE  session_table_'[s].client_id = session_table_[s].client_id
    <3>1. response.client_id \in Ids
      BY DEF Responses
    <3>2. tlm_!RevokeToken(response.client_id, TRUE)
      BY <2>2 DEF RejectedResponse
    <3> QED
      BY <1>1, <3>1, <3>2, IdsKept
  <2>3. \/ WithoutTlm
        \/ \E response \in Responses : \E z \in FindSlot(response.client_id) :
             RejectedResponse(z, response) \/ AcceptedResponse(z, response)
        \/ tlm_!EvaluateTokenExpiry
        \/ \E c \in Ids : tlm_!ValidateToken(c)
        \/ \E c \in Ids, is_anomaly \in BOOLEAN : tlm_!RevokeToken(c, is_anomaly)
        \/ tlm_!TimePasses
        \/ UNCHANGED session_table_
    BY DEF Next, vars, tlm_vars, OnPeerOffered, RejectOffer, ReOffer, AssignSlot, OnShortFrame,
           RefusedWith, OnAuthRequest, OnUnknownPeer, OnAuthResponse, OnSessionTick,
           IsSessionActive, RevokeSession, TimePasses
  <2> QED
    BY <1>1, <2>1, <2>2, <2>3, IdsKept
<1>3. \A s \in tlm_!Slots : Remembered(s)'
  BY <1>1, <1>2, RememberedKept, RecordsGrow DEF RInv
<1> QED
  BY <1>1, <1>3 DEF RInv, tlm_!Slots

-----------------------------------------------------------------------------
(* The adaptor implements ZoneAuthentication, hook by hook.                *)

\* Each offered client has one zone slot: when none is left, their number is that
\* of the slots, and until then it is smaller.
LEMMA OfferedCount ==
  ASSUME IInv
  PROVE  /\ FreeEngineSlots = {} => Abstract!Cardinality(Abstract!Offered) = ZoneSlots
         /\ FreeEngineSlots # {} => Abstract!Cardinality(Abstract!Offered) < ZoneSlots
<1> DEFINE O == Abstract!Offered
           home == [c \in O |-> CHOOSE z \in ZoneSlot : slot_records_[z] = c]
<1>1. O \in SUBSET Clients
  BY DEF Abstract!Offered
<1>2. ASSUME NEW c \in O PROVE home[c] \in ZoneSlot /\ slot_records_[home[c]] = c
  <2>1. \E z \in ZoneSlot : slot_records_[z] = c
    BY <1>1, StageOf DEF FindSlot
  <2> QED
    BY <2>1
<1>3. home \in Injection(O, ZoneSlot)
  <2>1. home \in [O -> ZoneSlot]
    BY <1>2
  <2>2. ASSUME NEW c \in O, NEW d \in O, home[c] = home[d] PROVE c = d
    BY <1>2, <2>2
  <2> HIDE DEF home
  <2> QED
    BY <2>1, <2>2 DEF Injection, IsInjective
<1>4. home \in Surjection(O, ZoneSlot) <=> FreeEngineSlots = {}
  <2>1. ASSUME FreeEngineSlots = {}, NEW z \in ZoneSlot PROVE \E c \in O : home[c] = z
    <3>1. slot_records_[z] \in Clients
      BY <2>1 DEF FreeEngineSlots, IInv, TypeOK, Ids
    <3>2. slot_records_[z] \in O
      BY <3>1, StageOf, PeerAssumption DEF FindSlot
    <3>3. home[slot_records_[z]] = z
      BY <1>2, <3>1, <3>2, OneEach DEF OneSlotIn
    <3> QED
      BY <3>2, <3>3
  <2>2. ASSUME NEW z \in FreeEngineSlots, NEW c \in O PROVE home[c] # z
    BY <1>1, <1>2, PeerAssumption DEF FreeEngineSlots
  <2>3. home \in [O -> ZoneSlot]
    BY <1>2
  <2> HIDE DEF home, O
  <2>4. home \in Surjection(O, ZoneSlot) <=> \A z \in ZoneSlot : \E c \in O : home[c] = z
    BY <2>3 DEF Surjection
  <2>5. FreeEngineSlots \in SUBSET ZoneSlot
    BY DEF FreeEngineSlots
  <2> QED
    BY <2>1, <2>2, <2>4, <2>5
<1>5. IsFiniteSet(ZoneSlot) /\ Cardinality(ZoneSlot) = ZoneSlots
  BY PoolAssumption, FS_Interval DEF ZoneSlot
<1>6. Abstract!Cardinality(O) = Cardinality(O)
  BY DEF Abstract!Cardinality, Cardinality
<1> HIDE DEF O, home
<1>7. /\ IsFiniteSet(O) /\ Cardinality(O) <= Cardinality(ZoneSlot)
      /\ Cardinality(O) = Cardinality(ZoneSlot) <=> home \in Surjection(O, ZoneSlot)
  BY <1>3, <1>5, FS_Injection
<1>8. Cardinality(O) \in Nat
  BY <1>7, FS_CardinalityType
<1>9. /\ FreeEngineSlots = {} => Abstract!Cardinality(O) = ZoneSlots
      /\ FreeEngineSlots # {} => Abstract!Cardinality(O) < ZoneSlots
  BY <1>4, <1>5, <1>6, <1>7, <1>8, PoolAssumption
<1> QED
  BY <1>9 DEF O

\* An offer starts the handshake over, whether or not the client had a slot.
LEMMA OfferMatches ==
  ASSUME RInv, IInv', NEW c \in Ids, OnPeerOffered(c)
  PROVE  Abstract!Offer(c)
<1>1. IInv
  BY DEF RInv
<1>2. c # ZeroId => c \in Clients
  BY DEF Ids
<1>3. CASE RejectOffer(c)
  <2>1. CASE c = ZeroId /\ RefusedWith("kInvalidParam")
    BY <2>1, RefusalMatches DEF Abstract!Offer
  <2>2. CASE c # ZeroId /\ tlm_!IsLockedOut(c) /\ RefusedWith("kLockedOut")
    BY <1>2, <2>2, RefusalMatches DEF Abstract!Offer
  <2>3. CASE /\ c # ZeroId /\ FindSlot(c) = {} /\ FreeEngineSlots = {}
             /\ RefusedWith("kSlotExhausted")
    <3>1. c \in Clients \ Abstract!Offered
      BY <1>1, <1>2, <2>3, StageOf
    <3>2. Abstract!Cardinality(Abstract!Offered) = ZoneSlots
      BY <1>1, <2>3, OfferedCount
    <3> QED
      BY <2>3, <3>1, <3>2, RefusalMatches DEF Abstract!Offer
  <2> QED
    BY <1>3, <2>1, <2>2, <2>3 DEF RejectOffer
<1>4. ASSUME NEW z \in ZoneSlot, c # ZeroId, ~tlm_!IsLockedOut(c),
             slot_records_[z] \in {c, ZeroId}, slot_records_'[z] = c,
             FindSlot(c) # {} \/ FreeEngineSlots # {},
             engines_' = [engines_ EXCEPT ![z] = WasReset(engines_[z])],
             \A y \in ZoneSlot \ {z} : slot_records_'[y] = slot_records_[y],
             answer' = "kOk", WithoutTlm, spent' = spent
      PROVE  Abstract!Offer(c)
  <2>1. engines_[z] \in Engine /\ engines_ \in [ZoneSlot -> Engine]
    BY <1>1 DEF IInv, TypeOK
  <2>2. engines_'[z].state = "kUnauthenticated"
    BY <1>4, <2>1, ResetFields
  <2>3. \A y \in ZoneSlot \ {z} : engines_'[y] = engines_[y]
    BY <1>4, <2>1
  <2>4. Stages' = [Stages EXCEPT ![c] = "kUnauthenticated"]
    BY <1>1, <1>2, <1>4, <2>2, <2>3, OneStage
  <2>5. /\ Sessions' = Sessions /\ LockedOut' = LockedOut /\ Crowded' = Crowded
        /\ reply'.key = ZeroKey
    BY <1>4, ManagerAlone
  <2>6. Abstract!Answers("kOk", ZeroKey)
    BY <1>4, <2>5 DEF Abstract!Answers
  <2>7. c \in Clients \ LockedOut
    BY <1>2, <1>4 DEF LockedOut
  <2>8. c \in Abstract!Offered \/ Abstract!Cardinality(Abstract!Offered) < ZoneSlots
    BY <1>1, <1>4, <2>7, StageOf, OfferedCount
  <2> QED
    BY <1>4, <2>4, <2>5, <2>6, <2>7, <2>8
    DEF Abstract!Offer, Stages, Sessions, LockedOut, Crowded
<1>5. CASE ReOffer(c)
  <2>1. PICK z \in FindSlot(c) : engines_' = [engines_ EXCEPT ![z] = WasReset(engines_[z])]
    BY <1>5 DEF ReOffer
  <2> QED
    BY <1>4, <1>5, <2>1 DEF ReOffer, FindSlot
<1>6. CASE AssignSlot(c)
  <2>1. PICK z : z = tlm_!Lowest(FreeEngineSlots)
    OBVIOUS
  <2>2. /\ c # ZeroId /\ ~tlm_!IsLockedOut(c) /\ FreeEngineSlots # {}
        /\ slot_records_' = [slot_records_ EXCEPT ![z] = c]
        /\ engines_' = [engines_ EXCEPT ![z] = WasReset(engines_[z])]
        /\ answer' = "kOk" /\ WithoutTlm /\ spent' = spent
    BY <1>6, <2>1 DEF AssignSlot
  <2>3. FreeEngineSlots \in SUBSET T!Slots
    BY PoolAssumption DEF FreeEngineSlots, ZoneSlot, T!Slots
  <2>4. T!Lowest(FreeEngineSlots) \in FreeEngineSlots
    BY <2>2, <2>3, T!LowestIsLeast, ManagerAssumptions
  <2>5. z \in ZoneSlot /\ slot_records_[z] = ZeroId
    BY <2>1, <2>4, SameLowest DEF FreeEngineSlots
  <2>6. /\ slot_records_'[z] = c
        /\ \A y \in ZoneSlot \ {z} : slot_records_'[y] = slot_records_[y]
    BY <1>1, <2>2, <2>5 DEF IInv, TypeOK
  <2> QED
    BY <1>4, <2>2, <2>5, <2>6
<1> QED
  BY <1>3, <1>5, <1>6 DEF OnPeerOffered

\* A message of a client without a zone slot is of nobody's handshake.
LEMMA UnheardMatches ==
  ASSUME IInv, NEW message, message.client_id \in Ids, OnUnknownPeer(message)
  PROVE  Abstract!Unheard(message.client_id)
<1> DEFINE c == message.client_id
<1>1. FindSlot(c) = {} /\ RefusedWith("kUnknownPeer")
  BY DEF OnUnknownPeer
<1>2. c \notin Abstract!Offered
  <2>1. CASE c \in Clients
    BY <1>1, <2>1, StageOf
  <2>2. CASE c \notin Clients
    BY <2>2 DEF Abstract!Offered
  <2> QED
    BY <2>1, <2>2
<1> QED
  BY <1>1, <1>2, RefusalMatches DEF Abstract!Unheard

\* A hook that changes the engine of one client's slot changes that client's stage.
LEMMA EngineStage ==
  ASSUME IInv, IInv', NEW c \in Ids, NEW z \in FindSlot(c),
         \A y \in ZoneSlot \ {z} : engines_'[y] = engines_[y], slot_records_' = slot_records_
  PROVE  /\ c \in Clients /\ c \in Abstract!Offered /\ Stages[c] = engines_[z].state
         /\ Stages' = [Stages EXCEPT ![c] = engines_'[z].state]
<1>1. /\ z \in ZoneSlot /\ c \in Clients /\ slot_records_[z] = c
  BY FoundSlot
<1>2. Stages' = [Stages EXCEPT ![c] = engines_'[z].state]
  BY <1>1, OneStage
<1> QED
  BY <1>1, <1>2, StageOf DEF Stages

\* A request that is accepted opens the challenge, and one that is refused, or
\* meets a fault, changes no stage.
LEMMA RequestMatches ==
  ASSUME RInv, IInv', NEW request \in Requests, OnAuthRequest(request)
  PROVE  Abstract!Request(request.client_id)
<1> DEFINE c == request.client_id
<1>1. IInv /\ c \in Ids
  BY DEF RInv, Requests
<1>2. CASE OnUnknownPeer(request)
  BY <1>1, <1>2, UnheardMatches DEF Abstract!Request
<1>3. ASSUME NEW z \in FindSlot(c), NEW o \in AuthRequestOutcomes(engines_[z], request, Fresh),
             engines_' = [engines_ EXCEPT ![z] = o.engine],
             \/ o.status = "kOk" /\ answer' = "kOk"
             \/ o.status # "kOk" /\ answer' = "kProtocolError",
             WithoutTlm, slot_records_' = slot_records_, spent' = spent
      PROVE  Abstract!Request(c)
  <2>1. /\ c \in Clients /\ c \in Abstract!Offered /\ Stages[c] = engines_[z].state
        /\ Stages' = [Stages EXCEPT ![c] = o.engine.state]
    <3>1. z \in ZoneSlot
      BY <1>1, FoundSlot
    <3>2. engines_'[z] = o.engine /\ \A y \in ZoneSlot \ {z} : engines_'[y] = engines_[y]
      BY <1>1, <1>3, <3>1 DEF IInv, TypeOK
    <3> QED
      BY <1>1, <1>3, <3>2, EngineStage
  <2>2. \/ o.status # "kOk" /\ o.engine.state = engines_[z].state
        \/ /\ o.status = "kOk" /\ c \in Peers
           /\ engines_[z].state = "kUnauthenticated" /\ o.engine.state = "kChallengeSent"
    <3>1. engines_[z] \in Engine /\ c \in Clients \cup {ZeroId} /\ Fresh \in SUBSET Nonces
      BY <1>1, <2>1, FoundSlot, FreshNonces
    <3> QED
      BY <3>1, RequestOutcome
  <2>3. /\ Sessions' = Sessions /\ LockedOut' = LockedOut /\ Crowded' = Crowded
        /\ reply'.key = ZeroKey
    BY <1>3, ManagerAlone
  <2>4. Abstract!Answers(answer', ZeroKey)
    BY <2>3 DEF Abstract!Answers
  <2>5. CASE o.status # "kOk"
    <3>1. Stages' = Stages
      BY <2>1, <2>2, <2>5 DEF Stages
    <3>2. Abstract!Answers("kProtocolError", ZeroKey)
      BY <1>3, <2>4, <2>5
    <3> QED
      BY <1>3, <2>1, <2>3, <3>1, <3>2
      DEF Abstract!Request, Abstract!Refuse, Stages, Sessions, LockedOut, Crowded
  <2>6. CASE o.status = "kOk"
    <3>1. Abstract!Answers("kOk", ZeroKey)
      BY <1>3, <2>4, <2>6
    <3> QED
      BY <1>3, <2>1, <2>2, <2>3, <2>6, <3>1
      DEF Abstract!Request, Stages, Sessions, LockedOut, Crowded
  <2> QED
    BY <2>5, <2>6
<1> QED
  BY <1>2, <1>3 DEF OnAuthRequest

\* What a revocation means for the nodes: its client loses its session and perhaps
\* its way back, and nobody else does.
LEMMA RevokeMeans ==
  ASSUME IInv, IInv', NEW c \in Ids, NEW is_anomaly \in BOOLEAN, tlm_!RevokeToken(c, is_anomaly)
  PROVE  /\ reply'.key = ZeroKey
         /\ reply'.status # "kOk" => SessionKeyOf(c) = ZeroKey
         /\ Sessions' = [Sessions EXCEPT ![c] = ZeroKey]
         /\ c \in Clients =>
              LockedOut' \in {LockedOut, LockedOut \cup {c}} /\ Crowded' = Crowded
         /\ c = ZeroId => LockedOut' = LockedOut /\ Crowded' \in {Crowded, TRUE}
<1>1. /\ T!RevokeToken(c, is_anomaly) /\ c \in T!Ids /\ T!IInv /\ T!IInv'
  BY SameRevoke DEF T!Ids, Ids, IInv
<1>2. /\ reply'.key = ZeroKey
      /\ \/ reply'.status = "kOk"
         \/ /\ reply'.status = "kNotFound"
            /\ \A s \in T!Slots : session_table_[s].client_id # c
  BY <1>1, T!RevokeReply, ManagerAssumptions
<1>3. reply'.status # "kOk" => SessionKeyOf(c) = ZeroKey
  BY <1>2, SameSlots, KeyOf
<1>4. ASSUME NEW d \in Clients, d # c PROVE SessionKeyOf(d)' = SessionKeyOf(d)
  <2>1. ASSUME NEW s \in T!Slots
        PROVE  /\ session_table_'[s].client_id = session_table_[s].client_id
               /\ session_table_[s].client_id # c => session_table_'[s] = session_table_[s]
    BY <1>1, T!OthersStay, ManagerAssumptions
  <2> QED
    BY <1>4, <2>1, SameSlots, KeyKept
<1>5. SessionKeyOf(c)' = ZeroKey
  BY ManagerRevoke, KeyOfAfter DEF IInv
<1>6. Sessions' = [Sessions EXCEPT ![c] = ZeroKey]
  <2>1. Sessions' = [d \in Clients |-> SessionKeyOf(d)']
    BY DEF Sessions
  <2> QED
    BY <1>4, <1>5, <2>1 DEF Sessions
<1>7. \A d : /\ tlm_!IsLockedOut(d) => tlm_!IsLockedOut(d)'
             /\ tlm_!IsLockedOut(d)' /\ d # c => tlm_!IsLockedOut(d)
  <2>1. ASSUME NEW d
        PROVE  /\ T!IsLockedOut(d) => T!IsLockedOut(d)'
               /\ T!IsLockedOut(d)' /\ d # c => T!IsLockedOut(d)
    BY <1>1, T!RevokeLocks, ManagerAssumptions
  <2> QED
    BY <2>1, LockedIs
<1>8. LockedOut' = {d \in Clients : tlm_!IsLockedOut(d)'}
  BY DEF LockedOut
<1>9. CASE c \in Clients
  <2>1. LockedOut' \in {LockedOut, LockedOut \cup {c}}
    <3>1. CASE tlm_!IsLockedOut(c)'
      <4>1. LockedOut' = LockedOut \cup {c}
        BY <1>7, <1>8, <1>9, <3>1 DEF LockedOut
      <4> QED
        BY <4>1
    <3>2. CASE ~tlm_!IsLockedOut(c)'
      <4>1. LockedOut' = LockedOut
        BY <1>7, <1>8, <3>2 DEF LockedOut
      <4> QED
        BY <4>1
    <3> QED
      BY <3>1, <3>2
  <2>2. Crowded' = Crowded
    <3>1. tlm_!IsLockedOut(ZeroId)' <=> tlm_!IsLockedOut(ZeroId)
      BY <1>7, <1>9, PeerAssumption
    <3> QED
      BY <3>1, LockedBoolean, Zenon DEF Crowded
  <2> QED
    BY <1>2, <1>3, <1>6, <1>9, <2>1, <2>2, PeerAssumption
<1>10. CASE c = ZeroId
  <2>1. LockedOut' = LockedOut
    BY <1>7, <1>8, <1>10, PeerAssumption DEF LockedOut
  <2>2. Crowded' \in {Crowded, TRUE}
    <3>1. tlm_!IsLockedOut(ZeroId) => tlm_!IsLockedOut(ZeroId)'
      BY <1>7
    <3> QED
      BY <3>1, LockedBoolean, Zenon DEF Crowded
  <2> QED
    BY <1>2, <1>3, <1>6, <1>10, <2>1, <2>2, PeerAssumption
<1> QED
  BY <1>9, <1>10 DEF Ids

\* Calls other than a revocation lock nobody out.
LEMMA OthersLockNobody ==
  ASSUME IInv, IInv',
         \/ \E c \in Clients, k \in Derived : tlm_!RegisterToken(c, k)
         \/ \E c \in Ids : tlm_!ValidateToken(c)
         \/ tlm_!EvaluateTokenExpiry
         \/ tlm_!TimePasses
  PROVE  LockedOut' = LockedOut /\ Crowded' = Crowded
<1>1. T!IInv /\ T!IInv'
  BY DEF IInv
<1>2. \/ \E c \in T!Ids, k \in Derived : T!RegisterToken(c, k)
      \/ \E c \in T!Ids : T!ValidateToken(c)
      \/ T!EvaluateTokenExpiry
      \/ T!TimePasses
  BY SameRegister, SameValidate, SameExpiry, SameTime DEF T!Ids, Ids
<1>3. ASSUME NEW d PROVE T!IsLockedOut(d)' <=> T!IsLockedOut(d)
  BY <1>1, <1>2, T!LocksKept, ManagerAssumptions
<1> QED
  BY <1>3, LockedIs, LocksStay

\* What a registration that is granted means for the nodes: its client has a session
\* under the new key, and another loses its own at most where the table is crowded.
LEMMA RegisterMeans ==
  ASSUME RInv, IInv', NEW c \in Clients, NEW z \in ZoneSlot, slot_records_[z] = c,
         NEW k \in Derived, tlm_!RegisterToken(c, k), reply'.status = "kOk"
  PROVE  \/ Sessions' = [Sessions EXCEPT ![c] = k]
         \/ /\ Crowded
            /\ \E d \in Clients \ {c} : Sessions' = [Sessions EXCEPT ![c] = k, ![d] = ZeroKey]
<1>1. IInv
  BY DEF RInv
<1>2. T!RegisterToken(c, k) /\ c \in T!Ids /\ c # ZeroId /\ T!IInv
  BY <1>1, SameRegister, PeerAssumption DEF T!Ids, IInv
<1>3. ~T!IsLockedOut(c)
  BY <1>2, T!RegisterReply, ManagerAssumptions
<1>4. PICK t \in T!Slots :
        /\ session_table_'[t].client_id = c /\ session_table_'[t].session_key = k
        /\ session_table_'[t].is_active
        /\ \A s \in T!Slots \ {t} :
             /\ session_table_'[s].client_id = session_table_[s].client_id
             /\ session_table_[s].client_id # c => session_table_'[s] = session_table_[s]
             /\ session_table_[s].client_id = c => ~session_table_'[s].is_active
        /\ session_table_[t].is_active /\ session_table_[t].client_id # c =>
             T!FreeSlots(c) = {}
  BY <1>2, T!RegisterSpares, ManagerAssumptions
<1>5. PICK d : d = session_table_[t].client_id
  OBVIOUS
<1>6. SessionKeyOf(c)' = k
  BY <1>4, SameSlots, KeyOfAfter
<1>7. ASSUME NEW e \in Clients, e # c, ~(session_table_[t].is_active /\ e = d)
      PROVE  SessionKeyOf(e)' = SessionKeyOf(e)
  BY <1>1, <1>4, <1>5, <1>7, SameSlots, KeyKept
<1>8. Sessions' = [e \in Clients |-> SessionKeyOf(e)']
  BY DEF Sessions
<1>9. CASE ~session_table_[t].is_active \/ d = c
  <2>1. Sessions' = [Sessions EXCEPT ![c] = k]
    BY <1>6, <1>7, <1>8, <1>9 DEF Sessions
  <2> QED
    BY <2>1
<1>10. CASE session_table_[t].is_active /\ d # c
  <2>1. Crowded
    BY <1>3, <1>4, <1>5, <1>10, NoRoomIsCrowded
  <2>2. d \in Clients \ {c}
    BY <1>1, <1>5, <1>10, SameSlots, PeerAssumption DEF IInv, SessionSound
  <2>3. SessionKeyOf(d)' = ZeroKey
    <3>1. ASSUME NEW s \in T!Slots, session_table_'[s].client_id = d, session_table_'[s].is_active
          PROVE  FALSE
      <4>1. s # t
        BY <1>4, <1>10, <3>1
      <4>2. session_table_[s].client_id = d /\ session_table_[s].is_active
        BY <1>4, <1>10, <3>1, <4>1
      <4> QED
        BY <1>1, <1>5, <1>10, <4>1, <4>2, SameSlots, OneEach DEF OneSessionIn
    <3> QED
      BY <3>1, SameSlots, KeyOfAfter
  <2>4. Sessions' = [Sessions EXCEPT ![c] = k, ![d] = ZeroKey]
    BY <1>6, <1>7, <1>8, <2>2, <2>3 DEF Sessions
  <2> QED
    BY <2>1, <2>2, <2>4
<1> QED
  BY <1>9, <1>10

\* A response the engine rejects costs its client the session, and ends the wait for
\* an answer.
LEMMA FailMatches ==
  ASSUME IInv, IInv', NEW response \in Responses, NEW z \in FindSlot(response.client_id),
         RejectedResponse(z, response)
  PROVE  Abstract!Respond(response.client_id)
<1> DEFINE c == response.client_id
<1>1. PICK o \in AuthResponseOutcomes(engines_[z], response) :
        /\ o.status # "kOk"
        /\ engines_' = [engines_ EXCEPT ![z] = o.engine]
        /\ tlm_!RevokeToken(c, TRUE)
        /\ answer' = "kProtocolError"
        /\ UNCHANGED <<slot_records_, challenges, spent>>
  BY DEF RejectedResponse
<1>2. c \in Ids
  BY DEF Responses
<1>3. /\ z \in ZoneSlot /\ c \in Clients /\ slot_records_[z] = c /\ engines_[z] \in Engine
  BY <1>2, FoundSlot
<1>4. engines_'[z] = o.engine /\ \A y \in ZoneSlot \ {z} : engines_'[y] = engines_[y]
  BY <1>1, <1>3 DEF IInv, TypeOK
<1>5. /\ c \in Abstract!Offered /\ Stages[c] = engines_[z].state
      /\ Stages' = [Stages EXCEPT ![c] = o.engine.state]
  BY <1>1, <1>2, <1>4, EngineStage
<1>6. o.engine.state = IF engines_[z].state = "kChallengeSent" THEN "kRevoked"
                       ELSE engines_[z].state
  BY <1>1, <1>3, ResponseStage
<1>7. Stages' = [Stages EXCEPT ![c] = IF @ = "kChallengeSent" THEN "kRevoked" ELSE @]
  BY <1>5, <1>6
<1>8. /\ reply'.key = ZeroKey
      /\ Sessions' = [Sessions EXCEPT ![c] = ZeroKey]
      /\ LockedOut' \in {LockedOut, LockedOut \cup {c}} /\ Crowded' = Crowded
  BY <1>1, <1>2, <1>3, RevokeMeans
<1>9. Abstract!Answers("kProtocolError", ZeroKey)
  BY <1>1, <1>8 DEF Abstract!Answers
<1>10. Abstract!Fail(c)
  BY <1>1, <1>5, <1>7, <1>8, <1>9
  DEF Abstract!Fail, Stages, Sessions, LockedOut, Crowded
<1> QED
  BY <1>10 DEF Abstract!Respond

\* A response the engine accepts completes the handshake under a new key, or is
\* turned away by the table.
LEMMA CompleteMatches ==
  ASSUME RInv, IInv', NEW response \in Responses, NEW z \in FindSlot(response.client_id),
         AcceptedResponse(z, response)
  PROVE  Abstract!Respond(response.client_id)
<1> DEFINE c == response.client_id
<1>1. PICK o \in AuthResponseOutcomes(engines_[z], response) :
        LET key == [nonce |-> o.engine.pending_nonce, client |-> c] IN
        /\ o.status = "kOk"
        /\ tlm_!RegisterToken(c, key)
        /\ \/ /\ reply'.status = "kOk"
              /\ engines_' = [engines_ EXCEPT ![z] = o.engine]
              /\ spent' = spent \cup {key}
              /\ answer' = "kOk"
           \/ /\ reply'.status # "kOk"
              /\ engines_' = [engines_ EXCEPT ![z] = Revoked(o.engine)]
              /\ answer' = IF reply'.status = "kLockedOut" THEN "kLockedOut" ELSE "kSessionError"
              /\ UNCHANGED spent
        /\ UNCHANGED <<slot_records_, challenges>>
  BY DEF AcceptedResponse
<1>2. PICK k : k = [nonce |-> o.engine.pending_nonce, client |-> c]
  OBVIOUS
<1>3. IInv /\ c \in Ids
  BY DEF RInv, Responses
<1>4. /\ z \in ZoneSlot /\ slot_records_[z] = c /\ c \in Peers /\ c \in Clients
      /\ o.engine \in Engine /\ o.engine.state = "kAuthenticated"
      /\ k \in Derived /\ k \notin spent /\ k.client = c /\ engines_[z] \in Engine
  BY <1>1, <1>2, <1>3, AcceptedKey, FoundSlot
<1>5. engines_[z].state = "kChallengeSent"
  BY <1>1, <1>4, ResponseStage
<1>6. tlm_!RegisterToken(c, k)
  BY <1>1, <1>2
<1>7. T!RegisterToken(c, k) /\ c # ZeroId /\ T!IInv
  BY <1>3, <1>4, <1>6, SameRegister, PeerAssumption DEF IInv
<1>8. /\ reply'.key = ZeroKey
      /\ reply'.status = "kOk" => ~T!IsLockedOut(c)
      /\ reply'.status # "kOk" =>
           \/ reply'.status = "kLockedOut" /\ T!IsLockedOut(c)
           \/ reply'.status = "kTableFull" /\ ~T!IsLockedOut(c) /\ T!FreeSlots(c) = {}
  BY <1>7, T!RegisterReply, ManagerAssumptions
<1>9. LockedOut' = LockedOut /\ Crowded' = Crowded
  BY <1>3, <1>4, <1>6, OthersLockNobody
<1>10. \A y \in ZoneSlot \ {z} : engines_'[y] = engines_[y]
  BY <1>1, <1>3, <1>4 DEF IInv, TypeOK
<1>11. /\ c \in Abstract!Offered /\ Stages[c] = "kChallengeSent"
       /\ Stages' = [Stages EXCEPT ![c] = engines_'[z].state]
  BY <1>1, <1>3, <1>5, <1>10, EngineStage
<1>12. Abstract!Answers(answer', ZeroKey)
  BY <1>8 DEF Abstract!Answers
<1>13. c \in LockedOut <=> T!IsLockedOut(c)
  BY <1>4, LockedIs DEF LockedOut
<1>14. CASE reply'.status = "kOk"
  <2>1. /\ engines_' = [engines_ EXCEPT ![z] = o.engine]
        /\ spent' = spent \cup {k} /\ answer' = "kOk"
    BY <1>1, <1>2, <1>14
  <2>2. Stages' = [Stages EXCEPT ![c] = "kAuthenticated"]
    BY <1>3, <1>4, <1>11, <2>1 DEF IInv, TypeOK
  <2>3. \/ Sessions' = [Sessions EXCEPT ![c] = k]
        \/ /\ Crowded
           /\ \E d \in Clients \ {c} : Sessions' = [Sessions EXCEPT ![c] = k, ![d] = ZeroKey]
    BY <1>4, <1>6, <1>14, RegisterMeans
  <2>4. Abstract!Answers("kOk", ZeroKey)
    BY <1>12, <2>1
  <2>5. Abstract!Complete(c)
    BY <1>4, <1>8, <1>9, <1>11, <1>13, <1>14, <2>1, <2>2, <2>3, <2>4
    DEF Abstract!Complete, Stages, Sessions, LockedOut, Crowded
  <2> QED
    BY <2>5 DEF Abstract!Respond
<1>15. CASE reply'.status # "kOk"
  <2>1. /\ engines_' = [engines_ EXCEPT ![z] = Revoked(o.engine)] /\ spent' = spent
        /\ answer' = IF reply'.status = "kLockedOut" THEN "kLockedOut" ELSE "kSessionError"
    BY <1>1, <1>15
  <2>2. engines_'[z].state = "kRevoked"
    BY <1>3, <1>4, <2>1, RevokedFields DEF IInv, TypeOK
  <2>3. Sessions' = Sessions
    <3>1. session_table_' = session_table_
      <4>1. c \in T!Ids /\ \E s : s \in T!Slots
        BY <1>4, PoolAssumption DEF T!Ids, T!Slots
      <4> QED
        BY <1>4, <1>7, <1>15, <4>1, T!RegisterRefused, ManagerAssumptions
    <3>2. \A d \in Clients : SessionKeyOf(d)' = SessionKeyOf(d)
      BY <3>1, MappingIs
    <3> QED
      BY <3>2, SessionsStay
  <2>4. \/ Abstract!Answers("kLockedOut", ZeroKey) /\ c \in LockedOut
        \/ Abstract!Answers("kSessionError", ZeroKey) /\ c \notin LockedOut /\ Crowded
    <3>1. CASE reply'.status = "kLockedOut" /\ T!IsLockedOut(c)
      BY <1>12, <1>13, <2>1, <3>1
    <3>2. CASE reply'.status = "kTableFull" /\ ~T!IsLockedOut(c) /\ T!FreeSlots(c) = {}
      BY <1>4, <1>12, <1>13, <2>1, <3>2, NoRoomIsCrowded
    <3> QED
      BY <1>8, <1>15, <3>1, <3>2
  <2>5. Abstract!Turn(c)
    BY <1>1, <1>9, <1>11, <2>1, <2>2, <2>3, <2>4
    DEF Abstract!Turn, Stages, Sessions, LockedOut, Crowded
  <2> QED
    BY <2>5 DEF Abstract!Respond
<1> QED
  BY <1>14, <1>15

\* The gate opens for a session there is, and closes on one that has expired.
LEMMA GateMatches ==
  ASSUME IInv, IInv', NEW c \in Ids, IsSessionActive(c)
  PROVE  Abstract!Gate(c)
<1>1. CASE tlm_!IsLockedOut(c) /\ RefusedWith("kLockedOut")
  <2>1. c \in LockedOut \/ (c = ZeroId /\ Crowded)
    BY <1>1 DEF LockedOut, Crowded, Ids
  <2> QED
    BY <1>1, <2>1, RefusalMatches DEF Abstract!Gate, LockedOut, Crowded
<1>2. CASE /\ ~tlm_!IsLockedOut(c) /\ tlm_!ValidateToken(c)
           /\ answer' = IF reply'.status \in {"kOk", "kLockedOut"} THEN reply'.status
                        ELSE "kNotAuthenticated"
           /\ UNCHANGED <<engines_, slot_records_, challenges, spent>>
  <2>1. /\ T!ValidateToken(c) /\ ~T!IsLockedOut(c) /\ c \in T!Ids /\ T!IInv
        /\ c \notin LockedOut
    BY <1>2, SameValidate, LockedIs DEF T!Ids, Ids, IInv, LockedOut
  <2>2. Stages' = Stages /\ LockedOut' = LockedOut /\ Crowded' = Crowded /\ spent' = spent
    BY <1>2, StagesStay, OthersLockNobody
  <2>3. ASSUME session_table_' = session_table_ PROVE Sessions' = Sessions
    <3>1. \A d \in Clients : SessionKeyOf(d)' = SessionKeyOf(d)
      BY <2>3, MappingIs
    <3> QED
      BY <3>1, SessionsStay
  <2>4. CASE /\ reply'.status = "kNotFound" /\ reply'.key = ZeroKey
             /\ session_table_' = session_table_
             /\ \A s \in T!Slots :
                  session_table_[s].client_id = c => ~session_table_[s].is_active
    <3>1. SessionKeyOf(c) = ZeroKey /\ Sessions' = Sessions
      BY <2>3, <2>4, SameSlots, KeyOf
    <3>2. Abstract!Answers("kNotAuthenticated", ZeroKey)
      BY <1>2, <2>4 DEF Abstract!Answers
    <3>3. c = ZeroId \/ Sessions[c] = ZeroKey
      BY <3>1 DEF Sessions, Ids
    <3> QED
      BY <2>1, <2>2, <3>1, <3>2, <3>3
      DEF Abstract!Gate, Abstract!Refuse, Stages, Sessions, LockedOut, Crowded
  <2>5. CASE /\ reply'.status = "kNotFound" /\ reply'.key = ZeroKey
             /\ \E s \in T!Slots : session_table_[s].client_id = c /\ session_table_[s].is_active
             /\ \A s \in T!Slots :
                  session_table_'[s].client_id = c => ~session_table_'[s].is_active
    <3>1. c \in Clients /\ SessionKeyOf(c) # ZeroKey
      BY <2>5, SameSlots, KeyOf, PeerAssumption DEF IInv, SessionSound
    <3>2. SessionKeyOf(c)' = ZeroKey
      BY <2>5, SameSlots, KeyOfAfter
    <3>3. ASSUME NEW d \in Clients, d # c PROVE SessionKeyOf(d)' = SessionKeyOf(d)
      <4>1. ASSUME NEW s \in T!Slots
            PROVE  /\ session_table_'[s].client_id = session_table_[s].client_id
                   /\ session_table_[s].client_id # c => session_table_'[s] = session_table_[s]
        BY <2>1, T!OthersStay, ManagerAssumptions
      <4> QED
        BY <3>3, <4>1, SameSlots, KeyKept
    <3>4. Sessions' = [Sessions EXCEPT ![c] = ZeroKey]
      <4>1. Sessions' = [d \in Clients |-> SessionKeyOf(d)']
        BY DEF Sessions
      <4> QED
        BY <3>1, <3>2, <3>3, <4>1 DEF Sessions
    <3>5. Abstract!Answers("kNotAuthenticated", ZeroKey)
      BY <1>2, <2>5 DEF Abstract!Answers
    <3>6. Sessions[c] # ZeroKey
      BY <3>1 DEF Sessions
    <3> QED
      BY <2>2, <3>1, <3>4, <3>5, <3>6
      DEF Abstract!Gate, Stages, Sessions, LockedOut, Crowded
  <2>6. CASE /\ reply'.status = "kOk" /\ session_table_' = session_table_
             /\ \E s \in T!Slots : /\ session_table_[s].client_id = c
                                   /\ session_table_[s].is_active
                                   /\ reply'.key = session_table_[s].session_key
    <3>1. c \in Clients /\ SessionKeyOf(c) # ZeroKey /\ reply'.key = SessionKeyOf(c)
      BY <2>6, SameSlots, KeyOf, PeerAssumption DEF IInv, SessionSound
    <3>2. Sessions[c] # ZeroKey /\ reply'.key = Sessions[c] /\ Sessions' = Sessions
      BY <2>3, <2>6, <3>1 DEF Sessions
    <3>3. Abstract!Answers("kOk", Sessions[c])
      BY <1>2, <2>6, <3>2 DEF Abstract!Answers
    <3> QED
      BY <2>2, <3>1, <3>2, <3>3
      DEF Abstract!Gate, Stages, Sessions, LockedOut, Crowded
  <2> QED
    BY <2>1, <2>4, <2>5, <2>6, T!ValidateOutcome, ManagerAssumptions
<1> QED
  BY <1>1, <1>2 DEF IsSessionActive

\* A revocation reaches both halves of its client.
LEMMA RevocationMatches ==
  ASSUME IInv, IInv', NEW c \in Ids, NEW is_anomaly \in BOOLEAN, RevokeSession(c, is_anomaly)
  PROVE  Abstract!Revoke(c)
<1>1. /\ engines_' = [z \in ZoneSlot |-> IF z \in FindSlot(c) THEN Revoked(engines_[z])
                                         ELSE engines_[z]]
      /\ tlm_!RevokeToken(c, is_anomaly)
      /\ answer' = IF reply'.status = "kOk" THEN "kOk" ELSE "kUnknownPeer"
      /\ slot_records_' = slot_records_ /\ spent' = spent
  BY DEF RevokeSession
<1>2. /\ reply'.key = ZeroKey
      /\ reply'.status # "kOk" => SessionKeyOf(c) = ZeroKey
      /\ Sessions' = [Sessions EXCEPT ![c] = ZeroKey]
      /\ c \in Clients =>
           LockedOut' \in {LockedOut, LockedOut \cup {c}} /\ Crowded' = Crowded
      /\ c = ZeroId => LockedOut' = LockedOut /\ Crowded' \in {Crowded, TRUE}
  BY <1>1, RevokeMeans
<1>3. c \in Clients => Sessions[c] = SessionKeyOf(c)
  BY DEF Sessions
<1>4. \/ Abstract!Answers("kOk", ZeroKey)
      \/ Abstract!Answers("kUnknownPeer", ZeroKey) /\ (c = ZeroId \/ Sessions[c] = ZeroKey)
  BY <1>1, <1>2, <1>3 DEF Abstract!Answers, Ids
<1>5. FindSlot(c) = {} => Stages' = Stages
  <2>1. SUFFICES ASSUME FindSlot(c) = {} PROVE Stages' = Stages
    OBVIOUS
  <2>2. engines_' = engines_
    BY <1>1, <2>1 DEF IInv, TypeOK
  <2> QED
    BY <1>1, <2>2, StagesStay
<1>6. CASE c = ZeroId
  <2>1. FindSlot(c) = {} /\ Sessions' = Sessions
    BY <1>2, <1>6, PeerAssumption DEF FindSlot, Sessions
  <2> QED
    BY <1>1, <1>2, <1>4, <1>5, <1>6, <2>1
    DEF Abstract!Revoke, Stages, Sessions, LockedOut, Crowded
<1>7. CASE c # ZeroId
  <2>1. c \in Clients
    BY <1>7 DEF Ids
  <2>2. Stages' = [Stages EXCEPT ![c] = IF @ = "absent" THEN @ ELSE "kRevoked"]
    <3>1. CASE FindSlot(c) = {}
      <4>1. Stages[c] = "absent"
        <5>1. \A z \in ZoneSlot : slot_records_[z] # c
          BY <1>7, <3>1 DEF FindSlot
        <5> QED
          BY <2>1, <5>1, StageOf DEF Stages
      <4> QED
        BY <1>5, <3>1, <4>1 DEF Stages
    <3>2. ASSUME NEW z \in FindSlot(c)
          PROVE  Stages' = [Stages EXCEPT ![c] = IF @ = "absent" THEN @ ELSE "kRevoked"]
      <4>1. z \in ZoneSlot /\ slot_records_[z] = c /\ engines_[z] \in Engine
        BY FoundSlot
      <4>2. engines_'[z] = Revoked(engines_[z])
        BY <1>1, <4>1
      <4>3. engines_'[z].state = "kRevoked"
        BY <4>1, <4>2, RevokedFields
      <4>4. \A y \in ZoneSlot \ {z} : engines_'[y] = engines_[y]
        BY <1>1, FoundSlot DEF FindSlot
      <4>5. Stages[c] # "absent"
        BY <2>1, <4>1, StageOf DEF Stages
      <4>6. Stages' = [Stages EXCEPT ![c] = engines_'[z].state]
        BY <1>1, <4>4, EngineStage
      <4> QED
        BY <4>3, <4>5, <4>6
    <3> QED
      BY <3>1, <3>2
  <2> QED
    BY <1>1, <1>2, <1>4, <1>7, <2>1, <2>2
    DEF Abstract!Revoke, Stages, Sessions, LockedOut, Crowded
<1> QED
  BY <1>6, <1>7

\* The tick and the passage of time end sessions or leave them.
LEMMA TickMatches ==
  ASSUME IInv, IInv', OnSessionTick \/ TimePasses
  PROVE  Abstract!Tick
<1>1. /\ tlm_!EvaluateTokenExpiry \/ tlm_!TimePasses
      /\ answer' = "none" /\ engines_' = engines_ /\ slot_records_' = slot_records_
      /\ spent' = spent
  BY DEF OnSessionTick, TimePasses
<1>2. Stages' = Stages
  BY <1>1, StagesStay
<1>3. LockedOut' = LockedOut /\ Crowded' = Crowded
  BY <1>1, OthersLockNobody
<1>4. reply'.key = ZeroKey
  BY <1>1 DEF tlm_!EvaluateTokenExpiry, tlm_!TimePasses, tlm_!Returns
<1>5. Abstract!Answers("none", ZeroKey)
  BY <1>1, <1>4 DEF Abstract!Answers
<1> DEFINE E == {c \in Clients : SessionKeyOf(c)' = ZeroKey}
<1>6. ASSUME NEW c \in Clients, c \notin E PROVE SessionKeyOf(c)' = SessionKeyOf(c)
  <2>1. SessionKeyOf(c)' # ZeroKey
    BY <1>6
  <2>2. PICK s \in tlm_!Slots : session_table_'[s].client_id = c /\ session_table_'[s].is_active
    BY <2>1, KeyOfAfter
  <2>3. T!SessionKept(s)
    BY <1>1, ManagerKeeps DEF IInv
  <2>4. /\ session_table_[s].client_id = c /\ session_table_[s].is_active
        /\ session_table_'[s].session_key = session_table_[s].session_key
    BY <2>2, <2>3 DEF T!SessionKept
  <2> QED
    BY <2>2, <2>4, KeyOf, KeyOfAfter
<1>7. Sessions' = [c \in Clients |-> IF c \in E THEN ZeroKey ELSE Sessions[c]]
  <2>1. Sessions' = [c \in Clients |-> SessionKeyOf(c)']
    BY DEF Sessions
  <2> QED
    BY <1>6, <2>1 DEF Sessions
<1>8. E \in SUBSET Clients
  OBVIOUS
<1> HIDE DEF E
<1> QED
  BY <1>1, <1>2, <1>3, <1>5, <1>7, <1>8
  DEF Abstract!Tick, Stages, Sessions, LockedOut, Crowded

\* Every hook is a step of the abstract zone.
LEMMA NextMatches == RInv /\ IInv' /\ [Next]_vars => [Abstract!Next]_(Abstract!vars)
<1> SUFFICES ASSUME RInv, IInv', [Next]_vars PROVE [Abstract!Next]_(Abstract!vars)
  OBVIOUS
<1>1. IInv
  BY DEF RInv
<1>2. ASSUME NEW c \in Ids, OnPeerOffered(c) PROVE Abstract!Next
  BY <1>2, OfferMatches DEF Abstract!Next, Ids
<1>3. CASE OnShortFrame
  BY <1>3, RefusalMatches DEF OnShortFrame, Abstract!Next
<1>4. ASSUME NEW request \in Requests, OnAuthRequest(request) PROVE Abstract!Next
  <2>1. request.client_id \in Clients \cup {ZeroId}
    BY DEF Requests, Ids
  <2> QED
    BY <1>4, <2>1, RequestMatches DEF Abstract!Next
<1>5. ASSUME NEW response \in Responses, OnAuthResponse(response) PROVE Abstract!Next
  <2>1. response.client_id \in Clients \cup {ZeroId} /\ response.client_id \in Ids
    BY DEF Responses, Ids
  <2>2. CASE OnUnknownPeer(response)
    <3>1. Abstract!Respond(response.client_id)
      BY <1>1, <2>1, <2>2, UnheardMatches DEF Abstract!Respond
    <3> QED
      BY <2>1, <3>1 DEF Abstract!Next
  <2>3. ASSUME NEW z \in FindSlot(response.client_id),
               RejectedResponse(z, response) \/ AcceptedResponse(z, response)
        PROVE  Abstract!Next
    <3>1. Abstract!Respond(response.client_id)
      BY <1>1, <2>3, FailMatches, CompleteMatches
    <3> QED
      BY <2>1, <3>1 DEF Abstract!Next
  <2> QED
    BY <1>5, <2>2, <2>3 DEF OnAuthResponse
<1>6. CASE OnSessionTick \/ TimePasses
  BY <1>1, <1>6, TickMatches DEF Abstract!Next
<1>7. ASSUME NEW c \in Ids, IsSessionActive(c) PROVE Abstract!Next
  BY <1>1, <1>7, GateMatches DEF Abstract!Next, Ids
<1>8. ASSUME NEW c \in Ids, NEW is_anomaly \in BOOLEAN, RevokeSession(c, is_anomaly)
      PROVE  Abstract!Next
  BY <1>1, <1>8, RevocationMatches DEF Abstract!Next, Ids
<1>9. CASE UNCHANGED vars
  <2>1. /\ engines_' = engines_ /\ slot_records_' = slot_records_ /\ spent' = spent
        /\ answer' = answer /\ reply' = reply /\ session_table_' = session_table_
    BY <1>9 DEF vars, tlm_vars
  <2>2. Stages' = Stages
    BY <2>1, StagesStay
  <2>3. Sessions' = Sessions
    BY <2>1, MappingIs, SessionsStay
  <2>4. LockedOut' = LockedOut /\ Crowded' = Crowded
    <3>1. \A d : tlm_!IsLockedOut(d)' <=> tlm_!IsLockedOut(d)
      BY <2>1 DEF tlm_!IsLockedOut, tlm_!Matches, tlm_!FindSlotByClientId, tlm_!Slots
    <3> QED
      BY <3>1, LocksStay
  <2> QED
    BY <2>1, <2>2, <2>3, <2>4 DEF Abstract!vars, Stages, Sessions, LockedOut, Crowded
<1> QED
  BY <1>2, <1>3, <1>4, <1>5, <1>6, <1>7, <1>8, <1>9 DEF Next

\* At first nobody is locked out.
LEMMA NobodyLockedAtFirst == ASSUME Init, NEW c PROVE ~tlm_!IsLockedOut(c)
<1>1. \A s \in T!Slots : ~session_table_[s].is_locked_out
  BY SameSlots DEF Init, tlm_!Init, tlm_!EmptySlot
<1>2. ASSUME T!IsLockedOut(c) PROVE FALSE
  <2>1. T!Matches(c) # {} /\ session_table_[T!FindSlotByClientId(c)].is_locked_out
    BY <1>2 DEF T!IsLockedOut
  <2>2. T!Matches(c) \in SUBSET T!Slots
    BY DEF T!Matches
  <2>3. T!FindSlotByClientId(c) \in T!Slots
    BY <2>1, <2>2, T!LowestIsLeast, ManagerAssumptions DEF T!FindSlotByClientId
  <2> QED
    BY <1>1, <2>1, <2>3
<1> QED
  BY <1>2, LockedIs

\* The adaptor starts with no node offered, no session and nobody locked out.
LEMMA InitMatches == Init => RInv /\ Abstract!Init
<1> SUFFICES ASSUME Init PROVE RInv /\ Abstract!Init
  OBVIOUS
<1>1. IInv
  BY InitIInv
<1>2. \A s \in tlm_!Slots :
        /\ session_table_[s].client_id = ZeroId
        /\ ~session_table_[s].is_active /\ ~session_table_[s].is_locked_out
  BY DEF Init, tlm_!Init, tlm_!EmptySlot
<1>3. RInv
  BY <1>1, <1>2 DEF RInv, Remembered
<1>4. \A c \in Clients : Stage(c) = "absent"
  BY PeerAssumption DEF Init, Stage
<1>5. \A c \in Clients : SessionKeyOf(c) = ZeroKey
  BY <1>2 DEF SessionKeyOf
<1>6. \A c : ~tlm_!IsLockedOut(c)
  BY NobodyLockedAtFirst
<1>7. spent = {} /\ answer = "none" /\ reply.key = ZeroKey
  BY DEF Init, tlm_!Init
<1>8. Crowded = FALSE
  BY <1>6, LockedBoolean, Zenon DEF Crowded
<1> QED
  BY <1>3, <1>4, <1>5, <1>6, <1>7, <1>8 DEF Abstract!Init, Crowded

\* The pool of engines and the table together implement the abstract zone: what a
\* hook does and answers is what ZoneAuthentication lets it.
THEOREM ZoneImplemented == Spec => ImplementsZoneAuthentication
<1>1. Init => RInv /\ Abstract!Init
  BY InitMatches
<1>2. RInv /\ [Next]_vars => RInv'
  BY NextRInv
<1>3. RInv /\ [Next]_vars => [Abstract!Next]_(Abstract!vars)
  BY NextIInv, NextMatches DEF RInv
<1> QED
  BY <1>1, <1>2, <1>3, PTL DEF Spec, ImplementsZoneAuthentication, Abstract!Spec

-----------------------------------------------------------------------------
(* What the manager guarantees holds of the manager inside the adaptor,    *)
(* since the adaptor calls it as it may be called.                         *)

\* What the adaptor's hooks do to the manager: one call of it, or none.
DrivesManager == T!Next \/ T!Refuse("none")

\* A call of the manager, under its two names.
LEMMA CallsDrive ==
  /\ \A c \in Ids, k \in Derived : tlm_!RegisterToken(c, k) => DrivesManager
  /\ \A c \in Ids : tlm_!ValidateToken(c) => DrivesManager
  /\ \A c \in Ids, is_anomaly \in BOOLEAN : tlm_!RevokeToken(c, is_anomaly) => DrivesManager
  /\ tlm_!EvaluateTokenExpiry => DrivesManager
  /\ tlm_!TimePasses => DrivesManager
  /\ WithoutTlm => DrivesManager
<1>1. T!Ids = Ids
  BY DEF T!Ids, Ids
<1>2. ASSUME NEW c \in Ids, NEW k \in Derived, tlm_!RegisterToken(c, k) PROVE DrivesManager
  BY <1>1, <1>2, SameRegister DEF DrivesManager, T!Next
<1>3. ASSUME NEW c \in Ids, tlm_!ValidateToken(c) PROVE DrivesManager
  BY <1>1, <1>3, SameValidate DEF DrivesManager, T!Next
<1>4. ASSUME NEW c \in Ids, NEW is_anomaly \in BOOLEAN, tlm_!RevokeToken(c, is_anomaly)
      PROVE  DrivesManager
  BY <1>1, <1>4, SameRevoke DEF DrivesManager, T!Next
<1>5. tlm_!EvaluateTokenExpiry => DrivesManager
  BY SameExpiry DEF DrivesManager, T!Next
<1>6. tlm_!TimePasses => DrivesManager
  BY SameTime DEF DrivesManager, T!Next
<1>7. WithoutTlm => DrivesManager
  BY SameReply DEF DrivesManager, WithoutTlm
<1> QED
  BY <1>2, <1>3, <1>4, <1>5, <1>6, <1>7

\* Every hook calls the manager at most once, for an id of its own, and a
\* registration is under a derived key.
LEMMA NextDrives ==
  ASSUME IInv, [Next]_vars
  PROVE  DrivesManager \/ UNCHANGED tlm_vars
<1>1. ASSUME NEW status, RefusedWith(status) PROVE DrivesManager
  BY <1>1, CallsDrive DEF RefusedWith
<1>2. ASSUME NEW c \in Ids, OnPeerOffered(c) PROVE DrivesManager
  BY <1>1, <1>2, CallsDrive DEF OnPeerOffered, RejectOffer, ReOffer, AssignSlot
<1>3. CASE OnShortFrame
  BY <1>1, <1>3 DEF OnShortFrame
<1>4. ASSUME NEW request \in Requests, OnAuthRequest(request) PROVE DrivesManager
  BY <1>1, <1>4, CallsDrive DEF OnAuthRequest, OnUnknownPeer
<1>5. ASSUME NEW response \in Responses, OnAuthResponse(response) PROVE DrivesManager
  <2>1. response.client_id \in Ids
    BY DEF Responses
  <2>2. CASE OnUnknownPeer(response)
    BY <1>1, <2>2 DEF OnUnknownPeer
  <2>3. ASSUME NEW z \in FindSlot(response.client_id), RejectedResponse(z, response)
        PROVE  DrivesManager
    <3>1. tlm_!RevokeToken(response.client_id, TRUE)
      BY <2>3 DEF RejectedResponse
    <3> QED
      BY <2>1, <3>1, CallsDrive
  <2>4. ASSUME NEW z \in FindSlot(response.client_id), AcceptedResponse(z, response)
        PROVE  DrivesManager
    <3>1. PICK o \in AuthResponseOutcomes(engines_[z], response) :
            /\ o.status = "kOk"
            /\ tlm_!RegisterToken(response.client_id,
                 [nonce |-> o.engine.pending_nonce, client |-> response.client_id])
      BY <2>4 DEF AcceptedResponse
    <3>2. [nonce |-> o.engine.pending_nonce, client |-> response.client_id] \in Derived
      BY <3>1, AcceptedKey
    <3> QED
      BY <2>1, <3>1, <3>2, CallsDrive
  <2> QED
    BY <1>5, <2>2, <2>3, <2>4 DEF OnAuthResponse
<1>6. CASE OnSessionTick
  BY <1>6, CallsDrive DEF OnSessionTick
<1>7. ASSUME NEW c \in Ids, IsSessionActive(c) PROVE DrivesManager
  BY <1>1, <1>7, CallsDrive DEF IsSessionActive
<1>8. ASSUME NEW c \in Ids, NEW is_anomaly \in BOOLEAN, RevokeSession(c, is_anomaly)
      PROVE  DrivesManager
  BY <1>8, CallsDrive DEF RevokeSession
<1>9. CASE TimePasses
  BY <1>9, CallsDrive DEF TimePasses
<1>10. CASE UNCHANGED vars
  BY <1>10 DEF vars
<1> QED
  BY <1>2, <1>3, <1>4, <1>5, <1>6, <1>7, <1>8, <1>9, <1>10 DEF Next

\* A hook that calls the manager is a step of it; one that does not leaves all of
\* it alone but the reply.
LEMMA ManagerStep ==
  ASSUME IInv, [Next]_vars
  PROVE  \/ [T!Next]_(T!vars)
         \/ UNCHANGED <<session_table_, insertion_order_, now, since_scan, real_age>>
BY NextDrives DEF DrivesManager, T!Refuse, T!vars, tlm_vars

\* What the manager promises of its table, whoever calls it.
TableSound ==
  /\ tlm_!OrderMatchesTable
  /\ tlm_!OldestFirst
  /\ tlm_!SessionsReachable
  /\ tlm_!NoSessionWhileLocked
  /\ tlm_!SecretsErased
  /\ tlm_!AgeExact
  /\ tlm_!StaleWindowBounded

\* It is what the manager's invariant and the order of the ring come to.
LEMMA SoundTable == T!IInv /\ T!OldestFirst => TableSound
<1> SUFFICES ASSUME T!IInv, T!OldestFirst PROVE TableSound
  OBVIOUS
<1>1. T!ActiveSlots = tlm_!ActiveSlots
  BY DEF T!ActiveSlots, tlm_!ActiveSlots, T!Slots, tlm_!Slots
<1>2. tlm_!OrderMatchesTable
  BY <1>1 DEF T!IInv, T!OrderMatchesTable, tlm_!OrderMatchesTable,
              T!Distinct, tlm_!Distinct, T!Elements, tlm_!Elements
<1>3. tlm_!OldestFirst
  BY DEF T!OldestFirst, tlm_!OldestFirst
<1>4. tlm_!SessionsReachable
  <2>1. T!SessionsReachable
    BY T!Reachable, ManagerAssumptions
  <2> QED
    BY <1>1, <2>1, SameLookups DEF T!SessionsReachable, tlm_!SessionsReachable
<1>5. tlm_!NoSessionWhileLocked
  <2>1. T!NoSessionWhileLocked
    BY T!LockedSessionless, ManagerAssumptions
  <2> QED
    BY <2>1 DEF T!NoSessionWhileLocked, tlm_!NoSessionWhileLocked, T!Slots, tlm_!Slots
<1>6. tlm_!SecretsErased
  BY <1>1, SameSlots DEF T!IInv, T!SecretsErased, tlm_!SecretsErased
<1>7. tlm_!AgeExact
  BY <1>1 DEF T!IInv, T!AgeExact, tlm_!AgeExact, T!Age, tlm_!Age
<1>8. tlm_!StaleWindowBounded
  BY <1>1 DEF T!IInv, T!StaleWindowBounded, tlm_!StaleWindowBounded
<1> QED
  BY <1>2, <1>3, <1>4, <1>5, <1>6, <1>7, <1>8 DEF TableSound

\* The ring stays sorted by age,
LEMMA NextSorted == ASSUME IInv, T!OldestFirst, [Next]_vars PROVE T!OldestFirst'
<1>1. CASE [T!Next]_(T!vars)
  BY <1>1, T!NextOldestFirst, ManagerAssumptions DEF IInv
<1>2. CASE UNCHANGED <<session_table_, insertion_order_, now, since_scan, real_age>>
  BY <1>2 DEF T!OldestFirst
<1> QED
  BY <1>1, <1>2, ManagerStep

\* a client that is locked out stays so,
LEMMA NextLocked ==
  ASSUME IInv, [Next]_vars, NEW c \in Ids, tlm_!IsLockedOut(c)
  PROVE  tlm_!IsLockedOut(c)'
<1>1. T!IsLockedOut(c) /\ c \in T!Ids
  BY LockedIs DEF T!Ids, Ids
<1>2. CASE [T!Next]_(T!vars)
  <2>1. T!IsLockedOut(c)'
    BY <1>1, <1>2, T!LockoutStep, ManagerAssumptions DEF IInv
  <2> QED
    BY <2>1, LockedIs
<1>3. CASE UNCHANGED <<session_table_, insertion_order_, now, since_scan, real_age>>
  BY <1>3 DEF tlm_!IsLockedOut, tlm_!Matches, tlm_!FindSlotByClientId, tlm_!Slots
<1> QED
  BY <1>2, <1>3, ManagerStep

\* and whoever's session ends is told once.
LEMMA NextTold ==
  ASSUME IInv, [Next]_vars, NEW s \in tlm_!Slots, tlm_!SessionEnded(s)
  PROVE  tlm_!Cardinality({i \in DOMAIN reply'.notified :
                             reply'.notified[i] = session_table_[s].client_id}) = 1
<1>1. s \in T!Slots /\ T!SessionEnded(s)
  BY SameSlots DEF T!SessionEnded, tlm_!SessionEnded, T!ActiveSlots, tlm_!ActiveSlots
<1>2. CASE [T!Next]_(T!vars)
  <2>1. T!Notices(s) = 1
    BY <1>1, <1>2, T!NextNotifies, ManagerAssumptions DEF IInv
  <2> QED
    BY <2>1 DEF T!Notices, T!Cardinality, tlm_!Cardinality
<1>3. CASE UNCHANGED <<session_table_, insertion_order_, now, since_scan, real_age>>
  BY <1>3 DEF tlm_!SessionEnded, tlm_!ActiveSlots
<1> QED
  BY <1>2, <1>3, ManagerStep

-----------------------------------------------------------------------------
(* A node that keeps trying is never left without room: what AdaptorRecovery *)
(* relies on.                                                              *)

\* The invariant survives the loss of the frames of a challenge: no engine and no
\* session holds it.
LEMMA ForgetStep == ASSUME RInv, NEW h, Forget(h) PROVE RInv' /\ Crowded' = Crowded
<1>1. /\ IInv /\ WithoutTlm /\ answer' = "none"
      /\ engines_' = engines_ /\ slot_records_' = slot_records_
      /\ challenges' = challenges \ {h} /\ spent' = spent \ {h}
  BY DEF RInv, Forget
<1>2. \A s \in tlm_!Slots : session_table_[s].session_key # h
  BY DEF Forget
<1>3. /\ T!IInv' /\ session_table_' = session_table_
      /\ \A s \in tlm_!Slots : T!SessionKept(s)
  BY <1>1, ManagerIdle DEF IInv
<1>4. ASSUME NEW z \in ZoneSlot PROVE SlotSound(z)'
  BY <1>1, <1>3, SlotUntouched DEF IInv
<1>5. ASSUME NEW s \in tlm_!Slots PROVE SessionSound(s)'
  BY <1>1, <1>2, <1>3 DEF IInv, SessionSound
<1>6. OneSlotEach'
  BY <1>1, RecordsKept DEF IInv
<1>7. IInv'
  BY <1>1, <1>3, <1>4, <1>5, <1>6, Assembled DEF IInv, TypeOK, AdaptorStatuses
<1>8. ASSUME NEW s \in tlm_!Slots PROVE Remembered(s)'
  BY <1>1, <1>3, RememberedKept DEF RInv
<1> QED
  BY <1>1, <1>7, <1>8, ManagerAlone DEF RInv, tlm_!Slots

\* As long as nobody revokes the all-zero id, it is not locked out.
LEMMA NodeHooksStep == ASSUME RInv, NodeHooks PROVE RInv' /\ Crowded' = Crowded
<1>1. Next
  BY DEF NodeHooks, Next, Ids
<1>2. IInv /\ IInv' /\ RInv'
  BY <1>1, NextIInv, NextRInv DEF RInv
<1>3. ASSUME NEW status, RefusedWith(status) PROVE Crowded' = Crowded
  BY <1>3, ManagerAlone DEF RefusedWith
<1>4. ASSUME NEW c \in Clients, OnPeerOffered(c) PROVE Crowded' = Crowded
  BY <1>3, <1>4, ManagerAlone DEF OnPeerOffered, RejectOffer, ReOffer, AssignSlot
<1>5. ASSUME NEW request \in Requests, OnAuthRequest(request) PROVE Crowded' = Crowded
  BY <1>3, <1>5, ManagerAlone DEF OnAuthRequest, OnUnknownPeer
<1>6. ASSUME NEW c \in Clients, NEW is_anomaly \in BOOLEAN, tlm_!RevokeToken(c, is_anomaly)
      PROVE  Crowded' = Crowded
  <2>1. c \in Ids
    BY DEF Ids
  <2> QED
    BY <1>2, <1>6, <2>1, RevokeMeans
<1>7. ASSUME NEW response \in Responses, response.client_id \in Clients,
             OnAuthResponse(response)
      PROVE  Crowded' = Crowded
  <2>1. ASSUME NEW z \in FindSlot(response.client_id), RejectedResponse(z, response)
        PROVE  Crowded' = Crowded
    <3>1. tlm_!RevokeToken(response.client_id, TRUE)
      BY <2>1 DEF RejectedResponse
    <3> QED
      BY <1>6, <1>7, <3>1
  <2>2. ASSUME NEW z \in FindSlot(response.client_id), AcceptedResponse(z, response)
        PROVE  Crowded' = Crowded
    <3>1. PICK o \in AuthResponseOutcomes(engines_[z], response) :
            /\ o.status = "kOk"
            /\ tlm_!RegisterToken(response.client_id,
                 [nonce |-> o.engine.pending_nonce, client |-> response.client_id])
      BY <2>2 DEF AcceptedResponse
    <3>2. [nonce |-> o.engine.pending_nonce, client |-> response.client_id] \in Derived
      BY <1>2, <3>1, AcceptedKey
    <3> QED
      BY <1>2, <1>7, <3>1, <3>2, OthersLockNobody
  <2> QED
    BY <1>3, <1>7, <2>1, <2>2 DEF OnAuthResponse, OnUnknownPeer
<1>8. CASE OnSessionTick \/ TimePasses
  BY <1>2, <1>8, OthersLockNobody DEF OnSessionTick, TimePasses
<1>9. ASSUME NEW c \in Clients, IsSessionActive(c) PROVE Crowded' = Crowded
  <2>1. c \in Ids
    BY DEF Ids
  <2> QED
    BY <1>2, <1>3, <1>9, <2>1, OthersLockNobody DEF IsSessionActive
<1>10. ASSUME NEW c \in Clients, NEW is_anomaly \in BOOLEAN, RevokeSession(c, is_anomaly)
       PROVE  Crowded' = Crowded
  BY <1>6, <1>10 DEF RevokeSession
<1> QED
  BY <1>2, <1>4, <1>5, <1>7, <1>8, <1>9, <1>10 DEF NodeHooks

\* So the table is never crowded while only nodes are heard.
LEMMA RecoveryStep == RInv /\ ~Crowded /\ [RecoveryNext]_recovery_vars => RInv' /\ ~Crowded'
<1> SUFFICES ASSUME RInv, ~Crowded, [RecoveryNext]_recovery_vars PROVE RInv' /\ ~Crowded'
  OBVIOUS
<1>1. CASE NodeHooks
  BY <1>1, NodeHooksStep
<1>2. ASSUME NEW h, Forget(h) PROVE RInv' /\ ~Crowded'
  BY <1>2, ForgetStep
<1>3. CASE UNCHANGED vars
  <2>1. RInv'
    BY <1>3, NextRInv
  <2>2. session_table_' = session_table_
    BY <1>3 DEF vars, tlm_vars
  <2>3. Crowded' <=> Crowded
    BY <2>2 DEF Crowded, tlm_!IsLockedOut, tlm_!Matches, tlm_!FindSlotByClientId, tlm_!Slots
  <2> QED
    BY <2>1, <2>3
<1> QED
  BY <1>1, <1>2, <1>3 DEF RecoveryNext, recovery_vars, Leave

\* With a zone slot for every node, one that has none finds a free one.
LEMMA PoolHasRoom ==
  ASSUME RInv, NEW c \in Clients, FindSlot(c) = {}
  PROVE  FreeEngineSlots # {}
<1> SUFFICES ASSUME FreeEngineSlots = {} PROVE FALSE
  OBVIOUS
<1>1. slot_records_ \in [ZoneSlot -> Ids] /\ OneSlotEach
  BY DEF RInv, IInv, TypeOK
<1>2. ASSUME NEW z \in ZoneSlot PROVE slot_records_[z] \in Clients \ {c}
  <2>1. slot_records_[z] # ZeroId
    BY DEF FreeEngineSlots
  <2>2. slot_records_[z] # c
    BY <2>1 DEF FindSlot
  <2> QED
    BY <1>1, <2>1, <2>2 DEF Ids
<1>3. ASSUME NEW y \in ZoneSlot, NEW z \in ZoneSlot, slot_records_[y] = slot_records_[z]
      PROVE  y = z
  <2>1. slot_records_[y] \in Clients /\ slot_records_[y] # ZeroId
    BY <1>2, PeerAssumption
  <2> QED
    BY <1>1, <1>3, <2>1 DEF OneSlotEach, FindSlot
<1>4. slot_records_ \in Injection(ZoneSlot, Clients \ {c})
  <2>1. slot_records_ \in [ZoneSlot -> Clients \ {c}]
    BY <1>1, <1>2
  <2> QED
    BY <1>3, <2>1 DEF Injection, IsInjective
<1>5. IsFiniteSet(ZoneSlot) /\ Cardinality(ZoneSlot) = ZoneSlots
  BY PoolAssumption, FS_Interval DEF ZoneSlot
<1>6. IsFiniteSet(Clients \ {c}) /\ Cardinality(Clients \ {c}) = Cardinality(Clients) - 1
  BY NodesAssumption, FS_RemoveElement
<1>7. Cardinality(ZoneSlot) <= Cardinality(Clients \ {c})
  BY <1>4, <1>6, FS_Injection
<1>8. Cardinality(Clients) \in Nat
  BY NodesAssumption, FS_CardinalityType
<1> QED
  BY <1>5, <1>6, <1>7, <1>8, NodesAssumption, PoolAssumption

-----------------------------------------------------------------------------
(* Theorems about the manager inside the adaptor.                          *)

\* In the hands of the adaptor the table stays sound: ring and slots agree, the
\* oldest session is evicted first, every session is found, a locked-out client has
\* none, keys go with their sessions, and no session outlives its lifetime by more
\* than a scan period, whatever the hooks and the network do.
THEOREM TableStaysSound == Spec => []TableSound
<1>1. Init => T!OldestFirst
  BY DEF Init, tlm_!Init, T!OldestFirst
<1>2. IInv /\ T!OldestFirst /\ [Next]_vars => T!OldestFirst'
  BY NextSorted
<1>3. IInv /\ T!OldestFirst => TableSound
  BY SoundTable DEF IInv
<1> QED
  BY <1>1, <1>2, <1>3, Invariance, PTL DEF Spec

\* Every session that ends, on whichever hook, is notified to its owner once.
THEOREM EndsToldOnce == Spec => tlm_!NotifiedOnce
<1>1. IInv /\ [Next]_vars =>
        [\A s \in tlm_!Slots : tlm_!SessionEnded(s) =>
           tlm_!Cardinality({i \in DOMAIN reply'.notified :
                               reply'.notified[i] = session_table_[s].client_id}) = 1]_(tlm_!vars)
  BY NextTold
<1> QED
  BY <1>1, Invariance, PTL DEF Spec, tlm_!NotifiedOnce

\* A node that is locked out never has a session again: no offer, handshake,
\* revocation or expiry, its own or another node's, brings one back.
THEOREM LockedOutForGood ==
  ASSUME NEW c \in Ids
  PROVE  Spec => [](tlm_!IsLockedOut(c) => [](tlm_!IsLockedOut(c) /\ SessionsOf(c) = {}))
<1>1. IInv /\ [Next]_vars => (tlm_!IsLockedOut(c) => tlm_!IsLockedOut(c)')
  BY NextLocked
<1>2. TableSound /\ tlm_!IsLockedOut(c) => SessionsOf(c) = {}
  <2> SUFFICES ASSUME tlm_!NoSessionWhileLocked, tlm_!IsLockedOut(c) PROVE SessionsOf(c) = {}
    BY DEF TableSound
  <2>1. /\ tlm_!FindSlotByClientId(c) \in tlm_!Slots
        /\ session_table_[tlm_!FindSlotByClientId(c)].client_id = c
    <3>1. T!Matches(c) # {} /\ T!Matches(c) \in SUBSET T!Slots
      BY SameLookups DEF tlm_!IsLockedOut, T!Matches
    <3>2. T!FindSlotByClientId(c) \in T!Matches(c)
      BY <3>1, T!LowestIsLeast, ManagerAssumptions DEF T!FindSlotByClientId
    <3> QED
      BY <3>2, SameLookups DEF tlm_!Matches
  <2> QED
    BY <2>1 DEF tlm_!NoSessionWhileLocked, tlm_!IsLockedOut, SessionsOf, ActiveSlots
<1> QED
  BY <1>1, <1>2, Invariance, TableStaysSound, PTL DEF Spec

\* Unless the all-zero id is locked out, the table has room for every node that has
\* a zone slot and is not locked out: the kTableFull of RegisterToken never reaches it,
\* and no other node pays for its session.
THEOREM RoomForAll == Spec => []RoomForEveryNode
<1>1. Init => RInv
  BY InitMatches
<1>2. RInv /\ [Next]_vars => RInv'
  BY NextRInv
<1>3. RInv => RoomForEveryNode
  <2> SUFFICES ASSUME RInv, NEW z \in ZoneSlot, slot_records_[z] # ZeroId,
                      ~tlm_!IsLockedOut(slot_records_[z]),
                      tlm_!FreeSlots(slot_records_[z]) = {}
               PROVE  tlm_!IsLockedOut(ZeroId)
    BY DEF RoomForEveryNode
  <2>1. slot_records_[z] \in Clients
    BY DEF RInv, IInv, TypeOK, Ids
  <2>2. ~T!IsLockedOut(slot_records_[z]) /\ T!FreeSlots(slot_records_[z]) = {}
    BY SameLookups
  <2> QED
    BY <2>1, <2>2, NoRoomIsCrowded DEF Crowded
<1> QED
  BY <1>1, <1>2, <1>3, PTL DEF Spec

\* The surroundings that bring nodes back do no harm: what was proved of the adaptor
\* holds as well while nonces are drawn again, their frames being lost.
THEOREM RecoverySafe ==
  RecoverySpec => [](/\ TypeOK /\ SlotsBound /\ SessionsProven
                     /\ RevokedEngineHasNoSession /\ SessionKeyCurrent)
<1>1. RecoverySpec => Init /\ [][RecoveryNext]_recovery_vars
  BY PTL DEF RecoverySpec
<1>2. Init => RInv /\ ~Crowded
  BY InitMatches, NobodyLockedAtFirst DEF Crowded
<1>3. RInv => /\ TypeOK /\ SlotsBound /\ SessionsProven
              /\ RevokedEngineHasNoSession /\ SessionKeyCurrent
  BY SafeState DEF RInv
<1> QED
  BY <1>1, <1>2, <1>3, RecoveryStep, PTL

\* In these surroundings a node that is not locked out always has a zone slot or finds
\* one free, and always room in the table: nothing it needs in order to come back
\* runs out.
THEOREM NobodyStranded ==
  RecoverySpec => [](\A c \in Clients : tlm_!IsLockedOut(c) \/
                       /\ FindSlot(c) # {} \/ FreeEngineSlots # {}
                       /\ tlm_!FreeSlots(c) # {})
<1>1. RecoverySpec => Init /\ [][RecoveryNext]_recovery_vars
  BY PTL DEF RecoverySpec
<1>2. Init => RInv /\ ~Crowded
  BY InitMatches, NobodyLockedAtFirst DEF Crowded
<1>3. ASSUME RInv, ~Crowded, NEW c \in Clients, ~tlm_!IsLockedOut(c)
      PROVE  /\ FindSlot(c) # {} \/ FreeEngineSlots # {}
             /\ tlm_!FreeSlots(c) # {}
  <2>1. FindSlot(c) # {} \/ FreeEngineSlots # {}
    BY <1>3, PoolHasRoom
  <2>2. PICK z \in ZoneSlot : slot_records_[z] \in {c, ZeroId}
    BY <2>1 DEF FindSlot, FreeEngineSlots
  <2>3. ~T!IsLockedOut(c)
    BY <1>3, LockedIs
  <2>4. T!FreeSlots(c) # {}
    BY <1>3, <2>2, <2>3, NoRoomIsCrowded
  <2> QED
    BY <2>1, <2>4, SameLookups
<1>4. RInv /\ ~Crowded =>
        \A c \in Clients : tlm_!IsLockedOut(c) \/
          /\ FindSlot(c) # {} \/ FreeEngineSlots # {}
          /\ tlm_!FreeSlots(c) # {}
  BY <1>3
<1> QED
  BY <1>1, <1>2, <1>4, RecoveryStep, PTL
=============================================================================
