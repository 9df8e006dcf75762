# A TLA+ model of the zonal zero-trust authentication stack

The repository is a small C++ library for the gateway of a zonal vehicle
network. A zone node proves its identity in an SPDM-like challenge–response
handshake; the session key that comes out of it is kept in a fixed-size session
table until it expires or is revoked; an adaptor drives both from the hooks of a
SOME/IP stack. There is no heap, no thread and no persistence: everything is
bounded, and all calls are serialised by the integrator
(`SomeIpAdaptor.hpp:181-184`). What makes it hard is the *order* of the calls:
requests and responses of several nodes interleave, arrive late, twice or never,
a periodic scan and lookups race for the same session, a table that is full hands
slots from one client to the next, and a clock wraps.

Paths below are relative to the repository; `hpp` and `cpp` are the header and
source of the component under discussion.

## 1. Inventory

| Component | State | Operations | Modelled in |
|---|---|---|---|
| `TokenLifecycleManager` | slots (id, key, nonce, issue time, anomaly count, active, locked), the ring of slots in order of insertion, the owner's callback | `RegisterToken`, `ValidateToken`, `RevokeToken`, `EvaluateTokenExpiry`, `GetActiveSessionCount` | `TokenLifecycleManager`, `SessionTable`, `AnomalyAudit` |
| `StaticCircularBuffer<N>` | cells, head, tail, count | `Push`, `Pop`, `Remove` | `StaticCircularBuffer`, `InsertionOrder`, `Fifo` |
| `SpdmProtocolEngine` | FSM state, pending nonce, pending and authenticated client id | `ProcessAuthRequest`, `ProcessAuthResponse`, `Revoke`, `Reset` | `SpdmEngine`, `SpdmProtocolEngine` |
| `SomeIpAdaptor` | a pool of engines, the client bound to each, one manager | `OnPeerOffered`, `OnAuthRequest`, `OnAuthResponse`, `OnSessionTick`, `IsSessionActive`, `RevokeSession`, `HandleRevocation` | `SomeIpAdaptor`, `ZoneAuthentication`, `AdaptorRecovery` |
| `CryptoPlatformInterface`, `SoftwareCryptoProvider` | LFSR word | `GenerateRandomNonce`, `ComputeSha256`, `VerifyEccSignature`, `DeriveSessionKey` | `GaloisLfsr`, `Sha256`, `SoftwareCryptoProvider` |
| `ZztaVersion`, tests, build files, documents | none | – | not modelled: no state |

**How they interact.** The adaptor owns the engines and the manager and calls
them synchronously. `OnPeerOffered` binds a client to an engine and resets it.
`OnAuthRequest` lets the engine draw a nonce and transmits it. `OnAuthResponse`
lets the engine verify; if it agrees, the session is registered, and the engine
is revoked should the manager refuse; if not, the manager is told of an anomaly.
`OnSessionTick` is the periodic scan. The manager reports every session that ends
through a callback to the owner.

**What is hard in it**, by component; `PROJECT.json` lists each at its line.

* *Manager.* A session ends on six paths (refresh, eviction, lazy expiry, scan,
  revocation of a live and of an idle slot), each of which writes out the erasure,
  the flag, the ring update and the notification again. Slots remember the ids of
  sessions long gone, and the lookup stops at the first match. The anomaly counter
  belongs to the slot, not to the client. Ages are differences of unsigned
  timestamps.
* *Ring.* Removal from the middle compacts a ring whose valid part may wrap.
* *Engine.* Messages out of order; a fault of the platform between two writes.
* *Adaptor.* Two components each know half of a session, and only some
  paths tell both. Slots of the pool are never given back. An engine that is
  revoked, or left authenticated by an expiry, comes back only by way of an offer.
  All nodes share one table, where an eviction or a lockout could hit the wrong one.
* *Software provider.* A period that hangs on one constant; padding at block
  boundaries; byte order; buffers filled by hand at computed offsets, one of them
  twice.

**What makes each correct.** Manager: ring and table agree, the oldest session
goes first, every session is reachable, a locked-out client stays out, secrets go
with the session, every end is notified once, nothing outlives its lifetime by
more than one scan period. Ring: a bounded first-in first-out queue. Engine:
authenticated means that this client answered this challenge, once. Adaptor: both
halves of a session agree on client and key, nodes do not disturb one another, and
a node that keeps trying gets its session back. Provider: the register never zero,
the digest FIPS 180-4's, signature and key bound to the pair of nonce and client.

## 2. Modules

| Module | What it is |
|---|---|
| `Fifo` | operators on queues: `Without` (withdraw a set of elements), `Pushed`, `Elements`, `Distinct` |
| `Fifo_proofs` | what these return, for every queue |
| `InsertionOrder` | what the manager expects of the ring: a bounded queue with withdrawal |
| `StaticCircularBuffer` | the ring: cells, head, tail, count; implements `InsertionOrder` |
| `StaticCircularBuffer_proofs` | its theorems, the refinement included |
| `TokenLifecycleManager` | the slot table, one action per operation |
| `MCTokenLifecycleManager` | symmetry of the client ids for TLC |
| `TokenLifecycleManager_proofs` | inductive invariant and theorems, among them that it implements `SessionTable` |
| `SessionTable` | the manager's promise without slots, counters or timestamps |
| `AnomalyAudit` | the manager beside a per-client count of anomalies, for claims of the documents |
| `SpdmEngine` | the engine's handlers as operators from a state to a set of outcomes |
| `SpdmEngine_proofs` | what each handler returns, for every engine it is called on |
| `SpdmProtocolEngine` | one engine and an unreliable peer |
| `SpdmProtocolEngine_proofs` | its inductive invariant and theorems |
| `SomeIpAdaptor`, `MCSomeIpAdaptor` | the pool of engines, the manager (by `INSTANCE`) and the network |
| `SomeIpAdaptor_proofs` | inductive invariant of the composition and its theorems: that it implements `ZoneAuthentication`, what the manager guarantees inside it, and the safety of `AdaptorRecovery` |
| `ZoneAuthentication` | the adaptor's promise, per node: stage of the handshake, session key, lockout, answer |
| `AdaptorRecovery` | the adaptor with an SD stack and nodes that keep trying: liveness, and the safety it rests on |
| `GaloisLfsr`, `MCGaloisLfsr` | the provider's register and its nonces, at any width |
| `GaloisLfsr_proofs` | the register's theorems |
| `Sha256`, `Sha256Answers` | SHA-256, bit for bit, and messages with known digests |
| `SoftwareCryptoProvider` | signature check and key derivation: which bytes go where before they are hashed |
| `SoftwareCryptoProvider_proofs` | the theorems of hash, signature and keys, for messages and buffers of every length |
| `MCSoftwareCryptoProvider` | register, hash and keys as one provider for TLC |

### State and actions

**`TokenLifecycleManager`.** `session_table_` is the array of slots and
`insertion_order_` the ring, seen as a sequence (justified by the run `ring`).
`now` is the time callers pass, modulo `TimeModulus` (2^64 in the code).
`since_scan` is the time since the last scan. `real_age` is a history variable:
how long ago the session of a slot was issued, on a clock that does not wrap.
`reply` is what the last call returned and whom it notified, in order.
`RegisterToken` splits into its outcomes: refused, in a free slot, by eviction,
table full; a client's own live session ends first, and its slot is then among
the free ones (`cpp:86-131`). `ValidateToken` ends an expired session itself.
`RevokeToken` acts on whatever slot is first with the id, session or not, and even
a slot never used when asked for the all-zero id, as in the code.
`EvaluateTokenExpiry` ends all expired sessions in one step, which it is, since
calls are serialised.

Left out: `last_seen_ms` (written, never read), padding and the wording of the
callback; key and nonce of a slot are one value, since they are written and erased
together; `ValidateToken` is called with a `key_out`.

**`StaticCircularBuffer`.** The four members and `result`, what the last
call returned. `Remove` is written as the code does it: compaction onto cells 0…,
then new head, tail and count.

**`SpdmEngine`.** A handler is an operator that yields the set of its outcomes,
each a status and the engine afterwards; the set has more than one element where
the platform may fail. A nonce is a number, drawn in sequence; the signature over
SHA-256(nonce ‖ client) and the key HKDF derives from the same are the pair of the
two, so that equal inputs give equal keys and different inputs different ones. On
an RNG fault the nonce buffer may or may not have been written.

**`SomeIpAdaptor`.** `engines_`, `slot_records_` and the manager's variables;
`answer` is the `AdaptorStatus` the last hook returned; `challenges` (everything
transmitted) and `spent` (every key a session was registered with) are histories.
Each hook is an action with every refusal of its own: `OnPeerOffered` is
`RejectOffer`, `ReOffer` or `AssignSlot`, `OnAuthResponse` is `OnUnknownPeer`,
`RejectedResponse` or `AcceptedResponse`, and so on. A response that arrives is any
challenge ever sent, signed by its addressee, or one that verifies for nothing: it
may arrive at any time, any number of times, under any client id, or not at all. A
frame too short to parse is `OnShortFrame`. `HandleRevocation` (`cpp:353-363`) is
private and no code calls it; it can never run and is no action (see the findings).
A restart of the gateway is `Init`, as nothing is persisted.

**`ZoneAuthentication`.** What an integrator may rely on, one node at a time:
`stage` (absent, or the state of the handshake), `session` (a key or none), `locked`,
and what the hook answers and hands out. A hook changes nothing of any node but the
one it names; a session begins only under a key never used before and made for this
node; the gate opens for live sessions only. `crowded` is the one exception, and the
reason it is there is in the code: `RevokeSession` takes the all-zero id, which
matches a slot never used; repeated as an anomaly it locks that slot, the table is
then smaller than the pool, and a registration may evict another node or be refused.
Without `crowded` TLC refutes the refinement. The mapping reads `stage` off the
engine of the node's slot and `session` off its slot in the table.

**`AdaptorRecovery`.** The hooks of `SomeIpAdaptor` for real nodes (`NodeHooks`: nobody
names the all-zero id), as many as there are zone slots (`NodesAssumption`), and `Forget`: the
network has lost the frames of a challenge that no engine and no session holds, so
that its nonce may stand for a fresh one. Without it the bound on nonces would end
every behaviour in refused requests. A node may `Leave` the bus; frames in its name
may still come.

**`GaloisLfsr`.** A word is the set of its one-bits, so that the same definitions
serve a register of any width. `seeded`, `drawn` and `past`, the registers since the last
time at the seed, are histories. All words of a nonce are one step, as they are in the
code.

**`Sha256`.** Bytes and words are sets of bits as well; addition carries modulo 2^32,
loads and stores are a copy to or from the host's memory and a byte swap, as in the
code, with the byte order of the host as a constant. A call keeps nothing, so a
behaviour is one call. The test file calls the provider's hash a lightweight
approximation (`tests/test_zzta_core.cpp:158`); it is the standard's SHA-256 in full.

**`SoftwareCryptoProvider`.** SHA-256 is symbolic here: digests are equal just when
their inputs are. The buffers are written with `memcpy` at the code's offsets, the one
that serves twice included, and lengths are constants. The register is all the provider
keeps from one call to the next, so `MCSoftwareCryptoProvider` lets a behaviour draw
nonces, or hash one message, or verify and derive.

## 3. Runs

| Run | Module, cfg | What it shows |
|---|---|---|
| `ring` | `StaticCircularBuffer` | head, tail and count stay consistent, and the ring implements `InsertionOrder` |
| `tlm_safety` | `MCTokenLifecycleManager`, `TlmSafety.cfg` | the manager's safety invariants and action properties; it implements `SessionTable` |
| `spdm_engine` | `SpdmProtocolEngine` | authentication is bound to one challenge, used once |
| `adaptor` | `MCSomeIpAdaptor`, `SomeIpAdaptor.cfg` | engines, pool and table agree; the table has room for every node of the pool; the adaptor implements `ZoneAuthentication` |
| `adaptor_recovery` | `AdaptorRecovery` | a node that keeps trying has a session again and again, or is locked out; the session of one that has left ends |
| `crypto_provider` | `MCSoftwareCryptoProvider`, `SoftwareCryptoProvider.cfg` | the register is never zero and no nonce comes again before it is back at its seed; padding and digests are the standard's; signature and session key bind nonce and client; the key is RFC 5869's |
| `strikes_lock_out`, `lockout_earned`, `always_room` | `AnomalyAudit` | violations, section 5 |
| `expiry_revokes_engine` | `MCSomeIpAdaptor` | violation, section 5 |
| `wrap_expires` | `MCTokenLifecycleManager`, `WrapExpires.cfg` | violation, section 5 |
| `lfsr_period` | `MCGaloisLfsr`, `LfsrPeriod.cfg` | violation, section 5 |

**Properties worth reading first.** `SessionsReachable`: a stale slot never hides
a live session of the same client. `OrderMatchesTable` and `OldestFirst`: the ring
holds the live slots, once each, oldest first. `AgeExact`: the age computed from
wrapped timestamps is the true age. `LockoutPermanent`: whatever happens, a client
that is locked out stays so. `NotifiedOnce`: every session that ends is notified
once, on all paths. `ChallengeUsedOnce`, `KeyRegisteredOnce`: no late or repeated
response opens a session again. `SessionKeyCurrent`: a node that is
authenticated again has the key of its new handshake in the table.
`RevokedEngineHasNoSession`: an engine that is revoked leaves no session behind (the
converse is not so: a session may end and leave its engine authenticated, section 5). `ImplementsZoneAuthentication`: nodes
do not disturb one another. `RoomForEveryNode`: the pool and the table count their slots
apart, yet no node is authenticated only to find the table full. `SessionRegained`: no
failure strands a node for good.

Every property of a passing run has a mutant in `PROJECT.json`: a small, plausible
slip in the modelled code (a lookup that skips idle slots, a loop one slot short, a
ring not compacted, a verification result dropped) under which TLC finds the
property violated.

**Bounds, and why they are enough.**

* `ring`: four cells, four values; every position of head and tail and every set
  of cells removed occurs, wrapped and not.
* `tlm_safety`: three slots and four clients, so that the table overflows
  while a slot in the middle, in front or at the end is stale, locked or
  refreshed; lockout after two anomalies and saturation at three, so that a locked
  slot is struck again; lifetime 1, scan period 1, a clock modulo 3, the smallest
  modulus above lifetime plus period: it wraps within nearly every session.
  One key is enough: keys are kept from one another by the adaptor's runs, where each
  handshake has its own (`SessionKeyCurrent`, and the key handed out in
  `ImplementsZoneAuthentication`). Clients are symmetric.
* `spdm_engine`: two peers, one stranger, three nonces: a handshake under way,
  one answered and one superseded.
* `adaptor`: two engines, two slots of the table, two peers and a stranger, two nonces. That is
  one node more than there are zone slots, so an offer may find them all taken
  (`kSlotExhausted`); two nodes are what it takes to disturb one another, and two
  anomalies lock the all-zero id, so that the crowded table occurs. With lifetime 0 a
  session may have expired and wait for the scan.
* `adaptor` explores states under a `VIEW` (`StateView` of `MCSomeIpAdaptor`). It has the age
  of each live session in place of the clock and the time of issue: the code reads
  them through their difference only. And it leaves out
  the last answer, which no hook reads, but for one bit: whether it was the refusal of a
  short frame. That refusal is possible in every state and changes nothing else, so every
  state is explored with it and without it; hence each step is also compared with
  `ZoneAuthentication` from a state with another answer than the step's own, where it
  cannot pass for a stutter. Of the properties of this run only the types of answers and
  times in `TypeOK` are not seen in full, and `PoolTyped` proves them.
* `adaptor_recovery`: one node, as the refinement shows that nodes are independent;
  three nonces, so that one is always left for the next challenge; no symmetry, as
  liveness is checked.
* `crypto_provider`, register: width 8 with the mask 0xA4, from all 256 seeds. Like the code's mask on
  32 bits its polynomial has factors, so that there are several cycles (of 105, 15, 7 and
  1 registers) and what is shown does not hang on the mask; the theorems of section 4
  hold at every width. `lfsr_period` has the code's own mask and width.
* `crypto_provider`, hash: every length from 0 to 130 bytes, across two block boundaries; ten
  published or independently computed digests, among them those of 55, 56, 63, 64, 119
  and 120 bytes. The code hashes 40, 64, 80, 96 and 104 bytes.
* `crypto_provider`, keys: digests and nonces of two bytes, ids of one, a block of three:
  every offset of the code is a sum of these lengths, and an overlap by one byte
  shows at any length. Byte values include zero, where a dropped byte would hide.
* `real_age` stops at `RealAgeBound` = lifetime + scan period + 1, above every
  age a session reaches (that none reaches it is `StaleWindowBounded`); the number
  of nonces is bounded by `MaxNonces`, after which requests only fail.
  `AnomalyAudit` stops counting strikes at `kMaxAnomalyCount`.

**Time and fairness.** `TimePasses` is not taken when the scan is due: the header
requires a deterministic task or timer to call the scan at a bounded period
(`TokenLifecycleManager.hpp:344-345`), and the model says this by `TickPeriod`, any
positive number. That assumption bounds *how late* a session ends
(`StaleWindowBounded`). That a session ends at all takes weak fairness of the scan,
which is the same documented task, and of time, which is a clock; that much is part
of `RecoverySpec`. No caller of validate or revoke is assumed to do anything. In a
behaviour whose node has left the bus, `SessionsDoNotLinger` rests on these two alone.

`RecoverySpec` relies on more, all of it outside the adaptor and stated in the module:
of nodes that have not left, the SOME/IP stack goes on offering them (weak fairness: unless a node
is locked out, an offer is always taken); a node on the bus goes on asking and
answering, and not every frame is lost nor every platform call a fault (strong
fairness: an offer, an expiry or a revocation may disable either again and again, but
not for good); the tick and the clock run. Nothing keeps duplicates, garbled
responses, offers in the middle of a handshake, or revocations from coming in between,
any number of times. Under it `SessionRegained` could fail only because the code has a
state without a way back, which is what its mutant, a re-offer that does not reset
the engine, brings about.

## 4. Proofs

Every theorem holds for every value of the constants, under assumptions that are named
in the modules that declare them and evaluated by TLC. What the runs of section 3 check
on a small instance is proved here in general, unless the end of this section says
otherwise.

### The manager

`TokenLifecycleManager_proofs`, for every number of slots, every set of clients and
keys, every lifetime, anomaly limit, scan period and clock width:

| Theorem | Says |
|---|---|
| `TypeCorrect` | `Spec => []TypeOK` |
| `RingMatchesTable` | `Spec => []OrderMatchesTable` |
| `OldestEvictedFirst` | `Spec => []OldestFirst` |
| `EverySessionReachable` | `Spec => []SessionsReachable` |
| `LockedClientsHaveNoSession` | `Spec => []NoSessionWhileLocked` |
| `KeysErased` | `Spec => []SecretsErased` |
| `AgesExact` | `Spec => []AgeExact` |
| `SessionsExpire` | `Spec => []StaleWindowBounded` |
| `LockoutsPermanent` | `Spec => LockoutPermanent` |
| `EndsNotifiedOnce` | `Spec => NotifiedOnce` |
| `TableImplemented` | `Spec => ImplementsSessionTable` |

Assumptions, all named in `TokenLifecycleManager`: the all-zero id and the erased key
are no client's; at least one slot; the anomaly limit is positive and fits the counter;
the scan period is positive and lifetime plus period is below the width of the clock.
The last is what exact ages need; with 64-bit milliseconds it holds by a wide margin.

None of the invariants but the types is inductive alone. `IInv`
joins them with two facts that no run states. `HeldSlotsFirst`: a slot with a
session *or a lockout* is the first with its id, hence the one the lookup finds.
`LockedIdle`: a locked slot has no session.

* A client that is not locked out finds all slots that remember it free, once its
  own live session has ended (`OwnSlotsAreFree`, from `HeldSlotsFirst`). Registration
  takes the lowest free slot, so it never passes over one of the client's own
  (`OccupyStep`), and an eviction happens only when no slot remembers the client.
* The slot taken was not in the ring after the withdrawal, so the ring has
  room (`RoomForOneMore`): `Push`, whose result the code ignores (`cpp:128`), is
  never refused. The slot evicted is live because the ring holds live slots only,
  and unlocked by `LockedIdle`: thus no lockout is overwritten (`NextKeepsLockouts`).
* After a scan, what is left has an age within the lifetime, and by `AgeExact` that
  is the true age; between scans age and `since_scan` grow together. So ages stay
  below the modulus, and a tick adds one to them, wrapping or not (`AgeAfterTick`).
* Live slots have different ids, by `HeldSlotsFirst`. So the notices a call writes,
  one for each slot it withdraws, name each session that ended once, and a session
  that goes on in a slot the call does not touch is not among them (`NextNotifies`).

*The refinement.* A session of `SessionTable` is a position of the ring:
`LiveSessions` reads client, key and true age off the slot there. Withdrawing
slots from the ring is dropping their sessions (`DropMatches`), pushing one
is adding its session at the end (`PushStep`). The locked ids are those of
the locked slots, each held by one (`HeldSlotsFirst`), so the abstract room is the
number of unlocked slots (`RoomLeft`). A free slot is unlocked and
idle, so the queue is shorter than the room; without a free slot all unlocked slots are
live, the queue fills the room, and its head is the slot the code evicts
(`RegisterMatches`). Each operation has such a lemma, and `NextMatches` joins them.

### The ring

`StaticCircularBuffer_proofs`, for every capacity and every set of values:

| Theorem | Says |
|---|---|
| `RingTyped` | `Spec => []TypeOK` |
| `IndicesAgree` | `Spec => []IndicesConsistent` |
| `RingImplementsQueue` | `Spec => ImplementsInsertionOrder` |

The invariant is the conjunction of the first two; the work is the refinement. The valid
cells are head, head + 1, … modulo the capacity, and no two of them coincide; so
`Push` writes a cell that is not valid. `Remove` copies every cell that is kept to the
number of cells kept before it. That the result is the queue
`Without` the removed values is `AscendingCountsBefore` of `Fifo_proofs`: in the
increasing enumeration of a set of positions, a position stands where the number of
smaller ones says. `InsertionOrder` and the manager use the same operators of `Fifo` on
their queues, so what the manager's theorems assume of the ring is what this one proves.

### The engine

`SpdmProtocolEngine_proofs`, for every set of clients and peers and any number of nonces;
`SpdmEngine_proofs` says what a handler returns, for *every* engine it is called on, so
that the adaptor's proofs use the same lemmas:

| Theorem | Says |
|---|---|
| `EngineTyped` | `Spec => []TypeOK` |
| `AuthenticationProven` | `Spec => []AuthenticatedPeerProven` |
| `RevocationSanitises` | `Spec => []RevokedIsSanitised` |
| `ChallengesUsedOnce` | `Spec => ChallengeUsedOnce` |
| `ChallengesStable` | `Spec => ChallengeStable` |

Two facts make the invariant inductive. `NoncesDrawn`: every nonce anywhere is one that
has been drawn. `OpenChallengeFresh`: the nonce of the challenge that is
open has completed no handshake; it is drawn anew for each request
(`NoncesDrawn`), and to complete a handshake with it ends the wait.

### The adaptor

`SomeIpAdaptor_proofs`, for any number of zone slots and any table at least that large:

| Theorem | Says |
|---|---|
| `PoolTyped` | `Spec => []TypeOK` |
| `EnginesNotMixedUp` | `Spec => []SlotsBound` |
| `EverySessionProven` | `Spec => []SessionsProven` |
| `RevocationsComplete` | `Spec => []RevokedEngineHasNoSession` |
| `KeysCurrent` | `Spec => []SessionKeyCurrent` |
| `KeysRegisteredOnce` | `Spec => KeyRegisteredOnce` |
| `ZoneImplemented` | `Spec => ImplementsZoneAuthentication` |
| `RoomForAll` | `Spec => []RoomForEveryNode` |
| `TableStaysSound` | the safety invariants of the manager, of the manager in the adaptor's hands |
| `EndsToldOnce` | likewise `NotifiedOnce` |
| `LockedOutForGood` | a client once locked out stays so and never has a session again |
| `RecoverySafe` | `RecoverySpec` keeps the five safety invariants of the adaptor |
| `NobodyStranded` | under `RecoverySpec` a node not locked out has or finds a zone slot and has room in the table |

The manager is not proved again: its theorems are instantiated with the keys that
handshakes derive, and its assumptions are those of `SomeIpAdaptor` under the same names
(`ManagerAssumptions`). What the adaptor needs to know of an operation is what it does
to the sessions (`ManagerRegister`, `ManagerRevoke`, `ManagerIdle`). `IInv` joins the
manager's invariant with one statement about each zone slot (`SlotSound`) and one about
each session (`SessionSound`), and they go from one half to the other:

* A refused registration means that the client has no session left, because the manager
  ends it before it looks for room; so the engine that is revoked leaves none behind. A
  granted one leaves the client with the new session only.
* The challenge that is open in an engine is transmitted and its key not yet spent: the
  nonce was drawn outside of all challenges, and every key spent is that of a
  challenge. So a registration never uses a key a second time.

*The refinement.* Each hook names one node, and the proof has one lemma per hook
(`OfferMatches`, `RequestMatches`, `FailMatches`, `CompleteMatches`, `GateMatches`,
`RevocationMatches`, `TickMatches`), joined in `NextMatches`. What a call to the manager
means for each id is in the section "What a call means for each client" of the
manager's proofs: a lookup or a revocation leaves the slots of other ids alone, only a
revocation locks anyone out, and it locks out only the id it names. That an offer is
refused just when as many nodes are offered as there are slots takes counting: offered
nodes inject into the zone slots, and onto them when none is free (`OfferedCount`).

The refinement needs one invariant more than `IInv`: every id the table remembers, with
a session or without, is bound to a zone slot or is the all-zero one (`RInv`). For
suppose a node with a zone slot is not locked out and finds no room. Then no slot
remembers it, the ids in the slots differ from one another, each of a node that is live
or locked out. If none is the all-zero id, they inject into the zone slots but the
node's own, of which there are fewer than table slots. So the all-zero id is locked out
(`NoRoomIsCrowded`), and only then may a registration cost another node its session or be
refused (`RegisterMeans`). `RoomForAll` says the same of states: `RInv` is why the two
tallies of slots agree, and a pool that freed slots on revocation, as the header has it,
would break both, since a locked-out client holds its slot of the table for good. That there are no more zone slots than table slots is
`PoolAssumption`, a static assertion of the header (`SomeIpAdaptor.hpp:53-54`).

*The manager inside.* A hook makes at most one call to the manager, and none touches the
table behind its back: each step of the adaptor is a step of the manager or leaves it
alone (`NextDrives`, `ManagerStep`). So what was proved of a step of the manager holds of a hook,
with `IInv` supplying the manager's invariant.

*The way back.* `SessionRegained` itself is TLC's; what is proved for any number of nodes
is that nothing stands in its way. `Forget` removes a challenge, and its key from those
spent, only when no engine and no session holds it, and so keeps `RInv` (`ForgetStep`).
Nobody revokes the all-zero id, so the table is never crowded (`RecoveryStep`). And as the
nodes are no more than the zone slots, one without a slot finds one free (`PoolHasRoom`).
Only `NobodyStranded` rests on `NodesAssumption`.

### The register

`GaloisLfsr_proofs`, for every width, every nonce length, every
seed and every feedback mask that has the top bit (`MaskAssumption`; 0xB4000000 has it):

| Theorem | Says |
|---|---|
| `LfsrNextInjective` | a step is injective, so every sequence is a cycle through its seed |
| `DrawInjective` | so are the steps of a nonce together: the nonces form a cycle too, and the first to come again is the one drawn first |
| `RegisterTyped` | `Spec => []TypeOK` |
| `RegisterNeverZero` | `Spec => []NeverZero` |
| `NoncesRepeatInTurn` | `Spec => []NoEarlyRepeat`: no nonce comes again before the register is back at its seed |

The top bit of the mask is what all of them rest on: after a shift the top bit is clear, so it
tells whether the mask was added. Zero is reached from zero only, and the constructor
replaces a zero seed. That a *nonce*, the last of several steps, is no exception is
an induction over its words, done through a first word at which the claim
fails. A register that came early would have been led to twice, by the present
register and by an earlier one (`LedTo`), which `DrawInjective` excludes. How *long* it
takes to come back to the seed is not a matter of these arguments: it depends on the mask,
and for the code's it may take 31 nonces only (section 5).

### Hash, signatures and keys

`SoftwareCryptoProvider_proofs`, for every set of messages; for every length of digest,
nonce, client id and HMAC block, the digest no longer than the block
(`LengthAssumption`); and for every set of bytes:

| Theorem | Says |
|---|---|
| `HashTyped` | `HashSpec => []HashTypeOK`: message and digest are bytes |
| `PaddingIsStandard` | `HashSpec => []PaddingStandard`: at every length, what is hashed is the message padded as FIPS 180-4 has it |
| `SignaturesBound` | `CallsSpec => []SignatureBindsHandshake`: a signature is accepted just when it is the node's for this very handshake, and under the known public key |
| `SessionKeysSeparate` | `CallsSpec => []KeysSeparate`: another nonce or another client, another key |
| `KeysAreHkdf` | `CallsSpec => []KeyIsHkdf` |

*The padding.* The code never forms the padded message: it computes a length, and fills
each block byte by byte with what belongs at its index. The standard speaks of bits: the
message, a one, the *fewest* zeros that leave 64 bits of a block, and the length. The
rounded length `padded_len` is a multiple of 64 from 9 to 72 bytes above the message's
(`PaddedLength`), which leaves just one number of zeros, the least one (`ZeroBitsAre`).
So both sides have as many bits, and bit by bit they agree, in the message, at the byte
0x80, in the zeros and in the length, of which each byte is a shift by whole bytes
(`PaddedBit`). Nothing is assumed of the length's own binary digits but that both sides
use the same. The blocks cut the padded message without a gap (`HashedBytes`).

*The buffers.* `memcpy` writes parts into a buffer at computed offsets. `Overlaid` says which byte of
which part is where afterwards; when the offsets are sums of the lengths before them and
the buffer is as long as the parts together, it holds their concatenation, whatever it
held before (`TwoParts`, `ThreeParts`). That is why `VerifyEccSignature` may use one
buffer for both halves of a signature, and why the copies of `DeriveSessionKey` come to
HKDF. A concatenation of parts of fixed lengths has one reading (`PartsReadBack`), and so
has a block padded with a digest (`PadReadBack`); the rest is following a digest back to
its input, as the symbolic SHA-256 allows: what is proved is that the layout mixes
nothing up, not that SHA-256 has no collisions. The comparison of a signature goes
byte by byte over both halves at once; `MatchesOnlyItsOwn` says that it is equality.
The invariant `IInv` is what the two calls returned, in terms of the handshake they were
called with, and that a signature has the length of two digests, damaged or not.

### Queues

`Fifo_proofs` supplies the facts on queues. `Without` is defined through the
increasing enumeration of the positions that stay; its existence is proved by a
minimal counterexample (strict inclusion is well-founded on finite sets), which
keeps inductions over sequences out of the proofs.

### Only model-checked

* `SessionsDoNotLinger` and `SessionRegained`: liveness under fairness is out of the
  prover's reach.
* `AnswersKnown`: what 64 rounds of a recursive computation yield is for evaluation to
  check against known answers. The same goes for `BitsOf`, the binary digits of a length.

## 5. Where the code does not do what its documents say

The first six are runs that expect a violation; the quotations are in `PROJECT.json`.

1. **`strikes_lock_out`** – three anomalies (CR-07 of `docs/TARA.md`) need not lock
   a client out: the counter is the slot's, and a client that registers again may be
   given another slot after a third client took its first.
2. **`lockout_earned`** – conversely a client is locked out for anomalies of
   the previous holder of its slot.
3. **`always_room`** – once every slot is locked, registration is refused with
   `kTableFull`, which a comment says cannot happen while ring and table agree; they
   do agree, by `RingMatchesTable`. In the adaptor it meets no node of the pool that is
   not locked out itself, unless the all-zero id has been (`RoomForAll`).
4. **`expiry_revokes_engine`** – `HandleRevocation` is documented as the manager's
   callback and is wired to nothing: a session that the tick expires leaves its engine
   authenticated, which then refuses the client's next request.
5. **`lfsr_period`** – the mask 0xB4000000 is described as primitive with the maximal
   period 2^32 − 1. 0xB4 is such a mask at 8 bits and 0xB400 at 16, but at 32 bits the
   polynomial factors; the seed of the run is on a cycle of 31 nonces.

6. **`wrap_expires`** – a comment (`TokenLifecycleManager.cpp:238-241`) says two things of a
   clock that has wrapped: that the subtraction remains correct, and that the age will
   be large, so that the token expires. The first is the code's behaviour and what
   `AgeExact` states: the unsigned difference is the time that has really passed. The
   second does not follow and is not so: a young session has a small age across the
   wrap and lives on, as it should. The header (`hpp:357-358`) asks for a timestamp that
   does not decrease and leaves overflow to the caller; the model lets the clock wrap
   all the same, since the code claims to cope with it.

Seen while modelling, and in the actions of the modules as the code has them, but not
runs of their own:

* A response delivered twice ends the session its first copy opened, with an anomaly,
  while the engine stays authenticated, although a comment (`SomeIpAdaptor.cpp:220`)
  says that it is then in `kRevoked`. `Fail` of `ZoneAuthentication` is what happens.
* The header has an offer evict the oldest session when all zone slots are occupied
  (`SomeIpAdaptor.hpp:223-224`), and slots freed on revocation (`hpp:134-135`); the code
  answers `kSlotExhausted` (`cpp:133`) and never frees a slot (`Offer`).
* The header has an offer of an id outside the peer table refused (`hpp:228`); the code
  binds a slot to it, for good (`AssignSlot`).
* `RevokeSession` is to answer `kUnknownPeer` when there is no session (`hpp:314-315`); it
  answers `kOk` whenever a slot remembers the id (`Revoke`), and `RevokeToken` likewise,
  against `TokenLifecycleManager.hpp:333-334`.
* "Portable" SHA-256 (`CryptoPlatformInterface.cpp:6-8`) swaps bytes on every host
  (`cpp:139`); with `LittleEndianHost = FALSE`, `AnswersKnown` fails.
* "maximum exposure window = 30 seconds" (`docs/TARA.md:136`) is the lifetime. For the gate
  that is right: `ValidateToken` hands out no key later, scan or no scan. The key lies
  in the table for longer, until the next scan or lookup; the bound that the
  code keeps and `StaleWindowBounded` states is lifetime plus time since the scan.
* "exceeds kMaxAnomalyCount" (`TokenLifecycleManager.hpp:327`) is "reaches" in the code;
  `TokenLifecycleManager.cpp:124` speaks of a reset of the counter by `ValidateToken` that
  is not there.

## 6. Not modelled, and why

* The wire format: fields of frames, padding, method ids. No code here branches on
  them but for the length check, which is `OnShortFrame`.
* `HandleRevocation`: nothing calls it. A model in which something did would be of
  another program.
* The elliptic curve: the provider has none (its signature is a hash), and a
  production provider is not in the repository.
* Constant-time comparison and the erasure of memory by the compiler: no state
  the model could see.
* Concurrent hooks: excluded by the contract of the header (`hpp:181-184`).
* `ZztaVersion`, tests, build, documents: no state.

## 7. Plan

Done in this order: ring and its abstraction; manager with safety, liveness and
refinement; audit of the documents' lockout claims; engine; adaptor; proofs of
the manager; software provider with the proofs of its register; answers of the
adaptor, its abstract specification and recovery; proofs of ring, engine and adaptor,
and that manager and adaptor implement their abstractions; proofs of signature check and
key derivation, and of SHA-256's padding, for every length; the manager's guarantees inside the
adaptor, room in the table, and the safety of recovery. Every safety property the runs check is now a theorem,
but for those listed under "Only model-checked".

## 8. Running

    tlc -workers 2 -config TlmSafety.cfg MCTokenLifecycleManager
    tlapm TokenLifecycleManager_proofs.tla

A run takes from seconds to three minutes on two cores; the proofs take a few minutes.
