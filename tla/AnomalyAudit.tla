---------------------------- MODULE AnomalyAudit ----------------------------
(***************************************************************************)
(* The lockout as the documents describe it: per client.  The table counts *)
(* anomalies per slot, and slots change hands, so this module keeps beside *)
(* it the number of anomalies reported of each client, as a history.       *)
(* Revocations name clients here, never the all-zero id.                   *)
(***************************************************************************)
EXTENDS TokenLifecycleManager

VARIABLE strikes   \* history: anomalies of each client, up to kMaxAnomalyCount

audit_vars == <<vars, strikes>>

AuditInit == Init /\ strikes = [c \in Ids |-> 0]

\* Only an anomaly that RevokeToken answers with kOk is held against the client.
AuditedRevoke(c) ==
  /\ RevokeToken(c, TRUE)
  /\ strikes' = IF reply'.status = "kOk" /\ strikes[c] < kMaxAnomalyCount
                THEN [strikes EXCEPT ![c] = @ + 1]
                ELSE strikes

AuditNext ==
  \/ \E c \in Clients : AuditedRevoke(c)
  \/ /\ \/ \E c \in Ids, k \in Keys : RegisterToken(c, k)
        \/ \E c \in Ids : ValidateToken(c)
        \/ \E c \in Clients : RevokeToken(c, FALSE)
        \/ EvaluateTokenExpiry
        \/ TimePasses
     /\ UNCHANGED strikes

AuditSpec == AuditInit /\ [][AuditNext]_audit_vars

\* hpp:62-68, CR-07 of TARA.md, cpp:121-123: a client with kMaxAnomalyCount
\* anomalies is locked out, whatever re-registrations lie between them.
StrikesLockOut ==
  \A c \in Clients : strikes[c] = kMaxAnomalyCount => IsLockedOut(c)

\* hpp:64-68: it is the failures of this very client that lock it out.
LockoutEarned ==
  \A c \in Clients : IsLockedOut(c) => strikes[c] = kMaxAnomalyCount

\* cpp:105-106, CM-09 of TARA.md: with the buffer and the table in step, the
\* oldest session can always be replaced, and no registration is refused for
\* lack of room.
AlwaysRoom == reply.status # "kTableFull"
=============================================================================
