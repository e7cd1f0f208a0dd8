-------------------------- MODULE WildFlowProjection --------------------------
(***************************************************************************)
(* The canonical billing audit of a WildFlow operation and its projection  *)
(* into the generic log database (model/wildflow_billing.go).              *)
(*                                                                         *)
(* Settling or refunding an operation inserts one canonical audit row in   *)
(* the same main-database transaction.  The row is then projected, at      *)
(* least once by retries, into LOG_DB, a second database with no common    *)
(* transaction: a projector claims the row under a one-minute lease,       *)
(* commits the Log row and a receipt in LOG_DB, and marks the row          *)
(* projected.  Any number of API nodes, request handlers and the           *)
(* reconciler run projectors concurrently, and any of them may stop        *)
(* between two steps or be slower than its lease.                          *)
(*                                                                         *)
(* An audit row is keyed by (operation_id, log_type); a member of Audits   *)
(* stands for one such key.  A claim token is a fresh uuid in the code;    *)
(* here it is the row's attempt number, equally fresh.  0 and "blank"      *)
(* stand for an empty column.                                              *)
(***************************************************************************)
EXTENDS Naturals, FiniteSets

CONSTANTS
    Audits,         \* keys (operation_id, log_type) of audit rows
    Projectors,     \* goroutines that run projectWildFlowBillingLog
    NoAudit,        \* a projector that works on nothing
    ClickHouse,     \* projectors of nodes whose LOG_DB is ClickHouse
    NotRequired,    \* audits whose projection state is not_required:
                    \*   LogTypeConsume while LogConsumeEnabled is off
    MaxFaults       \* bound on stops, LOG_DB errors and overrun leases

ASSUME ProjectionAssumption ==
    /\ NoAudit \notin Audits
    /\ ClickHouse \subseteq Projectors
    /\ NotRequired \subseteq Audits
    /\ MaxFaults \in Nat

VARIABLES
    final,    \* final[a]: the operation is settled or refunded
    row,      \* row[a]: the canonical audit row (wild_flow_billing_log_entries)
    lease,    \* lease[a]: projection_lease_expires_at against the clock
    logs,     \* logs[a]: number of generic Log rows in LOG_DB
    receipt,  \* receipt[a]: the idempotency receipt in LOG_DB
    proj,     \* proj[p]: program counter, audit and claim token of a projector
    faults    \* faults so far

vars == <<final, row, lease, logs, receipt, proj, faults>>

RowState == {"absent", "blank", "pending", "projecting", "failed", "projected",
             "not_required", "unsupported"}

TypeOK ==
    /\ final \in [Audits -> BOOLEAN]
    /\ row \in [Audits -> [state : RowState, attempts : Nat, token : Nat]]
    /\ lease \in [Audits -> {"none", "live", "expired"}]
    /\ logs \in [Audits -> Nat]
    /\ receipt \in [Audits -> {"none", "projected"}]
    /\ proj \in [Projectors -> [pc : {"idle", "claim", "log", "mark", "fail"},
                                audit : Audits \union {NoAudit},
                                token : Nat]]
    /\ faults \in 0..MaxFaults

-----------------------------------------------------------------------------
Idle == [pc |-> "idle", audit |-> NoAudit, token |-> 0]

NoRow == [state |-> "absent", attempts |-> 0, token |-> 0]

(* projectionState as ensureWildFlowCanonicalBillingLogTx computes it. *)
InitialProjectionState(a) ==
    IF a \in NotRequired THEN "not_required" ELSE "pending"

(* A database that an earlier release has used may hold finished           *)
(* operations without an audit row, rows whose projection_state column is  *)
(* still empty, and Log rows that were written without a receipt.          *)
LegacyShape(a) ==
    /\ row[a] \in {NoRow, [NoRow EXCEPT !.state = "blank"]}
    /\ logs[a] \in {0, 1}
    /\ final[a] \in BOOLEAN
    /\ (row[a].state = "blank" \/ logs[a] = 1) => final[a]

Init ==
    /\ final \in [Audits -> BOOLEAN]
    /\ row \in [Audits -> {NoRow, [NoRow EXCEPT !.state = "blank"]}]
    /\ logs \in [Audits -> {0, 1}]
    /\ \A a \in Audits : LegacyShape(a)
    /\ lease = [a \in Audits |-> "none"]
    /\ receipt = [a \in Audits |-> "none"]
    /\ proj = [p \in Projectors |-> Idle]
    /\ faults = 0

-----------------------------------------------------------------------------
(* Insert with ON CONFLICT DO NOTHING, and give a row of an earlier        *)
(* release its projection state.                                           *)
EnsureCanonicalBillingLog(a) ==
    row' = IF row[a].state \in {"absent", "blank"}
             THEN [row EXCEPT ![a].state = InitialProjectionState(a)]
             ELSE row

(* SettleWildFlowOperationBilling / RefundWildFlowOperationBilling: the    *)
(* billing state becomes final and the audit row appears in one            *)
(* transaction.                                                            *)
FinishBilling(a) ==
    /\ ~final[a]
    /\ final' = [final EXCEPT ![a] = TRUE]
    /\ EnsureCanonicalBillingLog(a)
    /\ UNCHANGED <<lease, logs, receipt, proj, faults>>

(* ReconcileWildFlowCanonicalBillingAudits: a final operation without an   *)
(* audit row gets one.                                                     *)
ReconcileCanonicalAudit(a) ==
    /\ final[a]
    /\ row[a].state = "absent"
    /\ EnsureCanonicalBillingLog(a)
    /\ UNCHANGED <<final, lease, logs, receipt, proj, faults>>

(* RecordWildFlowBillingLog: ensure the row, then project it unless there  *)
(* is nothing to project.                                                  *)
RecordBillingLog(p, a) ==
    /\ proj[p].pc = "idle"
    /\ final[a]
    /\ EnsureCanonicalBillingLog(a)
    /\ proj' = IF row'[a].state \in {"not_required", "projected"}
                 THEN proj
                 ELSE [proj EXCEPT ![p] = [pc |-> "claim", audit |-> a, token |-> 0]]
    /\ UNCHANGED <<final, lease, logs, receipt, faults>>

(* Faulty variants: the lease is not looked at; a claim whose projector    *)
(* stopped is never taken over.                                            *)
FaultyClaimIgnoringLease(a) ==
    row[a].state \in {"blank", "pending", "failed", "projecting"}

FaultyClaimOnce(a) == row[a].state \in {"blank", "pending", "failed"}

(* Rows that a projector may claim. *)
Claimable(a) ==
    \/ row[a].state \in {"blank", "pending", "failed"}
    \/ row[a].state = "projecting" /\ lease[a] # "live"

(* ReconcileWildFlowBillingLogProjections: the reconciler lists the        *)
(* claimable rows and projects each.                                       *)
ReconcileProjection(p, a) ==
    /\ proj[p].pc = "idle"
    /\ Claimable(a)
    /\ proj' = [proj EXCEPT ![p] = [pc |-> "claim", audit |-> a, token |-> 0]]
    /\ UNCHANGED <<final, row, lease, logs, receipt, faults>>

(* claimWildFlowBillingProjection, one main-database transaction. *)
ClaimProjection(p) ==
    LET a == proj[p].audit
        n == row[a].attempts + 1
    IN  /\ proj[p].pc = "claim"
        /\ \/ /\ Claimable(a)
              /\ row' = [row EXCEPT ![a] = [state |-> "projecting",
                                            attempts |-> n, token |-> n]]
              /\ lease' = [lease EXCEPT ![a] = "live"]
              /\ proj' = [proj EXCEPT ![p].pc = "log", ![p].token = n]
           \/ /\ ~Claimable(a)
              /\ proj' = [proj EXCEPT ![p] = Idle]
              /\ UNCHANGED <<row, lease>>
        /\ UNCHANGED <<final, logs, receipt, faults>>

(* Faulty variant: the Log row is inserted whatever the receipt says. *)
FaultyCommit(a) ==
    /\ receipt' = [receipt EXCEPT ![a] = "projected"]
    /\ logs' = [logs EXCEPT ![a] = @ + 1]

(* The LOG_DB transaction of createWildFlowGenericBillingLog: the receipt  *)
(* decides whether a Log row is still needed, and a Log row of an earlier  *)
(* release is adopted.                                                     *)
CommitGenericBillingLog(a) ==
    /\ receipt' = [receipt EXCEPT ![a] = "projected"]
    /\ logs' = [logs EXCEPT ![a] =
                  IF receipt[a] = "none" /\ @ = 0 THEN 1 ELSE @]

CreateGenericBillingLog(p) ==
    /\ proj[p].pc = "log"
    /\ p \notin ClickHouse
    /\ CommitGenericBillingLog(proj[p].audit)
    /\ proj' = [proj EXCEPT ![p].pc = "mark"]
    /\ UNCHANGED <<final, row, lease, faults>>

(* LOG_DB or the operation lookup fails, or the commit is not              *)
(* acknowledged: the projector sees an error whether or not the            *)
(* transaction took effect.                                                *)
GenericBillingLogError(p) ==
    /\ proj[p].pc = "log"
    /\ p \notin ClickHouse
    /\ faults < MaxFaults
    /\ faults' = faults + 1
    /\ \/ UNCHANGED <<receipt, logs>>
       \/ CommitGenericBillingLog(proj[p].audit)
    /\ proj' = [proj EXCEPT ![p].pc = "fail"]
    /\ UNCHANGED <<final, row, lease>>

(* ClickHouse is refused before LOG_DB is touched. *)
ProjectionUnsupported(p) ==
    /\ proj[p].pc = "log"
    /\ p \in ClickHouse
    /\ proj' = [proj EXCEPT ![p].pc = "fail"]
    /\ UNCHANGED <<final, row, lease, logs, receipt, faults>>

(* The UPDATE of both mark functions matches the row only while it is      *)
(* projecting under the projector's own token.                             *)
OwnsClaim(p) ==
    /\ row[proj[p].audit].state = "projecting"
    /\ row[proj[p].audit].token = proj[p].token

MarkProjection(p, s) ==
    LET a == proj[p].audit
    IN  /\ IF OwnsClaim(p)
             THEN /\ row' = [row EXCEPT ![a].state = s, ![a].token = 0]
                  /\ lease' = [lease EXCEPT ![a] = "none"]
             ELSE UNCHANGED <<row, lease>>
        /\ proj' = [proj EXCEPT ![p] = Idle]
        /\ UNCHANGED <<final, logs, receipt, faults>>

(* markWildFlowBillingProjectionProjected *)
MarkProjectionProjected(p) ==
    proj[p].pc = "mark" /\ MarkProjection(p, "projected")

(* Faulty variant: a failure is marked projected. *)
FaultyMarkFailed(p) == proj[p].pc = "fail" /\ MarkProjection(p, "projected")

(* markWildFlowBillingProjectionFailed with the failure code's state *)
MarkProjectionFailed(p) ==
    /\ proj[p].pc = "fail"
    /\ MarkProjection(p, IF p \in ClickHouse THEN "unsupported" ELSE "failed")

-----------------------------------------------------------------------------
(* A projector's process stops, or its database call fails, between two    *)
(* steps.                                                                  *)
Stop(p) ==
    /\ proj[p].pc # "idle"
    /\ faults < MaxFaults
    /\ faults' = faults + 1
    /\ proj' = [proj EXCEPT ![p] = Idle]
    /\ UNCHANGED <<final, row, lease, logs, receipt>>

(* Some projector still runs under the row's current claim. *)
ClaimHeld(a) ==
    \E p \in Projectors : proj[p].audit = a /\ proj[p].pc # "claim" /\ OwnsClaim(p)

(* The clock passes projection_lease_expires_at.  While the claim's        *)
(* projector still runs, it has overrun its lease, which counts as a       *)
(* fault.                                                                  *)
LeaseExpires(a) ==
    /\ lease[a] = "live"
    /\ lease' = [lease EXCEPT ![a] = "expired"]
    /\ IF ClaimHeld(a)
         THEN faults < MaxFaults /\ faults' = faults + 1
         ELSE UNCHANGED faults
    /\ UNCHANGED <<final, row, logs, receipt, proj>>

Next ==
    \/ \E a \in Audits : \/ FinishBilling(a)
                         \/ ReconcileCanonicalAudit(a)
                         \/ LeaseExpires(a)
                         \/ \E p \in Projectors : \/ RecordBillingLog(p, a)
                                                  \/ ReconcileProjection(p, a)
    \/ \E p \in Projectors : \/ ClaimProjection(p)
                             \/ CreateGenericBillingLog(p)
                             \/ GenericBillingLogError(p)
                             \/ ProjectionUnsupported(p)
                             \/ MarkProjectionProjected(p)
                             \/ MarkProjectionFailed(p)
                             \/ Stop(p)

Spec == Init /\ [][Next]_vars

(* The reconciler ticks for as long as the service runs and visits every   *)
(* row it lists, a started projector runs on, and the clock advances.      *)
(* The reconciler is a goroutine of its own, never starved by the request  *)
(* handlers that share the set Projectors with it in the model: hence      *)
(* strong fairness of its visits.  Request handlers (RecordBillingLog),    *)
(* faults and new operations (FinishBilling) are not fair.                 *)
FairSpec ==
    /\ Spec
    /\ \A a \in Audits :
         /\ WF_vars(ReconcileCanonicalAudit(a))
         /\ WF_vars(LeaseExpires(a) /\ ~ClaimHeld(a))
         /\ SF_vars(\E p \in Projectors : ReconcileProjection(p, a))
    /\ \A p \in Projectors :
         WF_vars(\/ ClaimProjection(p) \/ CreateGenericBillingLog(p)
                 \/ ProjectionUnsupported(p)
                 \/ MarkProjectionProjected(p) \/ MarkProjectionFailed(p))

-----------------------------------------------------------------------------
(* The projection of an audit is idempotent although the claim, the LOG_DB *)
(* commit and the mark are three transactions in two databases: whatever   *)
(* stops, errors and overrun leases occur, LOG_DB never holds two Log rows *)
(* for one (operation_id, log_type), and none for an unfinished operation. *)
LogAtMostOnce ==
    \A a \in Audits : logs[a] <= (IF final[a] THEN 1 ELSE 0)

(* markWildFlowBillingProjectionProjected is believed: a row that says     *)
(* projected has its Log row and its receipt in the other database.        *)
ProjectedHasLog ==
    \A a \in Audits :
        row[a].state = "projected" => logs[a] = 1 /\ receipt[a] = "projected"

(* A claim has one owner: two projectors past their claim never both hold  *)
(* the token under which the row is projecting, even when one of them      *)
(* overran its lease and was superseded.                                   *)
ClaimHasOneOwner ==
    \A p, q \in Projectors :
        /\ p # q
        /\ proj[p].pc \in {"log", "mark", "fail"}
        /\ proj[q].pc \in {"log", "mark", "fail"}
        /\ proj[p].audit = proj[q].audit
        => ~(OwnsClaim(p) /\ OwnsClaim(q))

(* A finished projection stays finished, and a live claim is never taken   *)
(* over: no late projector turns a projected row back or steals a row      *)
(* whose lease is still running.                                           *)
NoTakeover ==
    [][\A a \in Audits :
         /\ row[a].state = "projected" => row'[a].state = "projected"
         /\ row[a].state = "projecting" /\ lease[a] = "live"
              => row'[a].attempts = row[a].attempts]_vars

(* Every settled or refunded operation eventually has its audit row        *)
(* projected, or known to need no projection, or refused by ClickHouse.    *)
EventuallyProjected ==
    \A a \in Audits :
        final[a] ~> row[a].state \in {"projected", "not_required", "unsupported"}
=============================================================================
