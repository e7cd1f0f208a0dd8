-------------------------- MODULE WildFlowExecution --------------------------
(***************************************************************************)
(* The life of a WildFlow operation after the inference service accepted   *)
(* its job (controller/wildflow_jobs.go, service/wildflow_billing.go and   *)
(* its reconciler, model/wildflow_operation.go, the usage-event receiver). *)
(*                                                                         *)
(* Client requests (status, cancel, download, usage events) and the        *)
(* master node's reconciler each read the operation, ask the inference     *)
(* service, write the job state they were told over whatever the row holds *)
(* (UpdateWildFlowOperationExecution has no guard), and then store the     *)
(* result and settle or refund the reservation in further transactions.    *)
(* What a process was told may be old by the time it writes it.            *)
(*                                                                         *)
(* Job state "running" stands for queued and running.  The artifacts of a  *)
(* succeeded job are one of Versions, or Bad when they are missing or fail *)
(* ValidateWildFlowCompletedArtifacts.                                     *)
(***************************************************************************)
EXTENDS Naturals, FiniteSets

CONSTANTS
    Clients,      \* HTTP requests in progress
    Reconciler,   \* the billing reconciler of the master node
    Events,       \* usage events the inference service may deliver
    Versions,     \* valid artifact contents
    Bad,          \* missing or invalid artifacts
    NoResult,     \* empty result_json
    NoEvent,      \* empty billing_usage_event_id
    Trials,       \* whether the operation may be of the free trial offering that is
                  \* reconciled (IndexTTS-2.5): a set of truth values
    MaxRequests,  \* bound on client requests
    MaxFaults     \* bound on failed calls, conflicts and processes that stop

ASSUME ExecutionAssumption ==
    /\ Reconciler \notin Clients
    /\ NoResult \notin Versions \union {Bad}
    /\ Bad \notin Versions
    /\ NoEvent \notin Events
    /\ Trials \subseteq BOOLEAN
    /\ MaxRequests \in Nat /\ MaxFaults \in Nat

VARIABLES
    op,        \* the operation row: state, billing_state, result_json, usage event, and
               \* whether its offering is the free trial
    job,       \* the job's state at the inference service
    art,       \* the artifacts the inference service would return
    recorded,  \* usage events in wild_flow_usage_events
    proc,      \* proc[p]: program counter and what the process was told
    requests,  \* client requests so far
    faults     \* faults so far

vars == <<op, job, art, recorded, proc, requests, faults>>

Procs == Clients \union {Reconciler}

(* validJobStates of the inference client *)
Unfinished == {"pending", "running", "recovery_required"}

Failed == {"failed", "cancelled"}

JobStates == Unfinished \union {"succeeded"} \union Failed

BillingStates == {"pending", "reserved", "refunding", "settled", "refunded"}

TypeOK ==
    /\ op \in [state : JobStates, billing : BillingStates,
               result : Versions \union {NoResult}, event : Events \union {NoEvent},
               trial : BOOLEAN]
    /\ job \in JobStates
    /\ art \in Versions \union {Bad}
    /\ recorded \subseteq Events
    /\ proc \in [Procs -> [pc : {"idle", "fetch", "cancel", "poll", "write", "persist",
                                 "settle", "usage", "refund", "recover", "download"},
                           state : JobStates,
                           art : Versions \union {Bad}]]
    /\ requests \in 0..MaxRequests
    /\ faults \in 0..MaxFaults

-----------------------------------------------------------------------------
Idle == [pc |-> "idle", state |-> "running", art |-> Bad]

TeamTrial == op.trial

Row(state, billing, trial) ==
    [state |-> state, billing |-> billing, result |-> NoResult, event |-> NoEvent,
     trial |-> trial]

(* The submission was just completed, or an earlier release left a refund  *)
(* half done.  (The answer to the submission may report the job further    *)
(* along; its handler then goes on as after a GetJob.)  A job that is paid *)
(* for is treated alike in states pending and running.                     *)
Init ==
    /\ \/ /\ job = "running"
          /\ op = Row(job, "reserved", FALSE)
       \/ /\ job = "failed"
          /\ op = Row(job, "refunding", FALSE)
       \/ /\ job \in {"pending", "running"}
          /\ op = Row(job, "pending", TRUE)
    /\ TeamTrial \in Trials
    /\ art = Bad
    /\ recorded = {}
    /\ proc = [p \in Procs |-> Idle]
    /\ requests = 0 /\ faults = 0

(* Only the step that stores a result needs what the process was told. *)
Goto(p, pc) ==
    proc' = [proc EXCEPT ![p] = IF pc = "persist" THEN [@ EXCEPT !.pc = pc]
                                                  ELSE [Idle EXCEPT !.pc = pc]]

Done(p) == proc' = [proc EXCEPT ![p] = Idle]

-----------------------------------------------------------------------------
(* The inference service (external).  Succeeded, failed and cancelled are  *)
(* final; a job in recovery_required may still be recovered.  Stored       *)
(* artifacts may be repaired, replaced or lost later.                      *)
JobProgress ==
    /\ job \in Unfinished
    /\ job' \in JobStates \ {job}
    /\ UNCHANGED <<op, art, recorded, proc, requests, faults>>

ArtifactsChange ==
    /\ job = "succeeded"
    /\ art' \in (Versions \union {Bad}) \ {art}
    /\ UNCHANGED <<op, job, recorded, proc, requests, faults>>

-----------------------------------------------------------------------------
(* A new client request. *)
Arrives(p, pc) ==
    /\ proc[p].pc = "idle"
    /\ requests < MaxRequests
    /\ requests' = requests + 1
    /\ proc' = [proc EXCEPT ![p] = [pc |-> pc, state |-> op.state, art |-> Bad]]

(* GetWildFlowJob, and createWildFlowJob for an operation with a job: a    *)
(* stored result of a succeeded operation and recovery_required are        *)
(* answered at once, everything else asks the inference service.           *)
GetJob(p) ==
    /\ op.state # "recovery_required"
    /\ ~(op.state = "succeeded" /\ op.result # NoResult)
    /\ Arrives(p, "fetch")
    /\ UNCHANGED <<op, job, art, recorded, faults>>

(* CancelWildFlowJob asks whatever the row says. *)
CancelJob(p) ==
    /\ Arrives(p, "cancel")
    /\ UNCHANGED <<op, job, art, recorded, faults>>

(* What client.GetJob or client.CancelJob returned. *)
Told(p, s, a) == proc' = [proc EXCEPT ![p] = [pc |-> "write", state |-> s, art |-> a]]

Fetched(p) ==
    /\ proc[p].pc = "fetch"
    /\ Told(p, job, art)
    /\ UNCHANGED <<op, job, art, recorded, requests, faults>>

(* Faulty variant: a job that is not found is taken for a failed one. *)
FaultyNotFound(p) ==
    /\ proc[p].pc = "fetch"
    /\ proc[p].state = "succeeded"
    /\ Told(p, "failed", Bad)
    /\ UNCHANGED <<op, job, art, recorded, requests, faults>>

(* writeWildFlowLegacyResultUnavailableRecovery: the job of a succeeded    *)
(* operation without a result is gone at the inference service.            *)
FetchedNotFound(p) ==
    /\ proc[p].pc = "fetch"
    /\ proc[p].state = "succeeded"
    /\ Goto(p, "recover")
    /\ UNCHANGED <<op, job, art, recorded, requests, faults>>

(* A job that has not ended may be cancelled, or the service may report it *)
(* as it is.                                                               *)
Cancelled(p) ==
    /\ proc[p].pc = "cancel"
    /\ \/ job \in Unfinished /\ job' = "cancelled"
       \/ UNCHANGED job
    /\ Told(p, job', art)
    /\ UNCHANGED <<op, art, recorded, requests, faults>>

(* Faulty variants: refunds left half done, or trial operations without a  *)
(* result, are not listed.                                                 *)
FaultyListedReserved ==
    \/ op.billing = "reserved"
    \/ op.billing = "pending" /\ op.result = NoResult

FaultyListedRetail == op.billing \in {"reserved", "refunding"}

(* ListWildFlowOperationsForBillingReconciliation: a trial operation is    *)
(* not listed in state pending.                                            *)
Listed ==
    \/ op.billing \in {"reserved", "refunding"}
    \/ /\ op.billing = "pending" /\ op.result = NoResult
       /\ op.state \in {"running", "recovery_required", "succeeded"}

(* ReconcileWildFlowBillingOnce takes up the operation ... *)
ListOperation ==
    /\ proc[Reconciler].pc = "idle"
    /\ Listed
    /\ Goto(Reconciler, "poll")
    /\ UNCHANGED <<op, job, art, recorded, requests, faults>>

(* Faulty variant: success without artifacts counts as failed. *)
FaultyPolledFailed ==
    /\ proc[Reconciler].pc = "poll"
    /\ Told(Reconciler, IF job = "succeeded" /\ art = Bad THEN "failed" ELSE job, art)
    /\ UNCHANGED <<op, job, art, recorded, requests, faults>>

(* ... and asks for its job; success without valid artifacts counts as     *)
(* recovery_required.                                                      *)
Polled ==
    /\ proc[Reconciler].pc = "poll"
    /\ Told(Reconciler,
            IF job = "succeeded" /\ art = Bad THEN "recovery_required" ELSE job, art)
    /\ UNCHANGED <<op, job, art, recorded, requests, faults>>

(* The inference service cannot be asked. *)
InferenceError(p) ==
    /\ proc[p].pc \in {"fetch", "cancel", "poll"}
    /\ faults < MaxFaults
    /\ faults' = faults + 1
    /\ Done(p)
    /\ UNCHANGED <<op, job, art, recorded, requests>>

-----------------------------------------------------------------------------
(* Where FinalizeWildFlowOperationBilling starts for a job state. *)
FinalizeStep(s, a) ==
    CASE s = "succeeded" /\ a = Bad -> "recover"
      [] s = "succeeded" /\ a # Bad -> "persist"
      [] s \in Failed /\ ~TeamTrial -> "refund"
      [] OTHER                      -> "idle"

(* UpdateWildFlowOperationExecution writes the job state it was told. *)
UpdateExecution(p) ==
    /\ proc[p].pc = "write"
    /\ op' = [op EXCEPT !.state = proc[p].state]
    /\ Goto(p, FinalizeStep(proc[p].state, proc[p].art))
    /\ UNCHANGED <<job, art, recorded, requests, faults>>

(* Faulty variant: a later result replaces the stored one. *)
FaultyPersist(p) ==
    /\ proc[p].pc = "persist"
    /\ op.state = "succeeded"
    /\ op' = [op EXCEPT !.result = proc[p].art]
    /\ Goto(p, IF TeamTrial THEN "idle" ELSE "settle")
    /\ UNCHANGED <<job, art, recorded, requests, faults>>

(* PersistWildFlowOperationResult / StoreWildFlowOperationResult: the      *)
(* first result stays; a row that is no longer succeeded is an error.      *)
PersistResult(p) ==
    /\ proc[p].pc = "persist"
    /\ \/ /\ op.state = "succeeded"
          /\ op' = [op EXCEPT !.result = IF @ = NoResult THEN proc[p].art ELSE @]
          /\ Goto(p, IF TeamTrial THEN "idle" ELSE "settle")
       \/ /\ op.state # "succeeded"
          /\ UNCHANGED op
          /\ Done(p)
    /\ UNCHANGED <<job, art, recorded, requests, faults>>

MaySettle ==
    /\ op.billing = "reserved"
    /\ op.state = "succeeded" /\ op.result # NoResult
    /\ recorded # {}

(* The transaction of SettleWildFlowOperationBilling.  The earliest event  *)
(* in the clock of the receiving nodes is used, which may be any.          *)
SettleWildFlowOperationBilling ==
    \/ /\ MaySettle
       /\ \E e \in recorded : op' = [op EXCEPT !.billing = "settled", !.event = e]
    \/ ~MaySettle /\ UNCHANGED op

SettleBilling(p) ==
    /\ proc[p].pc = "settle"
    /\ SettleWildFlowOperationBilling
    /\ Goto(p, IF op'.billing \in {"settled", "reserved"} THEN "idle" ELSE "recover")
    /\ UNCHANGED <<job, art, recorded, requests, faults>>

(* Its transaction is rolled back with a billing state conflict: the       *)
(* unused part of the reservation could not be given back.                 *)
SettleConflict(p) ==
    /\ proc[p].pc = "settle"
    /\ MaySettle
    /\ faults < MaxFaults
    /\ faults' = faults + 1
    /\ Goto(p, "recover")
    /\ UNCHANGED <<op, job, art, recorded, requests>>

MayRefund ==
    /\ op.billing \in {"reserved", "refunding"}
    /\ op.state \in Failed

(* RefundWildFlowOperationBilling; an operation that it finds neither      *)
(* refunded nor refundable is a billing state conflict.                    *)
RefundBilling(p) ==
    /\ proc[p].pc = "refund"
    /\ \/ MayRefund /\ op' = [op EXCEPT !.billing = "refunded"]
       \/ ~MayRefund /\ UNCHANGED op
    /\ Goto(p, IF op'.billing = "refunded" THEN "idle" ELSE "recover")
    /\ UNCHANGED <<job, art, recorded, requests, faults>>

(* UpdateWildFlowOperationExecution(..., "recovery_required", ...) after   *)
(* bad artifacts, a conflict, a vanished job or a corrupt download.        *)
MarkRecovery(p) ==
    /\ proc[p].pc = "recover"
    /\ op' = [op EXCEPT !.state = "recovery_required"]
    /\ Done(p)
    /\ UNCHANGED <<job, art, recorded, requests, faults>>

-----------------------------------------------------------------------------
(* ReceiveWildFlowUsageEvent, first transaction: RecordWildFlowUsageEvent. *)
(* An operation bound to another event refuses it; a trial operation is    *)
(* bound to the first one here, any other when it settles.                 *)
RecordUsageEvent(p, e) ==
    /\ proc[p].pc = "idle"
    /\ requests < MaxRequests
    /\ requests' = requests + 1
    /\ op.event \in {NoEvent, e}
    /\ recorded' = recorded \union {e}
    /\ op' = IF TeamTrial THEN [op EXCEPT !.event = e] ELSE op
    /\ Goto(p, "usage")
    /\ UNCHANGED <<job, art, faults>>

(* Its second transaction: SettleWildFlowOperationBillingFromRecordedUsage. *)
SettleFromUsage(p) ==
    /\ proc[p].pc = "usage"
    /\ SettleWildFlowOperationBilling
    /\ Done(p)
    /\ UNCHANGED <<job, art, recorded, requests, faults>>

(* DownloadWildFlowArtifact lets a validated result through ... *)
StartDownload(p) ==
    /\ op.state = "succeeded" /\ op.result # NoResult
    /\ op.billing \in {"reserved", "settled"} \/ TeamTrial
    /\ Arrives(p, "download")
    /\ UNCHANGED <<op, job, art, recorded, faults>>

(* ... and sends it, or finds the content corrupt. *)
FinishDownload(p) ==
    /\ proc[p].pc = "download"
    /\ \/ Done(p)
       \/ Goto(p, "recover")
    /\ UNCHANGED <<op, job, art, recorded, requests, faults>>

(* The process stops or its database call fails. *)
Stop(p) ==
    /\ proc[p].pc # "idle"
    /\ faults < MaxFaults
    /\ faults' = faults + 1
    /\ Done(p)
    /\ UNCHANGED <<op, job, art, recorded, requests>>

-----------------------------------------------------------------------------
(* Steps after a process has been told a job state. *)
Finalize(p) ==
    \/ UpdateExecution(p) \/ PersistResult(p) \/ SettleBilling(p)
    \/ RefundBilling(p) \/ MarkRecovery(p)

Reconcile == ListOperation \/ Polled \/ Finalize(Reconciler)

Next ==
    \/ JobProgress \/ ArtifactsChange
    \/ \E p \in Clients :
         \/ GetJob(p) \/ Fetched(p) \/ FetchedNotFound(p)
         \/ CancelJob(p) \/ Cancelled(p)
         \/ StartDownload(p) \/ FinishDownload(p)
         \/ SettleFromUsage(p)
         \/ Finalize(p)
         \/ \E e \in Events : RecordUsageEvent(p, e)
    \/ Reconcile
    \/ \E p \in Procs : InferenceError(p) \/ SettleConflict(p) \/ Stop(p)

Spec == Init /\ [][Next]_vars

(* The reconciler keeps running.  Client requests may stall anywhere, and  *)
(* the inference service owes nothing.                                     *)
FairSpec == Spec /\ WF_vars(Reconcile)

-----------------------------------------------------------------------------
(* Money is consumed only for delivered work: a settled operation has a    *)
(* validated result, the usage event it was settled with is on record, and *)
(* the job did succeed, whatever stale states were written in between.     *)
SettledIsDelivered ==
    op.billing = "settled" =>
        op.result # NoResult /\ op.event \in recorded /\ job = "succeeded"

(* A refund is only given for a job that did fail, and never after a       *)
(* result was handed out.                                                  *)
RefundedIsUndelivered ==
    op.billing = "refunded" => job \in Failed /\ op.result = NoResult

(* Both: however late the answers that pollers write over each other, the  *)
(* money ends where the work did.                                          *)
BillingFollowsDelivery == SettledIsDelivered /\ RefundedIsUndelivered

(* The first validated result is never replaced, billing never leaves      *)
(* settled or refunded, and once the operation is bound to a usage event   *)
(* neither the event nor the set of recorded events changes: late,         *)
(* repeated or competing polls and events do not charge or deliver twice.  *)
FinalIsFinal ==
    [][/\ op.result # NoResult => op'.result = op.result
       /\ op.billing \in {"settled", "refunded"} => op'.billing = op.billing
       /\ op.event # NoEvent => op'.event = op.event /\ recorded' = recorded]_vars

(* A failed or cancelled job is refunded in the end without any client     *)
(* request, although stale writes can turn a refund into a conflict.       *)
FailedJobRefunded ==
    job \in Failed /\ op.billing \in {"reserved", "refunding"}
        ~> op.billing = "refunded"

(* A succeeded job whose artifacts stay valid and whose usage was recorded *)
(* is settled in the end without any client request.                       *)
DeliveredJobSettled ==
    <>[](job = "succeeded" /\ art # Bad /\ recorded # {} /\ ~TeamTrial)
        => <>(op.billing = "settled")

(* Both: the reconciler closes the reservation of every job that ended.    *)
EndedJobsAreBilled == FailedJobRefunded /\ DeliveredJobSettled

(* The result of a succeeded job with valid artifacts is stored in the end *)
(* without any client request, also for a free trial operation, unless the *)
(* row of the trial operation was left in state pending.                   *)
ResultStored ==
    <>[](job = "succeeded" /\ art # Bad /\ ~(TeamTrial /\ op.state = "pending"))
        => <>(op.result # NoResult)

(* StoreWildFlowOperationResult promises idempotent replays an immutable   *)
(* response.  A stored result may become recovery_required when a download *)
(* finds it corrupt, but a replay never again answers that the job runs.   *)
StoredResultIsReplayed == op.result # NoResult => op.state \notin {"pending", "running"}

(* The job and the reservation as the contract sees them. *)
JobOf == CASE job = "succeeded" -> "succeeded"
           [] job \in Failed    -> "failed"
           [] OTHER             -> "accepted"

BillingOf == CASE op.billing = "refunding" -> "reserved"
               [] op.billing = "pending"   -> "free"
               [] OTHER                    -> op.billing

(* Execution implements the contract of an operation. *)
Contract == INSTANCE WildFlowContract WITH job <- JobOf, billing <- BillingOf

ContractSpec == Contract!Spec
=============================================================================
