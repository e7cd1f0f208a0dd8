------------------------ MODULE WildFlowExecutionProofs ------------------------
(***************************************************************************)
(* Proofs about WildFlowExecution for any number of client requests,       *)
(* events, artifact versions, requests and faults: money follows the job,  *)
(* final facts stay final, and the contract is implemented.                *)
(***************************************************************************)
EXTENDS WildFlowExecution, TLAPS

Terminal == {"succeeded", "failed", "cancelled"}

(* Terminal job states are final at the inference service, so every stale  *)
(* copy of one is still true: in a process, and in the operation row.      *)
ToldTheTruth ==
    \A p \in Procs :
        /\ proc[p].pc = "write" /\ proc[p].state \in Terminal => job = proc[p].state
        /\ proc[p].pc = "persist" => job = "succeeded" /\ proc[p].art # Bad
        /\ proc[p].pc = "refund" => job \in Failed

RowIsTrue ==
    /\ op.state \in Terminal => job = op.state
    /\ op.result # NoResult => job = "succeeded"

MoneyFollowsJob ==
    /\ op.event # NoEvent => op.event \in recorded
    /\ op.billing = "settled" =>
         job = "succeeded" /\ op.result # NoResult /\ op.event # NoEvent
    /\ op.billing \in {"refunding", "refunded"} => job \in Failed
    /\ op.event # NoEvent => op.billing = "settled" \/ TeamTrial
    /\ TeamTrial <=> op.billing = "pending"

IInv == TypeOK /\ ToldTheTruth /\ RowIsTrue /\ MoneyFollowsJob

-----------------------------------------------------------------------------
LEMMA InitIInv == Init => IInv
  <1> SUFFICES ASSUME Init PROVE IInv
    OBVIOUS
  <1> USE ExecutionAssumption DEF Init, Idle, Row, TeamTrial
  <1>1. TypeOK
    BY DEF TypeOK, JobStates, Unfinished, Failed, BillingStates
  <1>2. ToldTheTruth /\ RowIsTrue
    BY DEF ToldTheTruth, RowIsTrue, Terminal
  <1>3. MoneyFollowsJob
    BY DEF MoneyFollowsJob, Failed
  <1> QED
    BY <1>1, <1>2, <1>3 DEF IInv

(* Requests that only start, end or ask: nothing but the process changes.  *)
LEMMA ProcIInv ==
    ASSUME IInv, NEW p \in Procs,
           \/ GetJob(p) \/ Fetched(p) \/ FetchedNotFound(p) \/ CancelJob(p)
           \/ StartDownload(p) \/ FinishDownload(p) \/ InferenceError(p) \/ Stop(p)
           \/ SettleConflict(p) \/ ListOperation \/ Polled
    PROVE  IInv'
  <1> USE ExecutionAssumption
       DEF IInv, TypeOK, ToldTheTruth, RowIsTrue, MoneyFollowsJob, Terminal, Failed,
           JobStates, Unfinished, TeamTrial, Procs, Arrives, Told, Goto, Done, Idle
  <1>1. CASE GetJob(p)
    BY <1>1 DEF GetJob
  <1>2. CASE Fetched(p)
    BY <1>2 DEF Fetched
  <1>3. CASE FetchedNotFound(p)
    BY <1>3 DEF FetchedNotFound
  <1>4. CASE CancelJob(p)
    BY <1>4 DEF CancelJob
  <1>5. CASE StartDownload(p)
    BY <1>5 DEF StartDownload
  <1>6. CASE FinishDownload(p)
    BY <1>6 DEF FinishDownload
  <1>7. CASE InferenceError(p)
    BY <1>7 DEF InferenceError
  <1>8. CASE Stop(p)
    BY <1>8 DEF Stop
  <1>9. CASE ListOperation
    BY <1>9 DEF ListOperation
  <1>10. CASE Polled
    BY <1>10 DEF Polled
  <1>11. CASE SettleConflict(p)
    BY <1>11 DEF SettleConflict
  <1> QED
    BY <1>1, <1>2, <1>3, <1>4, <1>5, <1>6, <1>7, <1>8, <1>9, <1>10, <1>11

(* Steps of the inference service. *)
LEMMA InferenceIInv ==
    ASSUME IInv, NEW p \in Procs, JobProgress \/ ArtifactsChange \/ Cancelled(p)
    PROVE  IInv'
  <1> USE ExecutionAssumption
       DEF IInv, TypeOK, ToldTheTruth, RowIsTrue, MoneyFollowsJob, Terminal, Failed,
           JobStates, Unfinished, TeamTrial
  <1>1. CASE JobProgress
    BY <1>1 DEF JobProgress
  <1>2. CASE ArtifactsChange
    BY <1>2 DEF ArtifactsChange
  <1>3. CASE Cancelled(p)
    BY <1>3 DEF Cancelled, Told
  <1> QED
    BY <1>1, <1>2, <1>3

(* What a settlement leaves in the row. *)
LEMMA SettledRow ==
    ASSUME IInv, MaySettle, SettleWildFlowOperationBilling
    PROVE  /\ op' \in [state : JobStates, billing : BillingStates,
                       result : Versions \union {NoResult}, event : Events \union {NoEvent},
                       trial : BOOLEAN]
           /\ op'.billing = "settled" /\ op'.event \in recorded
           /\ op'.state = op.state /\ op'.result = op.result /\ op'.trial = op.trial
           /\ ~TeamTrial /\ job = "succeeded" /\ op.result # NoResult
  <1>1. PICK e \in recorded : op' = [op EXCEPT !.billing = "settled", !.event = e]
    BY DEF SettleWildFlowOperationBilling
  <1>2. e \in Events
    BY DEF IInv, TypeOK
  <1>3. ~TeamTrial /\ job = "succeeded" /\ op.result # NoResult
    BY DEF IInv, MoneyFollowsJob, RowIsTrue, Terminal, MaySettle
  <1> QED
    BY <1>1, <1>2, <1>3 DEF IInv, TypeOK, BillingStates

(* Steps that write the operation row or the event table. *)
LEMMA WriteIInv ==
    ASSUME IInv, NEW p \in Procs,
           \/ Finalize(p) \/ SettleFromUsage(p)
           \/ \E e \in Events : RecordUsageEvent(p, e)
    PROVE  IInv'
  <1> USE ExecutionAssumption
       DEF IInv, TypeOK, ToldTheTruth, RowIsTrue, MoneyFollowsJob, Terminal, Failed,
           JobStates, Unfinished, TeamTrial, BillingStates, Goto, Done, Idle
  <1>1. CASE UpdateExecution(p)
    BY <1>1 DEF UpdateExecution, FinalizeStep
  <1>2. CASE PersistResult(p)
    BY <1>2 DEF PersistResult
  <1>3. CASE SettleBilling(p)
    <2>1. CASE MaySettle
      <3>1. /\ op'.billing = "settled" /\ op'.event \in recorded
            /\ op'.state = op.state /\ op'.result = op.result /\ op'.trial = op.trial
            /\ ~TeamTrial /\ job = "succeeded" /\ op.result # NoResult
            /\ TypeOK!1'
        BY <1>3, <2>1, SettledRow DEF SettleBilling
      <3>2. /\ proc' = [proc EXCEPT ![p] = [Idle EXCEPT !.pc = "idle"]]
            /\ UNCHANGED <<job, art, recorded, requests, faults>>
        BY <1>3, <3>1 DEF SettleBilling
      <3>3. TypeOK' /\ ToldTheTruth'
        BY <3>1, <3>2
      <3>4. RowIsTrue' /\ MoneyFollowsJob'
        BY <3>1, <3>2
      <3> QED
        BY <3>3, <3>4
    <2>2. CASE ~MaySettle
      <3>1. UNCHANGED <<op, job, art, recorded, requests, faults>>
        BY <1>3, <2>2 DEF SettleBilling, SettleWildFlowOperationBilling
      <3>2. PICK pc \in {"idle", "recover"} : proc' = [proc EXCEPT ![p] = [Idle EXCEPT !.pc = pc]]
        BY <1>3 DEF SettleBilling
      <3> QED
        BY <3>1, <3>2
    <2> QED
      BY <2>1, <2>2
  <1>4. CASE RefundBilling(p)
    BY <1>4 DEF RefundBilling, MayRefund
  <1>5. CASE MarkRecovery(p)
    BY <1>5 DEF MarkRecovery
  <1>6. CASE SettleFromUsage(p)
    <2>1. CASE MaySettle
      <3>1. /\ op'.billing = "settled" /\ op'.event \in recorded
            /\ op'.state = op.state /\ op'.result = op.result /\ op'.trial = op.trial
            /\ ~TeamTrial /\ job = "succeeded" /\ op.result # NoResult
            /\ TypeOK!1'
        BY <1>6, <2>1, SettledRow DEF SettleFromUsage
      <3>2. /\ proc' = [proc EXCEPT ![p] = Idle]
            /\ UNCHANGED <<job, art, recorded, requests, faults>>
        BY <1>6 DEF SettleFromUsage
      <3>3. TypeOK' /\ ToldTheTruth'
        BY <3>1, <3>2
      <3>4. RowIsTrue' /\ MoneyFollowsJob'
        BY <3>1, <3>2
      <3> QED
        BY <3>3, <3>4
    <2>2. CASE ~MaySettle
      <3>1. /\ UNCHANGED <<op, job, art, recorded, requests, faults>>
            /\ proc' = [proc EXCEPT ![p] = Idle]
        BY <1>6, <2>2 DEF SettleFromUsage, SettleWildFlowOperationBilling
      <3> QED
        BY <3>1
    <2> QED
      BY <2>1, <2>2
  <1>7. ASSUME NEW e \in Events, RecordUsageEvent(p, e) PROVE IInv'
    BY <1>7 DEF RecordUsageEvent
  <1> QED
    BY <1>1, <1>2, <1>3, <1>4, <1>5, <1>6, <1>7 DEF Finalize

LEMMA NextIInv == IInv /\ [Next]_vars => IInv'
  <1> SUFFICES ASSUME IInv, [Next]_vars PROVE IInv'
    OBVIOUS
  <1>1. CASE Next
    BY <1>1, ProcIInv, InferenceIInv, WriteIInv DEF Next, Reconcile, Procs
  <1>2. CASE UNCHANGED vars
    BY <1>2 DEF vars, IInv, TypeOK, ToldTheTruth, RowIsTrue, MoneyFollowsJob, TeamTrial
  <1> QED
    BY <1>1, <1>2

(* Type correctness and the strengthening that ties the row, the stale     *)
(* copies in processes and the reservation to the job.                     *)
THEOREM ExecutionInvariant == Spec => []IInv
  BY InitIInv, NextIInv, PTL DEF Spec

(* The operation row, the job and the processes keep their types.          *)
THEOREM ExecutionTypeOK == Spec => []TypeOK
  BY ExecutionInvariant, PTL DEF IInv

(* Settled operations were delivered, for any number of concurrent pollers *)
(* and whatever stale states they write.                                   *)
THEOREM MoneyFollowsDelivery == Spec => []SettledIsDelivered
  <1>1. IInv => SettledIsDelivered
    BY DEF IInv, MoneyFollowsJob, RowIsTrue, SettledIsDelivered
  <1> QED
    BY <1>1, ExecutionInvariant, PTL

(* Refunded operations were not delivered, for any number of concurrent    *)
(* pollers and whatever stale states they write.                           *)
THEOREM RefundFollowsFailure == Spec => []RefundedIsUndelivered
  <1>1. IInv => RefundedIsUndelivered
    BY DEF IInv, MoneyFollowsJob, RowIsTrue, RefundedIsUndelivered, Failed
  <1> QED
    BY <1>1, ExecutionInvariant, PTL

(* Billing follows the job: both of the above. *)
THEOREM BillingFollows == Spec => []BillingFollowsDelivery
  BY MoneyFollowsDelivery, RefundFollowsFailure, PTL DEF BillingFollowsDelivery

-----------------------------------------------------------------------------
(* A stored result, a final billing state and a bound usage event never    *)
(* change again.                                                           *)
THEOREM FinalIsFinalTheorem == Spec => FinalIsFinal
  <1> DEFINE Kept ==
        /\ op.result # NoResult => op'.result = op.result
        /\ op.billing \in {"settled", "refunded"} => op'.billing = op.billing
        /\ op.event # NoEvent => op'.event = op.event /\ recorded' = recorded
  <1>1. ASSUME IInv, [Next]_vars PROVE [Kept]_vars
    <2> SUFFICES ASSUME Next PROVE Kept
      BY <1>1
    <2>1. ASSUME UNCHANGED <<op, recorded>> PROVE Kept
      BY <2>1
    <2>2. ASSUME NEW p \in Procs, UpdateExecution(p) \/ MarkRecovery(p) PROVE Kept
      BY <1>1, <2>2 DEF UpdateExecution, MarkRecovery, IInv, TypeOK
    <2>3. ASSUME NEW p \in Procs, PersistResult(p) PROVE Kept
      BY <1>1, <2>3 DEF PersistResult, IInv, TypeOK
    <2>4. ASSUME SettleWildFlowOperationBilling, UNCHANGED recorded PROVE Kept
      BY <1>1, <2>4 DEF SettleWildFlowOperationBilling, MaySettle, IInv, TypeOK,
              MoneyFollowsJob
    <2>5. ASSUME NEW p \in Procs, RefundBilling(p) PROVE Kept
      BY <1>1, <2>5 DEF RefundBilling, MayRefund, IInv, TypeOK
    <2>6. ASSUME NEW p \in Procs, NEW e \in Events, RecordUsageEvent(p, e) PROVE Kept
      BY <1>1, <2>6 DEF RecordUsageEvent, IInv, TypeOK, MoneyFollowsJob, TeamTrial
    <2>7. ASSUME NEW p \in Procs, Finalize(p) \/ SettleFromUsage(p) PROVE Kept
      BY <2>2, <2>3, <2>4, <2>5, <2>7 DEF Finalize, SettleBilling, SettleFromUsage
    <2>8. ASSUME NEW p \in Procs,
                 \/ GetJob(p) \/ Fetched(p) \/ FetchedNotFound(p) \/ CancelJob(p)
                 \/ Cancelled(p) \/ StartDownload(p) \/ FinishDownload(p)
                 \/ InferenceError(p) \/ SettleConflict(p) \/ Stop(p)
          PROVE  UNCHANGED <<op, recorded>>
      BY <2>8 DEF GetJob, Fetched, FetchedNotFound, CancelJob, Cancelled, StartDownload,
              FinishDownload, InferenceError, SettleConflict, Stop
    <2>9. ASSUME JobProgress \/ ArtifactsChange \/ ListOperation \/ Polled
          PROVE  UNCHANGED <<op, recorded>>
      BY <2>9 DEF JobProgress, ArtifactsChange, ListOperation, Polled
    <2> QED
      BY <2>1, <2>6, <2>7, <2>8, <2>9 DEF Next, Reconcile, Procs
  <1> QED
    BY <1>1, ExecutionInvariant, PTL DEF Spec, FinalIsFinal

-----------------------------------------------------------------------------
LEMMA ContractInit == Init => Contract!Init
  BY ExecutionAssumption DEF Init, Row, TeamTrial, Contract!Init, JobOf, BillingOf, Failed

(* Each step is a step of the contract's job, a step of its billing, or    *)
(* invisible to it.                                                        *)
LEMMA ContractStep == IInv /\ [Next]_vars => [Contract!Next]_Contract!vars
  <1> SUFFICES ASSUME IInv, [Next]_vars PROVE [Contract!Next]_Contract!vars
    OBVIOUS
  <1> USE DEF Contract!Next, Contract!vars
  <1>1. ASSUME UNCHANGED job, op'.billing = op.billing PROVE UNCHANGED Contract!vars
    BY <1>1 DEF JobOf, BillingOf
  <1>2. ASSUME job \in Unfinished, job' \in JobStates, UNCHANGED op
        PROVE  [Contract!Finish]_Contract!vars
    BY <1>2 DEF Contract!Finish, JobOf, BillingOf, JobStates, Unfinished, Failed
  <1>3. ASSUME SettleWildFlowOperationBilling, UNCHANGED job
        PROVE  [Contract!Settle]_Contract!vars
    <2>1. CASE MaySettle
      <3>1. job = "succeeded"
        BY <2>1 DEF MaySettle, IInv, RowIsTrue
      <3>2. JobOf = "succeeded" /\ JobOf' = "succeeded"
        BY <1>3, <3>1 DEF JobOf, Failed
      <3>3. op.billing = "reserved" /\ op'.billing = "settled"
        BY <1>3, <2>1 DEF SettleWildFlowOperationBilling, MaySettle, IInv, TypeOK
      <3> QED
        BY <3>2, <3>3 DEF Contract!Settle, BillingOf
    <2>2. CASE ~MaySettle
      BY <1>1, <1>3, <2>2 DEF SettleWildFlowOperationBilling
    <2> QED
      BY <2>1, <2>2
  <1>4. ASSUME NEW p \in Procs, RefundBilling(p)
        PROVE  [Contract!Refund]_Contract!vars
    <2>1. CASE MayRefund
      <3>1. JobOf = "failed" /\ JobOf' = JobOf
        BY <1>4, <2>1 DEF RefundBilling, MayRefund, JobOf, IInv, RowIsTrue, Terminal, Failed
      <3>2. BillingOf = "reserved" /\ op'.billing = "refunded"
        BY <1>4, <2>1 DEF RefundBilling, MayRefund, BillingOf, IInv, TypeOK
      <3> QED
        BY <3>1, <3>2 DEF Contract!Refund, BillingOf
    <2>2. CASE ~MayRefund
      BY <1>1, <1>4, <2>2 DEF RefundBilling
    <2> QED
      BY <2>1, <2>2
  <1>5. ASSUME NEW p \in Procs,
               \/ UpdateExecution(p) \/ PersistResult(p) \/ MarkRecovery(p)
               \/ \E e \in Events : RecordUsageEvent(p, e)
        PROVE  UNCHANGED Contract!vars
    <2>1. UNCHANGED job
      BY <1>5 DEF UpdateExecution, PersistResult, MarkRecovery, RecordUsageEvent
    <2>2. op'.billing = op.billing
      BY <1>5 DEF UpdateExecution, PersistResult, MarkRecovery, RecordUsageEvent, IInv,
              TypeOK
    <2> QED
      BY <1>1, <2>1, <2>2
  <1>6. ASSUME NEW p \in Procs, SettleBilling(p) \/ SettleFromUsage(p)
        PROVE  [Contract!Settle]_Contract!vars
    BY <1>3, <1>6 DEF SettleBilling, SettleFromUsage
  <1>7. ASSUME NEW p \in Procs,
               \/ GetJob(p) \/ Fetched(p) \/ FetchedNotFound(p) \/ CancelJob(p)
               \/ StartDownload(p) \/ FinishDownload(p) \/ InferenceError(p)
               \/ SettleConflict(p) \/ Stop(p)
               \/ ArtifactsChange \/ ListOperation \/ Polled
        PROVE  UNCHANGED Contract!vars
    BY <1>1, <1>7 DEF GetJob, Fetched, FetchedNotFound, CancelJob, StartDownload,
            FinishDownload, InferenceError, SettleConflict, Stop, ArtifactsChange, ListOperation, Polled
  <1>8. ASSUME JobProgress PROVE [Contract!Next]_Contract!vars
    BY <1>2, <1>8 DEF JobProgress
  <1>9. ASSUME NEW p \in Procs, Cancelled(p) PROVE [Contract!Next]_Contract!vars
    BY <1>1, <1>2, <1>9 DEF Cancelled, JobStates, Unfinished, Failed
  <1>10. CASE UNCHANGED vars
    BY <1>1, <1>10 DEF vars
  <1>11. CASE Next
    BY <1>4, <1>5, <1>6, <1>7, <1>8, <1>9, <1>11 DEF Next, Reconcile, Finalize, Procs
  <1> QED
    BY <1>10, <1>11

(* Execution implements the contract, whatever the pollers, the usage      *)
(* receiver and the reconciler do to each other's writes.                  *)
THEOREM ExecutionImplementsContract == Spec => ContractSpec
  BY ExecutionInvariant, ContractInit, ContractStep, PTL
     DEF Spec, ContractSpec, Contract!Spec
=============================================================================
