-------------------------- MODULE WildFlowSubmission --------------------------
(***************************************************************************)
(* Submission of one WildFlow operation to the inference service           *)
(* (createWildFlowJob, model/wildflow_submission.go).                      *)
(*                                                                         *)
(* Any number of HTTP handlers, on any number of nodes, work on the same   *)
(* operation because its Idempotency-Key was replayed.  A handler claims   *)
(* the operation under a lease, reserves quota, marks the operation        *)
(* submitting, sends the job request and records the outcome; each of      *)
(* these is a transaction of its own and the handler may stop between any  *)
(* two.  A request whose answer was lost may still be on the wire.  The    *)
(* reconciler of the master node (and a replayed request) resolves what    *)
(* handlers leave behind.                                                  *)
(*                                                                         *)
(* Time enters only as two events, the lease running out and the retry     *)
(* deadline passing, which may happen at any moment.  The pair (owner,     *)
(* lease token) is fresh for every request; here it is the handler that    *)
(* claimed last.                                                           *)
(***************************************************************************)

CONSTANTS
    Handlers,     \* requests in progress that carry this Idempotency-Key
    NoHandler,    \* the empty submission_owner / submission_lease_token
    TeamTrial     \* TRUE for an internal trial offering, which is free

ASSUME SubmissionAssumption ==
    /\ NoHandler \notin Handlers
    /\ TeamTrial \in BOOLEAN

VARIABLES
    op,        \* the operation row: state, submission_phase, owner, job_id, billing_state
    lease,     \* submission_lease_expires_at against the clock
    retry,     \* submission_retry_until against the clock
    hnd,       \* hnd[h]: program counter and billing snapshot of a handler
    wire,      \* a job request whose sender is gone may still arrive
    accepted   \* the inference service has accepted the job

vars == <<op, lease, retry, hnd, wire, accepted>>

Phases == {"blank", "prepared", "submitting", "retryable", "accepted", "failed",
           "recovery_required"}

BillingStates == {"pending", "reserved", "refunded"}

(* State "accepted" stands for whatever job state the service reported. *)
TypeOK ==
    /\ op \in [state : {"absent", "submitting", "accepted", "failed",
                        "recovery_required"},
               phase : Phases,
               owner : Handlers \union {NoHandler},
               hasJob : BOOLEAN,
               billing : BillingStates]
    /\ lease \in {"none", "live", "expired"}
    /\ retry \in {"none", "open", "passed"}
    /\ hnd \in [Handlers -> [pc : {"idle", "claim", "reserve", "begin", "submit",
                                   "retry", "recover", "complete"},
                             billing : BillingStates]]
    /\ wire \in BOOLEAN
    /\ accepted \in BOOLEAN

-----------------------------------------------------------------------------
Row(s, ph, b) == [state |-> s, phase |-> ph, owner |-> NoHandler,
                  hasJob |-> FALSE, billing |-> b]

Idle == [pc |-> "idle", billing |-> "pending"]

(* There is no row yet, or a release without submission phases left one    *)
(* in state submitting, with or without a reservation, and a job request   *)
(* may be under way for a paid (or free) one.                              *)
Init ==
    /\ op \in {Row("absent", "blank", "pending"),
               Row("submitting", "blank", "pending"),
               Row("submitting", "blank", "reserved")}
    /\ TeamTrial => op.billing = "pending"
    /\ wire \in BOOLEAN
    /\ wire => /\ op.state = "submitting"
               /\ op.billing = "reserved" \/ TeamTrial
    /\ lease = "none" /\ retry = "none"
    /\ hnd = [h \in Handlers |-> Idle]
    /\ accepted = FALSE

Goto(h, pc) == hnd' = [hnd EXCEPT ![h].pc = pc]

Done(h) == hnd' = [hnd EXCEPT ![h] = Idle]

-----------------------------------------------------------------------------
(* PrepareWildFlowOperation inserts the row; the unique index on (user,    *)
(* key) lets one of several racing handlers win.                           *)
CreateOperation(h) ==
    /\ hnd[h].pc = "idle"
    /\ op.state = "absent"
    /\ op' = Row("submitting", "prepared", "pending")
    /\ retry' = "open"
    /\ Goto(h, "claim")
    /\ UNCHANGED <<lease, wire, accepted>>

(* writeWildFlowExistingOperationReplay does not answer the request: the   *)
(* operation looked free to be submitted when it was read.                 *)
LooksUnclaimed ==
    /\ op.state = "submitting" /\ ~op.hasJob
    /\ op.phase \in {"blank", "prepared", "retryable"}
    /\ op.owner = NoHandler \/ lease = "expired"

(* A handler found the row of an earlier request. *)
ReplayOperation(h) ==
    /\ hnd[h].pc = "idle"
    /\ LooksUnclaimed
    /\ Goto(h, "claim")
    /\ UNCHANGED <<op, lease, retry, wire, accepted>>

Claimable ==
    /\ op.state = "submitting" /\ ~op.hasJob
    /\ op.phase \in {"prepared", "retryable"}
    /\ retry # "passed"
    /\ op.owner = NoHandler \/ lease = "expired"

(* ClaimWildFlowOperationSubmission; the row it returns is the handler's   *)
(* snapshot from here on.                                                  *)
ClaimSubmission(h) ==
    /\ hnd[h].pc = "claim"
    /\ Claimable
    /\ op' = [op EXCEPT !.phase = "prepared", !.owner = h]
    /\ lease' = "live"
    /\ hnd' = [hnd EXCEPT ![h] = [pc |-> "reserve", billing |-> op.billing]]
    /\ UNCHANGED <<retry, wire, accepted>>

ClaimRefused(h) ==
    /\ hnd[h].pc = "claim"
    /\ ~Claimable
    /\ Done(h)
    /\ UNCHANGED <<op, lease, retry, wire, accepted>>

(* Faulty variant: the error of the reservation is ignored. *)
FaultyReserveFailed(h) ==
    /\ hnd[h].pc = "reserve"
    /\ Goto(h, "begin")
    /\ UNCHANGED <<op, lease, retry, wire, accepted>>

(* newWildFlowInferenceClient fails, or ReserveWildFlowOperationBilling    *)
(* does: insufficient quota, a quote that no longer matches, a refunded    *)
(* operation.                                                              *)
ReserveFailed(h) ==
    /\ hnd[h].pc = "reserve"
    /\ Goto(h, "retry")
    /\ UNCHANGED <<op, lease, retry, wire, accepted>>

(* ReserveWildFlowOperationBilling.  It looks at the snapshot first; the   *)
(* transaction then reserves a pending operation whatever its state, and   *)
(* accepts one that is already reserved.                                   *)
ReserveBilling(h) ==
    /\ hnd[h].pc = "reserve"
    /\ \/ /\ TeamTrial \/ hnd[h].billing = "reserved"
          /\ UNCHANGED op
       \/ /\ ~TeamTrial /\ hnd[h].billing # "reserved"
          /\ op.billing \in {"pending", "reserved"}
          /\ op' = [op EXCEPT !.billing = "reserved"]
    /\ Goto(h, "begin")
    /\ UNCHANGED <<lease, retry, wire, accepted>>

(* Faulty variant: the lease is not checked again before the request. *)
FaultyMayBegin(h) ==
    op.state = "submitting" /\ op.phase \in {"prepared", "submitting"}

MayBegin(h) ==
    /\ op.state = "submitting" /\ ~op.hasJob
    /\ op.phase = "prepared"
    /\ op.owner = h
    /\ lease = "live"

(* BeginWildFlowOperationSubmission; from here on the job request is on    *)
(* its way.                                                                *)
BeginSubmission(h) ==
    /\ hnd[h].pc = "begin"
    /\ MayBegin(h)
    /\ op' = [op EXCEPT !.phase = "submitting"]
    /\ Goto(h, "submit")
    /\ UNCHANGED <<lease, retry, wire, accepted>>

BeginLeaseLost(h) ==
    /\ hnd[h].pc = "begin"
    /\ ~MayBegin(h)
    /\ Done(h)
    /\ UNCHANGED <<op, lease, retry, wire, accepted>>

(* client.SubmitJob returns the job. *)
SubmitAccepted(h) ==
    /\ hnd[h].pc = "submit"
    /\ accepted' = TRUE
    /\ Goto(h, "complete")
    /\ UNCHANGED <<op, lease, retry, wire>>

(* client.SubmitJob returns a RetryableError: the service answered 429 or  *)
(* 503, so there is no job.                                                *)
SubmitRefused(h) ==
    /\ hnd[h].pc = "submit"
    /\ Goto(h, "retry")
    /\ UNCHANGED <<op, lease, retry, wire, accepted>>

(* client.SubmitJob fails in any other way: the request was lost, or it    *)
(* may still arrive.                                                       *)
SubmitUnknown(h) ==
    /\ hnd[h].pc = "submit"
    /\ wire' \in BOOLEAN
    /\ Goto(h, "recover")
    /\ UNCHANGED <<op, lease, retry, accepted>>

-----------------------------------------------------------------------------
(* Faulty variant: a released row counts as the handler's own. *)
FaultyOwnsLease(h, phases) == op.owner \in {h, NoHandler}

(* transitionWildFlowSubmissionLease: the row must still carry the         *)
(* handler's owner and token; whether the lease has run out is not asked.  *)
OwnsLease(h, phases) == op.owner = h /\ op.phase \in phases

Release(s, ph) == [op EXCEPT !.state = s, !.phase = ph, !.owner = NoHandler]

(* Faulty variant: every refusal starts a new retry window. *)
FaultyRetryDeadline == "open"

(* The earlier of the two retry deadlines is kept. *)
KeepRetryDeadline == IF retry = "none" THEN "open" ELSE retry

(* MarkWildFlowOperationSubmissionRetryable *)
MarkRetryable(h) ==
    /\ hnd[h].pc = "retry"
    /\ \/ /\ OwnsLease(h, {"prepared", "submitting"})
          /\ op' = Release("submitting", "retryable")
          /\ lease' = "none"
          /\ retry' = KeepRetryDeadline
       \/ /\ ~OwnsLease(h, {"prepared", "submitting"})
          /\ UNCHANGED <<op, lease, retry>>
    /\ Done(h)
    /\ UNCHANGED <<wire, accepted>>

(* MarkWildFlowOperationSubmissionRecoveryRequired *)
MarkRecoveryRequired(h) ==
    /\ hnd[h].pc = "recover"
    /\ \/ /\ OwnsLease(h, {"submitting"})
          /\ op' = Release("recovery_required", "recovery_required")
          /\ lease' = "none"
       \/ /\ ~OwnsLease(h, {"submitting"})
          /\ UNCHANGED <<op, lease>>
    /\ Done(h)
    /\ UNCHANGED <<retry, wire, accepted>>

(* CompleteWildFlowOperationSubmission; what follows for the accepted job  *)
(* is in WildFlowExecution.                                                *)
CompleteSubmission(h) ==
    /\ hnd[h].pc = "complete"
    /\ \/ /\ OwnsLease(h, {"submitting"})
          /\ op' = [Release("accepted", "accepted") EXCEPT !.hasJob = TRUE]
          /\ lease' = "none" /\ retry' = "none"
       \/ /\ ~OwnsLease(h, {"submitting"})
          /\ UNCHANGED <<op, lease, retry>>
    /\ Done(h)
    /\ UNCHANGED <<wire, accepted>>

(* The handler's process stops, its client goes away, or a database call   *)
(* fails.  A job request it has sent may still arrive.                     *)
Stop(h) ==
    /\ hnd[h].pc # "idle"
    /\ \/ hnd[h].pc = "submit" /\ wire' \in BOOLEAN
       \/ hnd[h].pc # "submit" /\ UNCHANGED wire
    /\ Done(h)
    /\ UNCHANGED <<op, lease, retry, accepted>>

-----------------------------------------------------------------------------
(* A request without a sender arrives, or is dropped. *)
LateAccept ==
    /\ wire
    /\ wire' = FALSE /\ accepted' = TRUE
    /\ UNCHANGED <<op, lease, retry, hnd>>

LateLoss ==
    /\ wire
    /\ wire' = FALSE
    /\ UNCHANGED <<op, lease, retry, hnd, accepted>>

LeaseExpires ==
    /\ lease = "live"
    /\ lease' = "expired"
    /\ UNCHANGED <<op, retry, hnd, wire, accepted>>

RetryDeadlinePasses ==
    /\ retry = "open"
    /\ retry' = "passed"
    /\ UNCHANGED <<op, lease, hnd, wire, accepted>>

(* reconcileWildFlowSubmissionCandidates, one action per case. *)
ReconcileLegacy ==
    /\ op.state = "submitting" /\ op.phase = "blank"
    /\ op' = Release("recovery_required", "recovery_required")
    /\ lease' = "none"
    /\ UNCHANGED <<retry, hnd, wire, accepted>>

(* Faulty variant: a submission whose handler stopped counts as failed. *)
FaultyReconcileLease ==
    /\ op.state = "submitting" /\ op.phase = "submitting"
    /\ lease = "expired"
    /\ op' = Release("failed", "failed")
    /\ lease' = "none"
    /\ UNCHANGED <<retry, hnd, wire, accepted>>

ReconcileExpiredLease ==
    /\ op.state = "submitting" /\ op.phase = "submitting"
    /\ lease = "expired"
    /\ op' = Release("recovery_required", "recovery_required")
    /\ lease' = "none"
    /\ UNCHANGED <<retry, hnd, wire, accepted>>

(* Faulty variant: prepared operations are not looked for. *)
FaultyReconcileRetry ==
    /\ op.state = "submitting" /\ op.phase = "retryable"
    /\ retry = "passed"
    /\ op' = Release("failed", "failed")
    /\ lease' = "none"
    /\ UNCHANGED <<retry, hnd, wire, accepted>>

ReconcileRetryExpired ==
    /\ op.state = "submitting" /\ op.phase \in {"prepared", "retryable"}
    /\ retry = "passed"
    /\ op' = Release("failed", "failed")
    /\ lease' = "none"
    /\ UNCHANGED <<retry, hnd, wire, accepted>>

(* Faulty variants: an operation whose outcome is unknown is refunded too; *)
(* a failed one is looked for in the wrong phase.                          *)
FaultyRefundUnknown ==
    /\ op.state \in {"failed", "recovery_required"}
    /\ op.billing = "reserved"
    /\ op' = [op EXCEPT !.billing = "refunded"]
    /\ UNCHANGED <<lease, retry, hnd, wire, accepted>>

FaultyRefundPhase ==
    /\ op.state = "failed" /\ op.phase = "retryable"
    /\ op.billing = "reserved"
    /\ op' = [op EXCEPT !.billing = "refunded"]
    /\ UNCHANGED <<lease, retry, hnd, wire, accepted>>

(* RefundWildFlowOperationBilling for a submission that has failed. *)
RefundFailed ==
    /\ op.state = "failed" /\ op.phase = "failed"
    /\ op.billing = "reserved"
    /\ op' = [op EXCEPT !.billing = "refunded"]
    /\ UNCHANGED <<lease, retry, hnd, wire, accepted>>

Reconcile ==
    \/ ReconcileLegacy \/ ReconcileExpiredLease
    \/ ReconcileRetryExpired \/ RefundFailed

Next ==
    \/ \E h \in Handlers :
         \/ CreateOperation(h) \/ ReplayOperation(h)
         \/ ClaimSubmission(h) \/ ClaimRefused(h)
         \/ ReserveFailed(h) \/ ReserveBilling(h)
         \/ BeginSubmission(h) \/ BeginLeaseLost(h)
         \/ SubmitAccepted(h) \/ SubmitRefused(h) \/ SubmitUnknown(h)
         \/ MarkRetryable(h) \/ MarkRecoveryRequired(h) \/ CompleteSubmission(h)
         \/ Stop(h)
    \/ LateAccept \/ LateLoss
    \/ LeaseExpires \/ RetryDeadlinePasses
    \/ Reconcile

Spec == Init /\ [][Next]_vars

(* The clock advances and the reconciler ticks for as long as the service  *)
(* runs.  Nothing is assumed of handlers: each may stop anywhere.          *)
FairSpec ==
    /\ Spec
    /\ WF_vars(LeaseExpires)
    /\ WF_vars(RetryDeadlinePasses)
    /\ WF_vars(Reconcile)

-----------------------------------------------------------------------------
(* A job request of this operation is under way. *)
InFlight == wire \/ \E h \in Handlers : hnd[h].pc = "submit"

(* However leases run out and handlers overlap, at most one job request of *)
(* an operation is outstanding, and none is sent once one was accepted:    *)
(* BeginWildFlowOperationSubmission is what keeps a superseded handler     *)
(* from calling SubmitJob.                                                 *)
OneRequest ==
    /\ \A h, g \in Handlers :
         hnd[h].pc = "submit" /\ hnd[g].pc = "submit" => h = g
    /\ \A h \in Handlers : hnd[h].pc = "submit" => ~wire /\ ~accepted
    /\ ~(wire /\ accepted)

(* Work that exists or may come to exist is paid for, and its reservation  *)
(* is not given back: the billing snapshot that lets a handler skip the    *)
(* reservation is never stale when its request goes out.                   *)
NoUnpaidJob == InFlight \/ accepted => op.billing = "reserved" \/ TeamTrial

(* When the operation is reported failed (and refunded), no job was        *)
(* accepted and none can still be: an unknown outcome goes to              *)
(* recovery_required instead.                                              *)
FailedHasNoJob == op.state = "failed" => ~InFlight /\ ~accepted

(* The retry window is bounded: once its deadline has passed no refusal by *)
(* the service reopens it and no handler gets the lease.                   *)
RetryWindowCloses ==
    [][retry = "passed" => /\ retry' # "open"
                           /\ op'.owner \in {op.owner, NoHandler}]_vars

(* WildFlowExecution takes over a row with a job id.  It may rely on a job *)
(* the service holds and no second request on its way, on a reservation    *)
(* (none for a trial), and on no submission handler, replay or submission  *)
(* reconciler, however late, changing the row any more.                    *)
AcceptedIsHandedOver ==
    [][/\ op'.hasJob => /\ op'.state = "accepted" /\ accepted' /\ ~InFlight'
                        /\ op'.billing = IF TeamTrial THEN "pending" ELSE "reserved"
       /\ op.hasJob => UNCHANGED <<op, lease, retry, wire, accepted>>]_vars

(* Every submission ends, even when every handler dies, and ends either    *)
(* accepted, failed or recovery_required.                                  *)
SubmissionEnds == op.state = "submitting" ~> op.state # "submitting"

(* A failed submission is refunded in the end, a reservation that a        *)
(* superseded handler makes after the failure included.                    *)
FailedIsRefunded ==
    op.state = "failed" /\ op.billing = "reserved" ~> op.billing = "refunded"

(* What the inference service holds for the operation. *)
JobOf == IF accepted THEN "accepted" ELSE IF InFlight THEN "sent" ELSE "none"

(* A trial operation stays pending; to the contract it is free. *)
BillingOf == IF TeamTrial THEN "free" ELSE op.billing

(* Submission implements the contract of an operation. *)
Contract == INSTANCE WildFlowContract WITH job <- JobOf, billing <- BillingOf

ContractSpec == Contract!Spec
=============================================================================
