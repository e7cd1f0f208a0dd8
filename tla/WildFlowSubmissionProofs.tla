----------------------- MODULE WildFlowSubmissionProofs -----------------------
(***************************************************************************)
(* Proofs about WildFlowSubmission for any set of handlers: the inductive  *)
(* invariant behind its safety properties, what it leaves to               *)
(* WildFlowExecution, and that it implements WildFlowContract.             *)
(***************************************************************************)
EXTENDS WildFlowSubmission, TLAPS

RowType == [state : {"absent", "submitting", "accepted", "failed",
                     "recovery_required"},
            phase : Phases,
            owner : Handlers \union {NoHandler},
            hasJob : BOOLEAN,
            billing : BillingStates]

(* How state, phase, owner and billing of the row hang together. *)
RowShape ==
    /\ op.state = "absent" => op.phase = "blank" /\ op.billing = "pending" /\ retry = "none"
    /\ op.state = "failed" <=> op.phase = "failed"
    /\ op.phase \in {"prepared", "submitting", "retryable"} => op.state = "submitting"
    /\ op.owner # NoHandler => op.phase \in {"prepared", "submitting"}
    /\ op.billing = "refunded" => op.state = "failed"
    /\ TeamTrial => op.billing = "pending"

(* What a handler's program counter says about the row while the handler   *)
(* is its owner, or once its request is out.                               *)
HandlerShape ==
    \A h \in Handlers :
        /\ hnd[h].pc # "idle" => op.state # "absent"
        /\ hnd[h].pc \in {"reserve", "begin"} /\ op.owner = h => op.phase = "prepared"
        /\ hnd[h].pc = "reserve" /\ hnd[h].billing = "reserved" /\ op.owner = h
             => op.billing = "reserved"
        /\ hnd[h].pc = "begin" /\ op.owner = h => op.billing = "reserved" \/ TeamTrial
        /\ hnd[h].pc = "submit" => \/ op.phase = "submitting" /\ op.owner = h
                                   \/ op.phase = "recovery_required"
        /\ hnd[h].pc = "retry" /\ op.owner = h /\ op.phase = "submitting"
             => ~wire /\ ~accepted

(* A row whose job exists, or may come to exist, is out of reach of a new  *)
(* claim and of the reconciler's failure branch.                           *)
WorkShape ==
    wire \/ accepted =>
        /\ op.phase \in {"blank", "submitting", "accepted", "recovery_required"}
        /\ op.state # "absent"

IInv == TypeOK /\ RowShape /\ HandlerShape /\ WorkShape /\ OneRequest /\ NoUnpaidJob

-----------------------------------------------------------------------------
(* The columns that releasing the lease leaves and changes. *)
LEMMA ReleaseFacts ==
    ASSUME TypeOK, NEW s \in {"submitting", "accepted", "failed", "recovery_required"},
           NEW ph \in Phases, NEW j \in BOOLEAN,
           op' = [Release(s, ph) EXCEPT !.hasJob = j]
    PROVE  /\ op' \in RowType
           /\ op'.state = s /\ op'.phase = ph /\ op'.owner = NoHandler
           /\ op'.billing = op.billing
  BY DEF TypeOK, RowType, Release

LEMMA ReleaseKeepsJob ==
    ASSUME TypeOK, NEW s \in {"submitting", "accepted", "failed", "recovery_required"},
           NEW ph \in Phases, op' = Release(s, ph)
    PROVE  /\ op' \in RowType
           /\ op'.state = s /\ op'.phase = ph /\ op'.owner = NoHandler
           /\ op'.billing = op.billing
  BY DEF TypeOK, RowType, Release

(* A handler that is done is idle; the others are where they were. *)
LEMMA DoneFacts ==
    ASSUME TypeOK, NEW h \in Handlers, Done(h)
    PROVE  /\ TypeOK!4'
           /\ hnd'[h].pc = "idle"
           /\ \A g \in Handlers : g # h => hnd'[g] = hnd[g]
  BY DEF TypeOK, Done, Idle, BillingStates

LEMMA InitIInv == Init => IInv
  <1> SUFFICES ASSUME Init PROVE IInv
    OBVIOUS
  <1> USE SubmissionAssumption DEF Init, Row, Idle
  <1>1. TypeOK
    <2>1. wire \in BOOLEAN /\ accepted \in BOOLEAN
      BY Zenon
    <2>2. op \in RowType
      <3>1. PICK s \in {"absent", "submitting"}, b \in {"pending", "reserved"} :
              op = Row(s, "blank", b)
        BY Zenon
      <3> QED
        BY <3>1 DEF RowType, Phases, BillingStates
    <2>3. hnd \in [Handlers -> [pc : {"idle", "claim", "reserve", "begin", "submit",
                                     "retry", "recover", "complete"},
                               billing : BillingStates]]
      BY DEF BillingStates
    <2> QED
      BY <2>1, <2>2, <2>3 DEF TypeOK, RowType
  <1>2. RowShape
    BY DEF RowShape
  <1>3. HandlerShape /\ OneRequest
    BY DEF HandlerShape, OneRequest
  <1>4. WorkShape /\ NoUnpaidJob
    BY DEF WorkShape, NoUnpaidJob, InFlight
  <1> QED
    BY <1>1, <1>2, <1>3, <1>4 DEF IInv

(* No step of a handler disturbs the invariant. *)
LEMMA HandlerIInv ==
    ASSUME IInv, NEW h \in Handlers,
           \/ CreateOperation(h) \/ ReplayOperation(h)
           \/ ClaimSubmission(h) \/ ClaimRefused(h)
           \/ ReserveFailed(h) \/ ReserveBilling(h)
           \/ BeginSubmission(h) \/ BeginLeaseLost(h)
           \/ SubmitAccepted(h) \/ SubmitRefused(h) \/ SubmitUnknown(h)
           \/ MarkRetryable(h) \/ MarkRecoveryRequired(h) \/ CompleteSubmission(h)
           \/ Stop(h)
    PROVE  IInv'
  <1> USE SubmissionAssumption
       DEF IInv, TypeOK, Phases, BillingStates, RowShape, HandlerShape, WorkShape,
           OneRequest, NoUnpaidJob, InFlight, Goto, Done, Idle
  <1>1. CASE CreateOperation(h)
    BY <1>1 DEF CreateOperation, Row
  <1>2. CASE ReplayOperation(h)
    BY <1>2 DEF ReplayOperation, LooksUnclaimed
  <1>3. CASE ClaimSubmission(h)
    BY <1>3 DEF ClaimSubmission, Claimable
  <1>4. CASE ClaimRefused(h)
    BY <1>4 DEF ClaimRefused
  <1>5. CASE ReserveFailed(h)
    BY <1>5 DEF ReserveFailed
  <1>6. CASE ReserveBilling(h)
    <2>1. CASE TeamTrial \/ hnd[h].billing = "reserved"
      BY <1>6, <2>1 DEF ReserveBilling
    <2>2. CASE ~TeamTrial /\ hnd[h].billing # "reserved"
      <3>1. /\ op' \in RowType /\ op'.billing = "reserved"
            /\ op'.state = op.state /\ op'.phase = op.phase /\ op'.owner = op.owner
            /\ op.billing \in {"pending", "reserved"}
        BY <1>6, <2>2 DEF ReserveBilling, RowType
      <3>2. /\ TypeOK!4'
            /\ hnd[h].pc = "reserve" /\ hnd'[h].pc = "begin"
            /\ \A g \in Handlers : g # h => hnd'[g] = hnd[g]
            /\ UNCHANGED <<lease, retry, wire, accepted>>
        BY <1>6 DEF ReserveBilling
      <3>3. TypeOK'
        BY <3>1, <3>2 DEF RowType
      <3>4. RowShape' /\ HandlerShape'
        BY <2>2, <3>1, <3>2
      <3>5. WorkShape' /\ OneRequest' /\ NoUnpaidJob'
        BY <2>2, <3>1, <3>2
      <3> QED
        BY <3>3, <3>4, <3>5
    <2> QED
      BY <2>1, <2>2
  <1>7. CASE BeginSubmission(h)
    BY <1>7 DEF BeginSubmission, MayBegin
  <1>8. CASE BeginLeaseLost(h)
    BY <1>8 DEF BeginLeaseLost
  <1>9. CASE SubmitAccepted(h)
    BY <1>9 DEF SubmitAccepted
  <1>10. CASE SubmitRefused(h)
    BY <1>10 DEF SubmitRefused
  <1>11. CASE SubmitUnknown(h)
    BY <1>11 DEF SubmitUnknown
  <1>12. CASE MarkRetryable(h)
    <2>1. CASE OwnsLease(h, {"prepared", "submitting"})
      <3>1. op' = Release("submitting", "retryable") /\ Done(h)
        BY <1>12, <2>1 DEF MarkRetryable
      <3>2. /\ op' \in RowType
            /\ op'.state = "submitting" /\ op'.phase = "retryable"
            /\ op'.owner = NoHandler /\ op'.billing = op.billing
        BY <3>1, ReleaseKeepsJob DEF Phases
      <3>3. /\ TypeOK!4'
            /\ hnd'[h].pc = "idle"
            /\ \A g \in Handlers : g # h => hnd'[g] = hnd[g]
        BY <3>1, DoneFacts
      <3>4. /\ lease' \in {"none", "live", "expired"} /\ retry' \in {"none", "open", "passed"}
            /\ UNCHANGED <<wire, accepted>>
        BY <1>12, <2>1 DEF MarkRetryable, KeepRetryDeadline
      <3>5. op.owner = h /\ op.phase \in {"prepared", "submitting"} /\ hnd[h].pc = "retry"
        BY <1>12, <2>1 DEF MarkRetryable, OwnsLease
      <3>6. \A g \in Handlers : hnd[g].pc # "submit"
        BY <3>5
      <3>7. TypeOK'
        BY <3>2, <3>3, <3>4 DEF RowType
      <3>8. RowShape' /\ HandlerShape'
        BY <3>2, <3>3, <3>4, <3>5, <3>6
      <3>9. WorkShape' /\ OneRequest' /\ NoUnpaidJob'
        BY <3>2, <3>3, <3>4, <3>5, <3>6
      <3> QED
        BY <3>7, <3>8, <3>9
    <2>2. CASE ~OwnsLease(h, {"prepared", "submitting"})
      BY <1>12, <2>2 DEF MarkRetryable
    <2> QED
      BY <2>1, <2>2
  <1>13. CASE MarkRecoveryRequired(h)
    <2>1. CASE OwnsLease(h, {"submitting"})
      <3>1. op' = Release("recovery_required", "recovery_required") /\ Done(h)
        BY <1>13, <2>1 DEF MarkRecoveryRequired
      <3>2. /\ op' \in RowType
            /\ op'.state = "recovery_required" /\ op'.phase = "recovery_required"
            /\ op'.owner = NoHandler /\ op'.billing = op.billing
        BY <3>1, ReleaseKeepsJob DEF Phases
      <3>3. /\ TypeOK!4'
            /\ hnd'[h].pc = "idle"
            /\ \A g \in Handlers : g # h => hnd'[g] = hnd[g]
        BY <3>1, DoneFacts
      <3>4. /\ lease' \in {"none", "live", "expired"} /\ retry' \in {"none", "open", "passed"}
            /\ UNCHANGED <<wire, accepted>>
        BY <1>13, <2>1 DEF MarkRecoveryRequired
      <3>5. op.owner = h /\ op.phase \in {"submitting"} /\ hnd[h].pc = "recover"
        BY <1>13, <2>1 DEF MarkRecoveryRequired, OwnsLease
      <3>6. \A g \in Handlers : hnd[g].pc # "submit"
        BY <3>5
      <3>7. TypeOK'
        BY <3>2, <3>3, <3>4 DEF RowType
      <3>8. RowShape' /\ HandlerShape'
        BY <3>2, <3>3, <3>4, <3>5, <3>6
      <3>9. WorkShape' /\ OneRequest' /\ NoUnpaidJob'
        BY <3>2, <3>3, <3>4, <3>5, <3>6
      <3> QED
        BY <3>7, <3>8, <3>9
    <2>2. CASE ~OwnsLease(h, {"submitting"})
      BY <1>13, <2>2 DEF MarkRecoveryRequired
    <2> QED
      BY <2>1, <2>2
  <1>14. CASE CompleteSubmission(h)
    <2>1. CASE OwnsLease(h, {"submitting"})
      <3>1. op' = [Release("accepted", "accepted") EXCEPT !.hasJob = TRUE] /\ Done(h)
        BY <1>14, <2>1 DEF CompleteSubmission, Release
      <3>2. /\ op' \in RowType
            /\ op'.state = "accepted" /\ op'.phase = "accepted"
            /\ op'.owner = NoHandler /\ op'.billing = op.billing
        BY <3>1, ReleaseFacts
      <3>3. /\ TypeOK!4'
            /\ hnd'[h].pc = "idle"
            /\ \A g \in Handlers : g # h => hnd'[g] = hnd[g]
        BY <3>1, DoneFacts
      <3>4. /\ lease' \in {"none", "live", "expired"} /\ retry' \in {"none", "open", "passed"}
            /\ UNCHANGED <<wire, accepted>>
        BY <1>14, <2>1 DEF CompleteSubmission
      <3>5. op.owner = h /\ op.phase \in {"submitting"} /\ hnd[h].pc = "complete"
        BY <1>14, <2>1 DEF CompleteSubmission, OwnsLease
      <3>6. \A g \in Handlers : hnd[g].pc # "submit"
        BY <3>5
      <3>7. TypeOK'
        BY <3>2, <3>3, <3>4 DEF RowType
      <3>8. RowShape' /\ HandlerShape'
        BY <3>2, <3>3, <3>4, <3>5, <3>6
      <3>9. WorkShape' /\ OneRequest' /\ NoUnpaidJob'
        BY <3>2, <3>3, <3>4, <3>5, <3>6
      <3> QED
        BY <3>7, <3>8, <3>9
    <2>2. CASE ~OwnsLease(h, {"submitting"})
      BY <1>14, <2>2 DEF CompleteSubmission
    <2> QED
      BY <2>1, <2>2
  <1>15. CASE Stop(h)
    BY <1>15 DEF Stop
  <1> QED
    BY <1>1, <1>2, <1>3, <1>4, <1>5, <1>6, <1>7, <1>8, <1>9, <1>10, <1>11, <1>12,
       <1>13, <1>14, <1>15

(* No step of the network, the clock or the reconciler disturbs it. *)
LEMMA EnvironmentIInv ==
    ASSUME IInv,
           \/ LateAccept \/ LateLoss \/ LeaseExpires \/ RetryDeadlinePasses
           \/ Reconcile
    PROVE  IInv'
  <1> USE SubmissionAssumption
       DEF IInv, TypeOK, Phases, BillingStates, RowShape, HandlerShape, WorkShape,
           OneRequest, NoUnpaidJob, InFlight, Release
  <1>1. CASE LateAccept
    <2>1. /\ wire /\ wire' = FALSE /\ accepted' = TRUE
          /\ UNCHANGED <<op, lease, retry, hnd>>
      BY <1>1 DEF LateAccept
    <2>2. \A h \in Handlers : hnd[h].pc # "submit"
      BY <2>1
    <2>3. TypeOK' /\ RowShape' /\ WorkShape' /\ NoUnpaidJob'
      BY <2>1
    <2>4. OneRequest'
      BY <2>1, <2>2
    <2>5. HandlerShape'
      BY <2>1
    <2> QED
      BY <2>3, <2>4, <2>5
  <1>2. CASE LateLoss
    <2>1. wire /\ wire' = FALSE /\ UNCHANGED <<op, lease, retry, hnd, accepted>>
      BY <1>2 DEF LateLoss
    <2>2. TypeOK' /\ RowShape' /\ WorkShape'
      <3>1. TypeOK'
        BY <2>1
      <3>2. RowShape'
        BY <2>1
      <3>3. WorkShape'
        BY <2>1
      <3> QED
        BY <3>1, <3>2, <3>3
    <2>3. OneRequest' /\ NoUnpaidJob'
      <3>1. op.billing = "reserved" \/ TeamTrial
        BY <2>1
      <3>2. \A h \in Handlers : hnd[h].pc # "submit"
        BY <2>1
      <3> QED
        BY <2>1, <3>1, <3>2
    <2>4. HandlerShape'
      BY <2>1
    <2> QED
      BY <2>2, <2>3, <2>4
  <1>3. CASE LeaseExpires
    BY <1>3 DEF LeaseExpires
  <1>4. CASE RetryDeadlinePasses
    BY <1>4 DEF RetryDeadlinePasses
  <1>5. CASE ReconcileLegacy
    BY <1>5 DEF ReconcileLegacy
  <1>6. CASE ReconcileExpiredLease
    BY <1>6 DEF ReconcileExpiredLease
  <1>7. CASE ReconcileRetryExpired
    BY <1>7 DEF ReconcileRetryExpired
  <1>8. CASE RefundFailed
    BY <1>8 DEF RefundFailed
  <1> QED
    BY <1>1, <1>2, <1>3, <1>4, <1>5, <1>6, <1>7, <1>8 DEF Reconcile

LEMMA NextIInv == IInv /\ [Next]_vars => IInv'
  <1> SUFFICES ASSUME IInv, [Next]_vars PROVE IInv'
    OBVIOUS
  <1>1. CASE Next
    BY <1>1, HandlerIInv, EnvironmentIInv DEF Next
  <1>2. CASE UNCHANGED vars
    BY <1>2 DEF vars, IInv, TypeOK, RowShape, HandlerShape, WorkShape, OneRequest,
            NoUnpaidJob, InFlight
  <1> QED
    BY <1>1, <1>2

(* TypeOK, OneRequest and NoUnpaidJob, with what they need to be inductive. *)
THEOREM SubmissionInvariant == Spec => []IInv
  BY InitIInv, NextIInv, PTL DEF Spec

(* The rows and the handlers keep their types.                             *)
THEOREM SubmissionTypeOK == Spec => []TypeOK
  BY SubmissionInvariant, PTL DEF IInv

(* For any number of concurrent replays there is one outstanding job       *)
(* request (BeginWildFlowOperationSubmission).                             *)
THEOREM OneRequestTheorem == Spec => []OneRequest
  BY SubmissionInvariant, PTL DEF IInv

(* No job request is made for work that is not paid for, whatever the      *)
(* reconciler releases meanwhile.                                          *)
THEOREM NoUnpaidJobTheorem == Spec => []NoUnpaidJob
  BY SubmissionInvariant, PTL DEF IInv

(* A submission that the reconciler fails has no job, accepted or under    *)
(* way.                                                                    *)
THEOREM FailedHasNoJobTheorem == Spec => []FailedHasNoJob
  <1>1. IInv => FailedHasNoJob
    BY DEF IInv, FailedHasNoJob, RowShape, HandlerShape, WorkShape, InFlight
  <1> QED
    BY <1>1, SubmissionInvariant, PTL

-----------------------------------------------------------------------------
(* A passed retry deadline stays passed and lets no handler claim. *)
THEOREM RetryWindowClosesTheorem == Spec => RetryWindowCloses
  <1> DEFINE Closed == retry = "passed" => /\ retry' # "open"
                                           /\ op'.owner \in {op.owner, NoHandler}
  <1>1. ASSUME IInv, [Next]_vars PROVE [Closed]_vars
    <2> SUFFICES ASSUME Next, retry = "passed" PROVE Closed
      BY <1>1
    <2> USE DEF IInv, TypeOK
    <2>1. ASSUME NEW h \in Handlers, CreateOperation(h) PROVE Closed
      BY <1>1, <2>1 DEF CreateOperation, RowShape
    <2>2. ASSUME NEW h \in Handlers, ClaimSubmission(h) PROVE Closed
      BY <2>2 DEF ClaimSubmission, Claimable
    <2>3. ASSUME NEW h \in Handlers, ReserveBilling(h) \/ BeginSubmission(h) PROVE Closed
      BY <1>1, <2>3 DEF ReserveBilling, BeginSubmission
    <2>4. ASSUME NEW h \in Handlers,
                 \/ ReplayOperation(h) \/ ClaimRefused(h) \/ ReserveFailed(h)
                 \/ BeginLeaseLost(h) \/ SubmitAccepted(h) \/ SubmitRefused(h)
                 \/ SubmitUnknown(h) \/ Stop(h)
          PROVE  Closed
      BY <2>4 DEF ReplayOperation, ClaimRefused, ReserveFailed, BeginLeaseLost,
              SubmitAccepted, SubmitRefused, SubmitUnknown, Stop
    <2>5. ASSUME NEW h \in Handlers,
                 MarkRetryable(h) \/ MarkRecoveryRequired(h) \/ CompleteSubmission(h)
          PROVE  Closed
      BY <1>1, <2>5 DEF MarkRetryable, MarkRecoveryRequired, CompleteSubmission, Release,
              KeepRetryDeadline
    <2>6. ASSUME LateAccept \/ LateLoss \/ LeaseExpires \/ RetryDeadlinePasses
          PROVE  Closed
      BY <2>6 DEF LateAccept, LateLoss, LeaseExpires, RetryDeadlinePasses
    <2>7. ASSUME Reconcile PROVE Closed
      BY <1>1, <2>7 DEF Reconcile, ReconcileLegacy, ReconcileExpiredLease,
              ReconcileRetryExpired, RefundFailed, Release
    <2> QED
      BY <2>1, <2>2, <2>3, <2>4, <2>5, <2>6, <2>7 DEF Next
  <1> QED
    BY <1>1, SubmissionInvariant, PTL DEF Spec, RetryWindowCloses

-----------------------------------------------------------------------------
(* What a row with a job id looks like, and who may write the job id. *)
Handover ==
    /\ op.hasJob => /\ op.state = "accepted" /\ op.phase = "accepted" /\ accepted
                    /\ lease = "none" /\ retry = "none"
    /\ \A h \in Handlers : hnd[h].pc = "complete" => accepted

HandedOver ==
    op.hasJob => UNCHANGED <<op, lease, retry, wire, accepted>>

LEMMA HandlerHandover ==
    ASSUME IInv, Handover, NEW h \in Handlers,
           \/ CreateOperation(h) \/ ReplayOperation(h)
           \/ ClaimSubmission(h) \/ ClaimRefused(h)
           \/ ReserveFailed(h) \/ ReserveBilling(h)
           \/ BeginSubmission(h) \/ BeginLeaseLost(h)
           \/ SubmitAccepted(h) \/ SubmitRefused(h) \/ SubmitUnknown(h)
           \/ MarkRetryable(h) \/ MarkRecoveryRequired(h) \/ CompleteSubmission(h)
           \/ Stop(h)
    PROVE  Handover' /\ HandedOver
  <1> USE DEF Handover, HandedOver
  <1>0. /\ op \in RowType /\ \A g \in Handlers : hnd[g].pc = "submit" => ~accepted
        /\ hnd \in [Handlers -> [pc : {"idle", "claim", "reserve", "begin", "submit",
                                       "retry", "recover", "complete"},
                                 billing : BillingStates]]
    BY DEF IInv, TypeOK, RowType, OneRequest
  <1>1. CASE \/ CreateOperation(h) \/ ClaimSubmission(h) \/ BeginSubmission(h)
    <2>0. ~op.hasJob /\ accepted' = accepted
      BY <1>1 DEF CreateOperation, ClaimSubmission, BeginSubmission, Claimable, MayBegin
    <2>1. op'.hasJob \in BOOLEAN /\ (op'.hasJob => op.hasJob)
      <3>1. CASE CreateOperation(h)
        BY <3>1 DEF CreateOperation, Row
      <3>2. CASE ClaimSubmission(h)
        BY <1>0, <3>2 DEF ClaimSubmission, RowType
      <3>3. CASE BeginSubmission(h)
        BY <1>0, <3>3 DEF BeginSubmission, RowType
      <3> QED
        BY <1>1, <3>1, <3>2, <3>3
    <2>2. \A g \in Handlers : hnd'[g].pc = "complete" => hnd[g].pc = "complete"
      BY <1>0, <1>1 DEF CreateOperation, ClaimSubmission, BeginSubmission, Goto
    <2> QED
      BY <2>0, <2>1, <2>2
  <1>2. CASE \/ ReplayOperation(h) \/ ClaimRefused(h) \/ ReserveFailed(h) \/ BeginLeaseLost(h)
             \/ SubmitRefused(h) \/ SubmitUnknown(h) \/ Stop(h)
    <2>1. UNCHANGED <<op, lease, retry, accepted>>
      BY <1>2 DEF ReplayOperation, ClaimRefused, ReserveFailed, BeginLeaseLost, SubmitRefused,
                  SubmitUnknown, Stop
    <2>2. op.hasJob => UNCHANGED wire
      BY <1>0, <1>2 DEF ReplayOperation, ClaimRefused, ReserveFailed, BeginLeaseLost,
                        SubmitRefused, SubmitUnknown, Stop
    <2>3. \A g \in Handlers : hnd'[g].pc = "complete" => hnd[g].pc = "complete"
      BY <1>0, <1>2 DEF ReplayOperation, ClaimRefused, ReserveFailed, BeginLeaseLost,
                        SubmitRefused, SubmitUnknown, Stop, Goto, Done, Idle
    <2> QED
      BY <2>1, <2>2, <2>3
  <1>3. CASE ReserveBilling(h)
    <2>1. op.hasJob => op.billing = "reserved" \/ TeamTrial
      BY DEF IInv, NoUnpaidJob
    <2>2. /\ op'.hasJob = op.hasJob /\ op'.state = op.state /\ op'.phase = op.phase
          /\ op.hasJob => op' = op
      BY <1>0, <1>3, <2>1 DEF ReserveBilling, RowType
    <2>3. \A g \in Handlers : hnd'[g].pc = "complete" => hnd[g].pc = "complete"
      BY <1>0, <1>3 DEF ReserveBilling, Goto
    <2> QED
      BY <1>3, <2>2, <2>3 DEF ReserveBilling
  <1>4. CASE SubmitAccepted(h)
    BY <1>0, <1>4 DEF SubmitAccepted
  <1>5. CASE MarkRetryable(h) \/ MarkRecoveryRequired(h)
    <2>1. \A g \in Handlers : hnd'[g].pc = "complete" => hnd[g].pc = "complete"
      BY <1>0, <1>5 DEF MarkRetryable, MarkRecoveryRequired, Done, Idle
    <2>2. CASE UNCHANGED <<op, lease, retry>>
      BY <1>5, <2>1, <2>2 DEF MarkRetryable, MarkRecoveryRequired
    <2>3. CASE OwnsLease(h, {"prepared", "submitting"})
      <3>1. ~op.hasJob
        BY <2>3 DEF OwnsLease
      <3>2. ~op'.hasJob /\ accepted' = accepted
        BY <1>0, <1>5, <3>1 DEF MarkRetryable, MarkRecoveryRequired, Release, RowType
      <3> QED
        BY <2>1, <3>1, <3>2
    <2> QED
      BY <1>5, <2>2, <2>3 DEF MarkRetryable, MarkRecoveryRequired, OwnsLease
  <1>6. CASE CompleteSubmission(h)
    <2>1. \A g \in Handlers : hnd'[g].pc = "complete" => hnd[g].pc = "complete"
      BY <1>0, <1>6 DEF CompleteSubmission, Done, Idle
    <2>2. accepted /\ accepted' = accepted /\ wire' = wire
      BY <1>6 DEF CompleteSubmission
    <2>3. CASE UNCHANGED <<op, lease, retry>>
      BY <2>1, <2>2, <2>3
    <2>4. CASE OwnsLease(h, {"submitting"}) /\ ~UNCHANGED <<op, lease, retry>>
      <3>1. ~op.hasJob
        BY <2>4 DEF OwnsLease
      <3>2. op'.state = "accepted" /\ op'.phase = "accepted" /\ lease' = "none" /\ retry' = "none"
        BY <1>0, <1>6, <2>4 DEF CompleteSubmission, Release, RowType
      <3> QED
        BY <2>1, <2>2, <3>1, <3>2
    <2> QED
      BY <1>6, <2>3, <2>4 DEF CompleteSubmission
  <1> QED
    BY <1>1, <1>2, <1>3, <1>4, <1>5, <1>6

LEMMA EnvironmentHandover ==
    ASSUME IInv, Handover,
           \/ LateAccept \/ LateLoss \/ LeaseExpires \/ RetryDeadlinePasses \/ Reconcile
    PROVE  Handover' /\ HandedOver
  <1> USE DEF Handover, HandedOver
  <1>0. op \in RowType /\ (accepted => ~wire)
    BY DEF IInv, TypeOK, RowType, OneRequest
  <1>1. CASE LateAccept \/ LateLoss
    BY <1>0, <1>1 DEF LateAccept, LateLoss
  <1>2. CASE LeaseExpires \/ RetryDeadlinePasses
    BY <1>2 DEF LeaseExpires, RetryDeadlinePasses
  <1>3. CASE Reconcile
    <2>1. ~op.hasJob
      BY <1>3 DEF Reconcile, ReconcileLegacy, ReconcileExpiredLease, ReconcileRetryExpired,
                  RefundFailed
    <2>2. ~op'.hasJob /\ UNCHANGED <<hnd, accepted>>
      BY <1>0, <1>3, <2>1 DEF Reconcile, ReconcileLegacy, ReconcileExpiredLease,
                  ReconcileRetryExpired, RefundFailed, Release, RowType
    <2> QED
      BY <2>1, <2>2
  <1> QED
    BY <1>1, <1>2, <1>3

LEMMA NextHandover == IInv /\ Handover /\ [Next]_vars => Handover' /\ [HandedOver]_vars
  <1>1. CASE UNCHANGED vars
    BY <1>1 DEF vars, Handover
  <1>2. ASSUME IInv, Handover, Next PROVE Handover' /\ HandedOver
    BY <1>2, HandlerHandover, EnvironmentHandover DEF Next
  <1> QED
    BY <1>1, <1>2

(* A row with a job id is what WildFlowExecution takes over: paid for,     *)
(* its job accepted, no other request under way, and out of the reach of   *)
(* CompleteWildFlowOperationSubmission, of the other lease transitions and *)
(* of the submission reconciler for good.                                  *)
THEOREM AcceptedIsHandedOverTheorem == Spec => AcceptedIsHandedOver
  <1> DEFINE Given == /\ op.state = "accepted" /\ accepted /\ ~InFlight
                      /\ op.billing = IF TeamTrial THEN "pending" ELSE "reserved"
  <1>1. Init => Handover
    BY DEF Init, Row, Idle, Handover
  <1>2. IInv /\ Handover => (op.hasJob => Given)
    BY DEF IInv, Handover, OneRequest, NoUnpaidJob, RowShape, InFlight
  <1>3. Spec => []Handover
    BY <1>1, NextHandover, SubmissionInvariant, PTL DEF Spec
  <1>4. (op.hasJob => Given)' /\ [HandedOver]_vars =>
          [/\ op'.hasJob => /\ op'.state = "accepted" /\ accepted' /\ ~InFlight'
                            /\ op'.billing = IF TeamTrial THEN "pending" ELSE "reserved"
           /\ op.hasJob => UNCHANGED <<op, lease, retry, wire, accepted>>]_vars
    BY DEF HandedOver
  <1> QED
    BY <1>2, <1>3, <1>4, NextHandover, SubmissionInvariant, PTL DEF Spec, AcceptedIsHandedOver

-----------------------------------------------------------------------------
(* A step that moves neither the network nor a handler into or out of      *)
(* SubmitJob leaves the contract's job alone.                              *)
LEMMA SameJob ==
    ASSUME UNCHANGED <<wire, accepted>>,
           \A h \in Handlers : hnd'[h].pc = "submit" <=> hnd[h].pc = "submit"
    PROVE  JobOf' = JobOf
  BY DEF JobOf, InFlight

LEMMA ContractInit == Init => Contract!Init
  <1> SUFFICES ASSUME Init PROVE Contract!Init
    OBVIOUS
  <1>1. ~accepted /\ \A h \in Handlers : hnd[h].pc # "submit"
    BY DEF Init, Idle
  <1>2. JobOf = IF wire THEN "sent" ELSE "none"
    BY <1>1 DEF JobOf, InFlight
  <1>3. op.billing \in {"pending", "reserved"}
    BY DEF Init, Row
  <1> QED
    BY <1>2, <1>3 DEF Init, Row, BillingOf, Contract!Init

LEMMA ContractStep == IInv /\ [Next]_vars => [Contract!Next]_Contract!vars
  <1> SUFFICES ASSUME IInv, [Next]_vars PROVE [Contract!Next]_Contract!vars
    OBVIOUS
  <1> USE DEF Contract!Next, Contract!vars, BillingOf
  <1>1. ASSUME NEW h \in Handlers,
               \/ CreateOperation(h) \/ ReplayOperation(h) \/ ClaimSubmission(h)
               \/ ClaimRefused(h) \/ ReserveFailed(h) \/ BeginLeaseLost(h)
               \/ MarkRetryable(h) \/ MarkRecoveryRequired(h) \/ CompleteSubmission(h)
        PROVE  UNCHANGED Contract!vars
    <2>1. UNCHANGED <<wire, accepted>>
      BY <1>1 DEF CreateOperation, ReplayOperation, ClaimSubmission, ClaimRefused,
              ReserveFailed, BeginLeaseLost, MarkRetryable, MarkRecoveryRequired,
              CompleteSubmission
    <2>2. op'.billing = op.billing
      <3>1. CASE CreateOperation(h)
        BY <3>1 DEF CreateOperation, Row, IInv, RowShape
      <3>2. CASE ClaimSubmission(h)
        BY <3>2 DEF ClaimSubmission, IInv, TypeOK
      <3>3. CASE ReplayOperation(h) \/ ClaimRefused(h) \/ ReserveFailed(h) \/ BeginLeaseLost(h)
        BY <3>3 DEF ReplayOperation, ClaimRefused, ReserveFailed, BeginLeaseLost
      <3>4. CASE MarkRetryable(h)
        BY <3>4 DEF MarkRetryable, Release, IInv, TypeOK
      <3>5. CASE MarkRecoveryRequired(h)
        BY <3>5 DEF MarkRecoveryRequired, Release, IInv, TypeOK
      <3>6. CASE CompleteSubmission(h)
        BY <3>6 DEF CompleteSubmission, Release, IInv, TypeOK
      <3> QED
        BY <1>1, <3>1, <3>2, <3>3, <3>4, <3>5, <3>6
    <2>3. \A g \in Handlers : hnd'[g].pc = "submit" <=> hnd[g].pc = "submit"
      BY <1>1 DEF CreateOperation, ReplayOperation, ClaimSubmission, ClaimRefused,
              ReserveFailed, BeginLeaseLost, MarkRetryable, MarkRecoveryRequired,
              CompleteSubmission, Goto, Done, Idle, IInv, TypeOK
    <2> QED
      BY <2>1, <2>2, <2>3, SameJob
  <1>2. ASSUME NEW h \in Handlers, ReserveBilling(h)
        PROVE  [Contract!Reserve]_Contract!vars
    <2>1. JobOf' = JobOf
      <3>1. \A g \in Handlers : hnd'[g].pc = "submit" <=> hnd[g].pc = "submit"
        BY <1>2 DEF ReserveBilling, Goto, IInv, TypeOK
      <3> QED
        BY <1>2, <3>1, SameJob DEF ReserveBilling
    <2>2. \/ op'.billing = op.billing
          \/ op.billing = "pending" /\ op'.billing = "reserved" /\ ~TeamTrial
      BY <1>2 DEF ReserveBilling, IInv, TypeOK
    <2> QED
      BY <2>1, <2>2 DEF Contract!Reserve
  <1>3. ASSUME NEW h \in Handlers, BeginSubmission(h) PROVE Contract!Submit
    <2>1. op.phase = "prepared" /\ op.owner = h /\ op'.billing = op.billing
      BY <1>3 DEF BeginSubmission, MayBegin, IInv, TypeOK
    <2>2. ~wire /\ ~accepted /\ (\A g \in Handlers : hnd[g].pc # "submit")
      BY <2>1 DEF IInv, WorkShape, HandlerShape
    <2>3. JobOf = "none" /\ JobOf' = "sent"
      BY <1>3, <2>2 DEF BeginSubmission, Goto, JobOf, InFlight, IInv, TypeOK
    <2>4. op.billing = "reserved" \/ TeamTrial
      BY <1>3, <2>1 DEF BeginSubmission, IInv, HandlerShape
    <2> QED
      BY <2>1, <2>3, <2>4 DEF Contract!Submit, Contract!Paid
  <1>4. ASSUME NEW h \in Handlers, hnd[h].pc = "submit", hnd'[h].pc # "submit",
               \A g \in Handlers : g # h => hnd'[g] = hnd[g],
               UNCHANGED op, accepted' \in BOOLEAN, wire' \in BOOLEAN,
               ~(wire' /\ accepted')
        PROVE  [Contract!Refuse \/ Contract!Accept]_Contract!vars
    <2>1. ~accepted /\ (\A g \in Handlers : g # h => hnd[g].pc # "submit")
      BY <1>4 DEF IInv, OneRequest
    <2>2. JobOf = "sent"
      BY <1>4, <2>1 DEF JobOf, InFlight
    <2>3. JobOf' = IF accepted' THEN "accepted" ELSE IF wire' THEN "sent" ELSE "none"
      BY <1>4, <2>1 DEF JobOf, InFlight
    <2> QED
      BY <1>4, <2>2, <2>3 DEF Contract!Refuse, Contract!Accept
  <1>5. ASSUME NEW h \in Handlers,
               SubmitAccepted(h) \/ SubmitRefused(h) \/ SubmitUnknown(h)
        PROVE  [Contract!Next]_Contract!vars
    <2>1. /\ hnd[h].pc = "submit" /\ hnd'[h].pc # "submit"
          /\ \A g \in Handlers : g # h => hnd'[g] = hnd[g]
          /\ UNCHANGED op
      BY <1>5 DEF SubmitAccepted, SubmitRefused, SubmitUnknown, Goto, IInv, TypeOK
    <2>2. accepted' \in BOOLEAN /\ wire' \in BOOLEAN
      BY <1>5, Zenon DEF SubmitAccepted, SubmitRefused, SubmitUnknown, IInv, TypeOK
    <2>3. ~(wire' /\ accepted')
      BY <1>5, <2>1 DEF SubmitAccepted, SubmitRefused, SubmitUnknown, IInv, OneRequest
    <2> QED
      BY <1>4, <2>1, <2>2, <2>3
  <1>6. ASSUME NEW h \in Handlers, Stop(h) PROVE [Contract!Next]_Contract!vars
    <2>1. CASE hnd[h].pc = "submit"
      <3>1. /\ hnd'[h].pc # "submit" /\ UNCHANGED op
            /\ \A g \in Handlers : g # h => hnd'[g] = hnd[g]
        BY <1>6 DEF Stop, Done, Idle, IInv, TypeOK
      <3>2. accepted' \in BOOLEAN /\ wire' \in BOOLEAN /\ ~(wire' /\ accepted')
        BY <1>6, <2>1 DEF Stop, IInv, TypeOK, OneRequest
      <3> QED
        BY <1>4, <2>1, <3>1, <3>2
    <2>2. CASE hnd[h].pc # "submit"
      <3>1. \A g \in Handlers : hnd'[g].pc = "submit" <=> hnd[g].pc = "submit"
        BY <1>6, <2>2 DEF Stop, Done, Idle, IInv, TypeOK
      <3> QED
        BY <1>6, <2>2, <3>1, SameJob DEF Stop
    <2> QED
      BY <2>1, <2>2
  <1>7. ASSUME LateAccept \/ LateLoss PROVE Contract!Refuse \/ Contract!Accept
    <2>1. wire /\ ~accepted /\ (\A g \in Handlers : hnd[g].pc # "submit")
      BY <1>7 DEF LateAccept, LateLoss, IInv, OneRequest
    <2> QED
      BY <1>7, <2>1 DEF LateAccept, LateLoss, JobOf, InFlight, Contract!Refuse,
              Contract!Accept
  <1>8. ASSUME \/ LeaseExpires \/ RetryDeadlinePasses \/ ReconcileLegacy
               \/ ReconcileExpiredLease \/ ReconcileRetryExpired
        PROVE  UNCHANGED Contract!vars
    <2>1. UNCHANGED <<hnd, wire, accepted>> /\ op'.billing = op.billing
      BY <1>8 DEF LeaseExpires, RetryDeadlinePasses, ReconcileLegacy,
              ReconcileExpiredLease, ReconcileRetryExpired, Release, IInv, TypeOK
    <2> QED
      BY <2>1, SameJob
  <1>9. ASSUME RefundFailed PROVE Contract!Refund
    <2>1. ~wire /\ ~accepted /\ (\A g \in Handlers : hnd[g].pc # "submit")
      BY <1>9 DEF RefundFailed, IInv, WorkShape, HandlerShape
    <2>2. JobOf = "none" /\ JobOf' = "none"
      BY <1>9, <2>1 DEF RefundFailed, JobOf, InFlight
    <2>3. op.billing = "reserved" /\ op'.billing = "refunded" /\ ~TeamTrial
      BY <1>9 DEF RefundFailed, IInv, TypeOK, RowShape
    <2> QED
      BY <2>2, <2>3 DEF Contract!Refund
  <1>10. CASE UNCHANGED vars
    BY <1>10, SameJob DEF vars
  <1> QED
    BY <1>1, <1>2, <1>3, <1>5, <1>6, <1>7, <1>8, <1>9, <1>10 DEF Next, Reconcile

(* Submission implements the contract: whatever the interleaving of        *)
(* handlers, lost answers, clock and reconciler, the operation behaves     *)
(* like the abstract one.                                                  *)
THEOREM SubmissionImplementsContract == Spec => ContractSpec
  BY SubmissionInvariant, ContractInit, ContractStep, PTL
     DEF Spec, ContractSpec, Contract!Spec
=============================================================================
