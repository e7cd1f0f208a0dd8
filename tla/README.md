# WildFlow API: formal models and proofs

This directory holds TLA+ models of the durable job operations, the quota accounting and
the background work of the WildFlow API (this repository), the TLC configurations that
check them and TLAPS proofs of their safety properties. Paths below are relative to the repository.

## 1. Inventory

WildFlow is a commercial control plane on top of an LLM gateway. A user sends a media
job (speech, image, video, transcription) with an `Idempotency-Key`; the API node
creates a durable *operation*, reserves quota, submits the job to an internal
*inference service*, follows it, stores its result, and settles or refunds the
reservation. Everything lives in one main SQL database; usage logs go to a second one
(`LOG_DB`). Several API nodes run the same code, and the master node also runs a
reconciler.

| Component | State | Operations | Hard behaviour |
|---|---|---|---|
| **Operation submission** (`model/wildflow_submission.go`, `service/wildflow_submission.go`, `controller/wildflow_jobs.go`) | operation row: state, submission phase, owner and lease token, lease and retry deadlines, job id | create, claim, reserve, begin, submit, mark retryable / recovery required / complete, reconcile | replayed keys on several nodes, leases that run out under a live handler, lost answers, late requests, stops between transactions |
| **Operation execution** (`controller/wildflow_jobs.go`, `service/wildflow_results.go`, `service/wildflow_billing_reconciler.go`, `model/wildflow_operation.go`, `model/wildflow_usage_event.go`, `controller/wildflow_usage_events.go`) | operation row: execution state, result, billing state, bound usage event; recorded usage events | status, cancel, download, usage event, reconcile; each ends in storing the result, settling, refunding or marking recovery | unconditional writes of a job state read before an HTTP call; usage events in any order; conflicts; faults between the transactions |
| **Billing ledger** (`model/wildflow_billing.go`, `service/wildflow_billing.go`, parts of `model/subscription.go`) | wallet and used quota, API token quota, subscriptions, pre-consume records, billing columns | reserve by preference with fallbacks, partial settle by usage, refund, reset, expiry, cleanup, token deletion | two handlers between two funding sources, resets between reservation and refund, deleted tokens and records, rounding |
| **Billing log projection** (`model/wildflow_billing.go`, `model/wildflow_billing_log.go`) | canonical audit rows, claim tokens and leases; log rows and receipts in `LOG_DB` | insert audit row, claim, write log, mark, reconcile | two databases without a common transaction, overrun leases, ambiguous commits, ClickHouse, rows of earlier releases |
| **Relay billing reservations** (`model/billing_reservation.go`, `service/billing_session.go`, `controller/relay.go`, `relay/relay_task.go`, `model/task_operation.go`) | reservation rows, billing session of each handler, operation of an image task, wallet, token and subscription | pre-consume by preference, add, mark as sent, settle, release, recover stale rows, clean up, attach an image task | crash between reservation and settlement, a provider outcome nobody knows, recovery racing a slow handler, lost commits |
| **Asynchronous tasks** (`model/task.go`, `service/task_polling.go`, `service/task_billing.go`, `tryRealtimeFetch` of `relay/relay_task.go`) | task rows, what a task was charged | load, poll, write under a status condition, sweep timed-out tasks, store images, refund or recalculate; fetch by the user | overlapping passes with stale copies, the sweep against a late result, an adjustment of three writes, a second writer that knows nothing of billing |
| **System tasks** (`model/system_task.go`, `service/system_task.go`) | task rows, one lock row per type, handlers under way | schedule, claim, take over, heartbeat, finish, release, clean up stale locks | leases lost while running, claims of two statements, lost answers, restarts |
| User sessions (`model/user_session.go`, `service/auth_session.go`, `model/auth_flow.go`) | session rows, refresh hashes, cache fences | login, refresh, revoke, one-time flows | concurrent refresh, reuse detection, cache staleness |
| Token and user caches (`model/token_cache.go`, `model/user_auth_cache.go`) | Redis copies of rows | fill, adjust, invalidate | fill after invalidate |
| Top-ups, redemptions (`model/topup.go`, `model/redemption.go`) | order and code rows | pay, complete, redeem | duplicated callbacks |
| Channel selection, rate limiting, relay adaptors, billing expressions, plugins, settings, routing, web and desktop shells | caches, configuration | – | data conversion and I/O for the most part |

How the parts interact. `createWildFlowJob` drives submission; in its middle it calls
`ReserveWildFlowOperationBilling` (ledger) and at its end, once the job is accepted, the
operation is in the hands of execution. Execution settles or refunds through the
ledger; the final billing transaction inserts the audit row that projection works off.
The reconciler (`StartWildFlowBillingReconciler`) ticks on the master node and calls in
turn the submission reconciler, the audit reconciler, the projection reconciler and the
billing reconciler.

A request that is relayed to a provider does not have an operation. Its handler
(`Relay`, `RelayTask`) opens a billing session, marks the reservation as sent before it
calls the provider, and settles or refunds afterwards. A provider that works
asynchronously leaves a task row behind; the polling of task rows is a *system task*, so
that one of the master nodes does it at a time, and ends in a refund or a recalculation
of the price that was settled. The subscription maintenance, a ticker on the master
node, recovers reservations that were never sent. The database rows are the only shared
state; there is no in-memory coordination between nodes.

What makes each part correct: *submission* sends at most one paid request and ends;
*execution* charges exactly delivered work and its final states are final; the *ledger*
neither creates nor loses quota; *projection* writes each log row exactly once; a *relay
reservation* is closed once and follows what the provider did; a *task* is billed once,
by its end, and always ends; a *system task* has one handler and always ends. The
hazards these properties are aimed at are listed, each at its line, in `PROJECT.json`.

## 2. Modules

| Module | Role |
|---|---|
| `WildFlowContract` | abstract specification of an operation: work is requested only when paid for, quota is consumed only by a job that succeeded and returned only when no job can produce anything |
| `WildFlowSubmission` | submission of one operation by any number of handlers; implements the contract |
| `WildFlowExecution` | an accepted job, its pollers, usage events and reconciler; implements the contract |
| `WildFlowLedger`, `MCWildFlowLedger` | wallet, token and subscriptions under reservation, settlement and refund; its wallet and its token each implement the escrow |
| `WildFlowProjection` | audit rows and their projection into `LOG_DB` |
| `QuotaEscrow` | abstract specification of quota reservations: taken from a balance before work, added to while open, closed once |
| `RelayBilling`, `MCRelayBilling` | reservations, billing sessions and the relay, task and image task handlers; implements the escrow |
| `AsyncTask` | polling, sweep, image storing and billing of one task |
| `SystemTask` | tasks of one type and their lock among any number of nodes |
| `WildFlowSubmissionProofs`, `WildFlowExecutionProofs`, `WildFlowLedgerProofs`, `WildFlowProjectionProofs`, `RelayBillingProofs`, `AsyncTaskProofs`, `SystemTaskProofs` | theorems |
| `FiniteSums` | lemmas about sums over finite sets, for the two conservation theorems |

`PROJECT.json` maps every definition to the source lines it translates. Operators named
`Faulty...` are plausible wrong versions of the definition that follows them. They are
not part of any specification; replacing the definition by one of them must make TLC
report the property listed with it under `mutants`.

### Submission

`op` is the operation row (columns `state`, `submission_phase`, owner with lease token,
whether `job_id` is set, `billing_state`); `lease` and `retry` are the two deadlines
compared with the clock; `hnd[h]` is a request handler between two transactions;
`wire` is a job request whose sender is gone but which may still arrive; `accepted` says
the inference service holds the job. Each transaction of `createWildFlowJob` is an
action. A handler carries the row that `ClaimWildFlowOperationSubmission` returned,
because `ReserveWildFlowOperationBilling` decides by that copy. Time is two events that
may occur at any moment. The fresh pair of owner and lease token is represented by the
handler that claimed last: a handler is one request and gets at most one claim before it
is idle again, and after that a new request reuses its name.

`AcceptedIsHandedOver` is what composes submission and execution: the row that
`WildFlowExecution` starts from (a running job, its quota reserved unless it is a trial)
is what submission leaves when it has written the job id, and nothing in submission
writes the row afterwards.

### Execution

`op` is the row's execution state, billing state, stored result and bound usage event;
`job` and `art` belong to the inference service; `proc[p]` holds a process's program
counter and *what it was told*, which may be stale when it writes. Status requests,
replayed submissions, cancels, downloads, usage events and the reconciler share the tail
`FinalizeStep`: write the state, store the result, settle, refund or mark recovery,
each a transaction of its own. Whether the operation is of the free trial offering is a
field of the row. Job state `running` stands for queued and running, which the code treats
alike; `pending` is a state of its own only for a trial operation, because the listing of
these leaves it out.

### Ledger

Reservation is modelled per funding source and per step of the billing preference,
because the fallback decisions are made between transactions. Settlement returns the
unused part of an audio reservation, rounded up per `ceilProportionalInt64`. The
environment deletes the token, ends and resets subscriptions and removes pre-consume
records by age. `WalletCharge`, `TokenCharge`, `SubCharge` and `Settled` say what each
operation accounts for, and the conservation properties are sums of them. `FundsEscrow`
says in addition that each operation opens and closes its reservation once, which the
sums do not: reserving a refunded operation again would keep them. How the outcome of a job comes about is the business of the other two
modules; here it is an event.

### Projection

One row per (operation, log type). Claim, `LOG_DB` transaction and mark are three
actions of a projector. A `LOG_DB` error may or may not have committed. The initial
states include what an earlier release may have left: audit rows without a projection
state, finished operations without audit row, log rows without receipt. `ClickHouse` is
the set of projectors on nodes whose `LOG_DB` is ClickHouse.

### Relay billing

`rec[r]` is the `BillingReservationRecord` of request `r`, `sess[r]` its handler with the
`BillingSession` (`pre` is `preConsumedQuota`, `unknown` what `providerUnknown`, or
`ProviderRequestStarted` without `ProviderRequestRejected`, says), `op[r]` and `task[r]`
the operation and the task row of a task, `provider[r]` what really happened at the
provider. Every transaction is an action: `ReserveWallet` and `ReserveSubscription`
(`preConsume`), `PrepareBilling` (the price of the selected group, by `Reserve`),
`MarkProviderStarted`, the three kinds of answers, `ReserveFinalPrice`, `InsertTask`,
`InsertTaskForOperation`, `Settle`, `RefundSession`, `ReleaseStale`, `CleanupRecord`.
`debt` and `tdebt` count what paths without a reservation take without a condition
(`settleWithoutRecord`, `reserveWithoutRecord`). A refusal may also be a database error,
and a settlement that fails is only logged, as in the code. `task[r].answered` says whether
the handler knows of its task row: the insertion of a plain task (`InsertTask`) or of an
image task (`InsertAnswerLost`) may commit without an answer, and the handler then refunds.
The lost answer to another transaction is that transaction's action followed by `Crash` or
by the failing of the handler. A request counts as sent from its marker on; a provider that answers
with an error status is taken to have done nothing, as the relay takes it, and
`AcceptedIsNotRefunded` rests on that.

### Asynchronous tasks

`row` is the task row; `pass[p]` a polling pass with *the copy of the row it loaded*, which
`UpdateWithStatus` writes back whole under a condition on the status. The three writes of
an adjustment (`taskAdjustFunding`, `taskAdjustTokenQuota`, `UpdateQuota`) are actions of
their own, each with its failure, written or not; `cut` remembers that the first or the
last was lost in an error, or one with its process, and `tlost` a failed token adjustment, which the
code only logs. A pass whose write of the end is committed without an answer does not bill.
`provider` is what the provider has come to; it may never come to anything, and it may
report any running status and progress. `FailChannelTasks` is the bulk update without a
condition that follows any error of `CacheGetChannel`.

A task of kind `realtime` is one of a Gemini or Vertex channel. A request of its user
(`fetch[f]`) loads the row in any status, asks the provider and writes the whole row back
under the status it loaded, without billing (`LoadTask`, `TryRealtimeFetch`). Such a task
can be refunded and succeed, run again after its end, or get a refunded quota back, so
`OnePassBills`, `BooksAgree`, `RefundedIsFailed` and `EndIsFinal` are stated for the others
(`OnlyPolled`), and what becomes of these is in section 6. `TaskEnds` holds for all.

### System tasks

Each SQL statement of `ClaimSystemTask`, `ExpireStaleSystemTaskLocks` and
`FinishSystemTask` is an action, with its failure, and with the case that it was carried out
and its answer lost. `orphans` are the rows whose claim was: `ClaimSystemTask` takes the
error for a failed claim and releases the lock (`ClaimUnanswered`), so that the row is
running without a lock.
`run[n].copy` is the lock a pass has read; `run[n].sees` whether the clock that was read
before the lock statement is past the lease. `jobs` are the handler goroutines, whose
context is cancelled when a renewal fails, but which may go on until they look. A
restarted process has a new runner id (`life`).

## 3. Runs

| Run | Bounds | What it checks |
|---|---|---|
| `projection` | 2 audit rows (one not required), 3 projectors (one on ClickHouse), 2 faults | `LogAtMostOnce`, `ProjectedHasLog`, `NoTakeover`, `EventuallyProjected` |
| `submission` | 3 handlers, unlimited requests, retries and losses | `OneRequest`, `NoUnpaidJob`, `FailedHasNoJob`, `RetryWindowCloses`, `AcceptedIsHandedOver`, `ContractSpec`, `SubmissionEnds`, `FailedIsRefunded` |
| `execution` | paid and trial offering, 2 concurrent requests of 3 in all, reconciler, 2 usage events, 2 artifact versions, 1 fault | `BillingFollowsDelivery` (`SettledIsDelivered` and `RefundedIsUndelivered`), `FinalIsFinal`, `ContractSpec`, `EndedJobsAreBilled` (`FailedJobRefunded` and `DeliveredJobSettled`), `ResultStored` |
| `ledger` | 2 operations (3 and 2 units, the first billed by 4 audio units), 2 handlers, 2 subscriptions (4 and 3 units, the second without overflow), wallet 3, token 4, one period change each, all four preferences | `QuotaConserved` (wallet, token, and used quota with its rounding), `SubscriptionExact`, `NeverOverdrawn`, `StrictProtectsWallet`, `FundsEscrow` (wallet and token), `ReservationsClose` (`RefundsWithRecord` and `SettlesWithToken`) |
| `relay_billing` | 2 requests (one relayed, one a plain or an image task), prices 0 to 2, wallet 2, limited token 3, subscription 2, 1 retry, subscription before wallet | `QuotaConserved` (wallet and token), `ReservationsNeverOverdraw`, `SentIsHeld`, `AcceptedIsNotRefunded`, `DurableIsPaid`, `OperationTellsTheTruth`, `EscrowSpec`, `UnsentIsReturned` |
| `async_task` | 2 passes, 1 fetch by the user, all kinds of task with and without legacy cutoff, quota 2, usage that costs 3 or nothing (a refund), 2 poll failures, 1 failed look-up of the channel, 1 crash, paid by the wallet | `OnePassBills`, `BooksAgree` (`QuotaIsCharged` and `TokenFollowsFunding`), `RefundedIsFailed`, `EndIsFinal`, `TaskEnds` |
| `system_task` | 2 nodes, 2 tasks, 1 restart of each node | `OneHandlerPerTask`, `RunningIsLocked`, `EndIsFinal`, `TaskEnds` |
| `execution_replay`, `ledger_retention`, `ledger_deleted_token`, `async_task_subscription`, `async_task_refetch` | – | violated promises, see section 6 |

Why the bounds are enough to be interesting. Three handlers are the least with which
one superseded handler, its successor and a late replay overlap; the state space of
`submission` is finite without any counter. In `execution` three requests allow a stale
status poll, a cancel and a usage event around the reconciler's own poll; a fault stops
one of them or makes a settlement fail. In `ledger` there is quota for one operation but
not both in the wallet and in each subscription, so every fallback and refusal occurs. In `projection` two faults are enough for a
projector to overrun its lease, be superseded, and for the successor to stop as well.
In `relay_billing` neither source, nor the token, has enough for both requests at every
price, so each refusal and each fallback occurs, and a retry follows an answer of each
kind. In `async_task` an adjustment goes to either side of the quota, and two passes are
enough for a stale copy to meet the end written, and the billing begun, by another pass. In `system_task` a second task
of the type is created after the first one ended, so that an old runner can meet the lock
of a newer task. Every safety property that holds, and the type correctness of every
module, is also proved without bounds (section 5). Runs say `CHECK_DEADLOCK FALSE` since an operation may be finished for good.

## 4. Fairness

Only what the scheduler of the code guarantees is fair: the reconciler's ticker runs as
long as the master node does and visits what it lists, and the clock advances (leases
and the retry deadline). A projector that has started runs on unless a fault stops it;
faults are bounded, as no system makes progress when every attempt fails. Projection
visits are strongly fair: the reconciler is a goroutine of its own and cannot be starved
by the handlers that share the pool of projectors in the model. Nothing is assumed of
request handlers, of clients, of the inference service or of usage events.

`RelayBilling`: the maintenance ticker releases some stale reservation as long as there is
one, and a handler that does not stop keeps going, since its calls have time-outs; the provider is not fair. That
`ReleaseStale` may happen at any time stands for a handler slower than the hour of
`billingReservationStaleSeconds`. A maintenance pass returns at the first row it cannot
release (`billing_reservation.go:697`), so no single row is given a turn: it is assumed
that no stale row fails for ever. One that does (its subscription was deleted for good by an
administrator, say) blocks all that are younger; that is listed as a hazard.

`AsyncTask`: the time-out passes (`TASK_TIMEOUT_MINUTES` is positive; 0 switches the sweep
off), passes are repeated and begin with the sweep, a pass under way goes on, and not
every sweep loses its row to another pass in the moment between its load and its write.
Nothing is assumed of the provider, of successful writes, or of the storing of images.

`SystemTask`: passes are repeated and come to both the stale locks and the pending rows,
no statement fails on all nodes every time, handlers return (they get a context), and a lease nobody renews
runs out. A lease may also run out under a live handler, at any time.

`DeliveredJobSettled` and `ResultStored` are conditional on artifacts that stay valid
and, for settlement, on a recorded usage event, because the code settles nothing before.

## 5. Proofs

All theorems hold for every number of handlers, projectors, audits, clients, events and
faults. They assume only the named assumptions of the modules (distinctness of the model
values, bounds and quotas being natural numbers, quotes being positive, and, for the sums,
finitely many operations or requests).

* `FiniteSums`: that a sum over a finite set is a number, that it is zero when its terms
  are, and that changing one term changes it by the difference (`SumUpdate`, and `SumMoves`
  for a balance that pays the difference). The provers cannot use an induction principle
  that takes a predicate, so induction is stated with a *set*: a set of numbers that
  contains 0 and the successor of each of its members contains all numbers
  (`NatSetInduction`, from the well-foundedness of `<`), hence a set of subsets of a
  finite set that contains the empty one and is closed under adding an element contains
  all of them (`SubsetInduction`). Functions that are the sums of all subsets then exist
  and are unique (`SubsetSumExists`, `SubsetSumEquation`), and `SumFunctionOnSet` is one.

* `WildFlowSubmissionProofs`: the inductive invariant is `TypeOK` with `RowShape` (which
  columns of the row go together), `HandlerShape` (what a handler at each step may rely
  on: in particular, one that still owns the lease has a true billing snapshot, and one
  at the submit step owns the phase `submitting` unless the reconciler has already moved
  the row to `recovery_required`), `WorkShape` (phases in which a
  request can be under way), `OneRequest` and `NoUnpaidJob`. `OneRequest` alone is not
  inductive: that a second handler cannot begin needs the fact that a request under way,
  or an accepted job, keeps the phase out of `prepared` and `retryable`. From it follow
  `SubmissionTypeOK`, `OneRequestTheorem`, `NoUnpaidJobTheorem`, `FailedHasNoJobTheorem`,
  `RetryWindowClosesTheorem` and `SubmissionImplementsContract`. For
  `AcceptedIsHandedOverTheorem` a second invariant, `Handover`, rests on the first: a row
  with a job id is accepted and without lease and deadline, and a handler at the complete
  step was told of an accepted job. A superseded handler that still wants to reserve finds
  the row reserved, since no job is unpaid.
* `WildFlowExecutionProofs`: jobs do not leave a terminal state, so what a process was
  told about a *terminal* state stays true however late it writes (`ToldTheTruth`), hence
  the row says succeeded or failed only truly (`RowIsTrue`), hence result, settlement and
  refund agree with the job (`MoneyFollowsJob`). `ExecutionTypeOK`,
  `MoneyFollowsDelivery`, `RefundFollowsFailure`, `BillingFollows`, `FinalIsFinalTheorem`
  and `ExecutionImplementsContract` follow. The argument shows why
  the unguarded state write cannot move money, although it can undo what a reader sees.
* `WildFlowLedgerProofs`: the proof has two layers. The inductive invariant `IInv` is
  `TypeOK` with `OpShape` (a reservation is for the quoted amounts; while its pre-consume
  record exists, the record names the same subscription and amount; usage was measured
  before a settlement), `HandlersShape` (a handler that may charge the wallet of a
  `subscription_first` user has seen that no strict subscription is active, and none
  becomes active again), `StrictShape`, `DueShape` (a reset is due only after a period)
  and `NeverOverdrawn`. `CeilBounds` is the fact about `ceilProportionalInt64` behind the
  settlement: a measured part of a quota lies between nothing and all of it, and is
  nothing only of nothing. On top of `IInv`, every step either moves quota between the
  funds and *one* operation, by exactly the difference of what that operation accounts for
  (`Moves(o)`), or leaves the funds alone but for a reset (`Still`). With `SumUpdate` this
  keeps the sums (`LedgerConserved`, `SubscriptionsExact`), and it is a step
  of both escrows (`LedgerImplementsEscrow`). `LedgerTypeOK`, `LedgerNeverOverdrawn` and
  `StrictProtects` follow from `IInv` alone. A subscription is only exact until its first
  reset: giving back a reservation of an earlier period stops at zero.
* `WildFlowProjectionProofs`: `LogInv` ties log rows to finished operations and receipts,
  `ProjInv` says what a projector past its commit has left in `LOG_DB`, `TokenInv` that
  claim tokens are fresh. `ProjectionTypeOK`, `LogAtMostOnceTheorem`,
  `ProjectedHasLogTheorem`, `ClaimHasOneOwnerTheorem` and `NoTakeoverTheorem` follow.
* `RelayBillingProofs`: the inductive invariant is `TypeOK` with, for each request,
  `HoldShape` (a session and its open reservation agree on the amount, and what a handler
  without quota or after its end may have left), `SentShape` (at which steps, and with
  which `unknown`, the provider can have the request) and `TaskShape` (operation, task row
  and settlement of an image task go together), and with `Funds` (what was taken without
  a reservation is not negative, and `ReservationsNeverOverdraw`). `AcceptedIsNotRefunded`
  alone is not inductive: it needs that whoever may release the reservation of a request
  knows that the provider did nothing. The eight theorems include `ImplementsEscrow`, for
  every number of requests, every price and every billing preference, and `Conserved`: the
  wallet sum follows from the escrow, each step of which moves quota between the balance
  and one request, and the token sum from what each step does to the token and to what the
  request holds of it.
* `AsyncTaskProofs`: `CopyShape` says what the copy of a pass may be (in particular it has
  the quota the task was submitted with), `Fresh` that nothing was billed before the end,
  `BillShape` that a pass that bills is alone and how far its writes have come, `Settled`
  where the books stand when nobody bills, and `RefundShape` that a refund belongs to a
  failed row. Since statuses recur (a running status is written again and again), the
  condition on the status does not make a copy current; that it is current *in its quota*,
  which only billing changes and only after the end, is why the theorems hold. All but
  `TypeOK` is stated under `OnlyPolled`: the fetch of a user breaks each of them. `EndFinal`
  excepts the step of a failed look-up of the channel.
* `SystemTaskProofs`: `Ordered` (at most one active row, older ones ended), `Known` (what
  the lock and the passes refer to exists), `JobShape` (rows with a handler were claimed,
  and no row has two) and, unless claims may stall, `LockShape` (the lock of a running
  row, unless it is an orphan, the runner between lock and row, and the copies of stale
  locks). `OneHandler` and
  `EndFinal` hold even when claims stall for longer than a lease.

Only model-checked: everything under fairness (`EventuallyProjected`, `SubmissionEnds`,
`FailedIsRefunded`, `EndedJobsAreBilled`, `ResultStored`, `UnsentIsReturned`, both
`TaskEnds` and `ReservationsClose`), which is out of the prover's reach. Every invariant
and every action property or refinement of a passing run is stated by a theorem. The
promises of section 6 do not hold, so there is nothing to prove of them.

## 6. Disagreements between code and promises

* `execution_replay`: `UpdateWildFlowOperationExecution` writes a state over a newer one.
  After a slow status request has written `running` over a stored result, a replay of the
  key no longer answers with the stored result, contrary to the comment on
  `StoreWildFlowOperationResult`. No money is affected (section 5). For a settled
  operation only another client request repairs it.
* `ledger_retention`: pre-consume records are deleted seven days after their last change,
  also when an open operation still needs one (transcription jobs get a deadline of 14
  days). Its refund then fails for ever. `RefundsWithRecord` shows this is the only way
  in the model.
* `ledger_deleted_token`: a settlement that must return token quota looks the token up
  without deleted rows and fails for ever after the user deleted it, while the refund path
  handles the case. `SettlesWithToken` shows that, with the lost record, this is the
  only way.
* `async_task_refetch`: a pass fails a Gemini or Vertex task and refunds it. Before the pass
  records quota 0, the user's fetch loads the row and then writes `IN_PROGRESS` and the old
  quota back; the next pass fails and refunds the task again. The quota of the row is meant
  to prevent just that (`task_billing.go:255`). No race is needed for a refunded task to
  become `SUCCESS`, nor for a failure that the fetch sees first to stay without a refund.
* `async_task_subscription`: `preConsume` drops the subscription that
  `ReserveSubscriptionBillingQuota` reserved from, so tasks are inserted with subscription
  id 0. When a task that a subscription paid for fails, or its price is recalculated, the
  wallet is adjusted, although the comments of `task_billing.go` promise the funding
  source. The amounts stay right (`QuotaIsCharged` is proved for both sources).

Four more are met in the models as exceptions of a property, without a run of their own:

* A plain task is inserted with the context of the client's request. When the insertion
  commits and the answer is lost, the handler refunds (`relay.go:687`) a task that exists
  and is polled to its end, while the test
  `TestExecuteTaskSubmissionDisconnectAfterDurableInsertDoesNotRefund` covers a disconnect
  after the answer. `DurableIsPaid` says what does hold: a task whose handler was told keeps
  its quota, and an image task always does.
* A session that began with an estimate of 0 has no reservation; when the selected group
  costs more, it takes the difference without one. Its refund then looks for a record,
  because `hasReservation` (`billing_session.go:88`) goes by the amount, and gives nothing
  back, while the comment at `billing_session.go:141` promises all that was taken in
  advance. `UnsentIsReturned` is about quota under a reservation.
* The handler means to reserve a final price above the estimate before it inserts the task
  (`relay.go:794`), but `AppendBillingReservation` (`billing_reservation.go:407`) adds
  nothing to a reservation whose request was sent. The handler answers that quota is
  insufficient and refunds a task that the provider has accepted.
* The listing for reconciliation names the states in which a free trial operation is polled
  and leaves out `pending` (`wildflow_operation.go:189`), which the inference client accepts.
  A trial whose row says pending and whose user does not ask again is never polled, and its
  result is not stored. `ResultStored` excepts it and shows that it is the only way in the
  model.

## 7. Plan

1. (done) Contract, submission, execution, projection, ledger; first theorems.
2. (done) Relay billing reservations with the recovery of stale rows, and the escrow they
   implement; asynchronous tasks; system task leases; their inductive invariants.
3. Next: user sessions with refresh rotation, reuse detection and cache fences; the
   bounded batches of the reconcilers and of task polling, with rows that fail for good;
   submission and ledger in one module (today the ledger assumes that an operation ends
   once, which `FinalIsFinal` proves of execution).
4. (done) Proofs of all safety properties of the modelled parts, the ledger's and the
   conservation sums included; the ledger as an escrow; the handover from submission to
   execution.

## 8. Not modelled, and why

* Request parsing, prices, validation of results and artifacts, signatures of usage
  events: data, represented by their outcome.
* Redis copies of quota (`syncWildFlowBillingQuotaCache`): adjusted after the commit and
  only logged on failure; they belong to the planned cache module.
* Operations that end in `recovery_required` without a job id: by documentation an
  operator resolves them, so no liveness is claimed.
* The second trial offering is not listed by the billing reconciler; the model is of the
  listed one.
* Administration of subscriptions: an administrator may delete one for good while a
  reservation charged to it is open; its refund then fails for ever.
* Batch limits of the reconciler's listings: the models visit any eligible row, while the
  code takes the oldest hundred, so rows that fail for good could crowd out others. This
  is listed as a hazard and planned.
* Around relay billing: the violation fee of a rejected request (an unconditional charge
  after the refund), requests that skip the session because pre-consumption is switched
  off for free models (`EnableFreeModelPreConsume`, on by default), the cached quota,
  and `ReserveUserQuota` and `ReserveTokenQuota`, which nothing calls.
* Around tasks: tasks without an upstream id (failed in bulk like those of a lost
  channel), tasks that end with their submission (one that the provider fails at once
  keeps its price), and the price of the usage. A provider that reports 100% before the
  end hides the row from passes and sweep; `TaskEnds` excepts it. A crash
  between the end of a task and its refund, or an error of a write that was carried out,
  loses the refund or its record; the code has no recovery, so the properties except it.
* Around system tasks: the progress handlers report. A claim whose answer is lost
  (`system_task.go:253`), or that pauses for longer than the lease of a minute between its
  statements, leaves a running row without a lock that no cleanup finds, and its type is not
  scheduled again; nothing in the repository promises otherwise, and `RunningIsLocked` and
  `TaskEnds` except it.
* User sessions, authentication flows, top-ups, redemptions and caches: planned, or single
  transactions on a locked row.
* Relay adaptors, plugin runtime, billing expressions, channel selection, settings, OAuth,
  web and desktop shells: conversion, third-party protocols, weighted choice and
  presentation. They are most of the repository's lines and have no protocol of their own,
  which is why the modelled share of the lines is small.
