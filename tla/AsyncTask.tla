------------------------------- MODULE AsyncTask -------------------------------
(***************************************************************************)
(* The life of an asynchronous task after it was submitted and paid for:   *)
(* polling passes (service/task_polling.go), the time-out sweep, the       *)
(* storing of images, and the billing that follows the end of the task     *)
(* (service/task_billing.go) on the task row (model/task.go).              *)
(*                                                                         *)
(* A pass loads rows, talks to the provider and writes whole rows back     *)
(* under a condition on the status it loaded.  Passes overlap: one whose   *)
(* lease was lost (SystemTask) goes on until it looks at its context.      *)
(* A provider's answer is stale by the time it is written.                 *)
(*                                                                         *)
(* A task of a Gemini or Vertex channel has one more writer: a request of  *)
(* its user for the task (tryRealtimeFetch of relay/relay_task.go) asks    *)
(* the provider itself and saves what it says, whatever the status of the  *)
(* row it loaded, and without billing.                                     *)
(***************************************************************************)
EXTENDS Integers

CONSTANTS
    Passes,        \* polling passes that may overlap
    InitialQuota,  \* quota the task was submitted with
    Costs,         \* quotas the usage of a finished task may come to
    Kinds,         \* what the task may be: "video", "image", or "realtime"
                   \* for one that tryRealtimeFetch asks for
    Sources,       \* what may have funded it: "wallet", "subscription"
    Legacies,      \* and whether it may be older than TaskRefundLegacyCutoff
    MaxFailures,   \* constant.TaskPollMaxFailures, 0 for no limit
    CountBound,    \* bound on the failures that are counted
    Fetches,       \* requests of the user for the task, each made once
    MaxErrors,     \* bound on failed look-ups of the channel
    MaxCrashes     \* bound on crashes

ASSUME TaskAssumption ==
    /\ InitialQuota \in Nat /\ Costs \subseteq Nat
    /\ Kinds \subseteq {"video", "image", "realtime"} /\ Legacies \subseteq BOOLEAN
    /\ Sources \subseteq {"wallet", "subscription"}
    /\ MaxFailures \in Nat /\ CountBound \in Nat /\ MaxFailures <= CountBound
    /\ MaxErrors \in Nat /\ MaxCrashes \in Nat

VARIABLES
    row,       \* the task row: status, quota, poll failures, progress = "100%"
    fund,      \* what was submitted: kind, legacy, and the source that paid
    charged,   \* charged[s]: quota the task has taken from source s, net
    tcharged,  \* quota the task has taken from the API token, net
    tlost,     \* an adjustment of the token failed, which is only logged
    pass,      \* pass[p]: where p is, its copy of the row and what it bills
    fetch,     \* fetch[f]: how far request f is, and its copy of the row
    provider,  \* what the provider has come to
    world,     \* whether the time-out has passed, and failed look-ups
    refunded,  \* a refund reached the funding source
    cut,       \* a billing step was lost, with its process or in an error
    crashes

vars == <<row, fund, charged, tcharged, tlost, pass, fetch, provider, world, refunded, cut,
          crashes>>
books == <<charged, tcharged, tlost, refunded, cut>>
rest == <<fund, fetch, provider, world, crashes>>

Running == {"SUBMITTED", "IN_PROGRESS"}
Terminal == {"SUCCESS", "FAILURE"}
Statuses == Running \cup Terminal \cup {"PERSISTING"}

Rows == [status : Statuses, quota : Nat, fails : 0..CountBound, full : BOOLEAN]

Billing == {"funding", "token", "quota"}

TypeOK ==
    /\ row \in Rows
    /\ fund \in [kind : {"video", "image", "realtime"}, legacy : BOOLEAN,
                source : {"wallet", "subscription"}]
    /\ charged \in [{"wallet", "subscription"} -> Int] /\ tcharged \in Int
    /\ pass \in [Passes -> [pc : {"idle", "sweep", "fetch", "store"} \cup Billing,
                            copy : Rows, target : Nat, refund : BOOLEAN]]
    /\ fetch \in [Fetches -> [pc : {"idle", "loaded", "done"}, copy : Rows]]
    /\ provider \in {"working", "succeeded", "failed"}
    /\ world \in [timeout : BOOLEAN, errors : 0..MaxErrors]
    /\ tlost \in BOOLEAN /\ refunded \in BOOLEAN /\ cut \in BOOLEAN
    /\ crashes \in 0..MaxCrashes

-----------------------------------------------------------------------------
FirstRow == [status |-> "SUBMITTED", quota |-> InitialQuota, fails |-> 0, full |-> FALSE]

Idle == [pc |-> "idle", copy |-> FirstRow, target |-> 0, refund |-> FALSE]

(* The task was inserted by executeTaskSubmissionWith, and its reservation *)
(* is settled (RelayBilling).                                              *)
Init ==
    /\ row = FirstRow
    /\ fund \in [kind : Kinds, legacy : Legacies, source : Sources]
    /\ charged = [s \in {"wallet", "subscription"} |->
                    IF s = fund.source THEN InitialQuota ELSE 0]
    /\ tcharged = InitialQuota
    /\ pass = [p \in Passes |-> Idle]
    /\ fetch = [f \in Fetches |-> [pc |-> "idle", copy |-> FirstRow]]
    /\ provider = "working"
    /\ world = [timeout |-> FALSE, errors |-> 0]
    /\ tlost = FALSE /\ refunded = FALSE /\ cut = FALSE /\ crashes = 0

Stop(p) == pass' = [pass EXCEPT ![p] = Idle]

(* Faulty variant: the row is saved without a condition. *)
FaultyWins(p) == TRUE

(* UpdateWithStatus: the update matches only the status that was loaded.   *)
(* When it matches, every column is written.                               *)
Wins(p) == row.status = pass[p].copy.status

UpdateWithStatus(p, new) == row' = IF Wins(p) THEN new ELSE row

-----------------------------------------------------------------------------
(* Loading rows. *)

Unfinished == row.status \notin Terminal /\ ~row.full

(* GetAllUnFinishSyncTasks.  An image whose result is being stored is not  *)
(* asked for again.                                                        *)
LoadTasks(p) ==
    /\ pass[p].pc = "idle" /\ Unfinished
    /\ pass' = [pass EXCEPT ![p].pc = IF row.status = "PERSISTING" THEN "store" ELSE "fetch",
                            ![p].copy = row]
    /\ UNCHANGED <<row, books, rest>>

(* Faulty variant: an image that is being stored times out too. *)
FaultyMayTimeOut == Unfinished

(* Faulty variant: tasks that were never seen running are passed over. *)
FaultyTimeOutRunning == Unfinished /\ row.status = "IN_PROGRESS"

(* GetTimedOutUnfinishedTasks *)
MayTimeOut == Unfinished /\ row.status # "PERSISTING"

LoadTimedOut(p) ==
    /\ pass[p].pc = "idle" /\ world.timeout /\ MayTimeOut
    /\ pass' = [pass EXCEPT ![p].pc = "sweep", ![p].copy = row]
    /\ UNCHANGED <<row, books, rest>>

-----------------------------------------------------------------------------
(* Ending a task: the row, then the billing by the pass that won. *)

Ended(p, status) == [pass[p].copy EXCEPT !.status = status, !.full = TRUE]

(* Faulty variant: a pass that lost the row bills as well. *)
FaultyBill(p, cost, refund) ==
    \/ /\ cost # pass[p].copy.quota
       /\ pass' = [pass EXCEPT ![p] = [@ EXCEPT !.pc = "funding", !.target = cost,
                                                 !.refund = refund]]
    \/ Stop(p)

(* RecalculateTaskQuota, or RefundTaskQuota with cost 0, by the winner,    *)
(* when there is a difference.  Nothing is billed by a pass that lost, nor *)
(* by one that won without being told: the answer to its write was an      *)
(* error.                                                                  *)
Bill(p, cost, refund) ==
    \/ /\ Wins(p) /\ cost # pass[p].copy.quota
       /\ pass' = [pass EXCEPT ![p] = [@ EXCEPT !.pc = "funding", !.target = cost,
                                                 !.refund = refund]]
    \/ Stop(p)

(* settleTaskBillingOnComplete of a failed task, followed by a refund      *)
(* unless the reported usage decided.                                      *)
BillFailure(p) ==
    \/ Bill(p, 0, TRUE)
    \/ \E cost \in Costs : Bill(p, cost, FALSE)

(* settleTaskBillingOnComplete of a task that succeeded: what the          *)
(* expression, the adaptor or the tokens come to, or the quota it had.     *)
BillSuccess(p) == \E cost \in Costs \cup {pass[p].copy.quota} : Bill(p, cost, FALSE)

(* failTaskFromPoll *)
FailTaskFromPoll(p) ==
    /\ UpdateWithStatus(p, Ended(p, "FAILURE"))
    /\ BillFailure(p)

(* sweepTimedOutTasks, one task.  A legacy task loses its quota without a  *)
(* refund.                                                                 *)
Sweep(p) ==
    /\ pass[p].pc = "sweep"
    /\ IF fund.legacy
         THEN /\ UpdateWithStatus(p, [Ended(p, "FAILURE") EXCEPT !.quota = 0])
              /\ Stop(p)
         ELSE /\ UpdateWithStatus(p, Ended(p, "FAILURE"))
              /\ Bill(p, 0, TRUE)
    /\ UNCHANGED <<books, rest>>

-----------------------------------------------------------------------------
(* updateVideoSingleTask, and updateBatchTasks for each task of its batch. *)

GivesUp(n) == MaxFailures > 0 /\ n >= MaxFailures

(* recordPollFailure: no answer, or one that cannot be used. *)
PollFails(p) ==
    LET n == IF pass[p].copy.fails < CountBound THEN pass[p].copy.fails + 1 ELSE CountBound
    IN  /\ pass[p].pc = "fetch"
        /\ IF GivesUp(n)
             THEN FailTaskFromPoll(p)
             ELSE /\ UpdateWithStatus(p, [pass[p].copy EXCEPT !.fails = n])
                  /\ Stop(p)
        /\ UNCHANGED <<books, rest>>

(* The provider does not know the task (any more). *)
PollNotFound(p) ==
    /\ pass[p].pc = "fetch"
    /\ FailTaskFromPoll(p)
    /\ UNCHANGED <<books, rest>>

(* The task is on its way; progress is what the provider reports. *)
PollRunning(p, status, full) ==
    /\ pass[p].pc = "fetch"
    /\ UpdateWithStatus(p, [pass[p].copy EXCEPT !.status = status, !.fails = 0, !.full = full])
    /\ Stop(p)
    /\ UNCHANGED <<books, rest>>

(* Success: an image's result is saved before it is stored, by the pass    *)
(* that won and was told so.                                               *)
PollSucceeded(p) ==
    /\ pass[p].pc = "fetch" /\ provider = "succeeded"
    /\ IF fund.kind = "image"
         THEN LET saved == [pass[p].copy EXCEPT !.status = "PERSISTING"]
              IN  /\ UpdateWithStatus(p, saved)
                  /\ \/ Wins(p) /\ pass' = [pass EXCEPT ![p].pc = "store", ![p].copy = saved]
                     \/ Stop(p)
         ELSE /\ UpdateWithStatus(p, Ended(p, "SUCCESS"))
              /\ BillSuccess(p)
    /\ UNCHANGED <<books, rest>>

PollFailed(p) ==
    /\ pass[p].pc = "fetch" /\ provider = "failed"
    /\ FailTaskFromPoll(p)
    /\ UNCHANGED <<books, rest>>

(* resumeTaskImagePersistence *)
StoreImages(p) ==
    /\ pass[p].pc = "store"
    /\ UpdateWithStatus(p, Ended(p, "SUCCESS"))
    /\ BillSuccess(p)
    /\ UNCHANGED <<books, rest>>

StoreFails(p) ==
    /\ pass[p].pc = "store"
    /\ UpdateWithStatus(p, pass[p].copy)
    /\ Stop(p)
    /\ UNCHANGED <<books, rest>>

(* TaskBulkUpdateByID: when the look-up of the channel fails, because it   *)
(* was deleted or because the database did not answer, every task of it is *)
(* failed, without a condition on the status and without a refund.         *)
FailChannelTasks(p) ==
    /\ pass[p].pc = "fetch" /\ world.errors < MaxErrors
    /\ row' = [row EXCEPT !.status = "FAILURE", !.full = TRUE]
    /\ world' = [world EXCEPT !.errors = @ + 1]
    /\ Stop(p)
    /\ UNCHANGED <<books, fund, fetch, provider, crashes>>

(* The pass ends before it gets to the task (ctx.Err), or an update of the *)
(* row ends in an error: nothing is written and nothing billed.            *)
Cancelled(p) ==
    /\ pass[p].pc \in {"sweep", "fetch", "store"}
    /\ Stop(p)
    /\ UNCHANGED <<row, books, rest>>

-----------------------------------------------------------------------------
(* The three writes of an adjustment. *)

(* NewBillingSession keeps nothing of the subscription it reserved from,   *)
(* so the task is inserted with SubscriptionId 0.                          *)
SubscriptionId == 0

(* taskIsSubscription *)
FundedBy == IF fund.source = "subscription" /\ SubscriptionId > 0
              THEN "subscription" ELSE "wallet"

Delta(p) == pass[p].target - pass[p].copy.quota

Adjusted(p) == [charged EXCEPT ![FundedBy] = @ + Delta(p)]

(* taskAdjustFunding *)
AdjustFunding(p) ==
    /\ pass[p].pc = "funding"
    /\ charged' = Adjusted(p)
    /\ refunded' = (refunded \/ pass[p].refund)
    /\ pass' = [pass EXCEPT ![p].pc = "token"]
    /\ UNCHANGED <<row, tcharged, tlost, cut, rest>>

(* The adjustment ends in an error and the row keeps its quota; unless     *)
(* only the answer was lost, nothing was moved.                            *)
AdjustFundingFails(p) ==
    /\ pass[p].pc = "funding"
    /\ \/ UNCHANGED books
       \/ /\ charged' = Adjusted(p)
          /\ refunded' = (refunded \/ pass[p].refund)
          /\ cut' = TRUE
          /\ UNCHANGED <<tcharged, tlost>>
    /\ Stop(p)
    /\ UNCHANGED <<row, rest>>

(* taskAdjustTokenQuota *)
AdjustTokenQuota(p) ==
    /\ pass[p].pc = "token"
    /\ tcharged' = tcharged + Delta(p)
    /\ pass' = [pass EXCEPT ![p].pc = "quota"]
    /\ UNCHANGED <<row, charged, tlost, refunded, cut, rest>>

(* The token was deleted, or its update ends in an error, written or not:  *)
(* the adjustment goes on.                                                 *)
AdjustTokenFails(p) ==
    /\ pass[p].pc = "token"
    /\ tlost' = TRUE
    /\ tcharged' \in {tcharged, tcharged + Delta(p)}
    /\ pass' = [pass EXCEPT ![p].pc = "quota"]
    /\ UNCHANGED <<row, charged, refunded, cut, rest>>

(* Faulty variant: the new quota is not saved. *)
FaultyKeepQuota(p) ==
    /\ pass[p].pc = "quota"
    /\ Stop(p)
    /\ UNCHANGED <<row, books, rest>>

(* Task.UpdateQuota *)
UpdateQuota(p) ==
    /\ pass[p].pc = "quota"
    /\ row' = [row EXCEPT !.quota = pass[p].target]
    /\ Stop(p)
    /\ UNCHANGED <<books, rest>>

(* Saving the new quota ends in an error, which is only logged. *)
UpdateQuotaFails(p) ==
    /\ pass[p].pc = "quota"
    /\ row' \in {row, [row EXCEPT !.quota = pass[p].target]}
    /\ Stop(p)
    /\ cut' = TRUE
    /\ UNCHANGED <<charged, tcharged, tlost, refunded, rest>>

(* The process stops, with whatever it had left to write. *)
Crash(p) ==
    /\ pass[p].pc # "idle" /\ crashes < MaxCrashes
    /\ Stop(p)
    /\ cut' = (cut \/ pass[p].pc \in Billing)
    /\ crashes' = crashes + 1
    /\ UNCHANGED <<row, fund, charged, tcharged, tlost, fetch, provider, world, refunded>>

-----------------------------------------------------------------------------
(* videoFetchByIDRespBodyBuilder with tryRealtimeFetch: the user asks for  *)
(* the task.                                                               *)

(* GetByTaskId loads the row in any status. *)
LoadTask(f) ==
    /\ fund.kind = "realtime" /\ fetch[f].pc = "idle"
    /\ fetch' = [fetch EXCEPT ![f] = [pc |-> "loaded", copy |-> row]]
    /\ UNCHANGED <<row, fund, pass, provider, world, crashes, books>>

FetchEnds(f) == fetch' = [fetch EXCEPT ![f] = [pc |-> "done", copy |-> FirstRow]]

(* The provider's answer becomes the state of the row, if its status is    *)
(* still the one that was loaded: an ended row too, with every column as   *)
(* it was loaded, and nothing is billed.  Only a failure that is known     *)
(* already leaves nothing to save.  An error the provider reports reads as *)
(* a failure of the task, whatever it was about.                           *)
TryRealtimeFetch(f, status, full) ==
    /\ fetch[f].pc = "loaded"
    /\ status = "SUCCESS" => provider = "succeeded"
    /\ status \in Terminal => full
    /\ row' = IF row.status = fetch[f].copy.status /\ {status, row.status} # {"FAILURE"}
                THEN [fetch[f].copy EXCEPT !.status = status, !.full = full]
                ELSE row
    /\ FetchEnds(f)
    /\ UNCHANGED <<fund, pass, provider, world, crashes, books>>

(* No channel, no answer, or one that cannot be used. *)
FetchFails(f) ==
    /\ fetch[f].pc = "loaded"
    /\ FetchEnds(f)
    /\ UNCHANGED <<row, fund, pass, provider, world, crashes, books>>

-----------------------------------------------------------------------------
ProviderEnds ==
    /\ provider = "working"
    /\ provider' \in {"succeeded", "failed"}
    /\ UNCHANGED <<row, fund, pass, fetch, world, crashes, books>>

TimeoutPasses ==
    /\ ~world.timeout
    /\ world' = [world EXCEPT !.timeout = TRUE]
    /\ UNCHANGED <<row, fund, pass, fetch, provider, crashes, books>>

Work(p) ==
    \/ Sweep(p) \/ PollFails(p) \/ PollNotFound(p) \/ PollSucceeded(p) \/ PollFailed(p)
    \/ \E status \in Running, full \in BOOLEAN : PollRunning(p, status, full)
    \/ StoreImages(p) \/ StoreFails(p) \/ FailChannelTasks(p)
    \/ AdjustFunding(p) \/ AdjustFundingFails(p)
    \/ AdjustTokenQuota(p) \/ AdjustTokenFails(p)
    \/ UpdateQuota(p) \/ UpdateQuotaFails(p)

Next ==
    \/ \E p \in Passes :
         \/ LoadTasks(p) \/ LoadTimedOut(p) \/ Work(p)
         \/ Cancelled(p) \/ Crash(p)
    \/ \E f \in Fetches :
         \/ LoadTask(f) \/ FetchFails(f)
         \/ \E status \in {"IN_PROGRESS"} \cup Terminal, full \in BOOLEAN :
              TryRealtimeFetch(f, status, full)
    \/ ProviderEnds \/ TimeoutPasses

Spec == Init /\ [][Next]_vars

(* Every pass begins with the sweep and is repeated while a task is        *)
(* unfinished; a pass that is under way goes on.  An overlapping pass does *)
(* not change the status in the moment between the load and the write of   *)
(* every single sweep.  Nothing is assumed of the provider.                *)
FairSpec ==
    /\ Spec
    /\ WF_vars(TimeoutPasses)
    /\ \A p \in Passes :
         /\ WF_vars(Work(p))
         /\ SF_vars(LoadTimedOut(p)) /\ SF_vars(Sweep(p) /\ Wins(p))

-----------------------------------------------------------------------------
Total == charged["wallet"] + charged["subscription"]

IsBilling(p) == pass[p].pc \in Billing

(* Only passes write the row of such a task. *)
OnlyPolled == fund.kind # "realtime"

(* Overlapping passes, the sweep and stale copies of the row never bill a  *)
(* task twice, or one that has not ended: at most one pass is billing a    *)
(* task that only passes write.                                            *)
OnePassBills ==
    OnlyPolled =>
      \A p \in Passes : IsBilling(p) =>
        /\ row.status \in Terminal
        /\ \A q \in Passes : IsBilling(q) => q = p

(* The row's quota is what the task has been charged, so that whoever      *)
(* looks at it next bills the right difference; except between the two     *)
(* writes of one adjustment, after one of them ended in an error or with   *)
(* its process, and for a legacy task.                                     *)
QuotaIsCharged ==
    \/ cut
    \/ Total = row.quota
    \/ \E p \in Passes : pass[p].pc \in {"token", "quota"} /\ Total = pass[p].target
    \/ fund.legacy /\ row.quota = 0 /\ Total = InitialQuota

(* The API token is charged what the funding source is, except between     *)
(* those two writes, and unless the token was deleted or its update ended  *)
(* in an error.                                                            *)
TokenFollowsFunding ==
    \/ cut \/ tlost
    \/ tcharged = Total
    \/ \E p \in Passes : pass[p].pc = "token" /\ tcharged = pass[p].copy.quota

(* Both, of a task that only passes write: row, funding source and token   *)
(* agree, wherever an adjustment was interrupted.                          *)
BooksAgree == OnlyPolled => QuotaIsCharged /\ TokenFollowsFunding

(* A task whose result was delivered, or is being stored, is not refunded, *)
(* whatever the sweep and late failures do, if only passes write it.       *)
RefundedIsFailed ==
    OnlyPolled /\ (refunded \/ \E p \in Passes : IsBilling(p) /\ pass[p].refund)
      => row.status = "FAILURE"

(* An end is the end, and the saved result of an image is only given up    *)
(* for its delivery: no stale copy brings the task back or turns a success *)
(* into a failure.  Except in a failed look-up of the channel, which fails *)
(* whatever is there, and if only passes write the task.                   *)
EndIsFinal ==
    [][OnlyPolled /\ world'.errors = world.errors =>
         /\ row.status \in Terminal => row'.status = row.status
         /\ row.status = "PERSISTING" => row'.status \in {"PERSISTING", "SUCCESS"}]_vars

(* Every task ends, or waits for its images to be stored, though the       *)
(* provider may never answer; unless the provider reported 100% before the *)
(* end, which hides the row from passes and sweep.                         *)
TaskEnds ==
    <>(row.status \in Terminal \cup {"PERSISTING"} \/ row.full)

(* A refund or a recalculation is made on the source that paid for the     *)
(* task: nothing is moved on the wallet of a task a subscription paid for. *)
AdjustsItsSource == fund.source = "subscription" => charged["wallet"] = 0

(* A task is not refunded twice: with no step of a refund lost, it never   *)
(* gets back more than it paid, whoever fetches it meanwhile.              *)
NotRefundedTwice == ~fund.legacy /\ ~cut => Total >= 0
=============================================================================
