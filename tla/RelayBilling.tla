----------------------------- MODULE RelayBilling -----------------------------
(***************************************************************************)
(* The quota reservation of a relayed request (model/billing_reservation   *)
(* .go), the billing session that drives it (service/billing_session.go),  *)
(* and the handlers that use the session: Relay and RelayTask of           *)
(* controller/relay.go with relay/relay_task.go, and the operation row of  *)
(* an image task (model/task_operation.go).                                *)
(*                                                                         *)
(* Request ids are made by middleware.RequestId, so each request has one   *)
(* session and at most one reservation.  Every database transaction is one *)
(* step: the reservation row is locked or, on SQLite, writers are serial.  *)
(* Between the steps other requests, the recovery job and the user         *)
(* (deleting the API token) act, and the process may stop.                 *)
(***************************************************************************)
EXTENDS Integers, Sequences, FiniteSetsExt

CONSTANTS
    Requests,       \* request ids
    Kinds,          \* Kinds[r]: what r may be, of "relay", "task" and "image"
    Plans,          \* orders in which a billing preference tries the sources
    Prices,         \* quotas an estimate, a group's price or the usage may come to
    InitialWallet,  \* user.quota
    InitialToken,   \* token.remain_quota
    Limited,        \* FALSE for a token with unlimited_quota
    SubTotal,       \* amount_total of the user's subscription, 0 when unlimited
    MaxRetries      \* common.RetryTimes

ASSUME RelayAssumption ==
    /\ IsFiniteSet(Requests)
    /\ Kinds \in [Requests -> SUBSET {"relay", "task", "image"}]
    /\ Plans \subseteq Seq({"wallet", "subscription"})
    /\ Prices \subseteq Nat
    /\ InitialWallet \in Nat /\ InitialToken \in Nat /\ SubTotal \in Nat
    /\ MaxRetries \in Nat
    /\ Limited \in BOOLEAN

VARIABLES
    wallet,    \* user.quota
    debt,      \* net quota taken from the wallet outside any reservation
    token,     \* remain_quota, used_quota, deleted_at
    tdebt,     \* net quota taken from the token outside any reservation
    sub,       \* the subscription: amount_used, and whether it is active
    rec,       \* rec[r]: the BillingReservationRecord of r
    sess,      \* sess[r]: the handler of r and its BillingSession
    op,        \* op[r]: state of the image task's operation
    task,      \* task[r]: quota of the task row that was inserted, and whether
               \* its handler was told so
    provider   \* provider[r]: what the provider knows of r

accounts == <<wallet, debt, token, tdebt, sub>>
outside == <<op, task, provider>>
vars == <<wallet, debt, token, tdebt, sub, rec, sess, op, task, provider>>

NoTask == [quota |-> -1, answered |-> FALSE]

TypeOK ==
    /\ wallet \in Int /\ debt \in Int /\ tdebt \in Int
    /\ token \in [remain : Int, used : Int, deleted : BOOLEAN]
    /\ sub \in [used : Nat, active : BOOLEAN]
    /\ rec \in [Requests ->
                 [state : {"none", "reserved", "started", "settled", "released", "gone"},
                  source : {"none", "wallet", "subscription"},
                  amount : Nat]]
    /\ sess \in [Requests ->
                 [pc : {"idle", "try", "price", "mark", "sent", "won", "insert",
                        "settle", "token", "refund", "done"},
                  kind : {"relay", "task", "image"},
                  plan : Seq({"wallet", "subscription"}),
                  want : Nat, pre : Nat, unknown : BOOLEAN, tries : 0..MaxRetries]]
    /\ op \in [Requests -> {"none", "submitting", "accepted", "recovery_required",
                            "task_failed"}]
    /\ task \in [Requests -> [quota : Int, answered : BOOLEAN]]
    /\ provider \in [Requests -> {"never", "wire", "quiet", "done"}]

-----------------------------------------------------------------------------
NoRecord == [state |-> "none", source |-> "none", amount |-> 0]

NoSession ==
    [pc |-> "idle", kind |-> "relay", plan |-> << >>, want |-> 0, pre |-> 0,
     unknown |-> FALSE, tries |-> 0]

Init ==
    /\ wallet = InitialWallet /\ debt = 0 /\ tdebt = 0
    /\ token = [remain |-> InitialToken, used |-> 0, deleted |-> FALSE]
    /\ sub = [used |-> 0, active |-> TRUE]
    /\ rec = [r \in Requests |-> NoRecord]
    /\ sess = [r \in Requests |-> NoSession]
    /\ op = [r \in Requests |-> "none"]
    /\ task = [r \in Requests |-> NoTask]
    /\ provider = [r \in Requests |-> "never"]

(* The session goes with its handler (Refund copies what its goroutine     *)
(* needs); kind is kept for the properties.                                *)
Goto(r, pc) ==
    sess' = [sess EXCEPT ![r] = IF pc \in {"refund", "done"}
                                  THEN [NoSession EXCEPT !.pc = pc, !.kind = sess[r].kind]
                                  ELSE [@ EXCEPT !.pc = pc]]

-----------------------------------------------------------------------------
(* The token.  Rows of a deleted token match no update: taking quota fails *)
(* and giving quota back changes nothing, without an error.                *)

(* reserveTokenQuotaTx and a positive adjustTokenQuotaDeltaTx *)
TokenHas(a) == a = 0 \/ (~token.deleted /\ (Limited => token.remain >= a))

(* a is negative when quota is given back. *)
ChargeToken(a) ==
    token' = IF token.deleted THEN token
             ELSE [token EXCEPT !.remain = @ - a, !.used = @ + a]

(* The subscription.  An adjustment stops at zero. *)
Adjusted(a) == IF sub.used + a < 0 THEN 0 ELSE sub.used + a

(* Faulty variant: the wallet is charged without a condition. *)
FaultyFundingHas(source, a) ==
    \/ a <= 0 \/ source = "wallet"
    \/ source = "subscription" /\ (SubTotal > 0 => Adjusted(a) <= SubTotal)

(* Whether the update of the funding source matches its row: quota can     *)
(* always be given back (adjustUserQuotaDeltaTx, reserveUserQuotaTx and    *)
(* postConsumeUserSubscriptionDeltaTx).                                    *)
FundingHas(source, a) ==
    \/ a <= 0
    \/ source = "wallet" /\ wallet >= a
    \/ source = "subscription" /\ (SubTotal > 0 => Adjusted(a) <= SubTotal)

ChargeFunding(source, a) ==
    /\ wallet' = IF source = "wallet" THEN wallet - a ELSE wallet
    /\ sub' = IF source = "subscription" THEN [sub EXCEPT !.used = Adjusted(a)] ELSE sub

-----------------------------------------------------------------------------
(* NewBillingSession: the sources of the preference are tried in order.    *)

(* A request arrives.  For an image task, prepareTaskImageOperation has    *)
(* inserted its operation (ReserveTaskOperation).                          *)
Start(r, k, plan, estimate) ==
    /\ sess[r].pc = "idle"
    /\ sess' = [sess EXCEPT ![r] = [@ EXCEPT !.pc = "try", !.kind = k, !.plan = plan,
                                             !.want = estimate]]
    /\ op' = [op EXCEPT ![r] = IF k = "image" THEN "submitting" ELSE @]
    /\ UNCHANGED <<accounts, rec, task, provider>>

(* trySubscription reserves at least one unit. *)
Asked(r, source) ==
    IF source = "subscription" /\ sess[r].want = 0 THEN 1 ELSE sess[r].want

SubscriptionRoom(a) == sub.active /\ (SubTotal = 0 \/ SubTotal - sub.used >= a)

(* The session is made.  Only the relay handler prices the selected group  *)
(* before it sends.                                                        *)
SessionReady(r, source) ==
    sess' = [sess EXCEPT ![r] =
               [@ EXCEPT !.pc = IF sess[r].kind = "relay" THEN "price" ELSE "mark",
                         !.pre = Asked(r, source), !.plan = << >>, !.want = 0]]

(* claimBillingReservationTx *)
Claim(r, source) ==
    rec' = [rec EXCEPT ![r] = [state |-> "reserved", source |-> source,
                               amount |-> Asked(r, source)]]

(* ReserveWalletBillingQuota: one transaction takes both.  A session that  *)
(* needs nothing is made without a reservation.                            *)
ReserveWallet(r) ==
    LET a == sess[r].want
    IN  /\ sess[r].pc = "try" /\ sess[r].plan # << >> /\ Head(sess[r].plan) = "wallet"
        /\ wallet > 0 /\ wallet >= a /\ TokenHas(a)
        /\ IF a = 0
             THEN UNCHANGED <<wallet, token, rec>>
             ELSE /\ wallet' = wallet - a
                  /\ ChargeToken(a)
                  /\ Claim(r, "wallet")
        /\ SessionReady(r, "wallet")
        /\ UNCHANGED <<debt, tdebt, sub, outside>>

(* ReserveSubscriptionBillingQuota with preConsumeUserSubscriptionTx *)
ReserveSubscription(r) ==
    LET a == Asked(r, "subscription")
    IN  /\ sess[r].pc = "try" /\ sess[r].plan # << >> /\ Head(sess[r].plan) = "subscription"
        /\ SubscriptionRoom(a) /\ TokenHas(a)
        /\ sub' = [sub EXCEPT !.used = @ + a]
        /\ ChargeToken(a)
        /\ Claim(r, "subscription")
        /\ SessionReady(r, "subscription")
        /\ UNCHANGED <<wallet, debt, tdebt, outside>>

(* Faulty variant: an unknown outcome is recorded as a failure. *)
FaultyOperationFails(r, uncertain) ==
    op' = [op EXCEPT ![r] = IF @ = "submitting" THEN "task_failed" ELSE @]

(* RecordTaskOperationSubmissionFailure, once the handler gives up. *)
OperationFails(r, uncertain) ==
    op' = [op EXCEPT ![r] = IF @ # "submitting" THEN @
                            ELSE IF uncertain THEN "recovery_required" ELSE "task_failed"]

(* A source has too little, by its row or by the cached quota: the next    *)
(* one is tried, or the request is refused, because there is none, because *)
(* the subscription does not allow it, or because the database fails.      *)
SourceInsufficient(r) ==
    /\ sess[r].pc = "try"
    /\ \/ Len(sess[r].plan) > 1 /\ sess' = [sess EXCEPT ![r].plan = Tail(@)] /\ UNCHANGED op
       \/ Goto(r, "done") /\ OperationFails(r, FALSE)
    /\ UNCHANGED <<accounts, rec, task, provider>>

-----------------------------------------------------------------------------
(* Faulty variant: an unknown outcome is refunded. *)
FaultyKeepsReservation(r) == FALSE

(* Which failed handlers leave their reservation alone: the request may    *)
(* have reached the provider.  The plain task handler always refunds.      *)
KeepsReservation(r) == sess[r].kind # "task" /\ sess[r].unknown

(* The handler ends with an error: the deferred function of Relay, or of   *)
(* executeTaskSubmissionWith.  Refund starts a goroutine.                  *)
Fail(r) ==
    /\ Goto(r, IF KeepsReservation(r) \/ sess[r].pre = 0 THEN "done" ELSE "refund")
    /\ OperationFails(r, sess[r].unknown)

(* No channel, no body, a failed conversion or database.                   *)
FailBeforeSend(r) ==
    /\ sess[r].pc \in {"price", "mark"}
    /\ Fail(r)
    /\ UNCHANGED <<accounts, rec, task, provider>>

(* Faulty variant: quota is also added to a reservation that was sent. *)
FaultyCanAppend(r) == rec[r].state \in {"reserved", "started", "released"}

CanAppend(r) == rec[r].state = "reserved"

(* BillingSession.Reserve(target): AppendBillingReservation adds to a      *)
(* reservation that was not sent; reserveWithoutRecord takes the quota     *)
(* from a wallet that has no reservation, without a condition, and then    *)
(* from the token, putting the wallet back when the token refuses (one     *)
(* step here).                                                             *)
ReserveMore(r, target, next) ==
    LET a == target - sess[r].pre
    IN  \/ /\ a <= 0
           /\ Goto(r, next)
           /\ UNCHANGED <<accounts, rec>>
        \/ /\ a > 0 /\ CanAppend(r)
           /\ FundingHas(rec[r].source, a) /\ TokenHas(a)
           /\ ChargeFunding(rec[r].source, a)
           /\ ChargeToken(a)
           /\ rec' = [rec EXCEPT ![r].amount = @ + a]
           /\ sess' = [sess EXCEPT ![r].pc = next, ![r].pre = target]
           /\ UNCHANGED <<debt, tdebt>>
        \/ /\ a > 0 /\ rec[r].state = "none" /\ TokenHas(a)
           /\ wallet' = wallet - a /\ debt' = debt + a
           /\ ChargeToken(a)
           /\ tdebt' = tdebt + a
           /\ sess' = [sess EXCEPT ![r].pc = next, ![r].pre = target]
           /\ UNCHANGED <<sub, rec>>

(* Reserve fails: nothing is charged and the handler ends. *)
AppendRefused(r, target) ==
    LET a == target - sess[r].pre
    IN  /\ a > 0
        /\ IF CanAppend(r)
             THEN ~(FundingHas(rec[r].source, a) /\ TokenHas(a))
             ELSE rec[r].state # "none" \/ ~TokenHas(a)

(* PrepareTieredBillingForSelectedGroup *)
PrepareBilling(r, price) ==
    /\ sess[r].pc = "price"
    /\ \/ ReserveMore(r, price, "mark") /\ UNCHANGED op
       \/ AppendRefused(r, price) /\ Fail(r) /\ UNCHANGED <<accounts, rec>>
    /\ UNCHANGED <<task, provider>>

(* Faulty variant: the marker is not checked. *)
FaultyCanSend(r) == TRUE

(* MarkBillingReservationProviderStarted; a session without quota has no   *)
(* reservation to mark.                                                    *)
CanSend(r) == sess[r].pre = 0 \/ rec[r].state \in {"reserved", "started"}

MarkProviderStarted(r) ==
    /\ sess[r].pc = "mark"
    /\ \/ /\ CanSend(r)
          /\ rec' = IF rec[r].state = "reserved"
                      THEN [rec EXCEPT ![r].state = "started"]
                      ELSE rec
          /\ sess' = [sess EXCEPT ![r] = [@ EXCEPT !.pc = "sent", !.unknown = TRUE]]
          /\ provider' = [provider EXCEPT ![r] = IF @ = "done" THEN @ ELSE "wire"]
          /\ UNCHANGED op
       \/ /\ ~CanSend(r)
          /\ Fail(r)
          /\ UNCHANGED <<rec, provider>>
    /\ UNCHANGED <<accounts, task>>

-----------------------------------------------------------------------------
(* The provider carries out a request it was sent, answered or not. *)
ProviderWorks(r) ==
    /\ provider[r] = "wire"
    /\ provider' = [provider EXCEPT ![r] = "done"]
    /\ UNCHANGED <<accounts, rec, sess, op, task>>

(* The handler sees a success: the task handler also the final price. *)
AnswerSuccess(r, price) ==
    /\ sess[r].pc = "sent" /\ provider[r] = "done"
    /\ sess' = [sess EXCEPT ![r] = [@ EXCEPT !.pc = "won", !.want = price]]
    /\ UNCHANGED <<accounts, rec, outside>>

MayRetry(r) == sess[r].tries < MaxRetries /\ sess[r].kind # "image"

Again(r, unknown) ==
    sess' = [sess EXCEPT ![r] =
               [@ EXCEPT !.pc = IF sess[r].kind = "relay" THEN "price" ELSE "mark",
                         !.tries = sess[r].tries + 1, !.unknown = unknown]]

(* The answer proves that the provider did nothing: it rejected the        *)
(* request, or never got it.  The handler tries again or gives up.         *)
AnswerNoWork(r) ==
    /\ sess[r].pc = "sent" /\ provider[r] = "wire"
    /\ provider' = [provider EXCEPT ![r] = "quiet"]
    /\ \/ MayRetry(r) /\ Again(r, FALSE) /\ UNCHANGED op
       \/ /\ Goto(r, IF sess[r].pre = 0 THEN "done" ELSE "refund")
          /\ OperationFails(r, FALSE)
    /\ UNCHANGED <<accounts, rec, task>>

(* The answer is lost or proves nothing; only the task handler tries again. *)
AnswerUnknown(r) ==
    /\ sess[r].pc = "sent"
    /\ \/ sess[r].kind = "task" /\ MayRetry(r) /\ Again(r, TRUE) /\ UNCHANGED op
       \/ Fail(r)
    /\ UNCHANGED <<accounts, rec, task, provider>>

-----------------------------------------------------------------------------
(* BillingSession.Settle compares with what the session reserved. *)
SettleDelta(r, cost) == cost - sess[r].pre

(* Faulty variant: the terminal state is not claimed. *)
FaultyOpen(r) == rec[r].state # "none"

Open(r) == rec[r].state \in {"reserved", "started"}

CloseRecord(r, state, amount) ==
    rec' = [rec EXCEPT ![r].state = state, ![r].amount = amount]

(* settleBillingReservationTx: state, funding and token together or, when  *)
(* more is needed than there is, nothing.  A row that was closed before is *)
(* left alone.  From then on amount stands for what r paid.                *)
CanSettle(r, delta) ==
    /\ FundingHas(rec[r].source, delta)
    /\ delta > 0 => TokenHas(delta)

SettleRecord(r, delta) ==
    \/ /\ Open(r) /\ CanSettle(r, delta)
       /\ ChargeFunding(rec[r].source, delta)
       /\ ChargeToken(delta)
       /\ CloseRecord(r, "settled", rec[r].amount + delta)
    \/ /\ ~Open(r)
       /\ UNCHANGED <<wallet, sub, token, rec>>

(* SettleBilling with a reservation; when it is refused, or the database   *)
(* fails, the error is logged and the reservation stays as it is.          *)
Settle(r, cost) ==
    /\ sess[r].pre > 0 /\ rec[r].state # "none"
    /\ \/ SettleRecord(r, SettleDelta(r, cost))
       \/ Open(r) /\ UNCHANGED <<wallet, sub, token, rec>>
    /\ Goto(r, "done")
    /\ UNCHANGED <<debt, tdebt>>

(* settleWithoutRecord charges the wallet without a condition ...          *)
SettleLoose(r, cost) ==
    LET a == SettleDelta(r, cost)
    IN  /\ sess[r].pre = 0 \/ rec[r].state = "none"
        /\ wallet' = wallet - a /\ debt' = debt + a
        /\ IF a = 0 THEN Goto(r, "done")
                    ELSE sess' = [sess EXCEPT ![r].pc = "token", ![r].want = cost]
        /\ UNCHANGED <<token, tdebt, sub, rec>>

(* ... and then the token. *)
SettleLooseToken(r) ==
    LET a == SettleDelta(r, sess[r].want)
    IN  /\ sess[r].pc = "token"
        /\ ChargeToken(a)
        /\ tdebt' = IF token.deleted THEN tdebt ELSE tdebt + a
        /\ Goto(r, "done")
        /\ UNCHANGED <<wallet, debt, sub, rec, outside>>

(* The relay handler settles what the usage came to. *)
SettleRelay(r, cost) ==
    /\ sess[r].pc = "won" /\ sess[r].kind = "relay"
    /\ Settle(r, cost) \/ SettleLoose(r, cost)
    /\ UNCHANGED outside

-----------------------------------------------------------------------------
(* executeTaskSubmissionWith, after the provider accepted the task.        *)

(* The client has gone away. *)
TaskCancelled(r) ==
    /\ sess[r].pc \in {"won", "insert"} /\ sess[r].kind # "relay"
    /\ Fail(r)
    /\ UNCHANGED <<accounts, rec, task, provider>>

(* A higher final price is reserved first. *)
ReserveFinalPrice(r) ==
    /\ sess[r].pc = "won" /\ sess[r].kind # "relay"
    /\ \/ ReserveMore(r, sess[r].want, "insert") /\ UNCHANGED op
       \/ AppendRefused(r, sess[r].want) /\ Fail(r) /\ UNCHANGED <<accounts, rec>>
    /\ UNCHANGED <<task, provider>>

TaskInserted(r, answered) ==
    task' = [task EXCEPT ![r] = [quota |-> sess[r].want, answered |-> answered]]

(* Task.InsertWithContext with the context of the client's request.  When  *)
(* the row is committed and the answer is lost (the client goes away, the  *)
(* connection breaks), the handler refunds as if there were no row.        *)
InsertTask(r) ==
    /\ sess[r].pc = "insert" /\ sess[r].kind = "task"
    /\ \/ TaskInserted(r, TRUE) /\ Goto(r, "settle")
       \/ TaskInserted(r, FALSE) /\ Goto(r, IF sess[r].pre = 0 THEN "done" ELSE "refund")
    /\ UNCHANGED <<accounts, rec, op, provider>>

(* Faulty variant: the task is inserted in a transaction of its own. *)
FaultySettleWithTask(r) == UNCHANGED <<wallet, sub, token, rec>>

SettleWithTask(r) ==
    \/ sess[r].want = 0 /\ rec[r].state = "none" /\ UNCHANGED <<wallet, sub, token, rec>>
    \/ rec[r].state = "started" /\ SettleRecord(r, sess[r].want - rec[r].amount)

(* InsertTaskForOperation: the task row, the operation and the settlement  *)
(* in one transaction.  An operation whose lease ended without an answer   *)
(* can still be attached.                                                  *)
CanAttach(r) == op[r] \in {"submitting", "recovery_required"}

AttachTask(r, answered) ==
    /\ sess[r].pc = "insert" /\ sess[r].kind = "image"
    /\ CanAttach(r)
    /\ SettleWithTask(r)
    /\ op' = [op EXCEPT ![r] = "accepted"]
    /\ TaskInserted(r, answered)
    /\ UNCHANGED <<debt, tdebt, provider>>

InsertTaskForOperation(r) == AttachTask(r, TRUE) /\ Goto(r, "settle")

(* The answer to the commit is lost: the handler ends as if the insertion  *)
(* had failed, with an unknown outcome, and the operation keeps its task.  *)
InsertAnswerLost(r) ==
    /\ AttachTask(r, FALSE)
    /\ Goto(r, IF KeepsReservation(r) \/ sess[r].pre = 0 THEN "done" ELSE "refund")

(* The insertion is refused or the database fails. *)
InsertFails(r) ==
    /\ sess[r].pc = "insert"
    /\ Fail(r)
    /\ UNCHANGED <<accounts, rec, task, provider>>

SettleTask(r) ==
    /\ sess[r].pc = "settle"
    /\ Settle(r, sess[r].want) \/ SettleLoose(r, sess[r].want)
    /\ UNCHANGED outside

-----------------------------------------------------------------------------
(* releaseBillingReservation: all of it, the added part included. *)
GiveBack(r) ==
    /\ ChargeFunding(rec[r].source, -rec[r].amount)
    /\ ChargeToken(-rec[r].amount)

Release(r) ==
    /\ GiveBack(r)
    /\ CloseRecord(r, "released", rec[r].amount)

(* The goroutine of BillingSession.Refund: ReleaseBillingReservation.  A   *)
(* session whose quota was taken without a reservation finds none.         *)
RefundSession(r) ==
    /\ sess[r].pc = "refund"
    /\ \/ Open(r) /\ Release(r)
       \/ ~Open(r) /\ UNCHANGED <<wallet, sub, token, rec>>
    /\ Goto(r, "done")
    /\ UNCHANGED <<debt, tdebt, outside>>

(* Only what was provably not sent. *)
Recoverable(r) == rec[r].state = "reserved"

(* Faulty variant: reservations of a subscription are passed over. *)
FaultyReleaseStale(r) ==
    /\ Recoverable(r) /\ rec[r].source = "wallet"
    /\ Release(r)
    /\ UNCHANGED <<debt, tdebt, sess, outside>>

(* ReleaseStaleBillingReservations, run by the subscription maintenance    *)
(* task, with ReleaseUnsentBillingReservation.  A handler may be slower    *)
(* than billingReservationStaleSeconds, so the row may be stale whenever   *)
(* it is open.                                                             *)
ReleaseStale(r) ==
    /\ Recoverable(r)
    /\ Release(r)
    /\ UNCHANGED <<debt, tdebt, sess, outside>>

(* CleanupBillingReservationRecords, a week after a record was closed and  *)
(* long after its handler ended.  amount keeps what r paid.                *)
CleanupRecord(r) ==
    /\ rec[r].state \in {"settled", "released"}
    /\ sess[r].pc = "done"
    /\ rec' = [rec EXCEPT ![r].state = "gone",
                          ![r].amount = IF rec[r].state = "released" THEN 0 ELSE @]
    /\ UNCHANGED <<accounts, sess, outside>>

(* The process of a handler stops, with the goroutine of its refund. *)
Crash(r) ==
    /\ sess[r].pc \notin {"idle", "done"}
    /\ Goto(r, "done")
    /\ UNCHANGED <<accounts, rec, outside>>

(* resolveTaskOperationReplay, for a replay or a poll of an operation      *)
(* whose submission lease has ended.                                       *)
OperationLeaseEnds(r) ==
    /\ op[r] = "submitting"
    /\ op' = [op EXCEPT ![r] = "recovery_required"]
    /\ UNCHANGED <<accounts, rec, sess, task, provider>>

DeleteToken ==
    /\ ~token.deleted
    /\ token' = [token EXCEPT !.deleted = TRUE]
    /\ UNCHANGED <<wallet, debt, tdebt, sub, rec, sess, outside>>

(* A period ends.  The reset is made by the maintenance task, or before    *)
(* quota is reserved; a reset that is still due has not happened.          *)
ResetSubscription ==
    /\ sub.used > 0
    /\ sub' = [sub EXCEPT !.used = 0]
    /\ UNCHANGED <<wallet, debt, token, tdebt, rec, sess, outside>>

ExpireSubscription ==
    /\ sub.active
    /\ sub' = [sub EXCEPT !.active = FALSE]
    /\ UNCHANGED <<wallet, debt, token, tdebt, rec, sess, outside>>

-----------------------------------------------------------------------------
Handler(r) ==
    \/ ReserveWallet(r) \/ ReserveSubscription(r) \/ SourceInsufficient(r)
    \/ FailBeforeSend(r) \/ MarkProviderStarted(r)
    \/ AnswerNoWork(r) \/ AnswerUnknown(r) \/ TaskCancelled(r) \/ ReserveFinalPrice(r)
    \/ InsertTask(r) \/ InsertTaskForOperation(r) \/ InsertAnswerLost(r)
    \/ InsertFails(r) \/ SettleTask(r)
    \/ SettleLooseToken(r) \/ RefundSession(r)
    \/ \E price \in Prices :
         PrepareBilling(r, price) \/ AnswerSuccess(r, price) \/ SettleRelay(r, price)

Next ==
    \/ \E r \in Requests :
         \/ \E k \in Kinds[r], plan \in Plans, e \in Prices : Start(r, k, plan, e)
         \/ Handler(r)
         \/ ProviderWorks(r) \/ Crash(r) \/ OperationLeaseEnds(r)
         \/ ReleaseStale(r) \/ CleanupRecord(r)
    \/ DeleteToken \/ ResetSubscription \/ ExpireSubscription

Spec == Init /\ [][Next]_vars

(* Time passes, the maintenance task keeps running, and a handler that     *)
(* does not stop keeps going (its calls have time-outs).  A pass over the  *)
(* stale rows ends at the first that cannot be released, so that only the  *)
(* release of some row is fair; none is taken to fail for ever.            *)
FairSpec ==
    /\ Spec
    /\ WF_vars(\E r \in Requests : ReleaseStale(r))
    /\ \A r \in Requests : WF_vars(Handler(r))

-----------------------------------------------------------------------------
(* Quota request r has taken under its reservation and not got back. *)
Charge(r) ==
    IF rec[r].state \in {"reserved", "started", "settled", "gone"}
      THEN rec[r].amount ELSE 0

WalletCharge(r) == IF rec[r].source = "wallet" THEN Charge(r) ELSE 0

(* Whatever the order of reservations, additions, settlements, releases,   *)
(* recovery and crashes, the quota missing from the wallet is what the     *)
(* reservations hold or settled, and what was taken without one.           *)
WalletConserved ==
    InitialWallet - wallet =
        SumFunctionOnSet([r \in Requests |-> WalletCharge(r)], Requests) + debt

(* The same of the token, until the user deletes it; its used_quota counts *)
(* exactly what has left remain_quota.                                     *)
TokenConserved ==
    token.deleted \/
      /\ InitialToken - token.remain =
           SumFunctionOnSet([r \in Requests |-> Charge(r)], Requests) + tdebt
      /\ token.used = InitialToken - token.remain

(* Both: no quota is created or lost. *)
QuotaConserved == WalletConserved /\ TokenConserved

(* Concurrent reservations, additions and settlements never overdraw the   *)
(* wallet, nor a limited token: whatever is below zero was taken by a path *)
(* that has no reservation.                                                *)
ReservationsNeverOverdraw ==
    /\ wallet + debt >= 0
    /\ Limited /\ ~token.deleted => token.remain + tdebt >= 0

(* A handler that waits for the provider, or has its answer, still holds   *)
(* the quota it reserved, in a state that recovery leaves alone.           *)
SentIsHeld ==
    \A r \in Requests :
      sess[r].pc \in {"sent", "won", "insert"} /\ rec[r].state # "none"
        => rec[r].state = "started" /\ rec[r].amount = sess[r].pre

(* Quota of a request that the provider carried out is not given back by   *)
(* the relay or the image handler, nor by recovery: not after a crash, a   *)
(* lost answer, a time-out or a retry.  (The plain task handler refunds    *)
(* unless it knows that the task was made durable.)                        *)
AcceptedIsNotRefunded ==
    \A r \in Requests :
      provider[r] = "done" /\ sess[r].kind # "task" => rec[r].state # "released"

(* A task whose handler knows that it is durable keeps its quota, and an   *)
(* image task has paid exactly its price from the moment it exists, known  *)
(* or not.  (A plain task whose insertion was committed and not answered   *)
(* is refunded.)                                                           *)
DurableIsPaid ==
    \A r \in Requests :
      /\ task[r].answered => rec[r].state # "released"
      /\ task[r] # NoTask /\ sess[r].kind = "image" =>
           Charge(r) = task[r].quota /\ rec[r].state \in {"none", "settled", "gone"}

(* An image operation is accepted exactly when it has a task, and one that *)
(* is reported as failed was not carried out by the provider.              *)
OperationTellsTheTruth ==
    \A r \in Requests :
      /\ sess[r].kind = "image" => (op[r] = "accepted" <=> task[r] # NoTask)
      /\ op[r] = "task_failed" => provider[r] \in {"never", "quiet"}

(* Quota held by the reservation of a request that is never sent comes     *)
(* back: by the handler's refund or, when the process stops, by the        *)
(* recovery job.  What a session took without a reservation, after an      *)
(* estimate of nothing, is not in Charge and does not come back.           *)
UnsentIsReturned ==
    \A r \in Requests :
      sess[r].pc # "idle" /\ provider[r] = "never"
        ~> Charge(r) = 0 \/ provider[r] # "never"

-----------------------------------------------------------------------------
(* The wallet, apart from what was taken without a reservation, is the     *)
(* balance of an escrow.                                                   *)
WalletPhase(r) ==
    CASE rec[r].source # "wallet" -> "none"
      [] rec[r].source = "wallet" /\ Open(r) -> "held"
      [] OTHER -> "closed"

Escrow == INSTANCE QuotaEscrow WITH
    Initial <- InitialWallet,
    balance <- wallet + debt,
    hold <- [r \in Requests |-> WalletCharge(r)],
    phase <- [r \in Requests |-> WalletPhase(r)]

(* The reservations of the wallet implement the escrow: every request      *)
(* takes quota before it is sent, may add to it before that, and is closed *)
(* once, and no step moves quota in any other way.                         *)
EscrowSpec == Escrow!Spec
=============================================================================
