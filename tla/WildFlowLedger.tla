---------------------------- MODULE WildFlowLedger ----------------------------
(***************************************************************************)
(* Where the quota of WildFlow operations comes from and goes to           *)
(* (model/wildflow_billing.go, ReserveWildFlowOperationBilling, and the    *)
(* subscription side of model/subscription.go), for the operations of one  *)
(* user.                                                                   *)
(*                                                                         *)
(* A reservation tries the wallet, the subscriptions or both, in the order *)
(* of the user's billing preference; each try is a transaction, and two    *)
(* request handlers may be between the tries of the same operation.        *)
(* Settling consumes the reservation, for audio only the part the usage    *)
(* event measured; refunding gives it back.  Meanwhile the API token may   *)
(* be deleted, and subscriptions expire, start new periods, and lose their *)
(* old idempotency records.                                                *)
(*                                                                         *)
(* WildFlowSubmission and WildFlowExecution show when an operation may be  *)
(* settled or refunded; here an operation simply ends succeeded or failed. *)
(***************************************************************************)
EXTENDS Integers, FiniteSetsExt

CONSTANTS
    Ops,            \* operations of the user
    Quote,          \* Quote[o]: reserved quota, also taken from the token
    Units,          \* Units[o]: most audio units of o, 0 when not billed by audio
    Reservers,      \* handlers inside ReserveWildFlowOperationBilling
    NoOp,           \* the operation of an idle handler
    Subs,           \* subscriptions, numbered by end_time
    Total,          \* Total[s]: amount_total, 0 when unlimited
    Strict,         \* subscriptions with allow_wallet_overflow = false
    Preferences,    \* billing preferences the user may have
    InitialWallet,  \* user.quota
    InitialToken,   \* token.remain_quota
    Limited,        \* FALSE for a token with unlimited_quota
    MaxPeriods      \* bound on subscription periods that end

ASSUME LedgerAssumption ==
    /\ IsFiniteSet(Ops) /\ NoOp \notin Ops
    /\ Quote \in [Ops -> Nat \ {0}]
    /\ Units \in [Ops -> Nat]
    /\ Subs \subseteq Nat \ {0}
    /\ Total \in [Subs -> Nat]
    /\ Strict \subseteq Subs
    /\ Preferences \subseteq {"subscription_only", "wallet_only", "wallet_first",
                              "subscription_first"}
    /\ InitialWallet \in Nat /\ InitialToken \in Nat /\ MaxPeriods \in Nat
    /\ Limited \in BOOLEAN

VARIABLES
    pref,      \* the user's billing preference
    wallet,    \* user.quota
    userUsed,  \* user.used_quota
    token,     \* remain_quota, used_quota, deleted_at
    sub,       \* sub[s]: amount_used, active, next_reset_time has passed
    periods,   \* periods[s]: periods of s that have ended
    rec,       \* rec[o]: the subscription pre-consume record
    bill,      \* bill[o]: the billing columns of the operation
    outcome,   \* outcome[o]: how the operation ended
    usage,     \* usage[o]: audio units in its usage event
    res        \* res[r]: where a handler is in its reservation

money == <<wallet, userUsed, token, sub, rec, bill>>
ends == <<outcome, usage>>
vars == <<pref, wallet, userUsed, token, sub, periods, rec, bill, outcome, usage, res>>

(* 0 stands for no subscription. *)
TypeOK ==
    /\ pref \in Preferences
    /\ wallet \in Int /\ userUsed \in Int
    /\ token \in [remain : Int, used : Int, deleted : BOOLEAN]
    /\ sub \in [Subs -> [used : Int, active : BOOLEAN, due : BOOLEAN]]
    /\ periods \in [Subs -> 0..MaxPeriods]
    /\ rec \in [Ops -> [status : {"absent", "consumed", "refunded"},
                        sub : Subs \union {0}, amount : Nat]]
    /\ bill \in [Ops -> [state : {"pending", "reserved", "settled", "refunded"},
                         source : {"none", "wallet", "subscription"},
                         sub : Subs \union {0}, quota : Nat, tokenQuota : Nat]]
    /\ outcome \in [Ops -> {"open", "succeeded", "failed"}]
    /\ usage \in [Ops -> Nat]
    /\ res \in [Reservers -> [pc : {"idle", "wallet", "wallet_first", "subscription",
                                    "subscription_first", "overflow"},
                              op : Ops \union {NoOp}]]

-----------------------------------------------------------------------------
Idle == [pc |-> "idle", op |-> NoOp]

NoRecord == [status |-> "absent", sub |-> 0, amount |-> 0]

Unbilled == [state |-> "pending", source |-> "none", sub |-> 0, quota |-> 0,
             tokenQuota |-> 0]

Init ==
    /\ pref \in Preferences
    /\ wallet = InitialWallet /\ userUsed = 0
    /\ token = [remain |-> InitialToken, used |-> 0, deleted |-> FALSE]
    /\ sub = [s \in Subs |-> [used |-> 0, active |-> TRUE, due |-> FALSE]]
    /\ periods = [s \in Subs |-> 0]
    /\ rec = [o \in Ops |-> NoRecord]
    /\ bill = [o \in Ops |-> Unbilled]
    /\ outcome = [o \in Ops |-> "open"]
    /\ usage = [o \in Ops |-> 0]
    /\ res = [r \in Reservers |-> Idle]

-----------------------------------------------------------------------------
(* The first step of a billing preference; only subscription_first looks   *)
(* for an active subscription (HasActiveUserSubscription).                 *)
FirstTry ==
    CASE pref = "subscription_only" -> "subscription"
      [] pref = "wallet_only"       -> "wallet"
      [] pref = "wallet_first"      -> "wallet_first"
      [] OTHER -> IF \E s \in Subs : sub[s].active THEN "subscription_first" ELSE "wallet"

(* ReserveWildFlowOperationBilling for an operation that was pending when  *)
(* it was read.                                                            *)
StartReserve(r, o) ==
    /\ res[r].pc = "idle"
    /\ bill[o].state = "pending"
    /\ res' = [res EXCEPT ![r] = [pc |-> FirstTry, op |-> o]]
    /\ UNCHANGED <<pref, money, periods, ends>>

Goto(r, pc) == res' = [res EXCEPT ![r].pc = pc]

Done(r) == res' = [res EXCEPT ![r] = Idle]

TokenShort(o) == Limited /\ token.remain < Quote[o]

TokenQuota(o) == IF Limited THEN Quote[o] ELSE 0

(* The token is charged delta, or given back -delta. *)
ChargeToken(delta) ==
    token' = [token EXCEPT !.remain = @ - delta, !.used = @ + delta]

(* wildFlowBillingSnapshotUpdates *)
Reserve(o, source, s) ==
    bill' = [bill EXCEPT ![o] = [state |-> "reserved", source |-> source, sub |-> s,
                                 quota |-> Quote[o], tokenQuota |-> TokenQuota(o)]]

(* Faulty variant: a refunded operation may be reserved again. *)
FaultyReserveAgain(o) == bill[o].state \in {"pending", "refunded"}

(* ensureWildFlowBillingCanReserve, under the operation's row lock. *)
CanReserve(o) == bill[o].state = "pending"

(* ReserveWildFlowWalletBilling: user quota first, then the token, which   *)
(* must still exist.                                                       *)
ReserveWallet(r) ==
    LET o == res[r].op
    IN  /\ res[r].pc \in {"wallet", "wallet_first"}
        /\ CanReserve(o)
        /\ wallet >= Quote[o]
        /\ ~token.deleted /\ ~TokenShort(o)
        /\ wallet' = wallet - Quote[o]
        /\ ChargeToken(TokenQuota(o))
        /\ Reserve(o, "wallet", 0)
        /\ Done(r)
        /\ UNCHANGED <<pref, userUsed, sub, periods, rec, ends>>

(* The only failure of a wallet try that has a fallback. *)
WalletInsufficient(r) ==
    LET o == res[r].op
    IN  /\ res[r].pc \in {"wallet", "wallet_first"}
        /\ CanReserve(o)
        /\ wallet < Quote[o] \/ (~token.deleted /\ TokenShort(o))
        /\ IF res[r].pc = "wallet_first" THEN Goto(r, "subscription") ELSE Done(r)
        /\ UNCHANGED <<pref, money, periods, ends>>

(* amount_used once a reset that is due has been made. *)
UsedNow(s) == IF sub[s].due THEN 0 ELSE sub[s].used

(* Faulty variant: what is already used does not count. *)
FaultyFits(s, o) == sub[s].active /\ (Total[s] = 0 \/ Total[s] >= Quote[o])

Fits(s, o) ==
    /\ sub[s].active
    /\ Total[s] = 0 \/ Total[s] - UsedNow(s) >= Quote[o]

(* preConsumeUserSubscriptionTx: the active subscriptions are visited by   *)
(* end time, each visited one is reset when due, and the first with room   *)
(* is charged under a record keyed by the operation.  The record and the   *)
(* billing columns are written together, so an operation that can be       *)
(* reserved has none yet.                                                  *)
PreConsume(o, s) ==
    /\ sub' = [t \in Subs |->
                 IF sub[t].active /\ t <= s
                   THEN [sub[t] EXCEPT !.due = FALSE,
                                       !.used = UsedNow(t) + IF t = s THEN Quote[o] ELSE 0]
                   ELSE sub[t]]
    /\ rec' = [rec EXCEPT ![o] = [status |-> "consumed", sub |-> s, amount |-> Quote[o]]]

(* ReserveWildFlowSubscriptionBilling *)
ReserveSubscription(r) ==
    LET o == res[r].op
        room == {s \in Subs : Fits(s, o)}
    IN  /\ res[r].pc \in {"subscription", "subscription_first"}
        /\ CanReserve(o)
        /\ room # {}
        /\ ~token.deleted /\ ~TokenShort(o)
        /\ PreConsume(o, Min(room))
        /\ ChargeToken(TokenQuota(o))
        /\ Reserve(o, "subscription", Min(room))
        /\ Done(r)
        /\ UNCHANGED <<pref, wallet, userUsed, periods, ends>>

SubscriptionInsufficient(r) ==
    LET o == res[r].op
    IN  /\ res[r].pc \in {"subscription", "subscription_first"}
        /\ CanReserve(o)
        /\ (\A s \in Subs : ~Fits(s, o)) \/ (~token.deleted /\ TokenShort(o))
        /\ IF res[r].pc = "subscription_first" THEN Goto(r, "overflow") ELSE Done(r)
        /\ UNCHANGED <<pref, money, periods, ends>>

(* Faulty variant: one permissive subscription is enough. *)
FaultyAllowOverflow == \E s \in Subs \ Strict : sub[s].active

(* UserActiveSubscriptionsAllowWalletOverflow *)
AllowWalletOverflow == \A s \in Strict : ~sub[s].active

CheckOverflow(r) ==
    /\ res[r].pc = "overflow"
    /\ IF AllowWalletOverflow THEN Goto(r, "wallet") ELSE Done(r)
    /\ UNCHANGED <<pref, money, periods, ends>>

(* The operation was reserved, settled or refunded meanwhile, or the token *)
(* is gone: no fallback is tried.  A handler may also just stop.           *)
ReserveEnds(r) ==
    /\ res[r].pc # "idle"
    /\ Done(r)
    /\ UNCHANGED <<pref, money, periods, ends>>

-----------------------------------------------------------------------------
(* The job of a reserved operation succeeded and its usage was measured.   *)
Succeed(o) ==
    /\ outcome[o] = "open" /\ bill[o].state = "reserved"
    /\ outcome' = [outcome EXCEPT ![o] = "succeeded"]
    /\ \E n \in (IF Units[o] = 0 THEN {0} ELSE 1..Units[o]) :
         usage' = [usage EXCEPT ![o] = n]
    /\ UNCHANGED <<pref, money, periods, res>>

(* The job failed or was cancelled, or its submission was given up, also   *)
(* before it was reserved.                                                 *)
Fail(o) ==
    /\ outcome[o] = "open"
    /\ outcome' = [outcome EXCEPT ![o] = "failed"]
    /\ UNCHANGED <<pref, money, periods, usage, res>>

(* Faulty variant: rounded down. *)
FaultyFloorProportional(total, actual, maximum) == (total * actual) \div maximum

(* ceilProportionalInt64 *)
CeilProportional(total, actual, maximum) ==
    IF total = 0 THEN 0 ELSE (total * actual + maximum - 1) \div maximum

(* wildFlowActualUsageBilling *)
Actual(o, amount) ==
    IF Units[o] = 0 THEN amount ELSE CeilProportional(amount, usage[o], Units[o])

(* Faulty variant: not stopped at zero. *)
FaultyGiveBack(s, amount) == sub' = [sub EXCEPT ![s].used = @ - amount]

(* postConsumeUserSubscriptionDeltaTx with a negative delta: never below   *)
(* zero, also when the reservation was made in an earlier period.          *)
GiveBack(s, amount) ==
    sub' = [sub EXCEPT ![s].used = IF @ < amount THEN 0 ELSE @ - amount]

(* SettleWildFlowOperationBilling: the unused part of the reservation goes *)
(* back to where it came from.  A missing pre-consume record or a deleted  *)
(* token is an error when something must go back, and nothing is changed.  *)
SettleBilling(o) ==
    LET quota == Actual(o, bill[o].quota)
        tokenQuota == Actual(o, bill[o].tokenQuota)
        back == bill[o].quota - quota
    IN  /\ bill[o].state = "reserved" /\ outcome[o] = "succeeded"
        /\ \/ /\ back = 0
              /\ UNCHANGED <<wallet, sub, rec>>
           \/ /\ back > 0 /\ bill[o].source = "wallet"
              /\ wallet' = wallet + back
              /\ UNCHANGED <<sub, rec>>
           \/ /\ back > 0 /\ bill[o].source = "subscription"
              /\ rec[o].status = "consumed" /\ rec[o].amount = bill[o].quota
              /\ GiveBack(bill[o].sub, back)
              /\ rec' = [rec EXCEPT ![o].amount = quota]
              /\ UNCHANGED wallet
        /\ tokenQuota < bill[o].tokenQuota => ~token.deleted
        /\ ChargeToken(tokenQuota - bill[o].tokenQuota)
        /\ userUsed' = userUsed + quota
        /\ bill' = [bill EXCEPT ![o].state = "settled", ![o].quota = quota,
                                ![o].tokenQuota = tokenQuota]
        /\ UNCHANGED <<pref, periods, ends, res>>

(* refundSubscriptionPreConsumeTx: without the record it is an error. *)
RefundPreConsume(o) ==
    /\ rec[o].status = "consumed"
    /\ GiveBack(rec[o].sub, rec[o].amount)
    /\ rec' = [rec EXCEPT ![o].status = "refunded"]

(* Faulty variant: a deleted token is an error. *)
FaultyRefundToken(o) == ~token.deleted /\ ChargeToken(-bill[o].tokenQuota)

(* The token is found even when it is deleted. *)
RefundToken(o) == ChargeToken(-bill[o].tokenQuota)

(* RefundWildFlowOperationBilling *)
RefundBilling(o) ==
    /\ bill[o].state = "reserved" /\ outcome[o] = "failed"
    /\ \/ /\ bill[o].source = "wallet"
          /\ wallet' = wallet + bill[o].quota
          /\ UNCHANGED <<sub, rec>>
       \/ /\ bill[o].source = "subscription"
          /\ RefundPreConsume(o)
          /\ UNCHANGED wallet
    /\ RefundToken(o)
    /\ bill' = [bill EXCEPT ![o].state = "refunded"]
    /\ UNCHANGED <<pref, userUsed, periods, ends, res>>

-----------------------------------------------------------------------------
(* The user deletes the API token: a soft delete. *)
DeleteToken ==
    /\ ~token.deleted
    /\ token' = [token EXCEPT !.deleted = TRUE]
    /\ UNCHANGED <<pref, wallet, userUsed, sub, periods, rec, bill, ends, res>>

(* A subscription reaches its end_time. *)
SubscriptionExpires(s) ==
    /\ sub[s].active
    /\ \A t \in Subs : t < s => ~sub[t].active
    /\ sub' = [sub EXCEPT ![s].active = FALSE]
    /\ UNCHANGED <<pref, wallet, userUsed, token, periods, rec, bill, ends, res>>

(* A subscription reaches its next_reset_time ... *)
PeriodEnds(s) ==
    /\ sub[s].active /\ ~sub[s].due
    /\ periods[s] < MaxPeriods
    /\ periods' = [periods EXCEPT ![s] = @ + 1]
    /\ sub' = [sub EXCEPT ![s].due = TRUE]
    /\ UNCHANGED <<pref, wallet, userUsed, token, rec, bill, ends, res>>

(* ... and ResetDueSubscriptions resets it. *)
ResetSubscription(s) ==
    /\ sub[s].active /\ sub[s].due
    /\ sub' = [sub EXCEPT ![s].due = FALSE, ![s].used = 0]
    /\ UNCHANGED <<pref, wallet, userUsed, token, periods, rec, bill, ends, res>>

(* CleanupSubscriptionPreConsumeRecords looks at the record's age only,    *)
(* and an operation may stay open longer than the seven days records live. *)
CleanupPreConsume(o) ==
    /\ rec[o].status # "absent"
    /\ rec' = [rec EXCEPT ![o] = NoRecord]
    /\ UNCHANGED <<pref, wallet, userUsed, token, sub, periods, bill, ends, res>>

Next ==
    \/ \E r \in Reservers :
         \/ \E o \in Ops : StartReserve(r, o)
         \/ ReserveWallet(r) \/ WalletInsufficient(r)
         \/ ReserveSubscription(r) \/ SubscriptionInsufficient(r)
         \/ CheckOverflow(r) \/ ReserveEnds(r)
    \/ \E o \in Ops :
         \/ Succeed(o) \/ Fail(o)
         \/ SettleBilling(o) \/ RefundBilling(o)
         \/ CleanupPreConsume(o)
    \/ \E s \in Subs : SubscriptionExpires(s) \/ PeriodEnds(s) \/ ResetSubscription(s)
    \/ DeleteToken

Spec == Init /\ [][Next]_vars

(* The reconciler retries the operations it lists for as long as the       *)
(* service runs.                                                           *)
FairSpec ==
    /\ Spec
    /\ \A o \in Ops : WF_vars(SettleBilling(o)) /\ WF_vars(RefundBilling(o))

-----------------------------------------------------------------------------
Held(o) == bill[o].state \in {"reserved", "settled"}

(* What operation o holds or has consumed: of the wallet, of the token, of *)
(* subscription s, and of the user's used_quota.                           *)
WalletCharge == [o \in Ops |-> IF Held(o) /\ bill[o].source = "wallet" THEN bill[o].quota ELSE 0]
TokenCharge == [o \in Ops |-> IF Held(o) THEN bill[o].tokenQuota ELSE 0]
SubCharge(s) == [o \in Ops |-> IF Held(o) /\ bill[o].sub = s THEN bill[o].quota ELSE 0]
Settled == [o \in Ops |-> IF bill[o].state = "settled" THEN bill[o].quota ELSE 0]

(* Replayed submissions, fallbacks between funding sources, partial        *)
(* settlements and refunds neither create nor lose wallet quota: what the  *)
(* wallet lacks is exactly what operations hold or have consumed from it.  *)
WalletConserved == InitialWallet - wallet = SumFunctionOnSet(WalletCharge, Ops)

(* The same for the API token, whatever funding source was charged with    *)
(* it and although it may be deleted half-way.                             *)
TokenConserved ==
    /\ InitialToken - token.remain = SumFunctionOnSet(TokenCharge, Ops)
    /\ token.used = InitialToken - token.remain

(* A subscription is charged for exactly the operations that hold its      *)
(* quota until its first reset, and afterwards never for more; a partial   *)
(* settlement or a refund cannot push it below zero.                       *)
SubscriptionExact ==
    \A s \in Subs :
        LET held == SumFunctionOnSet(SubCharge(s), Ops)
        IN  /\ 0 <= sub[s].used /\ sub[s].used <= held
            /\ periods[s] = 0 => sub[s].used = held

(* Racing reservations never overdraw the wallet, the token or a           *)
(* subscription's total.                                                   *)
NeverOverdrawn ==
    /\ wallet >= 0 /\ token.remain >= 0
    /\ \A s \in Subs : Total[s] = 0 \/ sub[s].used <= Total[s]

(* The user's used_quota is the sum of the settled charges, each of which  *)
(* is positive and at most what was quoted.                                *)
UsedIsSettled ==
    /\ userUsed = SumFunctionOnSet(Settled, Ops)
    /\ \A o \in Ops : bill[o].state = "settled" => bill[o].quota \in 1..Quote[o]

(* All three: no quota is created or lost, in the wallet, in the token or  *)
(* in what the user is told was used.                                      *)
QuotaConserved == WalletConserved /\ TokenConserved /\ UsedIsSettled

(* With subscription_first, an active subscription that forbids wallet     *)
(* overflow keeps the wallet untouched, although subscriptions expire      *)
(* between the check and the charge.                                       *)
StrictProtectsWallet ==
    pref = "subscription_first" /\ (\E s \in Strict : sub[s].active) => wallet = InitialWallet

(* The record that the refund or partial settlement of o needs is gone. *)
RecordLost(o) == bill[o].source = "subscription" /\ rec[o].status = "absent"

(* A failed operation's reservation is given back in the end, whatever     *)
(* happens to its token and its subscription, while its record exists.     *)
RefundsWithRecord ==
    \A o \in Ops : bill[o].state = "reserved" /\ outcome[o] = "failed"
                     ~> bill[o].state = "refunded" \/ RecordLost(o)

(* A succeeded operation is settled in the end while its token and its     *)
(* record exist, and without them when nothing has to be given back.       *)
SettlesWithToken ==
    \A o \in Ops : bill[o].state = "reserved" /\ outcome[o] = "succeeded"
                     ~> \/ bill[o].state = "settled"
                        \/ Units[o] # 0 /\ (token.deleted \/ RecordLost(o))

(* Both: every reservation is closed by what became of its job. *)
ReservationsClose == RefundsWithRecord /\ SettlesWithToken

(* A failed or cancelled job is refunded (exactly once), the promise of    *)
(* the billing story 3; RefundWildFlowOperationBilling retried for ever.   *)
RefundCompletes ==
    \A o \in Ops : bill[o].state = "reserved" /\ outcome[o] = "failed"
                     ~> bill[o].state = "refunded"

(* The background reconciler completes billing even if the user stops      *)
(* polling, the promise of the billing story 4;                            *)
(* SettleWildFlowOperationBilling retried for ever.                        *)
SettleCompletes ==
    \A o \in Ops : bill[o].state = "reserved" /\ outcome[o] = "succeeded"
                     ~> bill[o].state = "settled"

-----------------------------------------------------------------------------
(* The wallet and the token are the balances of an escrow each.  An        *)
(* operation that a subscription pays for has nothing from the wallet.     *)
TokenPhase(o) ==
    CASE bill[o].state = "pending"  -> "none"
      [] bill[o].state = "reserved" -> "held"
      [] OTHER -> "closed"

WalletPhase(o) == IF bill[o].source = "wallet" THEN TokenPhase(o) ELSE "none"

WalletEscrow == INSTANCE QuotaEscrow WITH
    Requests <- Ops,
    Initial <- InitialWallet,
    balance <- wallet,
    hold <- WalletCharge,
    phase <- [o \in Ops |-> WalletPhase(o)]

TokenEscrow == INSTANCE QuotaEscrow WITH
    Requests <- Ops,
    Initial <- InitialToken,
    balance <- token.remain,
    hold <- TokenCharge,
    phase <- [o \in Ops |-> TokenPhase(o)]

(* Wallet and token implement the escrow: whatever handlers, replays and   *)
(* the reconciler do, each operation takes its quota once, is closed once, *)
(* by its settlement or its refund, and no step moves quota of two         *)
(* operations or in any other way.                                         *)
FundsEscrow == WalletEscrow!Spec /\ TokenEscrow!Spec
=============================================================================
