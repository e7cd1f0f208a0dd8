------------------------- MODULE WildFlowLedgerProofs -------------------------
(***************************************************************************)
(* Proofs about WildFlowLedger for any number of operations, handlers and  *)
(* subscriptions and any quota: racing reservations never overdraw, what   *)
(* left the wallet, the token and the subscriptions is what the operations *)
(* hold or have consumed, used_quota is what was settled, and a strict     *)
(* subscription protects the wallet.                                       *)
(***************************************************************************)
EXTENDS WildFlowLedger, FiniteSums

Bills ==
    [state : {"pending", "reserved", "settled", "refunded"},
     source : {"none", "wallet", "subscription"},
     sub : Subs \union {0}, quota : Nat, tokenQuota : Nat]

Records == [status : {"absent", "consumed", "refunded"}, sub : Subs \union {0}, amount : Nat]

SubRows == [used : Int, active : BOOLEAN, due : BOOLEAN]

Places ==
    [pc : {"idle", "wallet", "wallet_first", "subscription", "subscription_first", "overflow"},
     op : Ops \union {NoOp}]

(* The billing columns b of operation o, with its pre-consume record c: a  *)
(* reservation is for the quoted amounts, and while its record exists the  *)
(* record says what has to go back where.                                  *)
BillShape(o, b, c) ==
    /\ b.state = "pending" => b = Unbilled
    /\ b.state # "pending" => b.source \in {"wallet", "subscription"}
    /\ b.source = "wallet" => b.sub = 0
    /\ b.source = "subscription" => b.sub \in Subs
    /\ b.state = "reserved" => b.quota = Quote[o] /\ b.tokenQuota = TokenQuota(o)
    /\ b.state = "settled" => b.quota \in 1..Quote[o]
    /\ b.state = "reserved" /\ b.source = "subscription" /\ c.status = "consumed" =>
         c.sub = b.sub /\ c.amount = b.quota

(* The usage n of an operation that ended as e was measured. *)
UsageShape(o, e, n) == e = "succeeded" => Units[o] = 0 \/ n \in 1..Units[o]

OpShape ==
    \A o \in Ops : BillShape(o, bill[o], rec[o]) /\ UsageShape(o, outcome[o], usage[o])

(* A handler that may charge the wallet of a user with subscription_first  *)
(* has seen that no strict subscription is active, and none becomes active *)
(* again.                                                                  *)
HandlerShape(p) ==
    /\ p.pc # "idle" => p.op \in Ops
    /\ p.pc = "wallet_first" => pref = "wallet_first"
    /\ p.pc = "subscription" => pref # "subscription_first"
    /\ p.pc = "wallet" /\ pref = "subscription_first" => AllowWalletOverflow

HandlersShape == \A r \in Reservers : HandlerShape(res[r])

StrictShape ==
    pref = "subscription_first" /\ ~AllowWalletOverflow =>
      /\ wallet = InitialWallet
      /\ \A o \in Ops : Held(o) => bill[o].source # "wallet"

(* A reset is only due when a period has ended. *)
DueShape == \A s \in Subs : sub[s].due => periods[s] > 0

IInv ==
    /\ TypeOK /\ OpShape /\ HandlersShape /\ StrictShape /\ DueShape
    /\ NeverOverdrawn

-----------------------------------------------------------------------------
(* ceilProportionalInt64: a measured part of a quota is between nothing    *)
(* and all of it, and nothing only of nothing.                             *)

LEMMA DivBounds ==
    ASSUME NEW x \in Nat, NEW m \in Nat \ {0}
    PROVE  /\ x \div m \in Nat
           /\ m * (x \div m) <= x /\ x < m * (x \div m) + m
  OBVIOUS

LEMMA TimesMonotone ==
    ASSUME NEW a \in Nat, NEW b \in Nat, NEW m \in Nat, a <= b
    PROVE  m * a <= m * b
  OBVIOUS

LEMMA TimesCancel ==
    ASSUME NEW a \in Nat, NEW b \in Nat, NEW m \in Nat \ {0}, m * a < m * b
    PROVE  a < b
  OBVIOUS

LEMMA CeilBounds ==
    ASSUME NEW total \in Nat, NEW maximum \in Nat \ {0}, NEW actual \in 1..maximum
    PROVE  /\ CeilProportional(total, actual, maximum) \in 0..total
           /\ total > 0 => CeilProportional(total, actual, maximum) > 0
  <1>1. CASE total = 0
    BY <1>1 DEF CeilProportional
  <1>2. CASE total > 0
    <2> DEFINE x == total * actual + maximum - 1
               q == x \div maximum
    <2>1. actual \in Nat /\ actual >= 1 /\ total * actual \in Nat
      OBVIOUS
    <2>2. total * actual <= total * maximum /\ total * 1 <= total * actual
      BY <2>1, TimesMonotone
    <2>3. x \in Nat /\ x >= maximum /\ x <= total * maximum + maximum - 1
      BY <1>2, <2>1, <2>2
    <2> HIDE DEF x
    <2>4. q \in Nat /\ maximum * q <= x /\ x < maximum * q + maximum
      BY <2>3, DivBounds
    <2> HIDE DEF q
    <2>5. q > 0
      <3> SUFFICES ASSUME q = 0 PROVE FALSE
        BY <2>4
      <3> QED
        BY <2>3, <2>4
    <2>6. q <= total
      <3>1. maximum * q < maximum * (total + 1)
        <4>1. maximum * (total + 1) = total * maximum + maximum
          OBVIOUS
        <4>2. maximum * q \in Nat /\ total * maximum \in Nat
          BY <2>4
        <4> QED
          BY <2>3, <2>4, <4>1, <4>2
      <3>2. q < total + 1
        BY <2>4, <3>1, TimesCancel
      <3> QED
        BY <2>4, <3>2
    <2> QED
      BY <1>2, <2>4, <2>5, <2>6 DEF CeilProportional, q, x
  <1> QED
    BY <1>1, <1>2

-----------------------------------------------------------------------------
LEMMA TypeFacts ==
    ASSUME TypeOK
    PROVE  /\ pref \in Preferences /\ wallet \in Int /\ userUsed \in Int
           /\ token \in [remain : Int, used : Int, deleted : BOOLEAN]
           /\ token.remain \in Int /\ token.used \in Int
           /\ sub \in [Subs -> SubRows] /\ periods \in [Subs -> 0..MaxPeriods]
           /\ rec \in [Ops -> Records] /\ bill \in [Ops -> Bills]
           /\ outcome \in [Ops -> {"open", "succeeded", "failed"}]
           /\ usage \in [Ops -> Nat] /\ res \in [Reservers -> Places]
  BY DEF TypeOK, SubRows, Records, Bills, Places

LEMMA QuoteFacts ==
    ASSUME NEW o \in Ops
    PROVE  /\ Quote[o] \in Nat \ {0} /\ TokenQuota(o) \in Nat /\ Units[o] \in Nat
  BY LedgerAssumption DEF TokenQuota

LEMMA InitIInv == Init => IInv
  <1> SUFFICES ASSUME Init PROVE IInv
    OBVIOUS
  <1>1. NoRecord \in Records /\ Unbilled \in Bills /\ Unbilled.state = "pending"
    BY DEF NoRecord, Records, Unbilled, Bills
  <1>2. Idle \in Places /\ Idle.pc = "idle"
    BY DEF Idle, Places
  <1>3. TypeOK
    BY <1>1, <1>2, LedgerAssumption DEF Init, TypeOK, Records, Bills, Places
  <1>4. OpShape
    BY <1>1 DEF Init, OpShape, BillShape, UsageShape, Unbilled
  <1>5. HandlersShape
    BY <1>2 DEF Init, HandlersShape, HandlerShape
  <1>6. StrictShape
    BY <1>1 DEF Init, StrictShape, Held
  <1>7. DueShape
    BY DEF Init, DueShape
  <1>8. NeverOverdrawn
    BY LedgerAssumption DEF Init, NeverOverdrawn
  <1> QED
    BY <1>3, <1>4, <1>5, <1>6, <1>7, <1>8 DEF IInv

-----------------------------------------------------------------------------
(* A step of operation o changes only its own columns and record. *)
LEMMA OpKeeps ==
    ASSUME IInv, NEW o \in Ops, NEW b \in Bills, NEW c \in Records,
           bill' = [bill EXCEPT ![o] = b], rec' = [rec EXCEPT ![o] = c],
           BillShape(o, b, c), UNCHANGED ends
    PROVE  /\ OpShape' /\ bill' \in [Ops -> Bills] /\ rec' \in [Ops -> Records]
           /\ bill'[o] = b /\ rec'[o] = c
           /\ \A q \in Ops : q # o => bill'[q] = bill[q] /\ rec'[q] = rec[q]
  <1>1. bill \in [Ops -> Bills] /\ rec \in [Ops -> Records]
    BY TypeFacts DEF IInv
  <1>2. /\ bill' \in [Ops -> Bills] /\ rec' \in [Ops -> Records]
        /\ bill'[o] = b /\ rec'[o] = c
        /\ \A q \in Ops : q # o => bill'[q] = bill[q] /\ rec'[q] = rec[q]
    BY <1>1
  <1>3. ASSUME NEW q \in Ops
        PROVE  BillShape(q, bill'[q], rec'[q]) /\ UsageShape(q, outcome'[q], usage'[q])
    <2>1. BillShape(q, bill[q], rec[q]) /\ UsageShape(q, outcome[q], usage[q])
      BY DEF IInv, OpShape
    <2>2. outcome' = outcome /\ usage' = usage
      BY DEF ends
    <2>3. CASE q = o
      BY <1>2, <2>1, <2>2, <2>3
    <2>4. CASE q # o
      BY <1>2, <2>1, <2>2, <2>4
    <2> QED
      BY <2>3, <2>4
  <1> QED
    BY <1>2, <1>3 DEF OpShape

(* The handler of the step goes on with p, or is done. *)
LEMMA HandlerKeeps ==
    ASSUME IInv, NEW r \in Reservers, NEW p \in Places, res' = [res EXCEPT ![r] = p],
           pref' = pref, AllowWalletOverflow => AllowWalletOverflow', HandlerShape(p)
    PROVE  HandlersShape' /\ res' \in [Reservers -> Places]
  <1>1. res \in [Reservers -> Places]
    BY TypeFacts DEF IInv
  <1>2. \A q \in Reservers : res'[q] = IF q = r THEN p ELSE res[q]
    BY <1>1
  <1>3. \A q \in Reservers : HandlerShape(res[q])
    BY DEF IInv, HandlersShape
  <1> QED
    BY <1>1, <1>2, <1>3 DEF HandlersShape, HandlerShape

LEMMA IdleKeeps ==
    ASSUME IInv, NEW r \in Reservers, Done(r), pref' = pref,
           AllowWalletOverflow => AllowWalletOverflow'
    PROVE  HandlersShape' /\ res' \in [Reservers -> Places]
  <1>1. Idle \in Places /\ HandlerShape(Idle)
    BY DEF Idle, Places, HandlerShape
  <1> QED
    BY <1>1, HandlerKeeps DEF Done

LEMMA HandlersStay ==
    ASSUME IInv, UNCHANGED <<pref, res>>, AllowWalletOverflow => AllowWalletOverflow'
    PROVE  HandlersShape'
  BY DEF IInv, HandlersShape, HandlerShape

LEMMA SameOverflow ==
    ASSUME UNCHANGED sub
    PROVE  AllowWalletOverflow' = AllowWalletOverflow
  BY DEF AllowWalletOverflow

(* Steps of a handler that touch nothing but its place. *)
LEMMA PlaceKeeps ==
    ASSUME IInv, NEW r \in Reservers, NEW p \in Places, res' = [res EXCEPT ![r] = p],
           HandlerShape(p), UNCHANGED <<pref, money, periods, ends>>
    PROVE  IInv'
  <1> USE DEF money, ends
  <1>0. AllowWalletOverflow => AllowWalletOverflow'
    BY SameOverflow
  <1>1. HandlersShape' /\ res' \in [Reservers -> Places]
    BY <1>0, HandlerKeeps
  <1>2. TypeOK'
    BY <1>1 DEF IInv, TypeOK, Places
  <1>3. OpShape' /\ DueShape' /\ NeverOverdrawn'
    BY DEF IInv, OpShape, DueShape, NeverOverdrawn
  <1>4. StrictShape'
    BY SameOverflow DEF IInv, StrictShape, Held
  <1> QED
    BY <1>1, <1>2, <1>3, <1>4 DEF IInv

LEMMA HandlerFacts ==
    ASSUME IInv, NEW r \in Reservers
    PROVE  /\ HandlerShape(res[r]) /\ res[r] \in Places
           /\ res[r].pc # "idle" => res[r].op \in Ops
           /\ res \in [Reservers -> Places]
  BY TypeFacts DEF IInv, HandlersShape, HandlerShape

LEMMA GotoKeeps ==
    ASSUME IInv, NEW r \in Reservers, NEW pc \in {"wallet", "subscription", "overflow"},
           Goto(r, pc), res[r].pc # "idle", UNCHANGED <<pref, money, periods, ends>>,
           pc = "subscription" => pref # "subscription_first",
           pc = "wallet" => AllowWalletOverflow
    PROVE  IInv'
  <1> DEFINE p == [res[r] EXCEPT !.pc = pc]
  <1>1. res[r] \in Places /\ res[r].op \in Ops
    BY HandlerFacts
  <1>2. p \in Places /\ p.pc = pc /\ p.op \in Ops
    BY <1>1 DEF Places
  <1>3. res' = [res EXCEPT ![r] = p]
    BY DEF Goto
  <1> HIDE DEF p
  <1>4. HandlerShape(p)
    BY <1>2 DEF HandlerShape
  <1> QED
    BY <1>2, <1>3, <1>4, PlaceKeeps

LEMMA DoneKeeps ==
    ASSUME IInv, NEW r \in Reservers, Done(r), UNCHANGED <<pref, money, periods, ends>>
    PROVE  IInv'
  <1>1. Idle \in Places /\ HandlerShape(Idle)
    BY DEF Idle, Places, HandlerShape
  <1> QED
    BY <1>1, PlaceKeeps DEF Done

LEMMA StartKeeps ==
    ASSUME IInv, NEW r \in Reservers, NEW o \in Ops, StartReserve(r, o)
    PROVE  IInv'
  <1> DEFINE p == [pc |-> FirstTry, op |-> o]
  <1>0. pref \in Preferences /\ Preferences \subseteq
           {"subscription_only", "wallet_only", "wallet_first", "subscription_first"}
    BY TypeFacts, LedgerAssumption DEF IInv
  <1>1. /\ FirstTry \in {"wallet", "wallet_first", "subscription", "subscription_first"}
        /\ FirstTry = "wallet_first" => pref = "wallet_first"
        /\ FirstTry = "subscription" => pref = "subscription_only"
        /\ FirstTry = "wallet" /\ pref = "subscription_first" => \A s \in Subs : ~sub[s].active
    BY <1>0 DEF FirstTry
  <1>2. FirstTry = "wallet" /\ pref = "subscription_first" => AllowWalletOverflow
    BY <1>1, LedgerAssumption DEF AllowWalletOverflow
  <1>3. p \in Places /\ HandlerShape(p)
    BY <1>1, <1>2 DEF Places, HandlerShape
  <1>4. /\ res' = [res EXCEPT ![r] = p]
        /\ UNCHANGED <<pref, money, periods, ends>>
    BY DEF StartReserve
  <1> HIDE DEF p
  <1> QED
    BY <1>3, <1>4, PlaceKeeps

LEMMA PlacesKeep ==
    ASSUME IInv, NEW r \in Reservers,
           \/ WalletInsufficient(r) \/ SubscriptionInsufficient(r)
           \/ CheckOverflow(r) \/ ReserveEnds(r)
    PROVE  IInv'
  <1>1. /\ res[r].pc # "idle" /\ UNCHANGED <<pref, money, periods, ends>>
        /\ HandlerShape(res[r])
    BY HandlerFacts
       DEF WalletInsufficient, SubscriptionInsufficient, CheckOverflow, ReserveEnds
  <1>2. CASE Done(r)
    BY <1>1, <1>2, DoneKeeps
  <1>3. CASE WalletInsufficient(r) /\ res[r].pc = "wallet_first"
    <2>1. Goto(r, "subscription") /\ pref # "subscription_first"
      BY <1>1, <1>3 DEF WalletInsufficient, HandlerShape
    <2> QED
      BY <1>1, <2>1, GotoKeeps
  <1>4. CASE SubscriptionInsufficient(r) /\ res[r].pc = "subscription_first"
    <2>1. Goto(r, "overflow")
      BY <1>4 DEF SubscriptionInsufficient
    <2> QED
      BY <1>1, <2>1, GotoKeeps
  <1>5. CASE CheckOverflow(r) /\ AllowWalletOverflow
    <2>1. Goto(r, "wallet")
      BY <1>5 DEF CheckOverflow
    <2> QED
      BY <1>1, <1>5, <2>1, GotoKeeps
  <1> QED
    BY <1>2, <1>3, <1>4, <1>5
       DEF WalletInsufficient, SubscriptionInsufficient, CheckOverflow, ReserveEnds

-----------------------------------------------------------------------------
(* The token gives delta, or takes -delta back. *)
LEMMA TokenCharged ==
    ASSUME IInv, NEW delta \in Int, ChargeToken(delta)
    PROVE  /\ token' \in [remain : Int, used : Int, deleted : BOOLEAN]
           /\ token'.remain = token.remain - delta
           /\ token'.used = token.used + delta
  <1>1. /\ token \in [remain : Int, used : Int, deleted : BOOLEAN]
        /\ token.remain \in Int /\ token.used \in Int
    BY TypeFacts DEF IInv
  <1>2. token' = [token EXCEPT !.remain = token.remain - delta, !.used = token.used + delta]
    BY DEF ChargeToken
  <1>3. token.remain - delta \in Int /\ token.used + delta \in Int
    BY <1>1
  <1> QED
    BY <1>1, <1>2, <1>3

(* A reservation under the row lock, when the token has enough. *)
LEMMA ReserveFacts ==
    ASSUME IInv, NEW o \in Ops, NEW source \in {"wallet", "subscription"},
           NEW s \in Subs \union {0}, Reserve(o, source, s)
    PROVE  \E b \in Bills : /\ bill' = [bill EXCEPT ![o] = b]
                            /\ b.state = "reserved" /\ b.source = source /\ b.sub = s
                            /\ b.quota = Quote[o] /\ b.tokenQuota = TokenQuota(o)
  <1> DEFINE b == [state |-> "reserved", source |-> source, sub |-> s,
                   quota |-> Quote[o], tokenQuota |-> TokenQuota(o)]
  <1>1. b \in Bills
    BY QuoteFacts DEF Bills
  <1>2. bill' = [bill EXCEPT ![o] = b]
    BY DEF Reserve
  <1> QED
    BY <1>1, <1>2

LEMMA TokenReserved ==
    ASSUME IInv, NEW o \in Ops, ~TokenShort(o), ChargeToken(TokenQuota(o))
    PROVE  /\ token' \in [remain : Int, used : Int, deleted : BOOLEAN]
           /\ token'.remain >= 0
  <1>1. token.remain \in Int /\ token.remain >= 0
    BY TypeFacts DEF IInv, NeverOverdrawn
  <1>2. TokenQuota(o) \in Nat /\ Quote[o] \in Nat /\ TokenQuota(o) <= token.remain
    BY <1>1, QuoteFacts DEF TokenShort, TokenQuota
  <1>3. /\ token' \in [remain : Int, used : Int, deleted : BOOLEAN]
        /\ token'.remain = token.remain - TokenQuota(o)
    BY <1>2, TokenCharged
  <1> QED
    BY <1>1, <1>2, <1>3

LEMMA ReserveWalletKeeps ==
    ASSUME IInv, NEW r \in Reservers, ReserveWallet(r)
    PROVE  IInv'
  <1> DEFINE o == res[r].op
  <1>1. /\ res[r].pc \in {"wallet", "wallet_first"} /\ CanReserve(o) /\ wallet >= Quote[o]
        /\ ~TokenShort(o) /\ wallet' = wallet - Quote[o] /\ ChargeToken(TokenQuota(o))
        /\ Reserve(o, "wallet", 0) /\ Done(r)
        /\ UNCHANGED <<pref, userUsed, sub, periods, rec, ends>>
    BY DEF ReserveWallet
  <1>2. o \in Ops /\ HandlerShape(res[r])
    BY <1>1, HandlerFacts
  <1> HIDE DEF o
  <1>3. PICK b \in Bills : /\ bill' = [bill EXCEPT ![o] = b]
                           /\ b.state = "reserved" /\ b.source = "wallet" /\ b.sub = 0
                           /\ b.quota = Quote[o] /\ b.tokenQuota = TokenQuota(o)
    BY <1>1, <1>2, ReserveFacts
  <1>4. BillShape(o, b, rec[o])
    BY <1>3 DEF BillShape
  <1>5. OpShape' /\ bill' \in [Ops -> Bills]
    <2>1. rec[o] \in Records /\ rec' = [rec EXCEPT ![o] = rec[o]]
      BY <1>1, <1>2, TypeFacts DEF IInv
    <2> QED
      BY <1>1, <1>2, <1>3, <1>4, <2>1, OpKeeps
  <1>6. AllowWalletOverflow' = AllowWalletOverflow
    BY <1>1, SameOverflow
  <1>7. HandlersShape' /\ res' \in [Reservers -> Places]
    <2>1. AllowWalletOverflow => AllowWalletOverflow'
      BY <1>6
    <2> QED
      BY <1>1, <2>1, IdleKeeps
  <1>8. token' \in [remain : Int, used : Int, deleted : BOOLEAN] /\ token'.remain >= 0
    BY <1>1, <1>2, TokenReserved
  <1>9. wallet' \in Int /\ wallet' >= 0
    BY <1>1, <1>2, QuoteFacts, TypeFacts DEF IInv
  <1>10. TypeOK'
    BY <1>1, <1>5, <1>7, <1>8, <1>9 DEF IInv, TypeOK, Bills, Places, ends
  <1>11. StrictShape'
    <2>1. ~(pref = "subscription_first" /\ ~AllowWalletOverflow)
      BY <1>1, <1>2 DEF HandlerShape
    <2> QED
      BY <1>1, <1>6, <2>1 DEF StrictShape
  <1>12. DueShape' /\ NeverOverdrawn'
    BY <1>1, <1>8, <1>9 DEF IInv, DueShape, NeverOverdrawn
  <1> QED
    BY <1>5, <1>7, <1>10, <1>11, <1>12 DEF IInv

(* The subscription that is charged: the first with room.                  *)
LEMMA MinFacts ==
    ASSUME NEW S, S \subseteq Subs, S # {}
    PROVE  Min(S) \in S
  <1>1. S \subseteq Nat
    BY LedgerAssumption
  <1>2. \E n \in S : \A m \in S : n <= m
    BY <1>1, LeastElement
  <1> QED
    BY <1>2 DEF Min

(* The subscription rows after operation o was charged to s: the others    *)
(* were at most reset.                                                     *)
LEMMA PreConsumeFacts ==
    ASSUME IInv, NEW o \in Ops, NEW s \in Subs, Fits(s, o), PreConsume(o, s)
    PROVE  /\ sub' \in [Subs -> SubRows]
           /\ sub'[s].used = UsedNow(s) + Quote[o]
           /\ \A t \in Subs : /\ sub'[t].active = sub[t].active
                              /\ sub'[t].due => sub[t].due
                              /\ t # s => \/ sub'[t].used = sub[t].used
                                          \/ sub[t].due /\ sub'[t].used = 0
  <1>0. sub \in [Subs -> SubRows] /\ Quote[o] \in Nat /\ Subs \subseteq Nat
    BY TypeFacts, QuoteFacts, LedgerAssumption DEF IInv
  <1>1. ASSUME NEW t \in Subs
        PROVE  /\ sub'[t] \in SubRows /\ sub'[t].active = sub[t].active
               /\ sub'[t].due => sub[t].due
               /\ t = s => sub'[t].used = UsedNow(s) + Quote[o]
               /\ t # s => sub'[t].used = sub[t].used \/ (sub[t].due /\ sub'[t].used = 0)
    <2> DEFINE u == UsedNow(t) + IF t = s THEN Quote[o] ELSE 0
    <2>1. sub[t] \in SubRows /\ UsedNow(t) \in Int
      BY <1>0 DEF UsedNow, SubRows
    <2>2. u \in Int /\ (t # s => u = UsedNow(t)) /\ (t = s => u = UsedNow(s) + Quote[o])
      BY <1>0, <2>1
    <2>3. sub'[t] = IF sub[t].active /\ t <= s
                      THEN [sub[t] EXCEPT !.due = FALSE, !.used = u] ELSE sub[t]
      BY DEF PreConsume
    <2> HIDE DEF u
    <2>4. CASE sub[t].active /\ t <= s
      <3>1. sub'[t] = [sub[t] EXCEPT !.due = FALSE, !.used = u]
        BY <2>3, <2>4
      <3>2. /\ sub'[t] \in SubRows /\ sub'[t].active = sub[t].active
            /\ sub'[t].due = FALSE /\ sub'[t].used = u
        BY <2>1, <2>2, <3>1 DEF SubRows
      <3>3. t # s => u = sub[t].used \/ (sub[t].due /\ u = 0)
        <4>1. CASE sub[t].due
          BY <2>2, <4>1 DEF UsedNow
        <4>2. CASE ~sub[t].due
          BY <2>2, <4>2 DEF UsedNow
        <4> QED
          BY <4>1, <4>2
      <3> QED
        BY <2>2, <3>2, <3>3
    <2>5. CASE ~(sub[t].active /\ t <= s)
      <3>1. t # s
        BY <1>0, <2>5 DEF Fits
      <3>2. sub'[t] = sub[t]
        BY <2>3, <2>5
      <3> QED
        BY <2>1, <3>1, <3>2
    <2> QED
      BY <2>4, <2>5
  <1>2. sub' \in [Subs -> SubRows]
    <2>1. sub' = [t \in Subs |-> sub'[t]]
      BY DEF PreConsume
    <2> QED
      BY <1>1, <2>1
  <1> QED
    BY <1>1, <1>2

LEMMA ReserveSubscriptionFacts ==
    ASSUME IInv, NEW r \in Reservers, ReserveSubscription(r)
    PROVE  \E o \in Ops, s \in Subs, b \in Bills, c \in Records :
             /\ bill[o].state = "pending" /\ Fits(s, o) /\ PreConsume(o, s)
             /\ ~TokenShort(o) /\ ChargeToken(TokenQuota(o))
             /\ bill' = [bill EXCEPT ![o] = b] /\ rec' = [rec EXCEPT ![o] = c]
             /\ b.state = "reserved" /\ b.source = "subscription" /\ b.sub = s
             /\ b.quota = Quote[o] /\ b.tokenQuota = TokenQuota(o)
             /\ c.sub = s /\ c.amount = Quote[o]
             /\ Done(r) /\ UNCHANGED <<pref, wallet, userUsed, periods, ends>>
  <1> DEFINE o == res[r].op
             room == {s \in Subs : Fits(s, o)}
             s == Min(room)
             c == [status |-> "consumed", sub |-> s, amount |-> Quote[o]]
  <1>1. /\ res[r].pc \in {"subscription", "subscription_first"} /\ CanReserve(o)
        /\ room # {} /\ ~TokenShort(o) /\ PreConsume(o, s) /\ ChargeToken(TokenQuota(o))
        /\ Reserve(o, "subscription", s) /\ Done(r)
        /\ UNCHANGED <<pref, wallet, userUsed, periods, ends>>
    BY DEF ReserveSubscription
  <1>2. o \in Ops
    BY <1>1, HandlerFacts
  <1>3. s \in room
    BY <1>1, MinFacts
  <1>4. s \in Subs /\ Fits(s, o)
    BY <1>3
  <1> HIDE DEF o, room, s
  <1>5. PICK b \in Bills : /\ bill' = [bill EXCEPT ![o] = b]
                           /\ b.state = "reserved" /\ b.source = "subscription" /\ b.sub = s
                           /\ b.quota = Quote[o] /\ b.tokenQuota = TokenQuota(o)
    BY <1>1, <1>2, <1>4, ReserveFacts
  <1>6. c \in Records /\ c.sub = s /\ c.amount = Quote[o]
    BY <1>2, <1>4, QuoteFacts DEF Records
  <1>7. rec' = [rec EXCEPT ![o] = c]
    BY <1>1 DEF PreConsume
  <1>8. bill[o].state = "pending"
    BY <1>1 DEF CanReserve
  <1> HIDE DEF c
  <1> QED
    BY <1>1, <1>2, <1>4, <1>5, <1>6, <1>7, <1>8

LEMMA ReserveSubscriptionKeeps ==
    ASSUME IInv, NEW r \in Reservers, ReserveSubscription(r)
    PROVE  IInv'
  <1>1. PICK o \in Ops, s \in Subs, b \in Bills, c \in Records :
             /\ bill[o].state = "pending" /\ Fits(s, o) /\ PreConsume(o, s)
             /\ ~TokenShort(o) /\ ChargeToken(TokenQuota(o))
             /\ bill' = [bill EXCEPT ![o] = b] /\ rec' = [rec EXCEPT ![o] = c]
             /\ b.state = "reserved" /\ b.source = "subscription" /\ b.sub = s
             /\ b.quota = Quote[o] /\ b.tokenQuota = TokenQuota(o)
             /\ c.sub = s /\ c.amount = Quote[o]
             /\ Done(r) /\ UNCHANGED <<pref, wallet, userUsed, periods, ends>>
    BY ReserveSubscriptionFacts
  <1>2. /\ sub' \in [Subs -> SubRows]
        /\ sub'[s].used = UsedNow(s) + Quote[o]
        /\ \A t \in Subs : /\ sub'[t].active = sub[t].active
                           /\ sub'[t].due => sub[t].due
                           /\ t # s => \/ sub'[t].used = sub[t].used
                                       \/ sub[t].due /\ sub'[t].used = 0
    BY <1>1, PreConsumeFacts
  <1>3. BillShape(o, b, c)
    BY <1>1 DEF BillShape
  <1>4. /\ OpShape' /\ bill' \in [Ops -> Bills] /\ rec' \in [Ops -> Records] /\ bill'[o] = b
        /\ \A q \in Ops : q # o => bill'[q] = bill[q]
    BY <1>1, <1>3, OpKeeps
  <1>5. AllowWalletOverflow' <=> AllowWalletOverflow
    BY <1>2, LedgerAssumption DEF AllowWalletOverflow
  <1>6. HandlersShape' /\ res' \in [Reservers -> Places]
    BY <1>1, <1>5, IdleKeeps
  <1>7. token' \in [remain : Int, used : Int, deleted : BOOLEAN] /\ token'.remain >= 0
    BY <1>1, TokenReserved
  <1>8. TypeOK'
    BY <1>1, <1>2, <1>4, <1>6, <1>7 DEF IInv, TypeOK, Bills, Records, SubRows, Places, ends
  <1>9. StrictShape'
    <2>1. \A q \in Ops : Held(q)' => \/ q = o
                                     \/ Held(q) /\ bill'[q].source = bill[q].source
      BY <1>4 DEF Held
    <2> QED
      BY <1>1, <1>4, <1>5, <2>1 DEF IInv, StrictShape
  <1>10. DueShape'
    BY <1>1, <1>2 DEF IInv, DueShape
  <1>11. ASSUME NEW t \in Subs PROVE Total[t] = 0 \/ sub'[t].used <= Total[t]
    <2>0. /\ Total[t] \in Nat /\ Quote[o] \in Nat /\ sub[t].used \in Int
          /\ (Total[t] = 0 \/ sub[t].used <= Total[t])
      BY LedgerAssumption, QuoteFacts, TypeFacts DEF IInv, NeverOverdrawn, SubRows
    <2>1. CASE t = s
      <3>1. UsedNow(s) \in Int
        BY <2>0, <2>1 DEF UsedNow
      <3>2. Total[s] = 0 \/ Total[s] - UsedNow(s) >= Quote[o]
        BY <1>1 DEF Fits
      <3> QED
        BY <1>2, <2>0, <2>1, <3>1, <3>2
    <2>2. CASE t # s
      BY <1>2, <2>0, <2>2
    <2> QED
      BY <2>1, <2>2
  <1>12. NeverOverdrawn'
    <2>1. wallet' >= 0
      BY <1>1 DEF IInv, NeverOverdrawn
    <2> QED
      BY <1>7, <1>11, <2>1 DEF NeverOverdrawn
  <1> QED
    BY <1>4, <1>6, <1>8, <1>9, <1>10, <1>12 DEF IInv

-----------------------------------------------------------------------------
(* The operation ends. *)
LEMMA EndKeeps ==
    ASSUME IInv, NEW o \in Ops, Succeed(o) \/ Fail(o)
    PROVE  IInv'
  <1>0. /\ outcome \in [Ops -> {"open", "succeeded", "failed"}] /\ usage \in [Ops -> Nat]
        /\ Units[o] \in Nat
    BY TypeFacts, QuoteFacts DEF IInv
  <1>1. \E e \in {"succeeded", "failed"}, n \in Nat :
          /\ outcome' = [outcome EXCEPT ![o] = e] /\ usage' = [usage EXCEPT ![o] = n]
          /\ UsageShape(o, e, n)
    <2>1. CASE Succeed(o)
      <3>1. PICK n \in (IF Units[o] = 0 THEN {0} ELSE 1..Units[o]) :
              usage' = [usage EXCEPT ![o] = n]
        BY <2>1 DEF Succeed
      <3>2. n \in Nat /\ UsageShape(o, "succeeded", n)
        BY <1>0, <3>1 DEF UsageShape
      <3> QED
        BY <2>1, <3>1, <3>2 DEF Succeed
    <2>2. CASE Fail(o)
      <3>1. usage' = [usage EXCEPT ![o] = usage[o]] /\ usage[o] \in Nat
        BY <1>0, <2>2 DEF Fail
      <3>2. UsageShape(o, "failed", usage[o])
        BY DEF UsageShape
      <3> QED
        BY <2>2, <3>1, <3>2 DEF Fail
    <2> QED
      BY <2>1, <2>2
  <1>2. PICK e \in {"succeeded", "failed"}, n \in Nat :
          /\ outcome' = [outcome EXCEPT ![o] = e] /\ usage' = [usage EXCEPT ![o] = n]
          /\ UsageShape(o, e, n)
    BY <1>1
  <1>3. UNCHANGED <<pref, wallet, userUsed, token, sub, rec, bill, periods, res>>
    BY DEF Succeed, Fail, money
  <1>4. TypeOK'
    BY <1>0, <1>2, <1>3 DEF IInv, TypeOK
  <1>5. OpShape'
    <2>1. \A q \in Ops : /\ outcome'[q] = IF q = o THEN e ELSE outcome[q]
                         /\ usage'[q] = IF q = o THEN n ELSE usage[q]
      BY <1>0, <1>2
    <2> QED
      BY <1>2, <1>3, <2>1 DEF IInv, OpShape
  <1>6. AllowWalletOverflow' <=> AllowWalletOverflow
    BY <1>3 DEF AllowWalletOverflow
  <1>7. HandlersShape'
    BY <1>3, <1>6, HandlersStay
  <1>8. StrictShape' /\ DueShape' /\ NeverOverdrawn'
    BY <1>3, <1>6 DEF IInv, StrictShape, DueShape, NeverOverdrawn, Held
  <1> QED
    BY <1>4, <1>5, <1>7, <1>8 DEF IInv

-----------------------------------------------------------------------------
(* A reserved operation o is closed with columns b and record c: quota q   *)
(* and token quota tq stay charged, and the rest goes back to where it     *)
(* came from.  Settling and refunding are both of this form.               *)
Closes(o, b, c, q, tq) ==
    /\ bill[o].state = "reserved"
    /\ q <= Quote[o] /\ tq <= TokenQuota(o)
    /\ b.source = bill[o].source /\ b.sub = bill[o].sub
    /\ \/ b.state = "settled" /\ b.quota = q /\ b.tokenQuota = tq /\ q >= 1
       \/ b.state = "refunded" /\ q = 0 /\ tq = 0
    /\ bill' = [bill EXCEPT ![o] = b] /\ rec' = [rec EXCEPT ![o] = c]
    /\ wallet' = wallet + IF bill[o].source = "wallet" THEN Quote[o] - q ELSE 0
    /\ ChargeToken(tq - TokenQuota(o))
    /\ userUsed' = userUsed + q
    /\ \/ sub' = sub /\ (bill[o].source = "wallet" \/ q = Quote[o])
       \/ bill[o].source = "subscription" /\ GiveBack(bill[o].sub, Quote[o] - q)
    /\ UNCHANGED <<pref, periods, ends, res>>

LEMMA BillFacts ==
    ASSUME IInv, NEW o \in Ops
    PROVE  /\ bill[o] \in Bills /\ rec[o] \in Records
           /\ bill \in [Ops -> Bills] /\ rec \in [Ops -> Records]
           /\ BillShape(o, bill[o], rec[o]) /\ UsageShape(o, outcome[o], usage[o])
  BY TypeFacts DEF IInv, OpShape

LEMMA ActualBounds ==
    ASSUME IInv, NEW o \in Ops, outcome[o] = "succeeded", NEW amount \in Nat
    PROVE  /\ Actual(o, amount) \in Nat /\ Actual(o, amount) <= amount
           /\ amount > 0 => Actual(o, amount) >= 1
  <1>1. Units[o] \in Nat /\ (Units[o] = 0 \/ usage[o] \in 1..Units[o])
    BY QuoteFacts, BillFacts DEF UsageShape
  <1>2. CASE Units[o] = 0
    BY <1>2 DEF Actual
  <1>3. CASE Units[o] # 0
    <2>1. /\ CeilProportional(amount, usage[o], Units[o]) \in 0..amount
          /\ amount > 0 => CeilProportional(amount, usage[o], Units[o]) > 0
      BY <1>1, <1>3, CeilBounds
    <2> QED
      BY <1>3, <2>1 DEF Actual
  <1> QED
    BY <1>2, <1>3

LEMMA SettleCloses ==
    ASSUME IInv, NEW o \in Ops, SettleBilling(o)
    PROVE  \E b \in Bills, c \in Records, q \in Nat, tq \in Nat : Closes(o, b, c, q, tq)
  <1> DEFINE q == Actual(o, bill[o].quota)
             tq == Actual(o, bill[o].tokenQuota)
             b == [bill[o] EXCEPT !.state = "settled", !.quota = q, !.tokenQuota = tq]
  <1>0. /\ bill[o].state = "reserved" /\ outcome[o] = "succeeded"
        /\ bill[o].quota = Quote[o] /\ bill[o].tokenQuota = TokenQuota(o)
        /\ bill[o].source \in {"wallet", "subscription"}
        /\ Quote[o] \in Nat \ {0} /\ TokenQuota(o) \in Nat
        /\ bill[o] \in Bills /\ rec[o] \in Records
        /\ bill \in [Ops -> Bills] /\ rec \in [Ops -> Records]
    BY BillFacts, QuoteFacts DEF SettleBilling, BillShape
  <1>1. /\ q \in Nat /\ q <= Quote[o] /\ q >= 1 /\ tq \in Nat /\ tq <= TokenQuota(o)
    BY <1>0, ActualBounds
  <1>2. /\ b \in Bills /\ b.state = "settled" /\ b.quota = q /\ b.tokenQuota = tq
        /\ b.source = bill[o].source /\ b.sub = bill[o].sub
    BY <1>0, <1>1 DEF Bills
  <1>3. bill' = [bill EXCEPT ![o] = b]
    BY <1>0 DEF SettleBilling
  <1>4. /\ ChargeToken(tq - TokenQuota(o)) /\ userUsed' = userUsed + q
        /\ UNCHANGED <<pref, periods, ends, res>>
    BY <1>0 DEF SettleBilling
  <1>5. \/ Quote[o] - q = 0 /\ UNCHANGED <<wallet, sub, rec>>
        \/ /\ bill[o].source = "wallet" /\ wallet' = wallet + (Quote[o] - q)
           /\ UNCHANGED <<sub, rec>>
        \/ /\ bill[o].source = "subscription" /\ GiveBack(bill[o].sub, Quote[o] - q)
           /\ rec' = [rec EXCEPT ![o].amount = q] /\ UNCHANGED wallet
    BY <1>0 DEF SettleBilling
  <1> HIDE DEF b, q, tq
  <1>6. PICK c \in Records : rec' = [rec EXCEPT ![o] = c]
    <2>1. CASE rec' = rec
      BY <1>0, <2>1
    <2>2. CASE rec' = [rec EXCEPT ![o].amount = q]
      <3>1. [rec[o] EXCEPT !.amount = q] \in Records
        BY <1>0, <1>1 DEF Records
      <3> QED
        BY <1>0, <2>2, <3>1
    <2> QED
      BY <1>5, <2>1, <2>2
  <1>7. wallet \in Int
    BY TypeFacts DEF IInv
  <1>8. wallet' = wallet + IF bill[o].source = "wallet" THEN Quote[o] - q ELSE 0
    BY <1>0, <1>1, <1>5, <1>7
  <1>9. \/ sub' = sub /\ (bill[o].source = "wallet" \/ q = Quote[o])
        \/ bill[o].source = "subscription" /\ GiveBack(bill[o].sub, Quote[o] - q)
    BY <1>0, <1>1, <1>5
  <1>10. Closes(o, b, c, q, tq)
    BY <1>0, <1>1, <1>2, <1>3, <1>4, <1>6, <1>8, <1>9 DEF Closes
  <1> QED
    BY <1>1, <1>2, <1>10

LEMMA RefundCloses ==
    ASSUME IInv, NEW o \in Ops, RefundBilling(o)
    PROVE  \E b \in Bills, c \in Records, q \in Nat, tq \in Nat : Closes(o, b, c, q, tq)
  <1> DEFINE b == [bill[o] EXCEPT !.state = "refunded"]
  <1>0. /\ bill[o].state = "reserved"
        /\ bill[o].quota = Quote[o] /\ bill[o].tokenQuota = TokenQuota(o)
        /\ Quote[o] \in Nat \ {0} /\ TokenQuota(o) \in Nat
        /\ bill[o] \in Bills /\ rec[o] \in Records
        /\ bill \in [Ops -> Bills] /\ rec \in [Ops -> Records]
        /\ wallet \in Int /\ userUsed \in Int
        /\ BillShape(o, bill[o], rec[o])
    BY BillFacts, QuoteFacts, TypeFacts DEF IInv, RefundBilling, BillShape
  <1>1. /\ b \in Bills /\ b.state = "refunded"
        /\ b.source = bill[o].source /\ b.sub = bill[o].sub
    BY <1>0 DEF Bills
  <1>2. bill' = [bill EXCEPT ![o] = b]
    BY <1>0 DEF RefundBilling
  <1>3. ChargeToken(0 - TokenQuota(o))
    <2>1. ChargeToken(-TokenQuota(o))
      BY <1>0 DEF RefundBilling, RefundToken
    <2>2. -TokenQuota(o) = 0 - TokenQuota(o)
      BY <1>0
    <2> QED
      BY <2>1, <2>2
  <1>4. userUsed' = userUsed + 0 /\ UNCHANGED <<pref, periods, ends, res>>
    BY <1>0 DEF RefundBilling
  <1>5. \/ /\ bill[o].source = "wallet" /\ wallet' = wallet + Quote[o]
           /\ UNCHANGED <<sub, rec>>
        \/ /\ bill[o].source = "subscription" /\ GiveBack(bill[o].sub, Quote[o])
           /\ rec' = [rec EXCEPT ![o].status = "refunded"] /\ UNCHANGED wallet
    <2>1. CASE bill[o].source = "wallet" /\ wallet' = wallet + bill[o].quota
               /\ UNCHANGED <<sub, rec>>
      BY <1>0, <2>1
    <2>2. CASE bill[o].source = "subscription" /\ RefundPreConsume(o) /\ UNCHANGED wallet
      <3>1. rec[o].sub = bill[o].sub /\ rec[o].amount = Quote[o]
        BY <1>0, <2>2 DEF RefundPreConsume, BillShape
      <3> QED
        BY <2>2, <3>1 DEF RefundPreConsume
    <2> QED
      BY <2>1, <2>2 DEF RefundBilling
  <1> HIDE DEF b
  <1>6. PICK c \in Records : rec' = [rec EXCEPT ![o] = c]
    <2>1. CASE rec' = rec
      BY <1>0, <2>1
    <2>2. CASE rec' = [rec EXCEPT ![o].status = "refunded"]
      <3>1. [rec[o] EXCEPT !.status = "refunded"] \in Records
        BY <1>0 DEF Records
      <3> QED
        BY <1>0, <2>2, <3>1
    <2> QED
      BY <1>5, <2>1, <2>2
  <1>7. Quote[o] - 0 = Quote[o] /\ wallet = wallet + 0
    BY <1>0
  <1>8. wallet' = wallet + IF bill[o].source = "wallet" THEN Quote[o] - 0 ELSE 0
    BY <1>5, <1>7
  <1>9. \/ sub' = sub /\ bill[o].source = "wallet"
        \/ bill[o].source = "subscription" /\ GiveBack(bill[o].sub, Quote[o] - 0)
    BY <1>5, <1>7
  <1>10. 0 <= Quote[o] /\ 0 <= TokenQuota(o)
    BY <1>0
  <1>11. Closes(o, b, c, 0, 0)
    BY <1>0, <1>1, <1>2, <1>3, <1>4, <1>6, <1>8, <1>9, <1>10 DEF Closes
  <1> QED
    BY <1>1, <1>11

LEMMA GiveBackFacts ==
    ASSUME IInv, NEW s \in Subs, NEW a \in Nat, GiveBack(s, a)
    PROVE  /\ sub' \in [Subs -> SubRows]
           /\ sub'[s].used = IF sub[s].used < a THEN 0 ELSE sub[s].used - a
           /\ \A t \in Subs : /\ sub'[t].active = sub[t].active /\ sub'[t].due = sub[t].due
                              /\ t # s => sub'[t] = sub[t]
  <1> DEFINE u == IF sub[s].used < a THEN 0 ELSE sub[s].used - a
  <1>1. sub \in [Subs -> SubRows] /\ u \in Int
    BY TypeFacts DEF IInv, SubRows
  <1>2. sub' = [sub EXCEPT ![s] = [sub[s] EXCEPT !.used = u]]
    BY <1>1 DEF GiveBack
  <1> HIDE DEF u
  <1>3. [sub[s] EXCEPT !.used = u] \in SubRows
    BY <1>1 DEF SubRows
  <1>4. /\ sub' \in [Subs -> SubRows] /\ sub'[s] = [sub[s] EXCEPT !.used = u]
        /\ \A t \in Subs : t # s => sub'[t] = sub[t]
    BY <1>1, <1>2, <1>3
  <1>5. sub'[s].used = u /\ sub'[s].active = sub[s].active /\ sub'[s].due = sub[s].due
    BY <1>1, <1>4 DEF SubRows
  <1> QED
    BY <1>4, <1>5 DEF u

(* The subscription rows after an operation was closed. *)
LEMMA ClosedSubs ==
    ASSUME IInv, NEW o \in Ops, NEW b, NEW c, NEW q \in Nat, NEW tq, Closes(o, b, c, q, tq)
    PROVE  /\ sub' \in [Subs -> SubRows]
           /\ \A t \in Subs :
                /\ sub'[t].active = sub[t].active /\ sub'[t].due = sub[t].due
                /\ \/ sub'[t].used = sub[t].used /\ (bill[o].sub # t \/ q = Quote[o])
                   \/ /\ bill[o].sub = t
                      /\ sub'[t].used = IF sub[t].used < Quote[o] - q
                                          THEN 0 ELSE sub[t].used - (Quote[o] - q)
  <1>0. /\ sub \in [Subs -> SubRows] /\ 0 \notin Subs /\ Quote[o] \in Nat /\ q <= Quote[o]
        /\ bill[o].source = "wallet" => bill[o].sub = 0
        /\ bill[o].source = "subscription" => bill[o].sub \in Subs
    BY TypeFacts, QuoteFacts, BillFacts, LedgerAssumption DEF IInv, Closes, BillShape
  <1>1. CASE sub' = sub /\ (bill[o].source = "wallet" \/ q = Quote[o])
    BY <1>0, <1>1
  <1>2. CASE bill[o].source = "subscription" /\ GiveBack(bill[o].sub, Quote[o] - q)
    <2>1. Quote[o] - q \in Nat /\ bill[o].sub \in Subs
      BY <1>0, <1>2
    <2> QED
      BY <1>2, <2>1, GiveBackFacts
  <1> QED
    BY <1>1, <1>2 DEF Closes

LEMMA ClosesKeep ==
    ASSUME IInv, NEW o \in Ops, NEW b \in Bills, NEW c \in Records, NEW q \in Nat,
           NEW tq \in Nat, Closes(o, b, c, q, tq)
    PROVE  IInv'
  <1>0. /\ Quote[o] \in Nat /\ TokenQuota(o) \in Nat /\ wallet \in Int /\ userUsed \in Int
        /\ wallet >= 0 /\ token.remain \in Int /\ token.remain >= 0
        /\ BillShape(o, bill[o], rec[o])
    BY QuoteFacts, TypeFacts, BillFacts DEF IInv, NeverOverdrawn
  <1>1. BillShape(o, b, c)
    BY <1>0 DEF Closes, BillShape
  <1>2. /\ OpShape' /\ bill' \in [Ops -> Bills] /\ rec' \in [Ops -> Records] /\ bill'[o] = b
        /\ \A p \in Ops : p # o => bill'[p] = bill[p]
    BY <1>1, OpKeeps DEF Closes
  <1>3. /\ sub' \in [Subs -> SubRows]
        /\ \A t \in Subs :
             /\ sub'[t].active = sub[t].active /\ sub'[t].due = sub[t].due
             /\ \/ sub'[t].used = sub[t].used
                \/ sub'[t].used = IF sub[t].used < Quote[o] - q
                                    THEN 0 ELSE sub[t].used - (Quote[o] - q)
    BY ClosedSubs
  <1>4. AllowWalletOverflow' <=> AllowWalletOverflow
    BY <1>3, LedgerAssumption DEF AllowWalletOverflow
  <1>5. HandlersShape'
    BY <1>4, HandlersStay DEF Closes
  <1>6. /\ token' \in [remain : Int, used : Int, deleted : BOOLEAN] /\ token'.remain >= 0
    <2>1. tq - TokenQuota(o) \in Int /\ tq <= TokenQuota(o) /\ ChargeToken(tq - TokenQuota(o))
      BY <1>0 DEF Closes
    <2>2. /\ token' \in [remain : Int, used : Int, deleted : BOOLEAN]
          /\ token'.remain = token.remain - (tq - TokenQuota(o))
      BY <2>1, TokenCharged
    <2> QED
      BY <1>0, <2>1, <2>2
  <1>7. wallet' \in Int /\ wallet' >= 0 /\ userUsed' \in Int
    <2>1. /\ wallet' = wallet + IF bill[o].source = "wallet" THEN Quote[o] - q ELSE 0
          /\ userUsed' = userUsed + q /\ q <= Quote[o]
      BY DEF Closes
    <2> QED
      BY <1>0, <2>1
  <1>8. TypeOK'
    BY <1>2, <1>3, <1>6, <1>7 DEF IInv, TypeOK, Closes, Bills, Records, SubRows, ends
  <1>9. StrictShape'
    <2> SUFFICES ASSUME pref = "subscription_first", ~AllowWalletOverflow
                 PROVE  /\ wallet' = InitialWallet
                        /\ \A p \in Ops : Held(p)' => bill'[p].source # "wallet"
      BY <1>4 DEF Closes, StrictShape
    <2>1. wallet = InitialWallet /\ \A p \in Ops : Held(p) => bill[p].source # "wallet"
      BY DEF IInv, StrictShape
    <2>2. bill[o].source # "wallet"
      BY <2>1 DEF Closes, Held
    <2>3. wallet' = InitialWallet
      BY <1>0, <2>1, <2>2 DEF Closes
    <2>4. b.source # "wallet"
      BY <2>2 DEF Closes
    <2> QED
      BY <1>2, <2>1, <2>3, <2>4 DEF Held
  <1>10. DueShape'
    BY <1>3 DEF IInv, DueShape, Closes
  <1>11. NeverOverdrawn'
    <2>1. ASSUME NEW t \in Subs PROVE Total[t] = 0 \/ sub'[t].used <= Total[t]
      <3>1. /\ Total[t] \in Nat /\ sub[t].used \in Int /\ q <= Quote[o]
            /\ (Total[t] = 0 \/ sub[t].used <= Total[t])
        BY LedgerAssumption, TypeFacts DEF IInv, NeverOverdrawn, SubRows, Closes
      <3> QED
        BY <1>0, <1>3, <3>1
    <2> QED
      BY <1>6, <1>7, <2>1 DEF NeverOverdrawn
  <1> QED
    BY <1>2, <1>5, <1>8, <1>9, <1>10, <1>11 DEF IInv

-----------------------------------------------------------------------------
(* Records are cleaned up, and the token is deleted. *)
LEMMA CleanupKeeps ==
    ASSUME IInv, NEW o \in Ops, CleanupPreConsume(o)
    PROVE  IInv'
  <1>1. /\ rec' = [rec EXCEPT ![o] = NoRecord] /\ NoRecord \in Records
        /\ NoRecord.status = "absent"
        /\ UNCHANGED <<pref, wallet, userUsed, token, sub, periods, bill, ends, res>>
    BY DEF CleanupPreConsume, NoRecord, Records
  <1>2. BillShape(o, bill[o], NoRecord)
    BY <1>1, BillFacts DEF BillShape
  <1>3. OpShape' /\ rec' \in [Ops -> Records]
    <2>1. bill' = [bill EXCEPT ![o] = bill[o]] /\ bill[o] \in Bills
      BY <1>1, BillFacts
    <2> QED
      BY <1>1, <1>2, <2>1, OpKeeps
  <1>4. TypeOK'
    BY <1>1, <1>3 DEF IInv, TypeOK, Records, ends
  <1>5. AllowWalletOverflow' <=> AllowWalletOverflow
    BY <1>1 DEF AllowWalletOverflow
  <1>6. HandlersShape'
    BY <1>1, <1>5, HandlersStay
  <1>7. StrictShape' /\ DueShape' /\ NeverOverdrawn'
    BY <1>1, <1>5 DEF IInv, StrictShape, DueShape, NeverOverdrawn, Held
  <1> QED
    BY <1>3, <1>4, <1>6, <1>7 DEF IInv

LEMMA DeleteTokenKeeps ==
    ASSUME IInv, DeleteToken
    PROVE  IInv'
  <1>0. token \in [remain : Int, used : Int, deleted : BOOLEAN]
    BY TypeFacts DEF IInv
  <1>1. /\ token' \in [remain : Int, used : Int, deleted : BOOLEAN]
        /\ token'.remain = token.remain /\ token'.used = token.used
        /\ UNCHANGED <<pref, wallet, userUsed, sub, periods, rec, bill, outcome, usage, res>>
    BY <1>0 DEF DeleteToken, ends
  <1>2. AllowWalletOverflow' <=> AllowWalletOverflow
    BY <1>1 DEF AllowWalletOverflow
  <1>3. TypeOK' /\ OpShape'
    BY <1>1 DEF IInv, TypeOK, OpShape
  <1>4. HandlersShape'
    BY <1>1, <1>2, HandlersStay
  <1>5. StrictShape' /\ DueShape' /\ NeverOverdrawn'
    BY <1>1, <1>2 DEF IInv, StrictShape, DueShape, NeverOverdrawn, Held
  <1> QED
    BY <1>3, <1>4, <1>5 DEF IInv

(* A subscription expires, ends a period or is reset: it is never active   *)
(* again, and its amount_used stays or is zero.                            *)
LEMMA SubFacts ==
    ASSUME IInv, NEW s \in Subs,
           SubscriptionExpires(s) \/ PeriodEnds(s) \/ ResetSubscription(s)
    PROVE  /\ sub' \in [Subs -> SubRows] /\ periods' \in [Subs -> 0..MaxPeriods]
           /\ UNCHANGED <<pref, wallet, userUsed, token, rec, bill, outcome, usage, res>>
           /\ \A t \in Subs :
                /\ sub'[t].active => sub[t].active
                /\ sub'[t].due => periods'[t] > 0
                /\ periods'[t] = 0 => periods[t] = 0
                /\ sub'[t].used = sub[t].used \/ (sub'[t].used = 0 /\ sub[t].due)
  <1>0. /\ sub \in [Subs -> SubRows] /\ periods \in [Subs -> 0..MaxPeriods]
        /\ MaxPeriods \in Nat /\ \A t \in Subs : sub[t].due => periods[t] > 0
    BY TypeFacts, LedgerAssumption DEF IInv, DueShape
  <1>1. UNCHANGED <<pref, wallet, userUsed, token, rec, bill, outcome, usage, res>>
    BY DEF SubscriptionExpires, PeriodEnds, ResetSubscription, ends
  <1>2. CASE SubscriptionExpires(s)
    <2>1. sub' = [sub EXCEPT ![s] = [sub[s] EXCEPT !.active = FALSE]] /\ periods' = periods
      BY <1>0, <1>2 DEF SubscriptionExpires
    <2>2. [sub[s] EXCEPT !.active = FALSE] \in SubRows
      BY <1>0 DEF SubRows
    <2>3. /\ sub' \in [Subs -> SubRows] /\ sub'[s] = [sub[s] EXCEPT !.active = FALSE]
          /\ \A t \in Subs : t # s => sub'[t] = sub[t]
      BY <1>0, <2>1, <2>2
    <2>4. sub'[s].active = FALSE /\ sub'[s].due = sub[s].due /\ sub'[s].used = sub[s].used
      BY <1>0, <2>3 DEF SubRows
    <2> QED
      BY <1>0, <1>1, <2>1, <2>3, <2>4
  <1>3. CASE PeriodEnds(s)
    <2>1. /\ sub' = [sub EXCEPT ![s] = [sub[s] EXCEPT !.due = TRUE]]
          /\ periods' = [periods EXCEPT ![s] = periods[s] + 1] /\ periods[s] < MaxPeriods
      BY <1>0, <1>3 DEF PeriodEnds
    <2>2. [sub[s] EXCEPT !.due = TRUE] \in SubRows /\ periods[s] + 1 \in 0..MaxPeriods
      <3>1. periods[s] + 1 \in 0..MaxPeriods
        BY <1>0, <2>1
      <3>2. [sub[s] EXCEPT !.due = TRUE] \in SubRows
        BY <1>0 DEF SubRows
      <3> QED
        BY <3>1, <3>2
    <2>3. /\ sub' \in [Subs -> SubRows] /\ sub'[s] = [sub[s] EXCEPT !.due = TRUE]
          /\ \A t \in Subs : t # s => sub'[t] = sub[t]
      BY <1>0, <2>1, <2>2
    <2>4. /\ periods' \in [Subs -> 0..MaxPeriods] /\ periods'[s] = periods[s] + 1
          /\ \A t \in Subs : t # s => periods'[t] = periods[t]
      BY <1>0, <2>1, <2>2
    <2>5. sub'[s].active = sub[s].active /\ sub'[s].used = sub[s].used
      BY <1>0, <2>3 DEF SubRows
    <2>6. periods'[s] > 0
      BY <1>0, <2>4
    <2>7. ASSUME NEW t \in Subs
          PROVE  /\ sub'[t].active => sub[t].active
                 /\ sub'[t].due => periods'[t] > 0
                 /\ periods'[t] = 0 => periods[t] = 0
                 /\ sub'[t].used = sub[t].used
      <3>1. CASE t = s
        BY <2>5, <2>6, <3>1
      <3>2. CASE t # s
        BY <1>0, <2>3, <2>4, <3>2
      <3> QED
        BY <3>1, <3>2
    <2> QED
      BY <1>1, <2>3, <2>4, <2>7
  <1>4. CASE ResetSubscription(s)
    <2>1. /\ sub' = [sub EXCEPT ![s] = [sub[s] EXCEPT !.due = FALSE, !.used = 0]]
          /\ periods' = periods /\ sub[s].due
      BY <1>0, <1>4 DEF ResetSubscription
    <2>2. [sub[s] EXCEPT !.due = FALSE, !.used = 0] \in SubRows
      <3>1. PICK n \in Int : n = 0
        OBVIOUS
      <3>2. [sub[s] EXCEPT !.due = FALSE, !.used = n] \in SubRows
        BY <1>0 DEF SubRows
      <3> QED
        BY <3>1, <3>2
    <2>3. /\ sub' \in [Subs -> SubRows]
          /\ sub'[s] = [sub[s] EXCEPT !.due = FALSE, !.used = 0]
          /\ \A t \in Subs : t # s => sub'[t] = sub[t]
      BY <1>0, <2>1, <2>2
    <2>4. sub'[s].active = sub[s].active /\ sub'[s].due = FALSE /\ sub'[s].used = 0
      BY <1>0, <2>3 DEF SubRows
    <2> QED
      BY <1>0, <1>1, <2>1, <2>3, <2>4
  <1> QED
    BY <1>2, <1>3, <1>4

LEMMA SubsKeep ==
    ASSUME IInv, NEW s \in Subs,
           SubscriptionExpires(s) \/ PeriodEnds(s) \/ ResetSubscription(s)
    PROVE  IInv'
  <1>1. /\ sub' \in [Subs -> SubRows] /\ periods' \in [Subs -> 0..MaxPeriods]
        /\ UNCHANGED <<pref, wallet, userUsed, token, rec, bill, outcome, usage, res>>
        /\ \A t \in Subs :
             /\ sub'[t].active => sub[t].active
             /\ sub'[t].due => periods'[t] > 0
             /\ sub'[t].used = sub[t].used \/ sub'[t].used = 0
    BY SubFacts
  <1>2. AllowWalletOverflow => AllowWalletOverflow'
    BY <1>1, LedgerAssumption DEF AllowWalletOverflow
  <1>3. TypeOK' /\ OpShape'
    BY <1>1 DEF IInv, TypeOK, OpShape, SubRows
  <1>4. HandlersShape'
    BY <1>1, <1>2, HandlersStay
  <1>5. StrictShape'
    BY <1>1, <1>2 DEF IInv, StrictShape, Held
  <1>6. DueShape'
    BY <1>1 DEF DueShape
  <1>7. NeverOverdrawn'
    BY <1>1, LedgerAssumption DEF IInv, NeverOverdrawn
  <1> QED
    BY <1>3, <1>4, <1>5, <1>6, <1>7 DEF IInv

LEMMA NextKeeps == IInv /\ [Next]_vars => IInv'
  <1> SUFFICES ASSUME IInv, [Next]_vars PROVE IInv'
    OBVIOUS
  <1>1. ASSUME NEW o \in Ops, SettleBilling(o) \/ RefundBilling(o) PROVE IInv'
    BY <1>1, SettleCloses, RefundCloses, ClosesKeep
  <1>2. CASE UNCHANGED vars
    <2>1. AllowWalletOverflow' <=> AllowWalletOverflow
      BY <1>2 DEF vars, AllowWalletOverflow
    <2> QED
      BY <1>2, <2>1 DEF vars, IInv, TypeOK, OpShape, HandlersShape, HandlerShape, StrictShape,
                        DueShape, NeverOverdrawn, Held
  <1> QED
    BY <1>1, <1>2, StartKeeps, PlacesKeep, ReserveWalletKeeps, ReserveSubscriptionKeeps,
       EndKeeps, CleanupKeeps, SubsKeep, DeleteTokenKeeps
       DEF Next

LEMMA SpecKeeps == Spec => []IInv
  BY InitIInv, NextKeeps, PTL DEF Spec

-----------------------------------------------------------------------------
(* Conservation.  Every step either moves what the charges of one          *)
(* operation change by, or leaves the columns of all operations alone.     *)

(* The amount_used of s after its charge by one operation changed by d:    *)
(* changed by d as well, or reset before, or stopped at zero.              *)
SubMoved(s, d) ==
    \/ sub'[s].used = sub[s].used + d /\ (d >= 0 \/ sub[s].used + d >= 0)
    \/ periods[s] > 0 /\ d >= 0 /\ sub'[s].used = d
    \/ sub[s].used + d < 0 /\ sub'[s].used = 0

Moves(o) ==
    /\ \A q \in Ops : q # o => bill'[q] = bill[q]
    /\ \/ bill[o].state = "pending" /\ bill'[o].state = "reserved"
       \/ /\ bill[o].state = "reserved" /\ bill'[o].state \in {"settled", "refunded"}
          /\ bill'[o].source = bill[o].source
    /\ periods' = periods
    /\ wallet' = wallet - (WalletCharge'[o] - WalletCharge[o])
    /\ token'.remain = token.remain - (TokenCharge'[o] - TokenCharge[o])
    /\ token'.used = token.used + (TokenCharge'[o] - TokenCharge[o])
    /\ userUsed' = userUsed + (Settled'[o] - Settled[o])
    /\ \A s \in Subs : SubMoved(s, SubCharge(s)'[o] - SubCharge(s)[o])

Still ==
    /\ UNCHANGED <<bill, wallet, userUsed>>
    /\ token'.remain = token.remain /\ token'.used = token.used
    /\ \A s \in Subs :
         /\ periods'[s] = 0 => periods[s] = 0
         /\ \/ sub'[s].used = sub[s].used
            \/ sub'[s].used = 0 /\ periods[s] > 0

FundsConserved == WalletConserved /\ TokenConserved

Sums == FundsConserved /\ SubscriptionExact /\ userUsed = SumFunctionOnSet(Settled, Ops)

LEMMA ChargeTypes ==
    ASSUME IInv
    PROVE  /\ WalletCharge \in [Ops -> Nat] /\ TokenCharge \in [Ops -> Nat]
           /\ Settled \in [Ops -> Nat] /\ \A s \in Subs : SubCharge(s) \in [Ops -> Nat]
  <1>1. \A o \in Ops : bill[o].quota \in Nat /\ bill[o].tokenQuota \in Nat
    BY BillFacts DEF Bills
  <1> QED
    BY <1>1 DEF WalletCharge, TokenCharge, Settled, SubCharge

LEMMA ChargeTypesPrimed ==
    ASSUME IInv'
    PROVE  /\ WalletCharge' \in [Ops -> Nat] /\ TokenCharge' \in [Ops -> Nat]
           /\ Settled' \in [Ops -> Nat] /\ \A s \in Subs : SubCharge(s)' \in [Ops -> Nat]
  <1>1. \A o \in Ops : bill'[o].quota \in Nat /\ bill'[o].tokenQuota \in Nat
    BY DEF IInv, TypeOK
  <1> QED
    BY <1>1 DEF WalletCharge, TokenCharge, Settled, SubCharge

LEMMA ChargesLocal ==
    ASSUME NEW o \in Ops, \A q \in Ops : q # o => bill'[q] = bill[q]
    PROVE  \A q \in Ops : q # o => /\ WalletCharge'[q] = WalletCharge[q]
                                   /\ TokenCharge'[q] = TokenCharge[q]
                                   /\ Settled'[q] = Settled[q]
                                   /\ \A s \in Subs : SubCharge(s)'[q] = SubCharge(s)[q]
  BY DEF WalletCharge, TokenCharge, Settled, SubCharge, Held

LEMMA Accounts ==
    ASSUME IInv, IInv'
    PROVE  /\ wallet \in Int /\ wallet' \in Int /\ userUsed \in Int /\ userUsed' \in Int
           /\ token.remain \in Int /\ token'.remain \in Int
           /\ token.used \in Int /\ token'.used \in Int
           /\ InitialWallet \in Int /\ InitialToken \in Int
  BY LedgerAssumption DEF IInv, TypeOK

LEMMA MovesQuota ==
    ASSUME IInv, IInv', FundsConserved, NEW o \in Ops, Moves(o)
    PROVE  FundsConserved'
  <1>0. /\ WalletCharge \in [Ops -> Int] /\ WalletCharge' \in [Ops -> Int]
        /\ TokenCharge \in [Ops -> Int] /\ TokenCharge' \in [Ops -> Int]
        /\ IsFiniteSet(Ops)
    BY ChargeTypes, ChargeTypesPrimed, LedgerAssumption
  <1>1. \A q \in Ops : q # o => /\ WalletCharge'[q] = WalletCharge[q]
                                /\ TokenCharge'[q] = TokenCharge[q]
    BY ChargesLocal DEF Moves
  <1>2. WalletConserved'
    <2>1. PICK v \in Int, w \in Int : v = wallet /\ w = wallet'
      BY Accounts
    <2>2. /\ InitialWallet - v = SumFunctionOnSet(WalletCharge, Ops)
          /\ w = v - (WalletCharge'[o] - WalletCharge[o])
      BY <2>1 DEF FundsConserved, WalletConserved, Moves
    <2>3. InitialWallet - w = SumFunctionOnSet(WalletCharge', Ops)
      BY <1>0, <1>1, <2>2, Accounts, SumMoves
    <2> QED
      BY <2>1, <2>3 DEF WalletConserved
  <1>3. TokenConserved'
    <2>1. PICK v \in Int, w \in Int : v = token.remain /\ w = token'.remain
      BY Accounts
    <2>2. /\ InitialToken - v = SumFunctionOnSet(TokenCharge, Ops)
          /\ w = v - (TokenCharge'[o] - TokenCharge[o])
      BY <2>1 DEF FundsConserved, TokenConserved, Moves
    <2>3. InitialToken - w = SumFunctionOnSet(TokenCharge', Ops)
      BY <1>0, <1>1, <2>2, Accounts, SumMoves
    <2>4. token'.used = InitialToken - w
      <3>1. PICK c \in Int, d \in Int, u \in Int :
              c = TokenCharge[o] /\ d = TokenCharge'[o] /\ u = token'.used
        BY <1>0, Accounts
      <3>2. u = (InitialToken - v) + (d - c) /\ w = v - (d - c)
        BY <2>1, <2>2, <3>1 DEF FundsConserved, TokenConserved, Moves
      <3>3. u = InitialToken - w
        BY <3>2, Accounts
      <3> QED
        BY <3>1, <3>3
    <2> QED
      BY <2>1, <2>3, <2>4 DEF TokenConserved
  <1> QED
    BY <1>2, <1>3 DEF FundsConserved

LEMMA MovesUsed ==
    ASSUME IInv, IInv', userUsed = SumFunctionOnSet(Settled, Ops), NEW o \in Ops, Moves(o)
    PROVE  userUsed' = SumFunctionOnSet(Settled', Ops)
  <1>0. Settled \in [Ops -> Int] /\ Settled' \in [Ops -> Int] /\ IsFiniteSet(Ops)
    BY ChargeTypes, ChargeTypesPrimed, LedgerAssumption
  <1>1. \A q \in Ops : q # o => Settled'[q] = Settled[q]
    BY ChargesLocal DEF Moves
  <1>2. SumFunctionOnSet(Settled', Ops) = SumFunctionOnSet(Settled, Ops) + Settled'[o] - Settled[o]
    BY <1>0, <1>1, SumUpdate
  <1>3. PICK v \in Int, w \in Int, c \in Int, d \in Int :
          v = userUsed /\ w = userUsed' /\ c = Settled[o] /\ d = Settled'[o]
    BY <1>0, Accounts
  <1>4. SumFunctionOnSet(Settled', Ops) = v + d - c /\ w = v + (d - c)
    BY <1>2, <1>3 DEF Moves
  <1>5. w = v + d - c
    BY <1>4
  <1> QED
    BY <1>3, <1>4, <1>5

LEMMA MovesSubscription ==
    ASSUME IInv, IInv', SubscriptionExact, NEW o \in Ops, Moves(o), NEW s \in Subs
    PROVE  LET held == SumFunctionOnSet(SubCharge(s)', Ops)
           IN  /\ 0 <= sub'[s].used /\ sub'[s].used <= held
               /\ periods'[s] = 0 => sub'[s].used = held
  <1> DEFINE f == SubCharge(s)
  <1>0. f \in [Ops -> Nat] /\ f' \in [Ops -> Nat] /\ IsFiniteSet(Ops)
    BY ChargeTypes, ChargeTypesPrimed, LedgerAssumption
  <1>1. \A q \in Ops : q # o => f'[q] = f[q]
    BY ChargesLocal DEF Moves
  <1>2. /\ SubMoved(s, f'[o] - f[o]) /\ periods'[s] = periods[s]
        /\ 0 <= sub[s].used /\ sub[s].used <= SumFunctionOnSet(f, Ops)
        /\ periods[s] = 0 => sub[s].used = SumFunctionOnSet(f, Ops)
    BY DEF Moves, SubscriptionExact
  <1> HIDE DEF f
  <1>3. SumFunctionOnSet(f', Ops) = SumFunctionOnSet(f, Ops) + f'[o] - f[o]
    <2>1. f \in [Ops -> Int] /\ f' \in [Ops -> Int]
      BY <1>0
    <2> QED
      BY <1>0, <1>1, <2>1, SumUpdate
  <1>4. PICK h \in Nat, k \in Nat, c \in Int, d \in Int, u \in Int, w \in Int, n \in Nat :
          /\ h = SumFunctionOnSet(f, Ops) /\ k = SumFunctionOnSet(f', Ops)
          /\ c = f[o] /\ d = f'[o]
          /\ u = sub[s].used /\ w = sub'[s].used /\ n = periods[s]
    <2>1. SumFunctionOnSet(f, Ops) \in Nat /\ SumFunctionOnSet(f', Ops) \in Nat
      BY <1>0, SumNat
    <2>2. sub[s].used \in Int /\ sub'[s].used \in Int /\ periods[s] \in Nat
      BY LedgerAssumption DEF IInv, TypeOK
    <2>3. f[o] \in Int /\ f'[o] \in Int
      BY <1>0
    <2> QED
      BY <2>1, <2>2, <2>3
  <1>5. /\ k = h + d - c /\ 0 <= u /\ u <= h /\ (n = 0 => u = h)
        /\ \/ w = u + (d - c) /\ (d - c >= 0 \/ u + (d - c) >= 0)
           \/ n > 0 /\ d - c >= 0 /\ w = d - c
           \/ u + (d - c) < 0 /\ w = 0
    BY <1>2, <1>3, <1>4 DEF SubMoved
  <1>6. 0 <= w /\ w <= k /\ (n = 0 => w = k)
    BY <1>5
  <1> QED
    BY <1>2, <1>4, <1>6 DEF f

LEMMA MovesSums ==
    ASSUME IInv, IInv', Sums, NEW o \in Ops, Moves(o)
    PROVE  Sums'
  <1>1. SubscriptionExact'
    BY MovesSubscription DEF Sums, SubscriptionExact
  <1> QED
    BY <1>1, MovesQuota, MovesUsed DEF Sums

LEMMA StillSums ==
    ASSUME IInv, IInv', Sums, Still
    PROVE  Sums'
  <1>1. /\ WalletCharge' = WalletCharge /\ TokenCharge' = TokenCharge /\ Settled' = Settled
        /\ \A s \in Subs : SubCharge(s)' = SubCharge(s)
    BY DEF Still, WalletCharge, TokenCharge, Settled, SubCharge, Held
  <1>2. FundsConserved' /\ userUsed' = SumFunctionOnSet(Settled', Ops)
    BY <1>1 DEF Still, Sums, FundsConserved, WalletConserved, TokenConserved
  <1>3. ASSUME NEW s \in Subs
        PROVE  LET held == SumFunctionOnSet(SubCharge(s)', Ops)
               IN  /\ 0 <= sub'[s].used /\ sub'[s].used <= held
                   /\ periods'[s] = 0 => sub'[s].used = held
    <2>1. /\ SubCharge(s)' = SubCharge(s)
          /\ 0 <= sub[s].used /\ sub[s].used <= SumFunctionOnSet(SubCharge(s), Ops)
          /\ periods[s] = 0 => sub[s].used = SumFunctionOnSet(SubCharge(s), Ops)
      BY <1>1 DEF Sums, SubscriptionExact
    <2>2. SumFunctionOnSet(SubCharge(s), Ops) \in Nat
      BY ChargeTypes, SumNat, LedgerAssumption
    <2>3. /\ periods'[s] = 0 => periods[s] = 0
          /\ sub'[s].used = sub[s].used \/ (sub'[s].used = 0 /\ periods[s] > 0)
      BY DEF Still
    <2>4. periods[s] \in Nat
      BY LedgerAssumption DEF IInv, TypeOK
    <2> QED
      BY <2>1, <2>2, <2>3, <2>4
  <1>4. SubscriptionExact'
    BY <1>3 DEF SubscriptionExact
  <1> QED
    BY <1>2, <1>4 DEF Sums

LEMMA ReserveWalletMoves ==
    ASSUME IInv, NEW r \in Reservers, ReserveWallet(r)
    PROVE  \E o \in Ops : Moves(o)
  <1> DEFINE o == res[r].op
  <1>1. /\ res[r].pc # "idle" /\ bill[o].state = "pending"
        /\ wallet' = wallet - Quote[o] /\ ChargeToken(TokenQuota(o)) /\ Reserve(o, "wallet", 0)
        /\ UNCHANGED <<userUsed, sub, periods>>
    BY DEF ReserveWallet, CanReserve
  <1>2. o \in Ops
    BY <1>1, HandlerFacts
  <1> HIDE DEF o
  <1>3. PICK b \in Bills : /\ bill' = [bill EXCEPT ![o] = b]
                           /\ b.state = "reserved" /\ b.source = "wallet" /\ b.sub = 0
                           /\ b.quota = Quote[o] /\ b.tokenQuota = TokenQuota(o)
    BY <1>1, <1>2, ReserveFacts
  <1>4. bill'[o] = b /\ \A q \in Ops : q # o => bill'[q] = bill[q]
    BY <1>2, <1>3, BillFacts
  <1>5. /\ WalletCharge[o] = 0 /\ TokenCharge[o] = 0 /\ Settled[o] = 0
        /\ \A s \in Subs : SubCharge(s)[o] = 0
    BY <1>1, <1>2 DEF WalletCharge, TokenCharge, Settled, SubCharge, Held
  <1>6. /\ WalletCharge'[o] = Quote[o] /\ TokenCharge'[o] = TokenQuota(o) /\ Settled'[o] = 0
    BY <1>2, <1>3, <1>4 DEF WalletCharge, TokenCharge, Settled, Held
  <1>7. \A s \in Subs : SubCharge(s)'[o] = 0
    BY <1>2, <1>3, <1>4, LedgerAssumption DEF SubCharge
  <1>8. /\ Quote[o] - 0 = Quote[o] /\ TokenQuota(o) - 0 = TokenQuota(o)
        /\ TokenQuota(o) \in Int /\ userUsed = userUsed + (0 - 0)
        /\ \A s \in Subs : sub[s].used = sub[s].used + (0 - 0)
    BY <1>2, QuoteFacts, TypeFacts DEF IInv, SubRows
  <1>9. token'.remain = token.remain - TokenQuota(o) /\ token'.used = token.used + TokenQuota(o)
    BY <1>1, <1>8, TokenCharged
  <1>10. \A s \in Subs : SubMoved(s, SubCharge(s)'[o] - SubCharge(s)[o])
    BY <1>1, <1>5, <1>7, <1>8 DEF SubMoved
  <1>11. Moves(o)
    BY <1>1, <1>3, <1>4, <1>5, <1>6, <1>8, <1>9, <1>10 DEF Moves
  <1> QED
    BY <1>2, <1>11

LEMMA ReserveSubscriptionMoves ==
    ASSUME IInv, NEW r \in Reservers, ReserveSubscription(r)
    PROVE  \E o \in Ops : Moves(o)
  <1>1. PICK o \in Ops, s \in Subs, b \in Bills, c \in Records :
             /\ bill[o].state = "pending" /\ Fits(s, o) /\ PreConsume(o, s)
             /\ ChargeToken(TokenQuota(o))
             /\ bill' = [bill EXCEPT ![o] = b]
             /\ b.state = "reserved" /\ b.source = "subscription" /\ b.sub = s
             /\ b.quota = Quote[o] /\ b.tokenQuota = TokenQuota(o)
             /\ UNCHANGED <<wallet, userUsed, periods>>
    BY ReserveSubscriptionFacts
  <1>2. /\ sub'[s].used = UsedNow(s) + Quote[o]
        /\ \A t \in Subs : t # s => \/ sub'[t].used = sub[t].used
                                    \/ sub[t].due /\ sub'[t].used = 0
    BY <1>1, PreConsumeFacts
  <1>3. bill'[o] = b /\ \A q \in Ops : q # o => bill'[q] = bill[q]
    BY <1>1, BillFacts
  <1>4. /\ WalletCharge[o] = 0 /\ TokenCharge[o] = 0 /\ Settled[o] = 0
        /\ \A t \in Subs : SubCharge(t)[o] = 0
    BY <1>1 DEF WalletCharge, TokenCharge, Settled, SubCharge, Held
  <1>5. /\ WalletCharge'[o] = 0 /\ TokenCharge'[o] = TokenQuota(o) /\ Settled'[o] = 0
        /\ SubCharge(s)'[o] = Quote[o] /\ \A t \in Subs : t # s => SubCharge(t)'[o] = 0
    BY <1>1, <1>3 DEF WalletCharge, TokenCharge, Settled, SubCharge, Held
  <1>6. /\ Quote[o] \in Nat /\ TokenQuota(o) \in Int /\ wallet \in Int /\ userUsed \in Int
        /\ \A t \in Subs : sub[t].used \in Int /\ (sub[t].due => periods[t] > 0)
    BY QuoteFacts, TypeFacts DEF IInv, SubRows, DueShape
  <1>7. ASSUME NEW t \in Subs PROVE SubMoved(t, SubCharge(t)'[o] - SubCharge(t)[o])
    <2>1. CASE t = s
      <3>1. SubCharge(t)'[o] - SubCharge(t)[o] = Quote[o]
        BY <1>4, <1>5, <1>6, <2>1
      <3>2. CASE sub[s].due
        <4>1. sub'[t].used = Quote[o] /\ periods[t] > 0
          BY <1>2, <1>6, <2>1, <3>2 DEF UsedNow
        <4> QED
          BY <1>6, <3>1, <4>1 DEF SubMoved
      <3>3. CASE ~sub[s].due
        <4>1. sub'[t].used = sub[t].used + Quote[o]
          BY <1>2, <2>1, <3>3 DEF UsedNow
        <4> QED
          BY <1>6, <3>1, <4>1 DEF SubMoved
      <3> QED
        BY <3>2, <3>3
    <2>2. CASE t # s
      <3>1. SubCharge(t)'[o] - SubCharge(t)[o] = 0
        BY <1>4, <1>5, <2>2
      <3> QED
        BY <1>2, <1>6, <2>2, <3>1 DEF SubMoved
    <2> QED
      BY <2>1, <2>2
  <1>8. token'.remain = token.remain - TokenQuota(o) /\ token'.used = token.used + TokenQuota(o)
    BY <1>1, <1>6, TokenCharged
  <1>9. /\ TokenQuota(o) - 0 = TokenQuota(o) /\ wallet = wallet - (0 - 0)
        /\ userUsed = userUsed + (0 - 0)
    BY <1>6
  <1>10. Moves(o)
    BY <1>1, <1>3, <1>4, <1>5, <1>7, <1>8, <1>9 DEF Moves
  <1> QED
    BY <1>10

LEMMA ClosesMove ==
    ASSUME IInv, NEW o \in Ops, NEW b \in Bills, NEW c \in Records, NEW q \in Nat,
           NEW tq \in Nat, Closes(o, b, c, q, tq)
    PROVE  Moves(o)
  <1>0. /\ Quote[o] \in Nat /\ TokenQuota(o) \in Nat /\ wallet \in Int /\ userUsed \in Int
        /\ BillShape(o, bill[o], rec[o]) /\ q <= Quote[o] /\ tq <= TokenQuota(o)
        /\ bill \in [Ops -> Bills] /\ token.remain \in Int /\ token.used \in Int
        /\ \A t \in Subs : sub[t].used \in Int
    BY QuoteFacts, TypeFacts, BillFacts DEF IInv, Closes, SubRows
  <1>1. bill'[o] = b /\ \A p \in Ops : p # o => bill'[p] = bill[p]
    BY <1>0 DEF Closes
  <1>2. /\ bill[o].state = "reserved" /\ bill[o].quota = Quote[o]
        /\ bill[o].tokenQuota = TokenQuota(o)
        /\ b.source = bill[o].source /\ b.sub = bill[o].sub
        /\ \/ b.state = "settled" /\ b.quota = q /\ b.tokenQuota = tq
           \/ b.state = "refunded" /\ q = 0 /\ tq = 0
    BY <1>0 DEF Closes, BillShape
  <1>3. /\ WalletCharge[o] = IF bill[o].source = "wallet" THEN Quote[o] ELSE 0
        /\ TokenCharge[o] = TokenQuota(o) /\ Settled[o] = 0
        /\ \A t \in Subs : SubCharge(t)[o] = IF bill[o].sub = t THEN Quote[o] ELSE 0
    BY <1>2 DEF WalletCharge, TokenCharge, Settled, SubCharge, Held
  <1>4. /\ WalletCharge'[o] = IF bill[o].source = "wallet" THEN q ELSE 0
        /\ TokenCharge'[o] = tq /\ Settled'[o] = q
        /\ \A t \in Subs : SubCharge(t)'[o] = IF bill[o].sub = t THEN q ELSE 0
    BY <1>1, <1>2 DEF WalletCharge, TokenCharge, Settled, SubCharge, Held
  <1>5. wallet' = wallet - (WalletCharge'[o] - WalletCharge[o])
    <2>1. wallet' = wallet + IF bill[o].source = "wallet" THEN Quote[o] - q ELSE 0
      BY DEF Closes
    <2>2. wallet + (Quote[o] - q) = wallet - (q - Quote[o]) /\ wallet + 0 = wallet - (0 - 0)
      BY <1>0
    <2> QED
      BY <1>3, <1>4, <2>1, <2>2
  <1>6. /\ token'.remain = token.remain - (TokenCharge'[o] - TokenCharge[o])
        /\ token'.used = token.used + (TokenCharge'[o] - TokenCharge[o])
    <2>1. tq - TokenQuota(o) \in Int /\ ChargeToken(tq - TokenQuota(o))
      BY <1>0 DEF Closes
    <2>2. /\ token'.remain = token.remain - (tq - TokenQuota(o))
          /\ token'.used = token.used + (tq - TokenQuota(o))
      BY <2>1, TokenCharged
    <2> QED
      BY <1>3, <1>4, <2>2
  <1>7. userUsed' = userUsed + (Settled'[o] - Settled[o])
    <2>1. userUsed' = userUsed + q /\ q - 0 = q
      BY DEF Closes
    <2> QED
      BY <1>3, <1>4, <2>1
  <1>8. ASSUME NEW t \in Subs PROVE SubMoved(t, SubCharge(t)'[o] - SubCharge(t)[o])
    <2>0. \/ sub'[t].used = sub[t].used /\ (bill[o].sub # t \/ q = Quote[o])
          \/ /\ bill[o].sub = t
             /\ sub'[t].used = IF sub[t].used < Quote[o] - q
                                 THEN 0 ELSE sub[t].used - (Quote[o] - q)
      BY ClosedSubs
    <2>1. PICK u \in Int, n \in Nat : u = sub[t].used /\ n = Quote[o]
      BY <1>0
    <2>2. CASE bill[o].sub = t
      <3>1. SubCharge(t)'[o] - SubCharge(t)[o] = q - n
        BY <1>3, <1>4, <2>1, <2>2
      <3>2. \/ sub'[t].used = u /\ q = n
            \/ sub'[t].used = IF u < n - q THEN 0 ELSE u - (n - q)
        BY <2>0, <2>1, <2>2
      <3>3. \/ sub'[t].used = u + (q - n) /\ (q - n >= 0 \/ u + (q - n) >= 0)
            \/ u + (q - n) < 0 /\ sub'[t].used = 0
        <4>1. CASE sub'[t].used = u /\ q = n
          BY <4>1
        <4>2. CASE u < n - q /\ sub'[t].used = 0
          BY <4>2
        <4>3. CASE ~(u < n - q) /\ sub'[t].used = u - (n - q)
          <5>1. u - (n - q) = u + (q - n) /\ u + (q - n) >= 0
            BY <4>3
          <5> QED
            BY <4>3, <5>1
        <4> QED
          BY <3>2, <4>1, <4>2, <4>3
      <3> QED
        BY <2>1, <3>1, <3>3 DEF SubMoved
    <2>3. CASE bill[o].sub # t
      <3>1. SubCharge(t)'[o] - SubCharge(t)[o] = 0 /\ sub'[t].used = sub[t].used
        BY <1>3, <1>4, <2>0, <2>3
      <3> QED
        BY <1>0, <3>1 DEF SubMoved
    <2> QED
      BY <2>2, <2>3
  <1> QED
    BY <1>1, <1>2, <1>5, <1>6, <1>7, <1>8 DEF Moves, Closes

LEMMA NextMoves ==
    ASSUME IInv, [Next]_vars
    PROVE  (\E o \in Ops : Moves(o)) \/ Still
  <1>1. ASSUME NEW o \in Ops, SettleBilling(o) \/ RefundBilling(o) PROVE Moves(o)
    BY <1>1, SettleCloses, RefundCloses, ClosesMove
  <1>2. CASE UNCHANGED <<wallet, userUsed, token, sub, periods, bill>>
    BY <1>2 DEF Still
  <1>3. ASSUME NEW r \in Reservers,
               \/ \E o \in Ops : StartReserve(r, o)
               \/ WalletInsufficient(r) \/ SubscriptionInsufficient(r)
               \/ CheckOverflow(r) \/ ReserveEnds(r)
        PROVE  UNCHANGED <<wallet, userUsed, token, sub, periods, bill>>
    BY <1>3 DEF StartReserve, WalletInsufficient, SubscriptionInsufficient, CheckOverflow,
                ReserveEnds, money
  <1>4. ASSUME NEW o \in Ops, Succeed(o) \/ Fail(o) \/ CleanupPreConsume(o)
        PROVE  UNCHANGED <<wallet, userUsed, token, sub, periods, bill>>
    BY <1>4 DEF Succeed, Fail, CleanupPreConsume, money
  <1>5. ASSUME NEW s \in Subs,
               SubscriptionExpires(s) \/ PeriodEnds(s) \/ ResetSubscription(s)
        PROVE  Still
    BY <1>5, SubFacts DEF Still, IInv, DueShape
  <1>6. CASE DeleteToken
    BY <1>6, TypeFacts DEF DeleteToken, Still, IInv
  <1>7. UNCHANGED vars => UNCHANGED <<wallet, userUsed, token, sub, periods, bill>>
    BY DEF vars
  <1> QED
    BY <1>1, <1>2, <1>3, <1>4, <1>5, <1>6, <1>7, ReserveWalletMoves, ReserveSubscriptionMoves
       DEF Next

-----------------------------------------------------------------------------
(* Steps of the two escrows. *)

WalletStep == [WalletEscrow!Next]_(WalletEscrow!escrowVars)
TokenStep == [TokenEscrow!Next]_(TokenEscrow!escrowVars)

LEMMA EscrowBounds ==
    ASSUME NEW v \in Nat, NEW w \in Nat, NEW c \in Nat, NEW d \in Nat, w = v - (d - c)
    PROVE  /\ d = c + v - w /\ w \in 0..(v + c)
           /\ c = 0 => w \in 0..v
           /\ c = 0 /\ d = 0 => w = v
  OBVIOUS

(* What an operation takes and gives back are steps of an escrow, or of    *)
(* none when the funds were not touched.                                   *)
LEMMA MovesWallet ==
    ASSUME IInv, IInv', NEW o \in Ops, Moves(o)
    PROVE  WalletStep
  <1> DEFINE phase == [q \in Ops |-> WalletPhase(q)]
  <1>1. \A q \in Ops : q # o => /\ WalletCharge'[q] = WalletCharge[q]
                                /\ WalletPhase(q)' = WalletPhase(q)
    BY ChargesLocal DEF Moves, WalletPhase, TokenPhase
  <1>2. /\ WalletCharge' = [WalletCharge EXCEPT ![o] = WalletCharge'[o]]
        /\ phase' = [phase EXCEPT ![o] = WalletPhase(o)']
    BY <1>1 DEF WalletCharge
  <1>3. PICK v \in Nat, w \in Nat, c \in Nat, d \in Nat :
          /\ v = wallet /\ w = wallet' /\ c = WalletCharge[o] /\ d = WalletCharge'[o]
          /\ w = v - (d - c)
    <2>1. wallet \in Nat /\ wallet' \in Nat
      BY Accounts DEF IInv, NeverOverdrawn
    <2>2. WalletCharge[o] \in Nat /\ WalletCharge'[o] \in Nat
      BY ChargeTypes, ChargeTypesPrimed
    <2> QED
      BY <2>1, <2>2 DEF Moves
  <1>4. /\ d = c + v - w /\ w \in 0..(v + c) /\ (c = 0 => w \in 0..v)
        /\ (c = 0 /\ d = 0 => w = v)
    BY <1>3, EscrowBounds
  <1>5. WalletEscrow!Move(o)
    BY <1>2, <1>3, <1>4 DEF WalletEscrow!Move
  <1>6. BillShape(o, bill[o], rec[o])
    BY DEF IInv, OpShape
  <1>7. CASE bill[o].state = "pending" /\ bill'[o].source = "wallet"
    <2>1. WalletPhase(o) = "none" /\ WalletPhase(o)' = "held" /\ c = 0
      BY <1>3, <1>6, <1>7 DEF Moves, WalletPhase, TokenPhase, WalletCharge, Held, BillShape, Unbilled
    <2>2. WalletEscrow!Open(o)
      BY <1>2, <1>3, <1>4, <1>5, <2>1 DEF WalletEscrow!Open
    <2> QED
      BY <2>2 DEF WalletStep, WalletEscrow!Next
  <1>8. CASE bill[o].state = "reserved" /\ bill[o].source = "wallet"
    <2>1. WalletPhase(o) = "held" /\ WalletPhase(o)' = "closed"
      BY <1>8 DEF Moves, WalletPhase, TokenPhase
    <2>2. WalletEscrow!Close(o)
      BY <1>2, <1>3, <1>4, <1>5, <2>1 DEF WalletEscrow!Close
    <2> QED
      BY <2>2 DEF WalletStep, WalletEscrow!Next
  <1>9. CASE bill[o].source # "wallet" /\ bill'[o].source # "wallet"
    <2>1. WalletPhase(o)' = WalletPhase(o) /\ c = 0 /\ d = 0
      BY <1>3, <1>9 DEF WalletPhase, WalletCharge
    <2>2. \A q \in Ops : WalletPhase(q)' = WalletPhase(q) /\ WalletCharge'[q] = WalletCharge[q]
      BY <1>1, <1>3, <2>1
    <2>3. phase' = phase
      BY <2>2
    <2>4. WalletCharge' = WalletCharge
      BY <2>2 DEF WalletCharge
    <2>5. wallet' = wallet
      BY <1>3, <1>4, <2>1
    <2> QED
      BY <2>3, <2>4, <2>5 DEF WalletStep, WalletEscrow!escrowVars
  <1>10. bill[o].state = "pending" => bill[o].source # "wallet"
    BY <1>6 DEF BillShape, Unbilled
  <1> QED
    BY <1>7, <1>8, <1>9, <1>10 DEF Moves

LEMMA MovesToken ==
    ASSUME IInv, IInv', NEW o \in Ops, Moves(o)
    PROVE  TokenStep
  <1> DEFINE phase == [q \in Ops |-> TokenPhase(q)]
  <1>1. \A q \in Ops : q # o => /\ TokenCharge'[q] = TokenCharge[q]
                                /\ TokenPhase(q)' = TokenPhase(q)
    BY ChargesLocal DEF Moves, TokenPhase
  <1>2. /\ TokenCharge' = [TokenCharge EXCEPT ![o] = TokenCharge'[o]]
        /\ phase' = [phase EXCEPT ![o] = TokenPhase(o)']
    BY <1>1 DEF TokenCharge
  <1>3. PICK v \in Nat, w \in Nat, c \in Nat, d \in Nat :
          /\ v = token.remain /\ w = token'.remain /\ c = TokenCharge[o] /\ d = TokenCharge'[o]
          /\ w = v - (d - c)
    <2>1. token.remain \in Nat /\ token'.remain \in Nat
      BY Accounts DEF IInv, NeverOverdrawn
    <2>2. TokenCharge[o] \in Nat /\ TokenCharge'[o] \in Nat
      BY ChargeTypes, ChargeTypesPrimed
    <2> QED
      BY <2>1, <2>2 DEF Moves
  <1>4. d = c + v - w /\ w \in 0..(v + c) /\ (c = 0 => w \in 0..v)
    BY <1>3, EscrowBounds
  <1>5. TokenEscrow!Move(o)
    BY <1>2, <1>3, <1>4 DEF TokenEscrow!Move
  <1>6. CASE bill[o].state = "pending"
    <2>1. TokenPhase(o) = "none" /\ TokenPhase(o)' = "held" /\ c = 0
      BY <1>3, <1>6 DEF Moves, TokenPhase, TokenCharge, Held
    <2>2. TokenEscrow!Open(o)
      BY <1>2, <1>3, <1>4, <1>5, <2>1 DEF TokenEscrow!Open
    <2> QED
      BY <2>2 DEF TokenStep, TokenEscrow!Next
  <1>7. CASE bill[o].state = "reserved"
    <2>1. TokenPhase(o) = "held" /\ TokenPhase(o)' = "closed"
      BY <1>7 DEF Moves, TokenPhase
    <2>2. TokenEscrow!Close(o)
      BY <1>2, <1>3, <1>4, <1>5, <2>1 DEF TokenEscrow!Close
    <2> QED
      BY <2>2 DEF TokenStep, TokenEscrow!Next
  <1> QED
    BY <1>6, <1>7 DEF Moves

LEMMA StillEscrows ==
    ASSUME Still
    PROVE  WalletStep /\ TokenStep
  BY DEF Still, WalletStep, TokenStep, WalletEscrow!escrowVars, TokenEscrow!escrowVars,
         WalletCharge, TokenCharge, Held, WalletPhase, TokenPhase

LEMMA EscrowsInit == Init => WalletEscrow!Init /\ TokenEscrow!Init
  BY DEF Init, Unbilled, WalletEscrow!Init, TokenEscrow!Init, WalletCharge, TokenCharge, Held,
         WalletPhase, TokenPhase

-----------------------------------------------------------------------------
LEMMA SumsInit == Init => Sums
  <1> SUFFICES ASSUME Init PROVE Sums
    OBVIOUS
  <1>1. \A o \in Ops : bill[o].state = "pending"
    BY DEF Init, Unbilled
  <1>2. \A o \in Ops : /\ WalletCharge[o] = 0 /\ TokenCharge[o] = 0 /\ Settled[o] = 0
                       /\ \A s \in Subs : SubCharge(s)[o] = 0
    BY <1>1 DEF WalletCharge, TokenCharge, Settled, SubCharge, Held
  <1>3. /\ SumFunctionOnSet(WalletCharge, Ops) = 0 /\ SumFunctionOnSet(TokenCharge, Ops) = 0
        /\ SumFunctionOnSet(Settled, Ops) = 0
        /\ \A s \in Subs : SumFunctionOnSet(SubCharge(s), Ops) = 0
    BY <1>2, SumZero, LedgerAssumption
  <1>4. FundsConserved
    BY <1>3, LedgerAssumption DEF Init, FundsConserved, WalletConserved, TokenConserved
  <1>5. SubscriptionExact
    BY <1>3 DEF Init, SubscriptionExact
  <1> QED
    BY <1>3, <1>4, <1>5 DEF Init, Sums

LEMMA SpecSums == Spec => []Sums
  <1>1. IInv /\ Sums /\ [Next]_vars => Sums'
    <2> SUFFICES ASSUME IInv, Sums, [Next]_vars PROVE Sums'
      OBVIOUS
    <2>1. IInv'
      BY NextKeeps
    <2> QED
      BY <2>1, NextMoves, MovesSums, StillSums
  <1> QED
    BY <1>1, SumsInit, SpecKeeps, PTL DEF Spec

-----------------------------------------------------------------------------
(* The rows of the user, the token, the subscriptions and the operations   *)
(* keep their types; a partial settlement leaves no negative charge.       *)
THEOREM LedgerTypeOK == Spec => []TypeOK
  BY SpecKeeps, PTL DEF IInv

(* A subscription is charged for exactly the operations that hold its      *)
(* quota until its first reset, and never for more or less than nothing.   *)
THEOREM SubscriptionsExact == Spec => []SubscriptionExact
  BY SpecSums, PTL DEF Sums

(* Wallet and token refine the escrow: each operation takes its quota      *)
(* once and is closed once, by SettleWildFlowOperationBilling or           *)
(* RefundWildFlowOperationBilling, and quota moves in no other way.        *)
THEOREM LedgerImplementsEscrow == Spec => FundsEscrow
  <1>1. IInv /\ IInv' /\ [Next]_vars => WalletStep /\ TokenStep
    BY NextMoves, MovesWallet, MovesToken, StillEscrows
  <1> QED
    BY <1>1, SpecKeeps, EscrowsInit, PTL
       DEF Spec, FundsEscrow, WalletEscrow!Spec, TokenEscrow!Spec, WalletStep, TokenStep

(* Racing reservations never overdraw.                                     *)
THEOREM LedgerNeverOverdrawn == Spec => []NeverOverdrawn
  BY SpecKeeps, PTL DEF IInv

(* No quota is created or lost: what left the wallet and the token is what *)
(* the operations hold or have consumed, and used_quota is the sum of the  *)
(* settled charges, each at least one and at most what was quoted, however *)
(* the measured part is rounded.                                           *)
THEOREM LedgerConserved == Spec => []QuotaConserved
  <1>1. IInv /\ Sums => UsedIsSettled
    BY DEF IInv, OpShape, BillShape, Sums, UsedIsSettled
  <1>2. IInv /\ Sums => QuotaConserved
    BY <1>1 DEF Sums, FundsConserved, QuotaConserved
  <1> QED
    BY <1>2, SpecKeeps, SpecSums, PTL

(* An active strict subscription keeps the wallet of a user with           *)
(* subscription_first untouched.                                           *)
THEOREM StrictProtects == Spec => []StrictProtectsWallet
  <1>1. IInv => StrictProtectsWallet
    BY DEF IInv, StrictShape, StrictProtectsWallet, AllowWalletOverflow
  <1> QED
    BY <1>1, SpecKeeps, PTL
=============================================================================
