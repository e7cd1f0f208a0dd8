-------------------------- MODULE RelayBillingProofs --------------------------
(***************************************************************************)
(* Proofs about RelayBilling for any number of requests, prices, retries   *)
(* and any quota: reservations never overdraw, what was sent stays held    *)
(* and is not given back once carried out, durable tasks are paid, the     *)
(* wallet implements the escrow, and no quota is created or lost.          *)
(***************************************************************************)
EXTENDS RelayBilling, FiniteSums

Recs ==
    [state : {"none", "reserved", "started", "settled", "released", "gone"},
     source : {"none", "wallet", "subscription"},
     amount : Nat]

Sessions ==
    [pc : {"idle", "try", "price", "mark", "sent", "won", "insert", "settle", "token",
           "refund", "done"},
     kind : {"relay", "task", "image"},
     plan : Seq({"wallet", "subscription"}),
     want : Nat, pre : Nat, unknown : BOOLEAN, tries : 0..MaxRetries]

Ops == {"none", "submitting", "accepted", "recovery_required", "task_failed"}
Provs == {"never", "wire", "quiet", "done"}
Tasks == [quota : Int, answered : BOOLEAN]

(* What a request holds, by where its handler is: c is its reservation, s  *)
(* its session and t its task.                                             *)
HoldShape(c, s, t) ==
    /\ c.state = "none" => c = NoRecord
    /\ c.state # "none" => c.source \in {"wallet", "subscription"}
    /\ s.pc \in {"idle", "try"} => c.state = "none" /\ s.pre = 0 /\ t = NoTask
    /\ s.pc \in {"price", "mark"} /\ c.state # "none" =>
         c.amount = s.pre /\ s.pre > 0 /\ c.state \in {"reserved", "started", "released"}
    /\ s.pc \in {"sent", "won", "insert"} /\ c.state # "none" =>
         c.state = "started" /\ c.amount = s.pre /\ s.pre > 0
    /\ s.pc \in {"sent", "won"} /\ c.state = "none" => s.pre = 0
    /\ s.pc \in {"insert", "settle"} /\ c.state = "none" => s.pre = s.want
    /\ s.pc = "settle" /\ c.state # "none" =>
         c.state \in {"started", "settled"} /\ s.pre > 0
    /\ s.pc = "settle" /\ c.state = "started" => c.amount = s.pre
    /\ s.pc = "token" => s.want >= s.pre

(* What the provider may have done: v. *)
SentShape(c, s, v) ==
    /\ s.pc \in {"idle", "try"} => v = "never"
    /\ s.pc \in {"sent", "won", "insert"} => s.unknown
    /\ c.state = "reserved" => v = "never"
    /\ s.kind # "task" /\ s.pc \in {"price", "mark", "refund"} => v \in {"never", "quiet"}
    /\ s.kind # "task" /\ c.state = "released" => v \in {"never", "quiet"}

(* What the task and the operation o say of it. *)
TaskShape(c, s, o, t, v) ==
    /\ o # "none" => s.kind = "image"
    /\ s.pc = "idle" => o = "none"
    /\ s.kind = "image" => (o = "accepted" <=> t # NoTask)
    /\ o = "task_failed" => s.pc \in {"refund", "done"} /\ v \in {"never", "quiet"}
    /\ t # NoTask => s.pc \in {"settle", "token", "refund", "done"}
    /\ t # NoTask /\ t.answered =>
         s.pc # "refund" /\ c.state \notin {"reserved", "released"}
    /\ t # NoTask /\ s.kind = "image" =>
         c.amount = t.quota /\ c.state \in {"none", "settled", "gone"}

Shape(c, s, o, t, v) ==
    /\ c \in Recs /\ s \in Sessions /\ o \in Ops /\ t \in Tasks /\ v \in Provs
    /\ HoldShape(c, s, t)
    /\ SentShape(c, s, v)
    /\ TaskShape(c, s, o, t, v)

RequestShape ==
    \A r \in Requests : Shape(rec[r], sess[r], op[r], task[r], provider[r])

(* What was taken without a reservation is never negative, so that what    *)
(* the others find in the wallet and the token is really there.            *)
Funds ==
    /\ debt >= 0 /\ tdebt >= 0
    /\ ReservationsNeverOverdraw

IInv == TypeOK /\ RequestShape /\ Funds

-----------------------------------------------------------------------------
LEMMA TypeFacts ==
    ASSUME TypeOK
    PROVE  /\ rec \in [Requests -> Recs] /\ sess \in [Requests -> Sessions]
           /\ op \in [Requests -> Ops] /\ task \in [Requests -> Tasks]
           /\ provider \in [Requests -> Provs]
           /\ wallet \in Int /\ debt \in Int /\ tdebt \in Int
           /\ token \in [remain : Int, used : Int, deleted : BOOLEAN]
           /\ sub \in [used : Nat, active : BOOLEAN]
  BY DEF TypeOK, Recs, Sessions, Ops, Provs, Tasks

LEMMA InitIInv == Init => IInv
  <1> SUFFICES ASSUME Init PROVE IInv
    OBVIOUS
  <1> USE RelayAssumption DEF Init
  <1>1. NoRecord \in Recs /\ NoRecord.state = "none"
    BY DEF NoRecord, Recs
  <1>2. /\ NoSession \in Sessions /\ NoSession.pc = "idle" /\ NoSession.pre = 0
        /\ NoSession.kind = "relay"
    <2>1. << >> \in Seq({"wallet", "subscription"}) /\ 0 \in 0..MaxRetries
      OBVIOUS
    <2> QED
      BY <2>1 DEF NoSession, Sessions
  <1>3. TypeOK
    BY <1>1, <1>2 DEF TypeOK, NoTask, Recs, Sessions
  <1>4. RequestShape
    BY <1>1, <1>2
       DEF RequestShape, Shape, HoldShape, SentShape, TaskShape, Ops, Provs, Tasks, NoTask
  <1>5. Funds
    BY DEF Funds, ReservationsNeverOverdraw
  <1> QED
    BY <1>3, <1>4, <1>5 DEF IInv

(* A step of one request leaves the others alone. *)
Local(r) ==
    /\ rec' = [rec EXCEPT ![r] = rec'[r]]
    /\ sess' = [sess EXCEPT ![r] = sess'[r]]
    /\ op' = [op EXCEPT ![r] = op'[r]]
    /\ task' = [task EXCEPT ![r] = task'[r]]
    /\ provider' = [provider EXCEPT ![r] = provider'[r]]

AccountsOK ==
    /\ wallet \in Int /\ debt \in Int /\ tdebt \in Int
    /\ token \in [remain : Int, used : Int, deleted : BOOLEAN]
    /\ sub \in [used : Nat, active : BOOLEAN]
    /\ Funds

LEMMA RequestIInv ==
    ASSUME IInv, NEW r \in Requests, Local(r), AccountsOK',
           Shape(rec[r], sess[r], op[r], task[r], provider[r])'
    PROVE  IInv'
  <1>0. /\ rec \in [Requests -> Recs] /\ sess \in [Requests -> Sessions]
        /\ op \in [Requests -> Ops] /\ task \in [Requests -> Tasks]
        /\ provider \in [Requests -> Provs]
    BY TypeFacts DEF IInv
  <1>1. /\ rec'[r] \in Recs /\ sess'[r] \in Sessions /\ op'[r] \in Ops
        /\ task'[r] \in Tasks /\ provider'[r] \in Provs
    BY DEF Shape
  <1>2. /\ rec' \in [Requests -> Recs] /\ sess' \in [Requests -> Sessions]
        /\ op' \in [Requests -> Ops] /\ task' \in [Requests -> Tasks]
        /\ provider' \in [Requests -> Provs]
    BY <1>0, <1>1 DEF Local
  <1>3. TypeOK'
    BY <1>2 DEF TypeOK, AccountsOK, Recs, Sessions, Ops, Provs, Tasks
  <1>4. ASSUME NEW q \in Requests, q # r
        PROVE  /\ rec'[q] = rec[q] /\ sess'[q] = sess[q] /\ op'[q] = op[q]
               /\ task'[q] = task[q] /\ provider'[q] = provider[q]
    BY <1>0, <1>4 DEF Local
  <1>5. ASSUME NEW q \in Requests
        PROVE  Shape(rec'[q], sess'[q], op'[q], task'[q], provider'[q])
    <2>1. CASE q = r
      BY <2>1
    <2>2. CASE q # r
      <3>1. Shape(rec[q], sess[q], op[q], task[q], provider[q])
        BY DEF IInv, RequestShape
      <3> QED
        BY <1>4, <2>2, <3>1
    <2> QED
      BY <2>1, <2>2
  <1>6. RequestShape'
    BY <1>5 DEF RequestShape
  <1> QED
    BY <1>3, <1>6 DEF IInv, AccountsOK

(* A step that moves no quota. *)
LEMMA SameAccounts ==
    ASSUME IInv, UNCHANGED accounts
    PROVE  AccountsOK'
  BY TypeFacts DEF IInv, AccountsOK, accounts, Funds, ReservationsNeverOverdraw

-----------------------------------------------------------------------------
(* The escrow. *)

EscrowStep == [Escrow!Next]_(Escrow!escrowVars)

(* What every step is shown to do. *)
Keeps == IInv' /\ EscrowStep

LEMMA EscrowInit == Init => Escrow!Init
  <1> SUFFICES ASSUME Init PROVE Escrow!Init
    OBVIOUS
  <1>1. \A r \in Requests : WalletCharge(r) = 0 /\ WalletPhase(r) = "none"
    BY DEF Init, WalletCharge, Charge, WalletPhase, NoRecord
  <1> QED
    BY <1>1, RelayAssumption DEF Init, Escrow!Init

(* Nothing of the wallet changes: no quota is moved, or it is moved        *)
(* outside the reservations, or in those of a subscription.                *)
LEMMA EscrowStutters ==
    ASSUME wallet' + debt' = wallet + debt,
           \A r \in Requests : /\ WalletCharge(r)' = WalletCharge(r)
                               /\ WalletPhase(r)' = WalletPhase(r)
    PROVE  EscrowStep
  BY DEF EscrowStep, Escrow!escrowVars

LEMMA EscrowMoves ==
    ASSUME IInv, NEW r \in Requests, rec' = [rec EXCEPT ![r] = rec'[r]],
           wallet' \in Int, debt' \in Int, wallet' + debt' >= 0,
           WalletCharge(r) \in Nat,
           WalletCharge(r)' = WalletCharge(r) + (wallet + debt) - (wallet' + debt'),
           \/ /\ WalletPhase(r) = "none" /\ WalletPhase(r)' = "held"
              /\ wallet' + debt' <= wallet + debt
           \/ /\ WalletPhase(r) = "held" /\ WalletPhase(r)' = "held"
              /\ wallet' + debt' <= wallet + debt
           \/ /\ WalletPhase(r) = "held" /\ WalletPhase(r)' = "closed"
              /\ wallet' + debt' <= wallet + debt + WalletCharge(r)
    PROVE  EscrowStep
  <1> DEFINE balance == wallet + debt
             hold == [q \in Requests |-> WalletCharge(q)]
             phase == [q \in Requests |-> WalletPhase(q)]
             c == WalletCharge(r)'
             f == WalletPhase(r)'
  <1>0. /\ wallet \in Int /\ debt \in Int /\ rec \in [Requests -> Recs]
        /\ balance \in Int /\ balance' \in Int
    BY TypeFacts DEF IInv
  <1>1. balance' >= 0
    BY <1>0
  <1>2. \A q \in Requests : q # r => rec'[q] = rec[q]
    BY <1>0
  <1>3. \A q \in Requests : q # r => /\ WalletCharge(q)' = WalletCharge(q)
                                     /\ WalletPhase(q)' = WalletPhase(q)
    BY <1>2 DEF WalletCharge, Charge, WalletPhase, Open
  <1>4. hold' = [hold EXCEPT ![r] = c] /\ phase' = [phase EXCEPT ![r] = f]
    BY <1>3
  <1>5. c = hold[r] + balance - balance'
    BY <1>0
  <1>6. hold' = [hold EXCEPT ![r] = @ + balance - balance']
    BY <1>4, <1>5
  <1>7. hold[r] = WalletCharge(r) /\ phase[r] = WalletPhase(r)
    OBVIOUS
  <1>8. Escrow!Open(r) \/ Escrow!Extend(r) \/ Escrow!Close(r)
    <2>1. CASE phase[r] = "none" /\ f = "held" /\ balance' <= balance
      <3>1. balance' \in 0..balance
        <4> HIDE DEF balance, phase, hold
        <4> QED
          BY <1>0, <1>1, <2>1
      <3>2. phase' = [phase EXCEPT ![r] = "held"]
        BY <1>4, <2>1
      <3> QED
        BY <1>6, <2>1, <3>1, <3>2 DEF Escrow!Open, Escrow!Move
    <2>2. CASE phase[r] = "held" /\ f = "held" /\ balance' <= balance
      <3>1. balance' \in 0..balance
        <4> HIDE DEF balance, phase, hold
        <4> QED
          BY <1>0, <1>1, <2>2
      <3>2. phase' = phase
        BY <1>4, <2>2
      <3> QED
        BY <1>6, <2>2, <3>1, <3>2 DEF Escrow!Extend, Escrow!Move
    <2>3. CASE phase[r] = "held" /\ f = "closed" /\ balance' <= balance + hold[r]
      <3>1. balance' \in 0..(balance + hold[r])
        <4>1. hold[r] \in Nat
          BY <1>7
        <4> HIDE DEF balance, phase, hold
        <4> QED
          BY <1>0, <1>1, <2>3, <4>1
      <3>2. phase' = [phase EXCEPT ![r] = "closed"]
        BY <1>4, <2>3
      <3> QED
        BY <1>6, <2>3, <3>1, <3>2 DEF Escrow!Close, Escrow!Move
    <2> QED
      BY <1>7, <2>1, <2>2, <2>3
  <1> QED
    BY <1>8 DEF EscrowStep, Escrow!Next

(* A step that moves no quota and leaves the reservations alone. *)
LEMMA StillKeeps ==
    ASSUME IInv, NEW r \in Requests, Local(r), UNCHANGED accounts, rec' = rec,
           Shape(rec[r], sess'[r], op'[r], task'[r], provider'[r])
    PROVE  Keeps
  <1>1. IInv'
    BY SameAccounts, RequestIInv
  <1>2. EscrowStep
    BY EscrowStutters DEF accounts, WalletCharge, Charge, WalletPhase, Open
  <1> QED
    BY <1>1, <1>2 DEF Keeps

-----------------------------------------------------------------------------
(* Handlers that end. *)

LEMMA GotoFacts ==
    ASSUME TypeOK, NEW r \in Requests, NEW e \in {"refund", "done"}, Goto(r, e)
    PROVE  /\ sess' = [sess EXCEPT ![r] = sess'[r]] /\ sess'[r] \in Sessions
           /\ sess'[r].pc = e /\ sess'[r].kind = sess[r].kind
  <1> DEFINE s == [NoSession EXCEPT !.pc = e, !.kind = sess[r].kind]
  <1>1. sess \in [Requests -> Sessions]
    BY TypeFacts
  <1>2. sess[r].kind \in {"relay", "task", "image"}
    BY <1>1 DEF Sessions
  <1>3. << >> \in Seq({"wallet", "subscription"}) /\ 0 \in 0..MaxRetries
    BY RelayAssumption
  <1>4. s \in Sessions /\ s.pc = e /\ s.kind = sess[r].kind
    BY <1>2, <1>3 DEF NoSession, Sessions
  <1>5. sess' = [sess EXCEPT ![r] = s]
    BY DEF Goto
  <1> HIDE DEF s
  <1> QED
    BY <1>1, <1>4, <1>5

LEMMA OperationFacts ==
    ASSUME TypeOK, NEW r \in Requests, NEW u \in BOOLEAN, OperationFails(r, u)
    PROVE  /\ op' = [op EXCEPT ![r] = op'[r]]
           /\ \/ op'[r] = op[r] /\ op[r] # "submitting"
              \/ op[r] = "submitting" /\ op'[r] = "recovery_required"
              \/ op[r] = "submitting" /\ op'[r] = "task_failed" /\ ~u
  <1>1. op \in [Requests -> Ops]
    BY TypeFacts
  <1>2. CASE u = TRUE
    BY <1>1, <1>2 DEF OperationFails
  <1>3. CASE u = FALSE
    BY <1>1, <1>3 DEF OperationFails
  <1> QED
    BY <1>2, <1>3

LEMMA EndShape ==
    ASSUME NEW c, NEW s, NEW o, NEW t, NEW v, Shape(c, s, o, t, v),
           NEW s2 \in Sessions, s2.kind = s.kind, s2.pc \in {"refund", "done"},
           NEW o2 \in Ops, NEW v2 \in Provs,
           o = "none" => o2 = "none",
           o2 = "accepted" <=> o = "accepted",
           o2 = "task_failed" => v2 \in {"never", "quiet"},
           c.state = "reserved" => v2 = "never",
           s.kind # "task" /\ (s2.pc = "refund" \/ c.state = "released")
             => v2 \in {"never", "quiet"},
           s2.pc = "refund" => t = NoTask \/ ~t.answered
    PROVE  Shape(c, s2, o2, t, v2)
  <1> USE DEF Shape
  <1>1. HoldShape(c, s2, t)
    BY DEF HoldShape
  <1>2. SentShape(c, s2, v2)
    BY DEF SentShape
  <1>3. TaskShape(c, s2, o2, t, v2)
    BY DEF TaskShape
  <1> QED
    BY <1>1, <1>2, <1>3

LEMMA ShapeFacts ==
    ASSUME IInv, NEW r \in Requests
    PROVE  /\ Shape(rec[r], sess[r], op[r], task[r], provider[r])
           /\ rec[r] \in Recs /\ sess[r] \in Sessions /\ op[r] \in Ops
           /\ task[r] \in Tasks /\ provider[r] \in Provs
           /\ HoldShape(rec[r], sess[r], task[r])
           /\ SentShape(rec[r], sess[r], provider[r])
           /\ TaskShape(rec[r], sess[r], op[r], task[r], provider[r])
  BY DEF IInv, RequestShape, Shape

(* The handler ends with an error. *)
LEMMA FailKeeps ==
    ASSUME IInv, NEW r \in Requests,
           sess[r].pc \in {"price", "mark", "sent", "won", "insert"},
           Fail(r), UNCHANGED <<accounts, rec, task, provider>>
    PROVE  Keeps
  <1> DEFINE e == IF KeepsReservation(r) \/ sess[r].pre = 0 THEN "done" ELSE "refund"
  <1>1. /\ sess' = [sess EXCEPT ![r] = sess'[r]] /\ sess'[r] \in Sessions
        /\ sess'[r].pc = e /\ sess'[r].kind = sess[r].kind
    BY GotoFacts DEF Fail, IInv
  <1>2. sess[r].unknown \in BOOLEAN
    BY ShapeFacts DEF Sessions
  <1>3. /\ op' = [op EXCEPT ![r] = op'[r]]
        /\ \/ op'[r] = op[r] /\ op[r] # "submitting"
           \/ op[r] = "submitting" /\ op'[r] = "recovery_required"
           \/ op[r] = "submitting" /\ op'[r] = "task_failed" /\ ~sess[r].unknown
    BY <1>2, OperationFacts DEF Fail, IInv
  <1>4. e = "refund" /\ sess[r].kind # "task" => sess[r].pc \in {"price", "mark"}
    BY ShapeFacts DEF KeepsReservation, SentShape
  <1>5. sess[r].kind # "task" /\ sess[r].pc \in {"price", "mark"}
          => provider[r] \in {"never", "quiet"}
    BY ShapeFacts DEF SentShape
  <1>6. op'[r] = "task_failed" => provider[r] \in {"never", "quiet"}
    <2>1. op[r] = "submitting" => sess[r].kind = "image"
      BY ShapeFacts DEF TaskShape
    <2>2. ~sess[r].unknown => sess[r].pc \in {"price", "mark"}
      BY ShapeFacts DEF SentShape
    <2> QED
      BY <1>3, <1>5, <2>1, <2>2, ShapeFacts DEF TaskShape
  <1>7. op'[r] \in Ops /\ (op[r] = "none" => op'[r] = "none")
        /\ (op'[r] = "accepted" <=> op[r] = "accepted")
    BY <1>3, ShapeFacts DEF Ops
  <1>8. task[r] = NoTask
    BY ShapeFacts DEF TaskShape
  <1>9. rec[r].state = "reserved" => provider[r] = "never"
    BY ShapeFacts DEF SentShape
  <1>10. sess[r].kind # "task" /\ rec[r].state = "released"
           => provider[r] \in {"never", "quiet"}
    BY ShapeFacts DEF SentShape
  <1> HIDE DEF e
  <1>11. e \in {"refund", "done"}
    BY DEF e
  <1>12. Shape(rec[r], sess'[r], op'[r], task[r], provider[r])
    BY <1>1, <1>4, <1>5, <1>6, <1>7, <1>8, <1>9, <1>10, <1>11, ShapeFacts, EndShape
  <1>13. Local(r)
    BY <1>1, <1>3, TypeFacts DEF Local, IInv
  <1> QED
    BY <1>12, <1>13, StillKeeps

-----------------------------------------------------------------------------
(* Steps that move no quota. *)

LEMMA StartKeeps ==
    ASSUME IInv, NEW r \in Requests, NEW k \in Kinds[r], NEW plan \in Plans,
           NEW estimate \in Prices, Start(r, k, plan, estimate)
    PROVE  Keeps
  <1>1. k \in {"relay", "task", "image"} /\ estimate \in Nat
        /\ plan \in Seq({"wallet", "subscription"})
    BY RelayAssumption
  <1>2. sess \in [Requests -> Sessions] /\ op \in [Requests -> Ops]
    BY TypeFacts DEF IInv
  <1>3. /\ sess[r].pc = "idle" /\ UNCHANGED <<accounts, rec, task, provider>>
        /\ sess' = [sess EXCEPT ![r] = [sess[r] EXCEPT !.pc = "try", !.kind = k,
                                                       !.plan = plan, !.want = estimate]]
        /\ op' = [op EXCEPT ![r] = IF k = "image" THEN "submitting" ELSE op[r]]
    BY <1>2 DEF Start
  <1>4. /\ sess' = [sess EXCEPT ![r] = sess'[r]] /\ sess'[r] \in Sessions
        /\ sess'[r].pc = "try" /\ sess'[r].kind = k /\ sess'[r].pre = sess[r].pre
    <2> DEFINE s == [sess[r] EXCEPT !.pc = "try", !.kind = k, !.plan = plan,
                                    !.want = estimate]
    <2>1. s \in Sessions /\ s.pc = "try" /\ s.kind = k /\ s.pre = sess[r].pre
      BY <1>1, <1>2, ZenonT(60) DEF Sessions
    <2>2. sess' = [sess EXCEPT ![r] = s]
      BY <1>3
    <2> HIDE DEF s
    <2> QED
      BY <1>2, <2>1, <2>2
  <1>5. op' = [op EXCEPT ![r] = op'[r]]
        /\ op'[r] = IF k = "image" THEN "submitting" ELSE op[r]
    BY <1>2, <1>3
  <1>6. Local(r)
    BY <1>3, <1>4, <1>5, TypeFacts DEF Local, IInv
  <1>7. HoldShape(rec[r], sess'[r], task[r])
    BY <1>3, <1>4, ShapeFacts DEF HoldShape
  <1>8. SentShape(rec[r], sess'[r], provider[r])
    BY <1>3, <1>4, ShapeFacts DEF SentShape, HoldShape
  <1>9. TaskShape(rec[r], sess'[r], op'[r], task[r], provider[r])
    BY <1>3, <1>4, <1>5, ShapeFacts DEF TaskShape, HoldShape
  <1>10. op'[r] \in Ops
    BY <1>5, ShapeFacts DEF Ops
  <1>11. Shape(rec[r], sess'[r], op'[r], task[r], provider[r])
    BY <1>4, <1>7, <1>8, <1>9, <1>10, ShapeFacts DEF Shape
  <1> QED
    BY <1>3, <1>6, <1>11, StillKeeps

LEMMA InsufficientKeeps ==
    ASSUME IInv, NEW r \in Requests, SourceInsufficient(r)
    PROVE  Keeps
  <1>1. sess[r].pc = "try" /\ UNCHANGED <<accounts, rec, task, provider>>
    BY DEF SourceInsufficient
  <1>2. sess \in [Requests -> Sessions] /\ op \in [Requests -> Ops]
    BY TypeFacts DEF IInv
  <1>3. CASE Len(sess[r].plan) > 1 /\ sess' = [sess EXCEPT ![r].plan = Tail(@)] /\ UNCHANGED op
    <2>1. sess' = [sess EXCEPT ![r].plan = Tail(@)] /\ UNCHANGED op
      BY <1>3
    <2>2. Tail(sess[r].plan) \in Seq({"wallet", "subscription"})
      <3>1. sess[r].plan \in Seq({"wallet", "subscription"})
        BY <1>2 DEF Sessions
      <3> QED
        BY <1>3, <3>1
    <2>3. /\ sess' = [sess EXCEPT ![r] = sess'[r]] /\ sess'[r] \in Sessions
          /\ sess'[r].pc = "try" /\ sess'[r].kind = sess[r].kind
          /\ sess'[r].pre = sess[r].pre
      BY <1>1, <1>2, <2>1, <2>2 DEF Sessions
    <2>4. Local(r)
      BY <1>1, <2>1, <2>3, TypeFacts DEF Local, IInv
    <2>5. Shape(rec[r], sess'[r], op[r], task[r], provider[r])
      BY <1>1, <2>3, ShapeFacts DEF Shape, HoldShape, SentShape, TaskShape
    <2> QED
      BY <1>1, <2>1, <2>4, <2>5, StillKeeps
  <1>4. CASE Goto(r, "done") /\ OperationFails(r, FALSE)
    <2>1. Goto(r, "done") /\ OperationFails(r, FALSE)
      BY <1>4
    <2>2. /\ sess' = [sess EXCEPT ![r] = sess'[r]] /\ sess'[r] \in Sessions
          /\ sess'[r].pc = "done" /\ sess'[r].kind = sess[r].kind
      BY <2>1, GotoFacts DEF IInv
    <2>3. /\ op' = [op EXCEPT ![r] = op'[r]]
          /\ op'[r] = op[r] \/ (op[r] = "submitting" /\ op'[r] \in {"recovery_required", "task_failed"})
      BY <2>1, OperationFacts DEF IInv
    <2>4. provider[r] = "never" /\ rec[r].state = "none"
      BY <1>1, ShapeFacts DEF SentShape, HoldShape
    <2>5. op'[r] \in Ops /\ (op[r] = "none" => op'[r] = "none")
          /\ (op'[r] = "accepted" <=> op[r] = "accepted")
      BY <2>3, ShapeFacts DEF Ops
    <2>6. Shape(rec[r], sess'[r], op'[r], task[r], provider[r])
      BY <2>2, <2>4, <2>5, ShapeFacts, EndShape
    <2>7. Local(r)
      BY <1>1, <2>2, <2>3, TypeFacts DEF Local, IInv
    <2> QED
      BY <1>1, <2>6, <2>7, StillKeeps
  <1> QED
    BY <1>3, <1>4 DEF SourceInsufficient

(* The session of r goes on without a step of anybody else. *)
LEMMA AnswerKeeps ==
    ASSUME IInv, NEW r \in Requests,
           \/ ProviderWorks(r) \/ AnswerNoWork(r) \/ AnswerUnknown(r)
           \/ \E price \in Prices : AnswerSuccess(r, price)
    PROVE  Keeps
  <1>0. sess \in [Requests -> Sessions] /\ provider \in [Requests -> Provs]
    BY TypeFacts DEF IInv
  <1>1. CASE ProviderWorks(r)
    <2>1. /\ provider[r] = "wire" /\ UNCHANGED <<accounts, rec, sess, op, task>>
          /\ provider' = [provider EXCEPT ![r] = "done"]
      BY <1>1 DEF ProviderWorks
    <2>2. provider'[r] = "done" /\ Local(r)
      BY <1>0, <2>1, TypeFacts DEF Local, IInv
    <2>3. Shape(rec[r], sess[r], op[r], task[r], provider'[r])
      BY <2>1, <2>2, ShapeFacts DEF Shape, SentShape, TaskShape, Provs
    <2> QED
      BY <2>1, <2>2, <2>3, StillKeeps
  <1>2. ASSUME NEW price \in Prices, AnswerSuccess(r, price) PROVE Keeps
    <2>1. /\ sess[r].pc = "sent" /\ UNCHANGED <<accounts, rec, outside>>
          /\ sess' = [sess EXCEPT ![r] = [sess[r] EXCEPT !.pc = "won", !.want = price]]
      BY <1>0, <1>2 DEF AnswerSuccess
    <2>2. /\ sess' = [sess EXCEPT ![r] = sess'[r]] /\ sess'[r] \in Sessions
          /\ sess'[r].pc = "won" /\ sess'[r].kind = sess[r].kind
          /\ sess'[r].pre = sess[r].pre /\ sess'[r].unknown = sess[r].unknown
      <3> DEFINE s == [sess[r] EXCEPT !.pc = "won", !.want = price]
      <3>1. price \in Nat
        BY RelayAssumption
      <3>2. /\ s \in Sessions /\ s.pc = "won" /\ s.kind = sess[r].kind
            /\ s.pre = sess[r].pre /\ s.unknown = sess[r].unknown
        BY <1>0, <3>1 DEF Sessions
      <3>3. sess' = [sess EXCEPT ![r] = s]
        BY <2>1
      <3> HIDE DEF s
      <3> QED
        BY <1>0, <3>2, <3>3
    <2>3. Local(r)
      BY <2>1, <2>2, TypeFacts DEF Local, IInv, outside
    <2>4. HoldShape(rec[r], sess'[r], task[r])
      BY <2>1, <2>2, ShapeFacts DEF HoldShape
    <2>5. SentShape(rec[r], sess'[r], provider[r])
          /\ TaskShape(rec[r], sess'[r], op[r], task[r], provider[r])
      BY <2>1, <2>2, ShapeFacts DEF SentShape, TaskShape
    <2>6. Shape(rec[r], sess'[r], op[r], task[r], provider[r])
      BY <2>2, <2>4, <2>5, ShapeFacts DEF Shape
    <2> QED
      BY <2>1, <2>3, <2>6, StillKeeps DEF outside
  <1>3. ASSUME NEW u \in BOOLEAN, sess[r].pc = "sent", MayRetry(r), Again(r, u),
               UNCHANGED <<accounts, rec, op, task>>,
               provider' = [provider EXCEPT ![r] = provider'[r]],
               \/ provider'[r] = "quiet" /\ provider[r] = "wire"
               \/ provider'[r] = provider[r] /\ sess[r].kind = "task"
        PROVE  Keeps
    <2>1. /\ sess' = [sess EXCEPT ![r] = sess'[r]] /\ sess'[r] \in Sessions
          /\ sess'[r].pc \in {"price", "mark"} /\ sess'[r].kind = sess[r].kind
          /\ sess'[r].pre = sess[r].pre
      <3> DEFINE x == IF sess[r].kind = "relay" THEN "price" ELSE "mark"
      <3>1. sess[r].tries + 1 \in 0..MaxRetries /\ x \in {"price", "mark"}
        BY <1>0, <1>3, RelayAssumption DEF MayRetry, Sessions
      <3> DEFINE s == [sess[r] EXCEPT !.pc = x, !.tries = sess[r].tries + 1, !.unknown = u]
      <3>2. sess' = [sess EXCEPT ![r] = s]
        <4>1. CASE u = TRUE
          BY <1>0, <1>3, <4>1 DEF Again
        <4>2. CASE u = FALSE
          BY <1>0, <1>3, <4>2 DEF Again
        <4> QED
          BY <4>1, <4>2
      <3> HIDE DEF x
      <3>3. s \in Sessions /\ s.pc = x /\ s.kind = sess[r].kind /\ s.pre = sess[r].pre
        <4>1. CASE u = TRUE
          BY <1>0, <3>1, <4>1 DEF Sessions
        <4>2. CASE u = FALSE
          BY <1>0, <3>1, <4>2 DEF Sessions
        <4> QED
          BY <4>1, <4>2
      <3> HIDE DEF s
      <3> QED
        BY <1>0, <3>1, <3>2, <3>3
    <2>2. provider'[r] \in Provs
      BY <1>3, ShapeFacts DEF Provs
    <2>3. HoldShape(rec[r], sess'[r], task[r])
      BY <1>3, <2>1, ShapeFacts DEF HoldShape
    <2>4. SentShape(rec[r], sess'[r], provider'[r])
      BY <1>3, <2>1, ShapeFacts DEF SentShape
    <2>5. TaskShape(rec[r], sess'[r], op[r], task[r], provider'[r])
      BY <1>3, <2>1, ShapeFacts DEF TaskShape
    <2>6. Shape(rec[r], sess'[r], op[r], task[r], provider'[r])
      BY <2>1, <2>2, <2>3, <2>4, <2>5, ShapeFacts DEF Shape
    <2>7. Local(r)
      BY <1>3, <2>1, TypeFacts DEF Local, IInv
    <2> QED
      BY <1>3, <2>6, <2>7, StillKeeps
  <1>4. CASE AnswerNoWork(r)
    <2>1. /\ sess[r].pc = "sent" /\ provider[r] = "wire" /\ UNCHANGED <<accounts, rec, task>>
          /\ provider' = [provider EXCEPT ![r] = "quiet"]
      BY <1>4 DEF AnswerNoWork
    <2>2. provider' = [provider EXCEPT ![r] = provider'[r]] /\ provider'[r] = "quiet"
      BY <1>0, <2>1
    <2>3. CASE MayRetry(r) /\ Again(r, FALSE) /\ UNCHANGED op
      BY <1>3, <2>1, <2>2, <2>3
    <2>4. ASSUME NEW e \in {"refund", "done"}, Goto(r, e), OperationFails(r, FALSE)
          PROVE  Keeps
      <3>1. /\ sess' = [sess EXCEPT ![r] = sess'[r]] /\ sess'[r] \in Sessions
            /\ sess'[r].pc = e /\ sess'[r].kind = sess[r].kind
        BY <2>4, GotoFacts DEF IInv
      <3>2. /\ op' = [op EXCEPT ![r] = op'[r]]
            /\ op'[r] = op[r] \/ (op[r] = "submitting" /\ op'[r] \in {"recovery_required", "task_failed"})
        BY <2>4, OperationFacts DEF IInv
      <3>3. op'[r] \in Ops /\ (op[r] = "none" => op'[r] = "none")
            /\ (op'[r] = "accepted" <=> op[r] = "accepted")
        BY <3>2, ShapeFacts DEF Ops
      <3>4. rec[r].state # "reserved" /\ task[r] = NoTask
        BY <2>1, ShapeFacts DEF SentShape, TaskShape
      <3>5. Shape(rec[r], sess'[r], op'[r], task[r], provider'[r])
        BY <2>2, <3>1, <3>3, <3>4, ShapeFacts, EndShape DEF Provs
      <3>6. Local(r)
        BY <2>1, <2>2, <3>1, <3>2, TypeFacts DEF Local, IInv
      <3> QED
        BY <2>1, <3>5, <3>6, StillKeeps
    <2> QED
      BY <1>4, <2>3, <2>4 DEF AnswerNoWork
  <1>5. CASE AnswerUnknown(r)
    <2>1. sess[r].pc = "sent" /\ UNCHANGED <<accounts, rec, task, provider>>
      BY <1>5 DEF AnswerUnknown
    <2>2. provider' = [provider EXCEPT ![r] = provider'[r]] /\ provider'[r] = provider[r]
      BY <1>0, <2>1
    <2>3. CASE sess[r].kind = "task" /\ MayRetry(r) /\ Again(r, TRUE) /\ UNCHANGED op
      BY <1>3, <2>1, <2>2, <2>3
    <2>4. CASE Fail(r)
      BY <2>1, <2>4, FailKeeps
    <2> QED
      BY <1>5, <2>3, <2>4 DEF AnswerUnknown
  <1> QED
    BY <1>1, <1>2, <1>4, <1>5

LEMMA StopKeeps ==
    ASSUME IInv, NEW r \in Requests,
           \/ FailBeforeSend(r) \/ TaskCancelled(r) \/ InsertFails(r) \/ Crash(r)
           \/ OperationLeaseEnds(r)
    PROVE  Keeps
  <1>1. CASE FailBeforeSend(r) \/ TaskCancelled(r) \/ InsertFails(r)
    BY <1>1, FailKeeps DEF FailBeforeSend, TaskCancelled, InsertFails
  <1>2. CASE Crash(r)
    <2>1. Goto(r, "done") /\ UNCHANGED <<accounts, rec, outside>>
      BY <1>2 DEF Crash
    <2>2. /\ sess' = [sess EXCEPT ![r] = sess'[r]] /\ sess'[r] \in Sessions
          /\ sess'[r].pc = "done" /\ sess'[r].kind = sess[r].kind
      BY <2>1, GotoFacts DEF IInv
    <2>3. /\ rec[r].state = "reserved" => provider[r] = "never"
          /\ sess[r].kind # "task" /\ rec[r].state = "released"
               => provider[r] \in {"never", "quiet"}
          /\ op[r] = "task_failed" => provider[r] \in {"never", "quiet"}
      BY ShapeFacts DEF SentShape, TaskShape
    <2>4. Shape(rec[r], sess'[r], op[r], task[r], provider[r])
      BY <2>2, <2>3, ShapeFacts, EndShape
    <2>5. Local(r)
      BY <2>1, <2>2, TypeFacts DEF Local, IInv, outside
    <2> QED
      BY <2>1, <2>4, <2>5, StillKeeps DEF outside
  <1>3. CASE OperationLeaseEnds(r)
    <2>1. /\ op[r] = "submitting" /\ UNCHANGED <<accounts, rec, sess, task, provider>>
          /\ op' = [op EXCEPT ![r] = "recovery_required"]
      BY <1>3 DEF OperationLeaseEnds
    <2>2. op'[r] = "recovery_required" /\ Local(r)
      BY <2>1, TypeFacts DEF Local, IInv
    <2>3. Shape(rec[r], sess[r], op'[r], task[r], provider[r])
      BY <2>1, <2>2, ShapeFacts DEF Shape, TaskShape, Ops
    <2> QED
      BY <2>1, <2>2, <2>3, StillKeeps
  <1> QED
    BY <1>1, <1>2, <1>3

-----------------------------------------------------------------------------
(* Steps that move quota. *)

(* The token after quota a was taken from it or given back, with what it   *)
(* must then still hold.                                                   *)
LEMMA MoneyOK ==
    ASSUME IInv, NEW a \in Int, ChargeToken(a), a > 0 => TokenHas(a),
           UNCHANGED <<debt, tdebt>>, wallet' \in Int, wallet' + debt >= 0,
           sub' \in [used : Nat, active : BOOLEAN]
    PROVE  AccountsOK'
  <1>0. /\ wallet \in Int /\ debt \in Int /\ tdebt \in Int /\ debt >= 0 /\ tdebt >= 0
        /\ token \in [remain : Int, used : Int, deleted : BOOLEAN]
        /\ token.remain \in Int /\ token.used \in Int
        /\ Limited /\ ~token.deleted => token.remain + tdebt >= 0
    BY TypeFacts DEF IInv, Funds, ReservationsNeverOverdraw
  <1>1. CASE token.deleted
    <2>1. token' = token
      BY <1>1 DEF ChargeToken
    <2> QED
      BY <1>0, <1>1, <2>1 DEF AccountsOK, Funds, ReservationsNeverOverdraw
  <1>2. CASE ~token.deleted
    <2>1. token' = [token EXCEPT !.remain = @ - a, !.used = @ + a]
      BY <1>2 DEF ChargeToken
    <2>2. /\ token' \in [remain : Int, used : Int, deleted : BOOLEAN]
          /\ token'.remain = token.remain - a
      <3>1. token.remain - a \in Int /\ token.used + a \in Int
        BY <1>0
      <3>2. token'.remain = token.remain - a
        BY <1>0, <2>1
      <3> QED
        BY <1>0, <2>1, <3>1, <3>2
    <2>3. Limited => token'.remain + tdebt >= 0
      BY <1>0, <1>2, <2>2 DEF TokenHas
    <2> QED
      BY <1>0, <2>2, <2>3 DEF AccountsOK, Funds, ReservationsNeverOverdraw
  <1> QED
    BY <1>1, <1>2

(* Quota a was taken from a source that has it, or given back to it. *)
LEMMA ChargeOK ==
    ASSUME IInv, NEW a \in Int, NEW source \in {"wallet", "subscription"},
           FundingHas(source, a), ChargeFunding(source, a), ChargeToken(a),
           a > 0 => TokenHas(a), UNCHANGED <<debt, tdebt>>
    PROVE  AccountsOK' /\ wallet' = IF source = "wallet" THEN wallet - a ELSE wallet
  <1>0. /\ wallet \in Int /\ debt \in Int /\ debt >= 0 /\ wallet + debt >= 0
        /\ sub \in [used : Nat, active : BOOLEAN]
    BY TypeFacts DEF IInv, Funds, ReservationsNeverOverdraw
  <1>1. wallet' = IF source = "wallet" THEN wallet - a ELSE wallet
    BY DEF ChargeFunding
  <1>2. source = "wallet" => a <= 0 \/ wallet >= a
    BY DEF FundingHas
  <1>3. wallet' \in Int /\ wallet' + debt >= 0
    BY <1>0, <1>1, <1>2
  <1>4. sub' \in [used : Nat, active : BOOLEAN]
    <2>1. Adjusted(a) \in Nat
      BY <1>0 DEF Adjusted
    <2>2. CASE source = "subscription"
      <3>1. sub' = [sub EXCEPT !.used = Adjusted(a)]
        BY <2>2 DEF ChargeFunding
      <3> QED
        BY <1>0, <2>1, <3>1
    <2>3. CASE source # "subscription"
      BY <1>0, <2>3 DEF ChargeFunding
    <2> QED
      BY <2>2, <2>3
  <1> QED
    BY <1>1, <1>3, <1>4, MoneyOK

(* A step that opens, extends, marks, closes or cleans up the reservation  *)
(* of r, and moves with it the quota d by which its charge changes.        *)
LEMMA RecordKeeps ==
    ASSUME IInv, NEW r \in Requests, NEW d \in Int, Local(r), AccountsOK',
           Shape(rec[r], sess[r], op[r], task[r], provider[r])', debt' = debt,
           rec'[r].source \in {"wallet", "subscription"},
           rec[r].state # "none" => rec'[r].source = rec[r].source,
           wallet' = IF rec'[r].source = "wallet" THEN wallet - d ELSE wallet,
           Charge(r)' = Charge(r) + d,
           \/ rec[r].state = "none" /\ Open(r)' /\ d >= 0
           \/ Open(r) /\ Open(r)' /\ d >= 0
           \/ Open(r) /\ ~Open(r)'
           \/ rec[r].state # "none" /\ ~Open(r) /\ ~Open(r)' /\ d = 0
    PROVE  Keeps
  <1>1. IInv'
    BY RequestIInv
  <1>0. /\ wallet \in Int /\ debt \in Int /\ wallet' \in Int /\ debt' \in Int
        /\ rec \in [Requests -> Recs] /\ rec' \in [Requests -> Recs]
        /\ rec' = [rec EXCEPT ![r] = rec'[r]] /\ wallet' + debt' >= 0
    <2>1. rec' \in [Requests -> Recs]
      BY <1>1 DEF IInv, TypeOK, Recs
    <2> QED
      BY <2>1, TypeFacts DEF IInv, Local, AccountsOK, Funds, ReservationsNeverOverdraw
  <1>2. Charge(r) \in Nat /\ Charge(r)' \in Nat
    BY <1>0 DEF Charge, Recs
  <1>3. rec[r].state = "none" => rec[r].source = "none" /\ Charge(r) = 0
    BY ShapeFacts DEF HoldShape, NoRecord, Charge
  <1>4. ASSUME NEW q \in Requests, q # r
        PROVE  WalletCharge(q)' = WalletCharge(q) /\ WalletPhase(q)' = WalletPhase(q)
    <2>1. rec'[q] = rec[q]
      BY <1>0, <1>4
    <2> QED
      BY <2>1 DEF WalletCharge, Charge, WalletPhase, Open
  <1>5. CASE rec'[r].source = "subscription"
    <2>1. rec[r].source # "wallet"
      BY <1>3, <1>5
    <2>2. WalletCharge(r)' = WalletCharge(r) /\ WalletPhase(r)' = WalletPhase(r)
      BY <1>5, <2>1 DEF WalletCharge, WalletPhase
    <2> QED
      BY <1>0, <1>1, <1>4, <1>5, <2>2, EscrowStutters DEF Keeps
  <1>6. CASE rec'[r].source = "wallet"
    <2>1. WalletCharge(r)' = Charge(r)' /\ WalletPhase(r)' = (IF Open(r)' THEN "held" ELSE "closed")
      BY <1>6 DEF WalletCharge, WalletPhase
    <2>2. WalletCharge(r) = Charge(r)
      BY <1>3, <1>6 DEF WalletCharge
    <2>3. wallet' = wallet - d
      BY <1>6
    <2>4. WalletCharge(r)' = WalletCharge(r) + (wallet + debt) - (wallet' + debt')
      BY <1>0, <1>2, <2>1, <2>2, <2>3
    <2>5. CASE rec[r].state = "none" /\ Open(r)' /\ d >= 0
      <3>1. WalletPhase(r) = "none" /\ WalletPhase(r)' = "held"
        BY <1>3, <2>1, <2>5 DEF WalletPhase
      <3>2. wallet' + debt' <= wallet + debt
        BY <1>0, <2>3, <2>5
      <3> QED
        BY <1>0, <1>1, <1>2, <2>2, <2>4, <3>1, <3>2, EscrowMoves DEF Keeps
    <2>6. CASE Open(r) /\ Open(r)' /\ d >= 0
      <3>1. WalletPhase(r) = "held" /\ WalletPhase(r)' = "held"
        BY <1>6, <2>1, <2>6 DEF WalletPhase, Open
      <3>2. wallet' + debt' <= wallet + debt
        BY <1>0, <2>3, <2>6
      <3> QED
        BY <1>0, <1>1, <1>2, <2>2, <2>4, <3>1, <3>2, EscrowMoves DEF Keeps
    <2>7. CASE Open(r) /\ ~Open(r)'
      <3>1. WalletPhase(r) = "held" /\ WalletPhase(r)' = "closed"
        BY <1>6, <2>1, <2>7 DEF WalletPhase, Open
      <3>2. wallet' + debt' <= wallet + debt + WalletCharge(r)
        BY <1>0, <1>2, <2>2, <2>3
      <3> QED
        BY <1>0, <1>1, <1>2, <2>2, <2>4, <3>1, <3>2, EscrowMoves DEF Keeps
    <2>8. CASE rec[r].state # "none" /\ ~Open(r) /\ ~Open(r)' /\ d = 0
      <3>1. WalletPhase(r) = "closed" /\ WalletPhase(r)' = "closed"
        BY <1>6, <2>1, <2>8 DEF WalletPhase
      <3>2. wallet' + debt' = wallet + debt /\ WalletCharge(r)' = WalletCharge(r)
        BY <1>0, <1>2, <2>1, <2>2, <2>3, <2>8
      <3> QED
        BY <1>1, <1>4, <3>1, <3>2, EscrowStutters DEF Keeps
    <2> QED
      BY <2>5, <2>6, <2>7, <2>8
  <1> QED
    BY <1>5, <1>6

(* Quota taken from the wallet without a reservation. *)
LEMMA LooseKeeps ==
    ASSUME IInv, NEW r \in Requests, Local(r), rec' = rec, AccountsOK',
           Shape(rec[r], sess'[r], op'[r], task'[r], provider'[r]),
           wallet' + debt' = wallet + debt
    PROVE  Keeps
  <1>1. IInv'
    BY RequestIInv
  <1>2. EscrowStep
    BY EscrowStutters DEF WalletCharge, Charge, WalletPhase, Open
  <1> QED
    BY <1>1, <1>2 DEF Keeps

(* The session is made: it has pc "price" or "mark" and reserved a. *)
LEMMA ReadyFacts ==
    ASSUME IInv, NEW r \in Requests, NEW source \in {"wallet", "subscription"},
           NEW a \in Nat, a = Asked(r, source), SessionReady(r, source)
    PROVE  /\ sess' = [sess EXCEPT ![r] = sess'[r]] /\ sess'[r] \in Sessions
           /\ sess'[r].pc \in {"price", "mark"} /\ sess'[r].kind = sess[r].kind
           /\ sess'[r].pre = a
  <1> DEFINE x == IF sess[r].kind = "relay" THEN "price" ELSE "mark"
  <1>1. sess \in [Requests -> Sessions] /\ x \in {"price", "mark"}
    BY TypeFacts DEF IInv
  <1>2. << >> \in Seq({"wallet", "subscription"})
    OBVIOUS
  <1> DEFINE s == [sess[r] EXCEPT !.pc = x, !.pre = a, !.plan = << >>, !.want = 0]
  <1>3. sess' = [sess EXCEPT ![r] = s]
    BY <1>1 DEF SessionReady
  <1> HIDE DEF x
  <1>4. s \in Sessions /\ s.pc = x /\ s.kind = sess[r].kind /\ s.pre = a
    BY <1>1, <1>2, ZenonT(60) DEF Sessions
  <1> HIDE DEF s
  <1> QED
    BY <1>1, <1>3, <1>4

(* The reservation is claimed for a session that had none. *)
LEMMA ClaimKeeps ==
    ASSUME IInv, NEW r \in Requests, NEW source \in {"wallet", "subscription"},
           NEW a \in Nat, a > 0, a = Asked(r, source), sess[r].pc = "try",
           Claim(r, source), SessionReady(r, source), AccountsOK',
           wallet' = IF source = "wallet" THEN wallet - a ELSE wallet,
           debt' = debt, UNCHANGED outside
    PROVE  Keeps
  <1> DEFINE c == [state |-> "reserved", source |-> source, amount |-> a]
  <1>1. rec' = [rec EXCEPT ![r] = c] /\ rec \in [Requests -> Recs]
    BY TypeFacts DEF Claim, IInv
  <1>2. /\ rec'[r] = c /\ c \in Recs /\ c.state = "reserved" /\ c.source = source
        /\ c.amount = a
    BY <1>1 DEF Recs
  <1> HIDE DEF c
  <1>3. /\ sess' = [sess EXCEPT ![r] = sess'[r]] /\ sess'[r] \in Sessions
        /\ sess'[r].pc \in {"price", "mark"} /\ sess'[r].kind = sess[r].kind
        /\ sess'[r].pre = a
    BY ReadyFacts
  <1>4. /\ rec[r].state = "none" /\ task[r] = NoTask /\ provider[r] = "never"
    BY ShapeFacts DEF HoldShape, SentShape
  <1>5. HoldShape(c, sess'[r], task[r]) /\ SentShape(c, sess'[r], provider[r])
    BY <1>2, <1>3, <1>4 DEF HoldShape, SentShape
  <1>6. TaskShape(c, sess'[r], op[r], task[r], provider[r])
    BY <1>2, <1>3, <1>4, ShapeFacts DEF TaskShape
  <1>7. Shape(rec[r], sess[r], op[r], task[r], provider[r])'
    BY <1>2, <1>3, <1>5, <1>6, ShapeFacts DEF Shape, outside
  <1>8. Local(r)
    BY <1>1, <1>2, <1>3, TypeFacts DEF Local, IInv, outside
  <1>9. Charge(r) = 0 /\ Charge(r)' = a /\ Open(r)'
    BY <1>2, <1>4 DEF Charge, Open
  <1> QED
    BY <1>2, <1>4, <1>7, <1>8, <1>9, RecordKeeps

LEMMA ReserveKeeps ==
    ASSUME IInv, NEW r \in Requests, ReserveWallet(r) \/ ReserveSubscription(r)
    PROVE  Keeps
  <1>0. /\ sess[r].want \in Nat /\ wallet \in Int /\ debt \in Int /\ debt >= 0
        /\ sub \in [used : Nat, active : BOOLEAN]
        /\ wallet + debt >= 0
    BY ShapeFacts, TypeFacts DEF Sessions, IInv, Funds, ReservationsNeverOverdraw
  <1>1. CASE ReserveWallet(r)
    <2> DEFINE a == sess[r].want
    <2>1. /\ sess[r].pc = "try" /\ wallet >= a /\ TokenHas(a)
          /\ SessionReady(r, "wallet") /\ UNCHANGED <<debt, tdebt, sub, outside>>
      BY <1>1 DEF ReserveWallet
    <2>2. a = Asked(r, "wallet")
      BY DEF Asked
    <2>3. CASE a = 0
      <3>1. UNCHANGED <<wallet, token, rec>>
        BY <1>1, <2>3 DEF ReserveWallet
      <3>2. /\ sess' = [sess EXCEPT ![r] = sess'[r]] /\ sess'[r] \in Sessions
            /\ sess'[r].pc \in {"price", "mark"} /\ sess'[r].kind = sess[r].kind
            /\ sess'[r].pre = 0
        BY <1>0, <2>1, <2>2, <2>3, ReadyFacts
      <3>3. rec[r].state = "none" /\ task[r] = NoTask /\ provider[r] = "never"
        BY <2>1, ShapeFacts DEF HoldShape, SentShape
      <3>4. HoldShape(rec[r], sess'[r], task[r]) /\ SentShape(rec[r], sess'[r], provider[r])
        BY <3>2, <3>3, ShapeFacts DEF HoldShape, SentShape
      <3>5. TaskShape(rec[r], sess'[r], op[r], task[r], provider[r])
        BY <2>1, <3>2, <3>3, ShapeFacts DEF TaskShape
      <3>6. Shape(rec[r], sess'[r], op[r], task[r], provider[r])
        BY <3>2, <3>4, <3>5, ShapeFacts DEF Shape
      <3>7. Local(r)
        BY <2>1, <3>1, <3>2, TypeFacts DEF Local, IInv, outside
      <3> QED
        BY <2>1, <3>1, <3>6, <3>7, StillKeeps DEF outside, accounts
    <2>4. CASE a # 0
      <3>1. wallet' = wallet - a /\ ChargeToken(a) /\ Claim(r, "wallet")
        BY <1>1, <2>4 DEF ReserveWallet
      <3>2. FundingHas("wallet", a) /\ ChargeFunding("wallet", a)
        BY <2>1, <3>1 DEF FundingHas, ChargeFunding
      <3>3. a \in Nat /\ a > 0
        BY <1>0, <2>4
      <3> HIDE DEF a
      <3>4. AccountsOK'
        BY <2>1, <3>1, <3>2, <3>3, ChargeOK
      <3> QED
        BY <2>1, <2>2, <3>1, <3>3, <3>4, ClaimKeeps
    <2> QED
      BY <2>3, <2>4
  <1>2. CASE ReserveSubscription(r)
    <2> DEFINE a == Asked(r, "subscription")
    <2>1. /\ sess[r].pc = "try" /\ TokenHas(a) /\ sub' = [sub EXCEPT !.used = @ + a]
          /\ ChargeToken(a) /\ Claim(r, "subscription") /\ SessionReady(r, "subscription")
          /\ UNCHANGED <<wallet, debt, tdebt, outside>>
      BY <1>2 DEF ReserveSubscription
    <2>2. a \in Nat /\ a > 0
      BY <1>0 DEF Asked
    <2> HIDE DEF a
    <2>3. sub' \in [used : Nat, active : BOOLEAN]
      BY <1>0, <2>1, <2>2
    <2>4. AccountsOK'
      BY <1>0, <2>1, <2>2, <2>3, MoneyOK
    <2>5. a = Asked(r, "subscription")
      BY DEF a
    <2> QED
      BY <2>1, <2>2, <2>4, <2>5, ClaimKeeps
  <1> QED
    BY <1>1, <1>2

(* BillingSession.Reserve, before the request is sent (price, going to     *)
(* mark) or after the provider accepted the task (won, going to insert).   *)
LEMMA MoreKeeps ==
    ASSUME IInv, NEW r \in Requests, NEW target \in Nat, NEW next \in {"mark", "insert"},
           \/ sess[r].pc = "price" /\ next = "mark"
           \/ sess[r].pc = "won" /\ next = "insert" /\ target = sess[r].want,
           ReserveMore(r, target, next), UNCHANGED outside
    PROVE  Keeps
  <1> DEFINE a == target - sess[r].pre
  <1>0. /\ sess \in [Requests -> Sessions] /\ rec \in [Requests -> Recs]
        /\ wallet \in Int /\ debt \in Int /\ tdebt \in Int /\ debt >= 0 /\ tdebt >= 0
        /\ wallet + debt >= 0 /\ sess[r].pre \in Nat /\ sess[r].want \in Nat /\ a \in Int
        /\ sub \in [used : Nat, active : BOOLEAN]
        /\ rec[r].amount \in Nat
    BY ShapeFacts, TypeFacts DEF Sessions, Recs, IInv, Funds, ReservationsNeverOverdraw
  <1>1. task[r] = NoTask
    BY ShapeFacts DEF TaskShape
  <1>2. CASE a <= 0 /\ Goto(r, next) /\ UNCHANGED <<accounts, rec>>
    <2>1. sess' = [sess EXCEPT ![r] = [sess[r] EXCEPT !.pc = next]]
      BY <1>0, <1>2 DEF Goto
    <2>2. /\ sess' = [sess EXCEPT ![r] = sess'[r]] /\ sess'[r] \in Sessions
          /\ sess'[r].pc = next /\ sess'[r].kind = sess[r].kind
          /\ sess'[r].pre = sess[r].pre /\ sess'[r].unknown = sess[r].unknown
          /\ sess'[r].want = sess[r].want
      BY <1>0, <2>1 DEF Sessions
    <2>3. Local(r)
      BY <1>2, <2>2, TypeFacts DEF Local, IInv, outside
    <2>4. HoldShape(rec[r], sess'[r], task[r])
      BY <1>0, <1>2, <2>2, ShapeFacts DEF HoldShape
    <2>5. SentShape(rec[r], sess'[r], provider[r])
          /\ TaskShape(rec[r], sess'[r], op[r], task[r], provider[r])
      BY <1>1, <2>2, ShapeFacts DEF SentShape, TaskShape
    <2>6. Shape(rec[r], sess'[r], op[r], task[r], provider[r])
      BY <2>2, <2>4, <2>5, ShapeFacts DEF Shape
    <2> QED
      BY <1>2, <2>3, <2>6, StillKeeps DEF outside
  <1>3. ASSUME sess' = [sess EXCEPT ![r].pc = next, ![r].pre = target]
        PROVE  /\ sess' = [sess EXCEPT ![r] = sess'[r]] /\ sess'[r] \in Sessions
               /\ sess'[r].pc = next /\ sess'[r].kind = sess[r].kind
               /\ sess'[r].pre = target /\ sess'[r].unknown = sess[r].unknown
               /\ sess'[r].want = sess[r].want
    BY <1>0, <1>3 DEF Sessions
  <1>4. CASE /\ a > 0 /\ CanAppend(r)
             /\ FundingHas(rec[r].source, a) /\ TokenHas(a)
             /\ ChargeFunding(rec[r].source, a)
             /\ ChargeToken(a)
             /\ rec' = [rec EXCEPT ![r].amount = @ + a]
             /\ sess' = [sess EXCEPT ![r].pc = next, ![r].pre = target]
             /\ UNCHANGED <<debt, tdebt>>
    <2>1. /\ rec[r].state = "reserved" /\ sess[r].pc = "price" /\ next = "mark"
          /\ rec[r].amount = sess[r].pre /\ sess[r].pre > 0
          /\ rec[r].source \in {"wallet", "subscription"}
          /\ provider[r] = "never"
      BY <1>4, ShapeFacts DEF CanAppend, HoldShape, SentShape
    <2>2. /\ rec' = [rec EXCEPT ![r] = rec'[r]] /\ rec'[r] \in Recs
          /\ rec'[r].state = "reserved" /\ rec'[r].source = rec[r].source
          /\ rec'[r].amount = target
      <3>1. rec[r].amount + a \in Nat /\ rec[r].amount + a = target
        BY <1>0, <2>1
      <3> HIDE DEF a
      <3> QED
        BY <1>0, <1>4, <2>1, <3>1 DEF Recs
    <2>3. AccountsOK' /\ wallet' = IF rec[r].source = "wallet" THEN wallet - a ELSE wallet
      <3> HIDE DEF a
      <3> QED
        BY <1>0, <1>4, <2>1, ChargeOK
    <2>4. HoldShape(rec'[r], sess'[r], task[r])
      BY <1>0, <1>1, <1>3, <1>4, <2>1, <2>2, ShapeFacts DEF HoldShape
    <2>5. SentShape(rec'[r], sess'[r], provider[r])
          /\ TaskShape(rec'[r], sess'[r], op[r], task[r], provider[r])
      BY <1>1, <1>3, <1>4, <2>1, <2>2, ShapeFacts DEF SentShape, TaskShape
    <2>6. Shape(rec'[r], sess'[r], op[r], task[r], provider[r])
      BY <1>3, <1>4, <2>2, <2>4, <2>5, ShapeFacts DEF Shape
    <2>7. Local(r)
      BY <1>3, <1>4, <2>2, TypeFacts DEF Local, IInv, outside
    <2>8. Charge(r)' = Charge(r) + a /\ Open(r) /\ Open(r)'
      BY <1>0, <2>1, <2>2 DEF Charge, Open
    <2> HIDE DEF a
    <2> QED
      BY <1>0, <1>4, <2>1, <2>2, <2>3, <2>6, <2>7, <2>8, RecordKeeps DEF outside
  <1>5. CASE /\ a > 0 /\ rec[r].state = "none" /\ TokenHas(a)
             /\ wallet' = wallet - a /\ debt' = debt + a
             /\ ChargeToken(a)
             /\ tdebt' = tdebt + a
             /\ sess' = [sess EXCEPT ![r].pc = next, ![r].pre = target]
             /\ UNCHANGED <<sub, rec>>
    <2>1. AccountsOK'
      <3> HIDE DEF a
      <3>1. /\ token \in [remain : Int, used : Int, deleted : BOOLEAN]
            /\ token.remain \in Int /\ token.used \in Int /\ ~token.deleted
            /\ Limited => token.remain + tdebt >= 0
        BY <1>0, <1>5, TypeFacts DEF IInv, Funds, ReservationsNeverOverdraw, TokenHas
      <3>2. token' = [token EXCEPT !.remain = @ - a, !.used = @ + a]
        BY <1>5, <3>1 DEF ChargeToken
      <3>3. token.remain - a \in Int /\ token.used + a \in Int
        BY <1>0, <3>1
      <3>4. token'.remain = token.remain - a
        BY <3>1, <3>2
      <3>5. token' \in [remain : Int, used : Int, deleted : BOOLEAN]
        BY <3>1, <3>2, <3>3
      <3>6. Limited => token'.remain + tdebt' >= 0
        BY <1>0, <1>5, <3>1, <3>4
      <3>7. wallet' \in Int /\ debt' \in Int /\ tdebt' \in Int /\ debt' >= 0 /\ tdebt' >= 0
            /\ wallet' + debt' >= 0
        BY <1>0, <1>5
      <3> QED
        BY <1>0, <1>5, <3>5, <3>6, <3>7 DEF AccountsOK, Funds, ReservationsNeverOverdraw
    <2>2. HoldShape(rec[r], sess'[r], task[r])
      BY <1>0, <1>1, <1>3, <1>5, ShapeFacts DEF HoldShape
    <2>3. SentShape(rec[r], sess'[r], provider[r])
          /\ TaskShape(rec[r], sess'[r], op[r], task[r], provider[r])
      BY <1>1, <1>3, <1>5, ShapeFacts DEF SentShape, TaskShape
    <2>4. Shape(rec[r], sess'[r], op[r], task[r], provider[r])
      BY <1>3, <1>5, <2>2, <2>3, ShapeFacts DEF Shape
    <2>5. Local(r)
      BY <1>3, <1>5, TypeFacts DEF Local, IInv, outside
    <2>6. wallet' + debt' = wallet + debt
      BY <1>0, <1>5
    <2> QED
      BY <1>5, <2>1, <2>4, <2>5, <2>6, LooseKeeps DEF outside
  <1> QED
    BY <1>2, <1>4, <1>5 DEF ReserveMore

LEMMA PrepareKeeps ==
    ASSUME IInv, NEW r \in Requests,
           \/ ReserveFinalPrice(r)
           \/ \E price \in Prices : PrepareBilling(r, price)
    PROVE  Keeps
  <1>1. CASE ReserveFinalPrice(r)
    <2>1. sess[r].pc = "won" /\ sess[r].want \in Nat
      BY <1>1, ShapeFacts DEF ReserveFinalPrice, Sessions
    <2>2. CASE ReserveMore(r, sess[r].want, "insert") /\ UNCHANGED <<op, task, provider>>
      BY <2>1, <2>2, MoreKeeps DEF outside
    <2>3. CASE Fail(r) /\ UNCHANGED <<accounts, rec, task, provider>>
      BY <2>1, <2>3, FailKeeps
    <2> QED
      BY <1>1, <2>2, <2>3 DEF ReserveFinalPrice
  <1>2. ASSUME NEW price \in Prices, PrepareBilling(r, price) PROVE Keeps
    <2>1. sess[r].pc = "price" /\ price \in Nat
      BY <1>2, RelayAssumption DEF PrepareBilling
    <2>2. CASE ReserveMore(r, price, "mark") /\ UNCHANGED <<op, task, provider>>
      BY <2>1, <2>2, MoreKeeps DEF outside
    <2>3. CASE Fail(r) /\ UNCHANGED <<accounts, rec, task, provider>>
      BY <2>1, <2>3, FailKeeps
    <2> QED
      BY <1>2, <2>2, <2>3 DEF PrepareBilling
  <1> QED
    BY <1>1, <1>2

(* The marker is what separates quota that recovery may give back from     *)
(* quota it may not.                                                       *)
LEMMA MarkKeeps ==
    ASSUME IInv, NEW r \in Requests, MarkProviderStarted(r)
    PROVE  Keeps
  <1>0. /\ sess \in [Requests -> Sessions] /\ rec \in [Requests -> Recs]
        /\ provider \in [Requests -> Provs] /\ rec[r].amount \in Nat
        /\ wallet \in Int
    BY ShapeFacts, TypeFacts DEF IInv, Recs
  <1>1. sess[r].pc = "mark" /\ UNCHANGED <<accounts, task>>
    BY DEF MarkProviderStarted
  <1>2. CASE ~CanSend(r) /\ Fail(r) /\ UNCHANGED <<rec, provider>>
    BY <1>1, <1>2, FailKeeps
  <1>3. CASE /\ CanSend(r)
             /\ rec' = IF rec[r].state = "reserved"
                         THEN [rec EXCEPT ![r].state = "started"]
                         ELSE rec
             /\ sess' = [sess EXCEPT ![r] = [@ EXCEPT !.pc = "sent", !.unknown = TRUE]]
             /\ provider' = [provider EXCEPT ![r] = IF @ = "done" THEN @ ELSE "wire"]
             /\ UNCHANGED op
    <2>1. /\ sess' = [sess EXCEPT ![r] = sess'[r]] /\ sess'[r] \in Sessions
          /\ sess'[r].pc = "sent" /\ sess'[r].kind = sess[r].kind
          /\ sess'[r].pre = sess[r].pre /\ sess'[r].unknown
          /\ sess'[r].want = sess[r].want
      <3> DEFINE s == [sess[r] EXCEPT !.pc = "sent", !.unknown = TRUE]
      <3>1. /\ s \in Sessions /\ s.pc = "sent" /\ s.kind = sess[r].kind /\ s.pre = sess[r].pre
            /\ s.unknown /\ s.want = sess[r].want
        BY <1>0 DEF Sessions
      <3>2. sess' = [sess EXCEPT ![r] = s]
        BY <1>0, <1>3
      <3> HIDE DEF s
      <3> QED
        BY <1>0, <3>1, <3>2
    <2>2. /\ provider' = [provider EXCEPT ![r] = provider'[r]] /\ provider'[r] \in Provs
      BY <1>0, <1>3 DEF Provs
    <2>3. /\ rec[r].state # "none" => rec[r].amount = sess[r].pre /\ sess[r].pre > 0
          /\ rec[r].state = "none" => rec[r] = NoRecord
          /\ rec[r].state # "none" => rec[r].source \in {"wallet", "subscription"}
      BY <1>1, ShapeFacts DEF HoldShape
    <2>4. rec[r].state # "none" => rec[r].state \in {"reserved", "started"}
      BY <1>0, <1>3, <2>3 DEF CanSend
    <2>5. rec[r].state = "none" => sess[r].pre = 0
      BY <1>3 DEF CanSend
    <2>6. task[r] = NoTask /\ op[r] # "task_failed"
      BY <1>1, ShapeFacts DEF TaskShape
    <2>7. CASE rec[r].state = "reserved"
      <3>1. rec' = [rec EXCEPT ![r].state = "started"]
        BY <1>3, <2>7
      <3>2. /\ rec' = [rec EXCEPT ![r] = rec'[r]] /\ rec'[r] \in Recs
            /\ rec'[r].state = "started" /\ rec'[r].source = rec[r].source
            /\ rec'[r].amount = rec[r].amount
        BY <1>0, <3>1 DEF Recs
      <3>3. HoldShape(rec'[r], sess'[r], task[r])
        BY <2>1, <2>3, <2>6, <2>7, <3>2 DEF HoldShape
      <3>4. SentShape(rec'[r], sess'[r], provider'[r])
        BY <2>1, <2>7, <3>2 DEF SentShape
      <3>5. TaskShape(rec'[r], sess'[r], op[r], task[r], provider'[r])
        BY <1>1, <2>1, <2>6, <3>2, ShapeFacts DEF TaskShape
      <3>6. Shape(rec'[r], sess'[r], op[r], task[r], provider'[r])
        BY <2>1, <2>2, <3>2, <3>3, <3>4, <3>5, ShapeFacts DEF Shape
      <3>7. Local(r)
        BY <1>1, <1>3, <2>1, <2>2, <3>2, TypeFacts DEF Local, IInv
      <3>8. Charge(r)' = Charge(r) + 0 /\ Open(r) /\ Open(r)'
        BY <1>0, <2>7, <3>2 DEF Charge, Open
      <3>9. AccountsOK' /\ wallet' = wallet /\ debt' = debt /\ wallet - 0 = wallet
        BY <1>0, <1>1, SameAccounts DEF accounts
      <3>10. Shape(rec[r], sess[r], op[r], task[r], provider[r])'
        BY <1>1, <1>3, <3>6
      <3> QED
        BY <2>3, <2>7, <3>2, <3>7, <3>8, <3>9, <3>10, RecordKeeps
    <2>8. CASE rec[r].state # "reserved"
      <3>1. rec' = rec
        BY <1>3, <2>8
      <3>2. HoldShape(rec[r], sess'[r], task[r])
        BY <1>0, <2>1, <2>3, <2>4, <2>5, <2>6, <2>8 DEF HoldShape
      <3>3. SentShape(rec[r], sess'[r], provider'[r])
        BY <2>1, <2>4, <2>8, ShapeFacts DEF SentShape
      <3>4. TaskShape(rec[r], sess'[r], op[r], task[r], provider'[r])
        BY <1>1, <2>1, <2>6, ShapeFacts DEF TaskShape
      <3>5. Shape(rec[r], sess'[r], op[r], task[r], provider'[r])
        BY <2>1, <2>2, <3>2, <3>3, <3>4, ShapeFacts DEF Shape
      <3>6. Local(r)
        <4>1. UNCHANGED <<op, task>>
          BY <1>1, <1>3
        <4> QED
          BY <2>1, <2>2, <3>1, <4>1, TypeFacts DEF Local, IInv
      <3> QED
        BY <1>1, <1>3, <3>1, <3>5, <3>6, StillKeeps
    <2> QED
      BY <2>7, <2>8
  <1> QED
    BY <1>2, <1>3 DEF MarkProviderStarted

-----------------------------------------------------------------------------
(* Settlement. *)

(* settleBillingReservationTx brings the reservation to cost and closes    *)
(* it, or finds it closed.                                                 *)
LEMMA SettleFacts ==
    ASSUME IInv, NEW r \in Requests, NEW delta \in Int, NEW cost \in Nat,
           rec[r].state # "none", SettleRecord(r, delta), UNCHANGED <<debt, tdebt>>,
           Open(r) => rec[r].amount + delta = cost
    PROVE  /\ AccountsOK'
           /\ rec' = [rec EXCEPT ![r] = rec'[r]] /\ rec'[r] \in Recs
           /\ rec'[r].source = rec[r].source /\ rec[r].source \in {"wallet", "subscription"}
           /\ \/ rec' = rec /\ UNCHANGED accounts /\ ~Open(r)
              \/ /\ Open(r) /\ rec'[r].state = "settled" /\ rec'[r].amount = cost
                 /\ wallet' = IF rec[r].source = "wallet" THEN wallet - delta ELSE wallet
                 /\ Charge(r)' = Charge(r) + delta
  <1>0. rec \in [Requests -> Recs] /\ rec[r].source \in {"wallet", "subscription"}
        /\ rec[r].amount \in Nat
    BY TypeFacts, ShapeFacts DEF IInv, HoldShape, Recs
  <1>1. CASE ~Open(r) /\ UNCHANGED <<wallet, sub, token, rec>>
    BY <1>0, <1>1, SameAccounts DEF accounts
  <1>2. CASE /\ Open(r) /\ CanSettle(r, delta)
             /\ ChargeFunding(rec[r].source, delta)
             /\ ChargeToken(delta)
             /\ CloseRecord(r, "settled", rec[r].amount + delta)
    <2>1. FundingHas(rec[r].source, delta) /\ (delta > 0 => TokenHas(delta))
      BY <1>2 DEF CanSettle
    <2>2. AccountsOK' /\ wallet' = IF rec[r].source = "wallet" THEN wallet - delta ELSE wallet
      BY <1>0, <1>2, <2>1, ChargeOK
    <2>3. rec' = [rec EXCEPT ![r].state = "settled", ![r].amount = cost]
      BY <1>2 DEF CloseRecord
    <2>4. /\ rec' = [rec EXCEPT ![r] = rec'[r]] /\ rec'[r] \in Recs
          /\ rec'[r].source = rec[r].source /\ rec'[r].state = "settled"
          /\ rec'[r].amount = cost
      BY <1>0, <2>3 DEF Recs
    <2>5. Charge(r)' = Charge(r) + delta
      BY <1>2, <2>4 DEF Charge, Open
    <2> QED
      BY <1>0, <1>2, <2>2, <2>4, <2>5
  <1> QED
    BY <1>1, <1>2 DEF SettleRecord

LEMMA SettleKeeps ==
    ASSUME IInv, NEW r \in Requests, NEW cost \in Nat,
           sess[r].pc = "won" \/ (sess[r].pc = "settle" /\ cost = sess[r].want),
           Settle(r, cost) \/ SettleLoose(r, cost), UNCHANGED outside
    PROVE  Keeps
  <1>0. /\ sess \in [Requests -> Sessions] /\ rec \in [Requests -> Recs]
        /\ sess[r].pre \in Nat /\ rec[r].amount \in Nat /\ sess[r].want \in Nat
        /\ wallet \in Int /\ debt \in Int /\ tdebt \in Int /\ debt >= 0 /\ tdebt >= 0
        /\ wallet + debt >= 0
    BY ShapeFacts, TypeFacts DEF Sessions, Recs, IInv, Funds, ReservationsNeverOverdraw
  <1>1. /\ SettleDelta(r, cost) = cost - sess[r].pre /\ SettleDelta(r, cost) \in Int
    BY <1>0 DEF SettleDelta
  <1>2. op[r] # "task_failed"
    BY ShapeFacts DEF TaskShape
  <1>3. ASSUME Goto(r, "done"), rec' = rec
        PROVE  /\ Local(r)
               /\ Shape(rec[r], sess'[r], op'[r], task'[r], provider'[r])
    <2>1. /\ sess' = [sess EXCEPT ![r] = sess'[r]] /\ sess'[r] \in Sessions
          /\ sess'[r].pc = "done" /\ sess'[r].kind = sess[r].kind
      BY <1>3, GotoFacts DEF IInv
    <2>2. Local(r)
      BY <1>3, <2>1, TypeFacts DEF Local, IInv, outside
    <2>3. /\ rec[r].state = "reserved" => provider[r] = "never"
          /\ sess[r].kind # "task" /\ rec[r].state = "released"
               => provider[r] \in {"never", "quiet"}
      BY ShapeFacts DEF SentShape
    <2>4. Shape(rec[r], sess'[r], op[r], task[r], provider[r])
      BY <1>2, <2>1, <2>3, ShapeFacts, EndShape
    <2> QED
      BY <2>2, <2>4 DEF outside
  <1>4. CASE Settle(r, cost)
    <2>1. /\ sess[r].pre > 0 /\ rec[r].state # "none" /\ Goto(r, "done")
          /\ UNCHANGED <<debt, tdebt>>
      BY <1>4 DEF Settle
    <2>2. CASE Open(r) /\ UNCHANGED <<wallet, sub, token, rec>>
      <3>1. Local(r) /\ Shape(rec[r], sess'[r], op'[r], task'[r], provider'[r])
        BY <1>3, <2>1, <2>2
      <3> QED
        BY <2>1, <2>2, <3>1, StillKeeps DEF accounts
    <2>3. CASE SettleRecord(r, SettleDelta(r, cost))
      <3>1. Open(r) => rec[r].amount = sess[r].pre
        BY <2>1, ShapeFacts DEF HoldShape, Open
      <3>2. Open(r) => rec[r].amount + SettleDelta(r, cost) = cost
        BY <1>0, <1>1, <3>1
      <3>3. /\ AccountsOK'
            /\ rec' = [rec EXCEPT ![r] = rec'[r]] /\ rec'[r] \in Recs
            /\ rec'[r].source = rec[r].source /\ rec[r].source \in {"wallet", "subscription"}
            /\ \/ rec' = rec /\ UNCHANGED accounts /\ ~Open(r)
               \/ /\ Open(r) /\ rec'[r].state = "settled" /\ rec'[r].amount = cost
                  /\ wallet' = IF rec[r].source = "wallet"
                                 THEN wallet - SettleDelta(r, cost) ELSE wallet
                  /\ Charge(r)' = Charge(r) + SettleDelta(r, cost)
        BY <1>1, <2>1, <2>3, <3>2, SettleFacts
      <3>4. CASE rec' = rec /\ UNCHANGED accounts
        <4>1. Local(r) /\ Shape(rec[r], sess'[r], op'[r], task'[r], provider'[r])
          BY <1>3, <2>1, <3>4
        <4> QED
          BY <3>4, <4>1, StillKeeps
      <3>5. CASE /\ Open(r) /\ rec'[r].state = "settled"
                 /\ wallet' = IF rec[r].source = "wallet"
                                THEN wallet - SettleDelta(r, cost) ELSE wallet
                 /\ Charge(r)' = Charge(r) + SettleDelta(r, cost)
        <4>1. /\ sess' = [sess EXCEPT ![r] = sess'[r]] /\ sess'[r] \in Sessions
              /\ sess'[r].pc = "done" /\ sess'[r].kind = sess[r].kind
          BY <2>1, GotoFacts DEF IInv
        <4>2. Local(r)
          BY <3>3, <4>1, TypeFacts DEF Local, IInv, outside
        <4>3. HoldShape(rec'[r], sess'[r], task[r]) /\ SentShape(rec'[r], sess'[r], provider[r])
          BY <3>3, <3>5, <4>1 DEF HoldShape, SentShape
        <4>4. sess[r].kind = "image" => task[r] = NoTask
          BY <3>5, ShapeFacts DEF TaskShape, Open
        <4>5. TaskShape(rec'[r], sess'[r], op[r], task[r], provider[r])
          BY <1>2, <3>5, <4>1, <4>4, ShapeFacts DEF TaskShape
        <4>6. Shape(rec[r], sess[r], op[r], task[r], provider[r])'
          BY <3>3, <4>1, <4>3, <4>5, ShapeFacts DEF Shape, outside
        <4>7. ~Open(r)'
          BY <3>5 DEF Open
        <4> QED
          BY <1>1, <2>1, <3>3, <3>5, <4>2, <4>6, <4>7, RecordKeeps
      <3> QED
        BY <3>3, <3>4, <3>5
    <2> QED
      BY <1>4, <2>2, <2>3 DEF Settle
  <1>5. CASE SettleLoose(r, cost)
    <2> DEFINE a == SettleDelta(r, cost)
    <2>1. /\ sess[r].pre = 0 \/ rec[r].state = "none"
          /\ wallet' = wallet - a /\ debt' = debt + a /\ UNCHANGED <<token, tdebt, sub, rec>>
      BY <1>5 DEF SettleLoose
    <2>2. rec[r].state = "none"
      BY <2>1, ShapeFacts DEF HoldShape
    <2>3. /\ sess[r].pc = "won" => sess[r].pre = 0
          /\ sess[r].pc = "settle" => sess[r].pre = cost
      BY <2>2, ShapeFacts DEF HoldShape
    <2>4. a \in Int /\ a >= 0 /\ (sess[r].pc = "settle" => a = 0)
      BY <1>0, <1>1, <2>3
    <2>5. AccountsOK'
      <3> HIDE DEF a
      <3>1. wallet' \in Int /\ debt' \in Int /\ debt' >= 0 /\ wallet' + debt' >= 0
        BY <1>0, <2>1, <2>4
      <3> QED
        BY <2>1, <3>1, TypeFacts DEF IInv, AccountsOK, Funds, ReservationsNeverOverdraw
    <2>6. wallet' + debt' = wallet + debt
      <3> HIDE DEF a
      <3> QED
        BY <1>0, <2>1, <2>4
    <2>7. CASE a = 0
      <3>1. Goto(r, "done")
        BY <1>5, <2>7 DEF SettleLoose
      <3>2. Local(r) /\ Shape(rec[r], sess'[r], op'[r], task'[r], provider'[r])
        BY <1>3, <2>1, <3>1
      <3> QED
        BY <2>1, <2>5, <2>6, <3>2, LooseKeeps
    <2>8. CASE a # 0
      <3>1. sess' = [sess EXCEPT ![r].pc = "token", ![r].want = cost]
        BY <1>5, <2>8 DEF SettleLoose
      <3>2. /\ sess' = [sess EXCEPT ![r] = sess'[r]] /\ sess'[r] \in Sessions
            /\ sess'[r].pc = "token" /\ sess'[r].kind = sess[r].kind
            /\ sess'[r].pre = sess[r].pre /\ sess'[r].want = cost
        BY <1>0, <3>1 DEF Sessions
      <3>3. sess[r].pc = "won" /\ sess[r].pre = 0
        BY <2>3, <2>4, <2>8
      <3>4. HoldShape(rec[r], sess'[r], task[r]) /\ SentShape(rec[r], sess'[r], provider[r])
        BY <2>2, <3>2, <3>3, ShapeFacts DEF HoldShape, SentShape
      <3>5. TaskShape(rec[r], sess'[r], op[r], task[r], provider[r])
        BY <1>2, <3>2, <3>3, ShapeFacts DEF TaskShape
      <3>6. Shape(rec[r], sess'[r], op[r], task[r], provider[r])
        BY <3>2, <3>4, <3>5, ShapeFacts DEF Shape
      <3>7. Local(r)
        BY <2>1, <3>2, TypeFacts DEF Local, IInv, outside
      <3> QED
        BY <2>1, <2>5, <2>6, <3>6, <3>7, LooseKeeps DEF outside
    <2> QED
      BY <2>7, <2>8
  <1> QED
    BY <1>4, <1>5

LEMMA SettlesKeep ==
    ASSUME IInv, NEW r \in Requests,
           SettleTask(r) \/ \E price \in Prices : SettleRelay(r, price)
    PROVE  Keeps
  <1>1. CASE SettleTask(r)
    <2>1. sess[r].want \in Nat
      BY ShapeFacts DEF Sessions
    <2> QED
      BY <1>1, <2>1, SettleKeeps DEF SettleTask
  <1>2. ASSUME NEW price \in Prices, SettleRelay(r, price) PROVE Keeps
    BY <1>2, RelayAssumption, SettleKeeps DEF SettleRelay
  <1> QED
    BY <1>1, <1>2

(* The second half of a settlement without a reservation. *)
LEMMA LooseTokenKeeps ==
    ASSUME IInv, NEW r \in Requests, SettleLooseToken(r)
    PROVE  Keeps
  <1> DEFINE a == SettleDelta(r, sess[r].want)
  <1>1. /\ sess[r].pc = "token" /\ ChargeToken(a) /\ Goto(r, "done")
        /\ tdebt' = IF token.deleted THEN tdebt ELSE tdebt + a
        /\ UNCHANGED <<wallet, debt, sub, rec, outside>>
    BY DEF SettleLooseToken
  <1>2. a \in Int /\ a >= 0
    BY <1>1, ShapeFacts DEF SettleDelta, HoldShape, Sessions
  <1> HIDE DEF a
  <1>3. /\ tdebt \in Int /\ tdebt >= 0
        /\ token \in [remain : Int, used : Int, deleted : BOOLEAN]
        /\ token.remain \in Int /\ token.used \in Int
        /\ Limited /\ ~token.deleted => token.remain + tdebt >= 0
    BY TypeFacts DEF IInv, Funds, ReservationsNeverOverdraw
  <1>4. AccountsOK'
    <2>1. CASE token.deleted
      <3>1. token' = token /\ tdebt' = tdebt
        BY <1>1, <2>1 DEF ChargeToken
      <3> QED
        BY <1>1, <3>1, SameAccounts DEF accounts
    <2>2. CASE ~token.deleted
      <3>1. token' = [token EXCEPT !.remain = @ - a, !.used = @ + a] /\ tdebt' = tdebt + a
        BY <1>1, <2>2 DEF ChargeToken
      <3>2. token.remain - a \in Int /\ token.used + a \in Int
        BY <1>2, <1>3
      <3>3. token'.remain = token.remain - a
        BY <1>3, <3>1
      <3>4. token' \in [remain : Int, used : Int, deleted : BOOLEAN]
        BY <1>3, <3>1, <3>2
      <3>5. Limited => token'.remain + tdebt' >= 0
        BY <1>2, <1>3, <2>2, <3>1, <3>3
      <3>6. tdebt' \in Int /\ tdebt' >= 0
        BY <1>2, <1>3, <3>1
      <3> QED
        BY <1>1, <3>4, <3>5, <3>6, TypeFacts
           DEF IInv, AccountsOK, Funds, ReservationsNeverOverdraw
    <2> QED
      BY <2>1, <2>2
  <1>5. /\ sess' = [sess EXCEPT ![r] = sess'[r]] /\ sess'[r] \in Sessions
        /\ sess'[r].pc = "done" /\ sess'[r].kind = sess[r].kind
    BY <1>1, GotoFacts DEF IInv
  <1>6. Local(r)
    BY <1>1, <1>5, TypeFacts DEF Local, IInv, outside
  <1>7. /\ rec[r].state = "reserved" => provider[r] = "never"
        /\ sess[r].kind # "task" /\ rec[r].state = "released"
             => provider[r] \in {"never", "quiet"}
        /\ op[r] # "task_failed"
    BY <1>1, ShapeFacts DEF SentShape, TaskShape
  <1>8. Shape(rec[r], sess'[r], op[r], task[r], provider[r])
    BY <1>5, <1>7, ShapeFacts, EndShape
  <1> QED
    BY <1>1, <1>4, <1>6, <1>8, LooseKeeps DEF outside

-----------------------------------------------------------------------------
(* Durable tasks. *)

LEMMA InsertedFacts ==
    ASSUME IInv, NEW r \in Requests, NEW a \in BOOLEAN, TaskInserted(r, a)
    PROVE  /\ task' = [task EXCEPT ![r] = task'[r]] /\ task'[r] \in Tasks
           /\ task'[r] # NoTask /\ task'[r].quota = sess[r].want
           /\ task'[r].answered = a
  <1> DEFINE t == [quota |-> sess[r].want, answered |-> a]
  <1>1. task \in [Requests -> Tasks] /\ sess[r].want \in Nat
    BY ShapeFacts, TypeFacts DEF IInv, Sessions
  <1>2. t \in Tasks /\ t.quota = sess[r].want /\ t.answered = a
    BY <1>1 DEF Tasks
  <1>3. t # NoTask
    <2>1. NoTask.quota = -1 /\ t.quota # -1
      BY <1>1, <1>2 DEF NoTask
    <2> QED
      BY <2>1
  <1>4. task' = [task EXCEPT ![r] = t]
    BY DEF TaskInserted
  <1> HIDE DEF t
  <1> QED
    BY <1>1, <1>2, <1>3, <1>4

LEMMA InsertTaskKeeps ==
    ASSUME IInv, NEW r \in Requests, InsertTask(r)
    PROVE  Keeps
  <1>0. sess \in [Requests -> Sessions]
    BY TypeFacts DEF IInv
  <1>1. /\ sess[r].pc = "insert" /\ sess[r].kind = "task"
        /\ UNCHANGED <<accounts, rec, op, provider>>
    BY DEF InsertTask
  <1>2. rec[r].state \in {"none", "started"} /\ sess[r].unknown /\ op[r] # "task_failed"
    BY <1>1, ShapeFacts DEF HoldShape, SentShape, TaskShape
  <1>3. CASE TaskInserted(r, TRUE) /\ Goto(r, "settle")
    <2>1. /\ task' = [task EXCEPT ![r] = task'[r]] /\ task'[r] \in Tasks
          /\ task'[r] # NoTask
      BY <1>3, InsertedFacts
    <2>2. sess' = [sess EXCEPT ![r] = [sess[r] EXCEPT !.pc = "settle"]]
      BY <1>0, <1>3 DEF Goto
    <2>3. /\ sess' = [sess EXCEPT ![r] = sess'[r]] /\ sess'[r] \in Sessions
          /\ sess'[r].pc = "settle" /\ sess'[r].kind = sess[r].kind
          /\ sess'[r].pre = sess[r].pre /\ sess'[r].want = sess[r].want
      BY <1>0, <2>2 DEF Sessions
    <2>4. HoldShape(rec[r], sess'[r], task'[r])
      BY <1>1, <2>3, ShapeFacts DEF HoldShape
    <2>5. SentShape(rec[r], sess'[r], provider[r])
      BY <1>1, <2>3, ShapeFacts DEF SentShape
    <2>6. TaskShape(rec[r], sess'[r], op[r], task'[r], provider[r])
      BY <1>1, <1>2, <2>1, <2>3, ShapeFacts DEF TaskShape
    <2>7. Shape(rec[r], sess'[r], op[r], task'[r], provider[r])
      BY <2>1, <2>3, <2>4, <2>5, <2>6, ShapeFacts DEF Shape
    <2>8. Local(r)
      BY <1>1, <2>1, <2>3, TypeFacts DEF Local, IInv
    <2> QED
      BY <1>1, <2>7, <2>8, StillKeeps
  <1>4. ASSUME NEW e \in {"refund", "done"}, TaskInserted(r, FALSE), Goto(r, e)
        PROVE  Keeps
    <2>1. /\ task' = [task EXCEPT ![r] = task'[r]] /\ task'[r] \in Tasks
          /\ task'[r] # NoTask /\ task'[r].answered = FALSE
      BY <1>4, InsertedFacts
    <2>2. /\ sess' = [sess EXCEPT ![r] = sess'[r]] /\ sess'[r] \in Sessions
          /\ sess'[r].pc \in {"refund", "done"} /\ sess'[r].kind = sess[r].kind
      BY <1>4, GotoFacts DEF IInv
    <2>3. HoldShape(rec[r], sess'[r], task'[r])
      BY <2>2, ShapeFacts DEF HoldShape
    <2>4. SentShape(rec[r], sess'[r], provider[r])
      BY <1>1, <1>2, <2>2 DEF SentShape
    <2>5. TaskShape(rec[r], sess'[r], op[r], task'[r], provider[r])
      BY <1>1, <1>2, <2>1, <2>2, ShapeFacts DEF TaskShape
    <2>6. Shape(rec[r], sess'[r], op[r], task'[r], provider[r])
      BY <2>1, <2>2, <2>3, <2>4, <2>5, ShapeFacts DEF Shape
    <2>7. Local(r)
      BY <1>1, <2>1, <2>2, TypeFacts DEF Local, IInv
    <2> QED
      BY <1>1, <2>6, <2>7, StillKeeps
  <1> QED
    BY <1>3, <1>4 DEF InsertTask

(* The task, the operation and the settlement appear together. *)
LEMMA AttachKeeps ==
    ASSUME IInv, NEW r \in Requests, InsertTaskForOperation(r) \/ InsertAnswerLost(r)
    PROVE  Keeps
  <1>0. /\ sess \in [Requests -> Sessions] /\ rec \in [Requests -> Recs]
        /\ op \in [Requests -> Ops] /\ task \in [Requests -> Tasks]
        /\ sess[r].want \in Nat /\ rec[r].amount \in Nat
    BY ShapeFacts, TypeFacts DEF IInv, Sessions, Recs
  <1>1. /\ sess[r].pc = "insert" /\ sess[r].kind = "image" /\ SettleWithTask(r)
        /\ op' = [op EXCEPT ![r] = "accepted"]
        /\ \E a \in BOOLEAN : TaskInserted(r, a)
        /\ UNCHANGED <<debt, tdebt, provider>>
    BY DEF InsertTaskForOperation, InsertAnswerLost, AttachTask
  <1>2. /\ sess' = [sess EXCEPT ![r] = sess'[r]] /\ sess'[r] \in Sessions
        /\ sess'[r].kind = "image" /\ sess'[r].pc \in {"settle", "done"}
        /\ sess'[r].pc = "settle" => /\ sess'[r].pre = sess[r].pre
                                     /\ sess'[r].want = sess[r].want
    <2>1. CASE InsertTaskForOperation(r)
      <3>1. sess' = [sess EXCEPT ![r] = [sess[r] EXCEPT !.pc = "settle"]]
        BY <1>0, <2>1 DEF InsertTaskForOperation, Goto
      <3> QED
        BY <1>0, <1>1, <3>1 DEF Sessions
    <2>2. CASE InsertAnswerLost(r)
      <3>1. KeepsReservation(r)
        BY <1>1, ShapeFacts DEF KeepsReservation, SentShape
      <3>2. Goto(r, "done")
        BY <2>2, <3>1 DEF InsertAnswerLost
      <3> QED
        BY <1>1, <3>2, GotoFacts DEF IInv
    <2> QED
      BY <2>1, <2>2
  <1>3. /\ task' = [task EXCEPT ![r] = task'[r]] /\ task'[r].quota = sess[r].want
        /\ op' = [op EXCEPT ![r] = op'[r]] /\ op'[r] = "accepted"
        /\ task'[r] # NoTask /\ task'[r] \in Tasks
    BY <1>0, <1>1, InsertedFacts
  <1>4. ASSUME rec' = [rec EXCEPT ![r] = rec'[r]], rec'[r] \in Recs,
               rec'[r].state \in {"none", "settled"},
               rec'[r].state = "none" => rec'[r] = rec[r],
               rec'[r].state = "settled" => rec[r].state = "started"
                                            /\ rec'[r].source = rec[r].source,
               rec'[r].amount = sess[r].want
        PROVE  Local(r) /\ Shape(rec[r], sess[r], op[r], task[r], provider[r])'
    <2>1. HoldShape(rec'[r], sess'[r], task'[r])
      BY <1>1, <1>2, <1>4, ShapeFacts DEF HoldShape
    <2>2. SentShape(rec'[r], sess'[r], provider[r])
      BY <1>2, <1>4 DEF SentShape
    <2>3. TaskShape(rec'[r], sess'[r], op'[r], task'[r], provider[r])
      BY <1>2, <1>3, <1>4 DEF TaskShape
    <2>4. Shape(rec'[r], sess'[r], op'[r], task'[r], provider'[r])
      BY <1>0, <1>1, <1>2, <1>3, <1>4, <2>1, <2>2, <2>3, ShapeFacts DEF Shape, Ops
    <2> QED
      BY <1>1, <1>2, <1>3, <1>4, <2>4, TypeFacts DEF Local, IInv
  <1>5. CASE sess[r].want = 0 /\ rec[r].state = "none" /\ UNCHANGED <<wallet, sub, token, rec>>
    <2>1. rec[r] = NoRecord /\ NoRecord.amount = 0
      BY <1>5, ShapeFacts DEF HoldShape, NoRecord
    <2>2. /\ rec' = [rec EXCEPT ![r] = rec'[r]] /\ rec'[r] = rec[r]
          /\ rec'[r] \in Recs /\ rec'[r].state = "none" /\ rec'[r].amount = sess[r].want
      BY <1>0, <1>5, <2>1
    <2>3. Local(r) /\ Shape(rec[r], sess[r], op[r], task[r], provider[r])'
      BY <1>4, <2>2
    <2> QED
      BY <1>1, <1>5, <2>3, StillKeeps DEF accounts
  <1>6. CASE rec[r].state = "started" /\ SettleRecord(r, sess[r].want - rec[r].amount)
    <2> DEFINE d == sess[r].want - rec[r].amount
    <2>1. d \in Int /\ rec[r].amount + d = sess[r].want /\ Open(r)
      BY <1>0, <1>6 DEF Open
    <2>2. SettleRecord(r, d)
      BY <1>6
    <2> HIDE DEF d
    <2>3. /\ AccountsOK'
          /\ rec' = [rec EXCEPT ![r] = rec'[r]] /\ rec'[r] \in Recs
          /\ rec'[r].source = rec[r].source /\ rec[r].source \in {"wallet", "subscription"}
          /\ rec'[r].state = "settled" /\ rec'[r].amount = sess[r].want
          /\ wallet' = IF rec[r].source = "wallet" THEN wallet - d ELSE wallet
          /\ Charge(r)' = Charge(r) + d
      BY <1>0, <1>1, <1>6, <2>1, <2>2, SettleFacts
    <2>4. Local(r) /\ Shape(rec[r], sess[r], op[r], task[r], provider[r])'
      BY <1>4, <1>6, <2>3
    <2>5. ~Open(r)'
      BY <2>3 DEF Open
    <2> QED
      BY <1>1, <2>1, <2>3, <2>4, <2>5, RecordKeeps
  <1> QED
    BY <1>1, <1>5, <1>6 DEF SettleWithTask

-----------------------------------------------------------------------------
(* Releases. *)

LEMMA ReleaseFacts ==
    ASSUME IInv, NEW r \in Requests, Open(r), Release(r), UNCHANGED <<debt, tdebt>>
    PROVE  /\ AccountsOK' /\ rec' = [rec EXCEPT ![r] = rec'[r]] /\ rec'[r] \in Recs
           /\ rec'[r].state = "released" /\ rec'[r].amount = rec[r].amount
           /\ rec'[r].source = rec[r].source /\ rec[r].source \in {"wallet", "subscription"}
           /\ \E d \in Int :
                /\ wallet' = IF rec[r].source = "wallet" THEN wallet - d ELSE wallet
                /\ Charge(r)' = Charge(r) + d
  <1> DEFINE d == -rec[r].amount
  <1>0. /\ rec \in [Requests -> Recs] /\ rec[r].amount \in Nat
        /\ rec[r].source \in {"wallet", "subscription"}
    BY ShapeFacts, TypeFacts DEF IInv, Recs, HoldShape, Open
  <1>1. d \in Int /\ d <= 0
    BY <1>0
  <1>2. /\ ChargeFunding(rec[r].source, d) /\ ChargeToken(d)
        /\ rec' = [rec EXCEPT ![r].state = "released", ![r].amount = rec[r].amount]
    BY DEF Release, GiveBack, CloseRecord
  <1>3. /\ rec' = [rec EXCEPT ![r] = rec'[r]] /\ rec'[r] \in Recs
        /\ rec'[r].state = "released" /\ rec'[r].amount = rec[r].amount
        /\ rec'[r].source = rec[r].source
    BY <1>0, <1>2 DEF Recs
  <1>4. Charge(r)' = Charge(r) + d
    BY <1>0, <1>3 DEF Charge, Open
  <1> HIDE DEF d
  <1>5. FundingHas(rec[r].source, d) /\ ~(d > 0)
    BY <1>1 DEF FundingHas
  <1>6. AccountsOK' /\ wallet' = IF rec[r].source = "wallet" THEN wallet - d ELSE wallet
    BY <1>0, <1>1, <1>2, <1>5, ChargeOK
  <1> QED
    BY <1>0, <1>1, <1>3, <1>4, <1>6

LEMMA ReleasesKeep ==
    ASSUME IInv, NEW r \in Requests, RefundSession(r) \/ ReleaseStale(r)
    PROVE  Keeps
  <1>1. ASSUME Open(r), Release(r), UNCHANGED <<debt, tdebt, outside>>,
               sess' = [sess EXCEPT ![r] = sess'[r]],
               HoldShape(rec'[r], sess'[r], task[r]),
               SentShape(rec'[r], sess'[r], provider[r]),
               TaskShape(rec'[r], sess'[r], op[r], task[r], provider[r]),
               sess'[r] \in Sessions
        PROVE  Keeps
    <2>1. /\ AccountsOK' /\ rec' = [rec EXCEPT ![r] = rec'[r]] /\ rec'[r] \in Recs
          /\ rec'[r].state = "released"
          /\ rec'[r].source = rec[r].source /\ rec[r].source \in {"wallet", "subscription"}
      BY <1>1, ReleaseFacts
    <2>2. PICK d \in Int :
            /\ wallet' = IF rec[r].source = "wallet" THEN wallet - d ELSE wallet
            /\ Charge(r)' = Charge(r) + d
      BY <1>1, ReleaseFacts
    <2>3. Shape(rec[r], sess[r], op[r], task[r], provider[r])'
      BY <1>1, <2>1, ShapeFacts DEF Shape, outside
    <2>4. Local(r)
      BY <1>1, <2>1, TypeFacts DEF Local, IInv, outside
    <2>5. ~Open(r)'
      BY <2>1 DEF Open
    <2> QED
      BY <1>1, <2>1, <2>2, <2>3, <2>4, <2>5, RecordKeeps
  <1>2. CASE RefundSession(r)
    <2>1. sess[r].pc = "refund" /\ Goto(r, "done") /\ UNCHANGED <<debt, tdebt, outside>>
      BY <1>2 DEF RefundSession
    <2>2. /\ sess' = [sess EXCEPT ![r] = sess'[r]] /\ sess'[r] \in Sessions
          /\ sess'[r].pc = "done" /\ sess'[r].kind = sess[r].kind
      BY <2>1, GotoFacts DEF IInv
    <2>3. CASE Open(r) /\ Release(r)
      <3>1. /\ rec'[r].state = "released" /\ rec'[r].source \in {"wallet", "subscription"}
        BY <2>1, <2>3, ReleaseFacts
      <3>2. HoldShape(rec'[r], sess'[r], task[r])
        BY <2>2, <3>1 DEF HoldShape
      <3>3. SentShape(rec'[r], sess'[r], provider[r])
        BY <2>1, <2>2, <3>1, ShapeFacts DEF SentShape
      <3>4. TaskShape(rec'[r], sess'[r], op[r], task[r], provider[r])
        <4>1. sess[r].kind = "image" => task[r] = NoTask
          BY <2>3, ShapeFacts DEF TaskShape, Open
        <4> QED
          BY <2>1, <2>2, <4>1, ShapeFacts DEF TaskShape
      <3> QED
        BY <1>1, <2>1, <2>2, <2>3, <3>2, <3>3, <3>4
    <2>4. CASE ~Open(r) /\ UNCHANGED <<wallet, sub, token, rec>>
      <3>1. /\ rec[r].state = "reserved" => provider[r] = "never"
            /\ sess[r].kind # "task" /\ rec[r].state = "released"
                 => provider[r] \in {"never", "quiet"}
            /\ op[r] = "task_failed" => provider[r] \in {"never", "quiet"}
        BY ShapeFacts DEF SentShape, TaskShape
      <3>2. Shape(rec[r], sess'[r], op[r], task[r], provider[r])
        BY <2>2, <3>1, ShapeFacts, EndShape
      <3>3. Local(r)
        BY <2>1, <2>2, <2>4, TypeFacts DEF Local, IInv, outside
      <3> QED
        BY <2>1, <2>4, <3>2, <3>3, StillKeeps DEF outside, accounts
    <2> QED
      BY <1>2, <2>3, <2>4 DEF RefundSession
  <1>3. CASE ReleaseStale(r)
    <2>1. /\ rec[r].state = "reserved" /\ Release(r) /\ UNCHANGED <<debt, tdebt, sess, outside>>
      BY <1>3 DEF ReleaseStale, Recoverable
    <2>2. Open(r)
      BY <2>1 DEF Open
    <2>3. /\ sess' = [sess EXCEPT ![r] = sess'[r]] /\ sess'[r] = sess[r]
      BY <2>1, TypeFacts DEF IInv
    <2>4. /\ rec'[r].state = "released" /\ rec'[r].source \in {"wallet", "subscription"}
          /\ rec'[r].amount = rec[r].amount
      BY <2>1, <2>2, ReleaseFacts
    <2>5. HoldShape(rec'[r], sess'[r], task[r])
      BY <2>1, <2>3, <2>4, ShapeFacts DEF HoldShape
    <2>6. SentShape(rec'[r], sess'[r], provider[r])
      BY <2>1, <2>3, <2>4, ShapeFacts DEF SentShape
    <2>7. TaskShape(rec'[r], sess'[r], op[r], task[r], provider[r])
      BY <2>1, <2>3, <2>4, ShapeFacts DEF TaskShape
    <2> QED
      BY <1>1, <2>1, <2>2, <2>3, <2>5, <2>6, <2>7, ShapeFacts
  <1> QED
    BY <1>2, <1>3

LEMMA CleanupKeeps ==
    ASSUME IInv, NEW r \in Requests, CleanupRecord(r)
    PROVE  Keeps
  <1> DEFINE x == IF rec[r].state = "released" THEN 0 ELSE rec[r].amount
  <1>0. /\ rec \in [Requests -> Recs] /\ sess \in [Requests -> Sessions]
        /\ rec[r].amount \in Nat /\ wallet \in Int
    BY TypeFacts, ShapeFacts DEF IInv, Recs
  <1>1. /\ rec[r].state \in {"settled", "released"} /\ sess[r].pc = "done"
        /\ rec' = [rec EXCEPT ![r].state = "gone", ![r].amount = x]
        /\ UNCHANGED <<accounts, sess, outside>>
    BY <1>0 DEF CleanupRecord
  <1>2. x \in Nat
    BY <1>0
  <1>3. x = Charge(r)
    BY <1>1 DEF Charge
  <1>4. rec[r].state = "settled" => x = rec[r].amount
    OBVIOUS
  <1> HIDE DEF x
  <1>5. /\ rec' = [rec EXCEPT ![r] = rec'[r]] /\ rec'[r] \in Recs
        /\ rec'[r].state = "gone" /\ rec'[r].source = rec[r].source /\ rec'[r].amount = x
    BY <1>0, <1>1, <1>2 DEF Recs
  <1>6. rec[r].source \in {"wallet", "subscription"}
    BY <1>1, ShapeFacts DEF HoldShape
  <1>7. HoldShape(rec'[r], sess[r], task[r]) /\ SentShape(rec'[r], sess[r], provider[r])
    BY <1>1, <1>5, <1>6, ShapeFacts DEF HoldShape, SentShape
  <1>8. TaskShape(rec'[r], sess[r], op[r], task[r], provider[r])
    BY <1>1, <1>4, <1>5, ShapeFacts DEF TaskShape
  <1>9. Shape(rec[r], sess[r], op[r], task[r], provider[r])'
    BY <1>1, <1>5, <1>7, <1>8, ShapeFacts DEF Shape, outside
  <1>10. Local(r)
    BY <1>1, <1>5, TypeFacts DEF Local, IInv, outside
  <1>11. Charge(r)' = Charge(r) + 0 /\ ~Open(r) /\ ~Open(r)'
    BY <1>1, <1>2, <1>3, <1>5 DEF Charge, Open
  <1>12. AccountsOK' /\ wallet' = wallet /\ debt' = debt /\ wallet - 0 = wallet
    BY <1>0, <1>1, SameAccounts DEF accounts
  <1>13. /\ rec[r].state # "none" /\ rec'[r].source = rec[r].source
         /\ wallet' = IF rec'[r].source = "wallet" THEN wallet - 0 ELSE wallet
    BY <1>1, <1>5, <1>12
  <1> QED
    BY <1>6, <1>9, <1>10, <1>11, <1>12, <1>13, RecordKeeps

-----------------------------------------------------------------------------
(* Steps of nobody's request. *)
LEMMA AccountKeeps ==
    ASSUME IInv,
           \/ DeleteToken \/ ResetSubscription \/ ExpireSubscription
           \/ UNCHANGED vars
    PROVE  Keeps
  <1>0. /\ token \in [remain : Int, used : Int, deleted : BOOLEAN]
        /\ sub \in [used : Nat, active : BOOLEAN]
    BY TypeFacts DEF IInv
  <1>1. UNCHANGED <<wallet, debt, tdebt, rec, sess, op, task, provider>>
    BY DEF DeleteToken, ResetSubscription, ExpireSubscription, vars, outside
  <1>2. /\ token' \in [remain : Int, used : Int, deleted : BOOLEAN]
        /\ token' = token \/ token'.deleted
    <2>1. CASE DeleteToken
      <3>1. token' = [token EXCEPT !.deleted = TRUE]
        BY <2>1 DEF DeleteToken
      <3> QED
        BY <1>0, <3>1
    <2>2. CASE ~DeleteToken
      BY <1>0, <2>2 DEF ResetSubscription, ExpireSubscription, vars
    <2> QED
      BY <2>1, <2>2
  <1>3. sub' \in [used : Nat, active : BOOLEAN]
    <2>1. CASE ResetSubscription
      <3>1. sub' = [sub EXCEPT !.used = 0]
        BY <2>1 DEF ResetSubscription
      <3> QED
        BY <1>0, <3>1
    <2>2. CASE ExpireSubscription
      <3>1. sub' = [sub EXCEPT !.active = FALSE]
        BY <2>2 DEF ExpireSubscription
      <3> QED
        BY <1>0, <3>1
    <2>3. CASE DeleteToken \/ UNCHANGED vars
      BY <1>0, <2>3 DEF DeleteToken, vars
    <2> QED
      BY <2>1, <2>2, <2>3
  <1>4. TypeOK'
    BY <1>1, <1>2, <1>3 DEF TypeOK, IInv
  <1>5. RequestShape'
    BY <1>1 DEF RequestShape, IInv
  <1>6. Funds'
    BY <1>1, <1>2 DEF Funds, ReservationsNeverOverdraw, IInv
  <1>7. EscrowStep
    BY <1>1, EscrowStutters DEF WalletCharge, Charge, WalletPhase, Open
  <1> QED
    BY <1>4, <1>5, <1>6, <1>7 DEF IInv, Keeps

LEMMA NextKeeps == IInv /\ [Next]_vars => Keeps
  <1> SUFFICES ASSUME IInv, [Next]_vars PROVE Keeps
    OBVIOUS
  <1>1. ASSUME NEW r \in Requests, Handler(r) PROVE Keeps
    BY <1>1, ReserveKeeps, InsufficientKeeps, StopKeeps, MarkKeeps, AnswerKeeps,
       PrepareKeeps, InsertTaskKeeps, AttachKeeps, SettlesKeep, LooseTokenKeeps,
       ReleasesKeep
       DEF Handler
  <1>2. ASSUME NEW r \in Requests,
               \/ ProviderWorks(r) \/ Crash(r) \/ OperationLeaseEnds(r)
               \/ ReleaseStale(r) \/ CleanupRecord(r)
        PROVE  Keeps
    BY <1>2, AnswerKeeps, StopKeeps, ReleasesKeep, CleanupKeeps
  <1> QED
    BY <1>1, <1>2, StartKeeps, AccountKeeps DEF Next

LEMMA SpecKeeps == Spec => []IInv
  <1>1. IInv /\ [Next]_vars => IInv'
    BY NextKeeps DEF Keeps
  <1> QED
    BY <1>1, InitIInv, PTL DEF Spec

-----------------------------------------------------------------------------
(* Accounts, reservations, sessions, operations and tasks keep their       *)
(* types: subscriptions are never adjusted below zero.                     *)
THEOREM RelayTypeOK == Spec => []TypeOK
  BY SpecKeeps, PTL DEF IInv

(* However many requests reserve, add, settle and give back quota at once, *)
(* the wallet and a limited token hold what the reservations took.         *)
THEOREM NeverOverdrawn == Spec => []ReservationsNeverOverdraw
  <1>1. IInv => ReservationsNeverOverdraw
    BY DEF IInv, Funds
  <1> QED
    BY <1>1, SpecKeeps, PTL

(* The quota of a request that was sent is held, and marked as sent.       *)
THEOREM SentHeld == Spec => []SentIsHeld
  <1>1. IInv => SentIsHeld
    BY DEF IInv, RequestShape, Shape, HoldShape, SentIsHeld
  <1> QED
    BY <1>1, SpecKeeps, PTL

(* Quota of a request that was carried out is not given back.              *)
THEOREM AcceptedNotRefunded == Spec => []AcceptedIsNotRefunded
  <1>1. IInv => AcceptedIsNotRefunded
    BY DEF IInv, RequestShape, Shape, SentShape, AcceptedIsNotRefunded
  <1> QED
    BY <1>1, SpecKeeps, PTL

(* A task that its handler knows to be durable keeps its quota; an image   *)
(* task has paid its price, also when the answer to its insertion is lost. *)
THEOREM DurablePaid == Spec => []DurableIsPaid
  <1>1. ASSUME IInv, NEW r \in Requests
        PROVE  /\ task[r].answered => rec[r].state # "released"
               /\ task[r] # NoTask /\ sess[r].kind = "image" =>
                    Charge(r) = task[r].quota /\ rec[r].state \in {"none", "settled", "gone"}
    <2>1. NoTask.answered = FALSE
      BY DEF NoTask
    <2>2. task[r].answered => rec[r].state # "released"
      BY <1>1, <2>1, ShapeFacts DEF TaskShape
    <2>3. task[r] # NoTask /\ sess[r].kind = "image" =>
            Charge(r) = task[r].quota /\ rec[r].state \in {"none", "settled", "gone"}
      BY <1>1, ShapeFacts DEF TaskShape, HoldShape, Charge, NoRecord
    <2> QED
      BY <2>2, <2>3
  <1> QED
    <2>1. IInv => DurableIsPaid
      BY <1>1 DEF DurableIsPaid
    <2> QED
      BY <2>1, SpecKeeps, PTL

(* An image operation is accepted exactly when it has a task, and failed   *)
(* only when the provider did nothing.                                     *)
THEOREM OperationTruth == Spec => []OperationTellsTheTruth
  <1>1. IInv => OperationTellsTheTruth
    BY DEF IInv, RequestShape, Shape, TaskShape, OperationTellsTheTruth
  <1> QED
    BY <1>1, SpecKeeps, PTL

(* The reservations of the wallet implement the escrow.                    *)
THEOREM ImplementsEscrow == Spec => EscrowSpec
  <1>1. IInv /\ [Next]_vars => [Escrow!Next]_(Escrow!escrowVars)
    BY NextKeeps DEF Keeps, EscrowStep
  <1> QED
    BY <1>1, SpecKeeps, EscrowInit, PTL DEF Spec, EscrowSpec, Escrow!Spec

-----------------------------------------------------------------------------
(* Conservation.  The wallet inherits it from the escrow, whose steps move *)
(* quota between the balance and one request; for the token, every step is *)
(* shown to move as much as the charge of its request changes.             *)

HoldOf == [r \in Requests |-> WalletCharge(r)]
ChargeOf == [r \in Requests |-> Charge(r)]

LEMMA HoldsType ==
    ASSUME IInv
    PROVE  HoldOf \in [Requests -> Int] /\ ChargeOf \in [Requests -> Int]
  <1>1. rec \in [Requests -> Recs]
    BY TypeFacts DEF IInv
  <1>2. \A r \in Requests : Charge(r) \in Int /\ WalletCharge(r) \in Int
    BY <1>1 DEF Charge, WalletCharge, Recs
  <1> QED
    BY <1>2 DEF HoldOf, ChargeOf

LEMMA HoldsTypePrimed ==
    ASSUME IInv'
    PROVE  HoldOf' \in [Requests -> Int] /\ ChargeOf' \in [Requests -> Int]
  <1>1. rec' \in [Requests -> Recs]
    BY DEF IInv, TypeOK, Recs
  <1>2. \A r \in Requests : Charge(r)' \in Int /\ WalletCharge(r)' \in Int
    BY <1>1 DEF Charge, WalletCharge, Recs
  <1> QED
    BY <1>2 DEF HoldOf, ChargeOf

LEMMA WalletStep ==
    ASSUME IInv, IInv', EscrowStep, WalletConserved
    PROVE  WalletConserved'
  <1> DEFINE balance == wallet + debt
  <1>0. /\ wallet \in Int /\ debt \in Int /\ wallet' \in Int /\ debt' \in Int
        /\ InitialWallet \in Int
    BY RelayAssumption DEF IInv, TypeOK
  <1>f. HoldOf \in [Requests -> Int] /\ HoldOf' \in [Requests -> Int]
    BY HoldsType, HoldsTypePrimed
  <1>1. InitialWallet - wallet = SumFunctionOnSet(HoldOf, Requests) + debt
    BY DEF WalletConserved, HoldOf
  <1>2. SumFunctionOnSet(HoldOf, Requests) \in Int
    BY <1>f, SumType, RelayAssumption
  <1>3. CASE HoldOf' = HoldOf /\ balance' = balance
    <2>1. InitialWallet - wallet' = SumFunctionOnSet(HoldOf, Requests) + debt'
      <3> DEFINE S == SumFunctionOnSet(HoldOf, Requests)
      <3>1. InitialWallet - wallet = S + debt /\ S \in Int
        BY <1>1, <1>2
      <3>2. wallet' + debt' = wallet + debt
        BY <1>3
      <3> HIDE DEF S
      <3>3. PICK w \in Int, d \in Int : w = wallet' /\ d = debt'
        BY <1>0
      <3>4. w + d = wallet + debt
        BY <3>2, <3>3
      <3>5. InitialWallet - w = S + d
        BY <1>0, <3>1, <3>4
      <3> QED
        BY <3>3, <3>5 DEF S
    <2> QED
      BY <1>3, <2>1 DEF WalletConserved, HoldOf
  <1>4. CASE \E r \in Requests : HoldOf' = [HoldOf EXCEPT ![r] = @ + balance - balance']
    <2>1. PICK r \in Requests : HoldOf' = [HoldOf EXCEPT ![r] = @ + balance - balance']
      BY <1>4
    <2>2. HoldOf'[r] = HoldOf[r] + balance - balance'
      BY <1>f, <2>1
    <2>3. \A q \in Requests : q # r => HoldOf'[q] = HoldOf[q]
      BY <1>f, <2>1
    <2>4. SumFunctionOnSet(HoldOf', Requests)
            = SumFunctionOnSet(HoldOf, Requests) + HoldOf'[r] - HoldOf[r]
      BY <1>f, <2>3, SumUpdate, RelayAssumption
    <2>5. HoldOf[r] \in Int
      BY <1>f
    <2>6. InitialWallet - wallet' = SumFunctionOnSet(HoldOf', Requests) + debt'
      <3> DEFINE S == SumFunctionOnSet(HoldOf, Requests)
                 T == SumFunctionOnSet(HoldOf', Requests)
                 h == HoldOf[r]
                 k == HoldOf'[r]
      <3>1. /\ T = S + k - h /\ k = h + (wallet + debt) - (wallet' + debt')
            /\ InitialWallet - wallet = S + debt /\ S \in Int /\ h \in Int
        BY <1>1, <1>2, <2>2, <2>4, <2>5
      <3> HIDE DEF S, T, h, k
      <3>2. InitialWallet - wallet' = T + debt'
        BY <1>0, <3>1
      <3> QED
        BY <3>2 DEF T
    <2> QED
      BY <2>6 DEF WalletConserved, HoldOf
  <1> QED
    BY <1>3, <1>4
       DEF EscrowStep, Escrow!Next, Escrow!escrowVars, Escrow!Open, Escrow!Extend,
           Escrow!Close, Escrow!Move, HoldOf

(* The token after the charge of one request went from c to d. *)
TokenMoved(c, d) ==
    ~token'.deleted =>
      /\ ~token.deleted
      /\ token'.remain + tdebt' + d = token.remain + tdebt + c
      /\ token'.used + token'.remain = token.used + token.remain

TokenStep(r) ==
    /\ \A q \in Requests : q # r => rec'[q] = rec[q]
    /\ TokenMoved(Charge(r), Charge(r)')

TokenStutters == rec' = rec /\ TokenMoved(0, 0)

LEMMA TokenTypes ==
    ASSUME IInv
    PROVE  /\ token.remain \in Int /\ token.used \in Int /\ tdebt \in Int
           /\ token \in [remain : Int, used : Int, deleted : BOOLEAN]
           /\ rec \in [Requests -> Recs]
           /\ \A r \in Requests : Charge(r) \in Nat
  BY TypeFacts DEF IInv, Charge, Recs

LEMMA TokenCharged ==
    ASSUME IInv, NEW a \in Int, ChargeToken(a)
    PROVE  /\ token'.deleted = token.deleted
           /\ ~token.deleted => /\ token'.remain = token.remain - a
                                /\ token'.used = token.used + a
  BY TokenTypes DEF ChargeToken

LEMMA ChargedStep ==
    ASSUME IInv, NEW r \in Requests, NEW a \in Int, ChargeToken(a), tdebt' = tdebt,
           \A q \in Requests : q # r => rec'[q] = rec[q],
           Charge(r)' = Charge(r) + a
    PROVE  TokenStep(r)
  <1>1. Charge(r) \in Int /\ token.remain \in Int /\ token.used \in Int /\ tdebt \in Int
    BY TokenTypes
  <1> DEFINE d == Charge(r)'
  <1>2. d = Charge(r) + a
    OBVIOUS
  <1> HIDE DEF d
  <1>3. TokenMoved(Charge(r), d)
    BY <1>1, <1>2, TokenCharged DEF TokenMoved
  <1> QED
    BY <1>3 DEF TokenStep, d

LEMMA SameToken ==
    ASSUME IInv, UNCHANGED <<token, tdebt, rec>>
    PROVE  TokenStutters
  BY TokenTypes DEF TokenStutters, TokenMoved

LEMMA ReserveToken ==
    ASSUME IInv, NEW r \in Requests, ReserveWallet(r) \/ ReserveSubscription(r)
    PROVE  TokenStep(r) \/ TokenStutters
  <1>0. /\ rec \in [Requests -> Recs] /\ sess[r].want \in Nat
        /\ (sess[r].pc = "try" => Charge(r) = 0)
    <2>1. sess[r].want \in Nat /\ (sess[r].pc = "try" => rec[r].state = "none")
      BY ShapeFacts DEF Sessions, HoldShape
    <2> QED
      BY <2>1, TokenTypes DEF Charge
  <1>1. ASSUME NEW source \in {"wallet", "subscription"}, Claim(r, source)
        PROVE  /\ Charge(r)' = Asked(r, source) /\ Asked(r, source) \in Int
               /\ \A q \in Requests : q # r => rec'[q] = rec[q]
    BY <1>0, <1>1 DEF Claim, Charge, Asked
  <1>2. CASE ReserveWallet(r) /\ sess[r].want = 0
    BY <1>2, SameToken DEF ReserveWallet
  <1>3. CASE ReserveWallet(r) /\ sess[r].want # 0
    <2>1. Claim(r, "wallet") /\ ChargeToken(sess[r].want) /\ tdebt' = tdebt /\ Charge(r) = 0
      BY <1>0, <1>3 DEF ReserveWallet
    <2>2. Asked(r, "wallet") = sess[r].want
      BY DEF Asked
    <2> QED
      BY <1>0, <1>1, <2>1, <2>2, ChargedStep
  <1>4. CASE ReserveSubscription(r)
    <2>1. /\ Claim(r, "subscription") /\ ChargeToken(Asked(r, "subscription"))
          /\ tdebt' = tdebt /\ Charge(r) = 0
      BY <1>0, <1>4 DEF ReserveSubscription
    <2> QED
      BY <1>0, <1>1, <2>1, ChargedStep
  <1> QED
    BY <1>2, <1>3, <1>4

LEMMA MoreToken ==
    ASSUME IInv, NEW r \in Requests, NEW target \in Nat, NEW next,
           ReserveMore(r, target, next)
    PROVE  TokenStep(r) \/ TokenStutters
  <1> DEFINE a == target - sess[r].pre
  <1>0. rec \in [Requests -> Recs] /\ a \in Int
    BY ShapeFacts, TokenTypes DEF Sessions
  <1>1. CASE a <= 0 /\ UNCHANGED <<accounts, rec>>
    BY <1>1, SameToken DEF accounts
  <1>2. CASE /\ a > 0 /\ CanAppend(r) /\ ChargeToken(a) /\ UNCHANGED tdebt
             /\ rec' = [rec EXCEPT ![r].amount = @ + a]
    <2>1. Charge(r)' = Charge(r) + a
      BY <1>0, <1>2 DEF CanAppend, Charge, Recs
    <2>2. \A q \in Requests : q # r => rec'[q] = rec[q]
      BY <1>0, <1>2
    <2> HIDE DEF a
    <2> QED
      BY <1>0, <1>2, <2>1, <2>2, ChargedStep
  <1>3. CASE a > 0 /\ TokenHas(a) /\ ChargeToken(a) /\ tdebt' = tdebt + a /\ UNCHANGED rec
    <2> HIDE DEF a
    <2>1. /\ token'.deleted = token.deleted
          /\ ~token.deleted => /\ token'.remain = token.remain - a
                               /\ token'.used = token.used + a
      BY <1>0, <1>3, TokenCharged
    <2> QED
      BY <1>0, <1>3, <2>1, TokenTypes DEF TokenStutters, TokenMoved
  <1> QED
    BY <1>1, <1>2, <1>3 DEF ReserveMore

LEMMA SettleRecordToken ==
    ASSUME IInv, NEW r \in Requests, NEW delta \in Int, SettleRecord(r, delta), tdebt' = tdebt
    PROVE  TokenStep(r) \/ TokenStutters
  <1>0. rec \in [Requests -> Recs]
    BY TokenTypes
  <1>1. CASE Open(r) /\ ChargeToken(delta) /\ CloseRecord(r, "settled", rec[r].amount + delta)
    <2>1. Charge(r)' = Charge(r) + delta
      BY <1>0, <1>1 DEF Open, CloseRecord, Charge
    <2>2. \A q \in Requests : q # r => rec'[q] = rec[q]
      BY <1>0, <1>1 DEF CloseRecord
    <2> QED
      BY <1>1, <2>1, <2>2, ChargedStep
  <1>2. CASE UNCHANGED <<token, rec>>
    BY <1>2, SameToken
  <1> QED
    BY <1>1, <1>2 DEF SettleRecord

LEMMA SettleToken ==
    ASSUME IInv, NEW r \in Requests, NEW cost \in Nat, Settle(r, cost) \/ SettleLoose(r, cost)
    PROVE  TokenStep(r) \/ TokenStutters
  <1>1. SettleDelta(r, cost) \in Int
    BY ShapeFacts DEF SettleDelta, Sessions
  <1>2. CASE SettleRecord(r, SettleDelta(r, cost)) /\ UNCHANGED tdebt
    BY <1>1, <1>2, SettleRecordToken
  <1>3. CASE UNCHANGED <<token, tdebt, rec>>
    BY <1>3, SameToken
  <1> QED
    BY <1>2, <1>3 DEF Settle, SettleLoose

LEMMA LooseToken ==
    ASSUME IInv, NEW r \in Requests, SettleLooseToken(r)
    PROVE  TokenStutters
  <1> DEFINE a == SettleDelta(r, sess[r].want)
  <1>1. a \in Int
    BY ShapeFacts DEF SettleDelta, Sessions
  <1>2. /\ ChargeToken(a) /\ rec' = rec
        /\ tdebt' = IF token.deleted THEN tdebt ELSE tdebt + a
    BY DEF SettleLooseToken
  <1> HIDE DEF a
  <1> QED
    BY <1>1, <1>2, TokenCharged, TokenTypes DEF TokenStutters, TokenMoved

LEMMA ReleaseToken ==
    ASSUME IInv, NEW r \in Requests, Open(r), Release(r), tdebt' = tdebt
    PROVE  TokenStep(r)
  <1>0. rec \in [Requests -> Recs] /\ rec[r].amount \in Nat
    BY TokenTypes DEF Recs
  <1>1. Charge(r)' = Charge(r) + (-rec[r].amount)
    BY <1>0 DEF Open, Release, CloseRecord, Charge
  <1>2. \A q \in Requests : q # r => rec'[q] = rec[q]
    BY <1>0 DEF Release, CloseRecord
  <1> QED
    BY <1>0, <1>1, <1>2, ChargedStep DEF Release, GiveBack

(* The row of a reservation changes its state, and its charge does not. *)
LEMMA RowToken ==
    ASSUME IInv, NEW r \in Requests, MarkProviderStarted(r) \/ CleanupRecord(r)
    PROVE  TokenStep(r)
  <1>0. rec \in [Requests -> Recs] /\ UNCHANGED <<token, tdebt>>
    BY TokenTypes DEF MarkProviderStarted, CleanupRecord, accounts
  <1>1. \A q \in Requests : q # r => rec'[q] = rec[q]
    BY <1>0 DEF MarkProviderStarted, CleanupRecord
  <1>2. Charge(r)' = Charge(r)
    BY <1>0 DEF MarkProviderStarted, CleanupRecord, Charge, Recs
  <1> QED
    BY <1>0, <1>1, <1>2, TokenTypes DEF TokenStep, TokenMoved

LEMMA HandlerToken ==
    ASSUME IInv, NEW r \in Requests, Handler(r)
    PROVE  TokenStep(r) \/ TokenStutters
  <1>0. sess[r].want \in Nat /\ rec[r].amount \in Nat /\ Prices \subseteq Nat
    BY ShapeFacts, RelayAssumption DEF Sessions, Recs
  <1>1. CASE \/ SourceInsufficient(r) \/ FailBeforeSend(r) \/ AnswerNoWork(r)
             \/ AnswerUnknown(r) \/ TaskCancelled(r) \/ InsertTask(r) \/ InsertFails(r)
             \/ \E price \in Prices : AnswerSuccess(r, price)
    <2>1. UNCHANGED <<token, tdebt, rec>>
      BY <1>1 DEF SourceInsufficient, FailBeforeSend, AnswerNoWork, AnswerUnknown,
                  TaskCancelled, InsertTask, InsertFails, AnswerSuccess, accounts
    <2> QED
      BY <2>1, SameToken
  <1>2. CASE ReserveFinalPrice(r) \/ \E price \in Prices : PrepareBilling(r, price)
    <2>1. CASE UNCHANGED <<accounts, rec>>
      BY <2>1, SameToken DEF accounts
    <2>2. CASE \E n \in Nat, next \in {"mark", "insert"} : ReserveMore(r, n, next)
      BY <2>2, MoreToken
    <2> QED
      BY <1>0, <1>2, <2>1, <2>2 DEF ReserveFinalPrice, PrepareBilling
  <1>3. CASE InsertTaskForOperation(r) \/ InsertAnswerLost(r)
    <2>1. SettleWithTask(r) /\ tdebt' = tdebt
      BY <1>3 DEF InsertTaskForOperation, InsertAnswerLost, AttachTask
    <2>2. CASE SettleRecord(r, sess[r].want - rec[r].amount)
      BY <1>0, <2>1, <2>2, SettleRecordToken
    <2>3. CASE UNCHANGED <<token, rec>>
      BY <2>1, <2>3, SameToken
    <2> QED
      BY <2>1, <2>2, <2>3 DEF SettleWithTask
  <1>4. CASE SettleTask(r) \/ \E price \in Prices : SettleRelay(r, price)
    BY <1>0, <1>4, SettleToken DEF SettleTask, SettleRelay
  <1>5. CASE RefundSession(r)
    BY <1>5, ReleaseToken, SameToken DEF RefundSession
  <1> QED
    BY <1>1, <1>2, <1>3, <1>4, <1>5, ReserveToken, RowToken, LooseToken DEF Handler

LEMMA NextToken ==
    ASSUME IInv, [Next]_vars
    PROVE  (\E r \in Requests : TokenStep(r)) \/ TokenStutters
  <1>1. ASSUME NEW r \in Requests, ReleaseStale(r) PROVE TokenStep(r)
    BY <1>1, ReleaseToken DEF ReleaseStale, Recoverable, Open
  <1>2. CASE DeleteToken
    <2>1. token'.deleted /\ rec' = rec
      BY <1>2, TokenTypes DEF DeleteToken
    <2> QED
      BY <2>1 DEF TokenStutters, TokenMoved
  <1>3. CASE UNCHANGED <<token, tdebt, rec>>
    BY <1>3, SameToken
  <1>4. ASSUME NEW r \in Requests,
               \/ \E k \in Kinds[r], plan \in Plans, e \in Prices : Start(r, k, plan, e)
               \/ ProviderWorks(r) \/ Crash(r) \/ OperationLeaseEnds(r)
        PROVE  UNCHANGED <<token, tdebt, rec>>
    BY <1>4 DEF Start, ProviderWorks, Crash, OperationLeaseEnds, accounts
  <1>5. ResetSubscription \/ ExpireSubscription \/ UNCHANGED vars
          => UNCHANGED <<token, tdebt, rec>>
    BY DEF ResetSubscription, ExpireSubscription, vars
  <1> QED
    BY <1>1, <1>2, <1>3, <1>4, <1>5, HandlerToken, RowToken DEF Next

LEMMA TokenConservedStep ==
    ASSUME IInv, IInv', [Next]_vars, TokenConserved
    PROVE  TokenConserved'
  <1>f. ChargeOf \in [Requests -> Int] /\ ChargeOf' \in [Requests -> Int]
    BY HoldsType, HoldsTypePrimed
  <1>0. /\ token.remain \in Int /\ token.used \in Int /\ tdebt \in Int
        /\ token'.remain \in Int /\ token'.used \in Int /\ tdebt' \in Int
        /\ InitialToken \in Int
    <2>1. token'.remain \in Int /\ token'.used \in Int /\ tdebt' \in Int
      BY DEF IInv, TypeOK
    <2> QED
      BY <2>1, TokenTypes, RelayAssumption
  <1>1. token.deleted \/ /\ InitialToken - token.remain
                              = SumFunctionOnSet(ChargeOf, Requests) + tdebt
                         /\ token.used = InitialToken - token.remain
    BY DEF TokenConserved, ChargeOf
  <1>2. SumFunctionOnSet(ChargeOf, Requests) \in Int
    BY <1>f, SumType, RelayAssumption
  <1>3. SUFFICES ASSUME ~token'.deleted
                 PROVE  /\ InitialToken - token'.remain
                             = SumFunctionOnSet(ChargeOf', Requests) + tdebt'
                        /\ token'.used = InitialToken - token'.remain
    BY DEF TokenConserved, ChargeOf
  <1>4. CASE TokenStutters
    <2>1. ChargeOf' = ChargeOf
      BY <1>4 DEF TokenStutters, ChargeOf, Charge
    <2>2. TokenMoved(0, 0)
      BY <1>4 DEF TokenStutters
    <2> DEFINE S == SumFunctionOnSet(ChargeOf, Requests)
    <2>3. token.deleted \/ /\ InitialToken - token.remain = S + tdebt
                           /\ token.used = InitialToken - token.remain
      BY <1>1
    <2>4. S \in Int
      BY <1>2
    <2> HIDE DEF S
    <2>5. PICK m \in Int, u \in Int, x \in Int : m = token'.remain /\ u = token'.used /\ x = tdebt'
      BY <1>0
    <2>6. /\ m + x + 0 = token.remain + tdebt + 0 /\ u + m = token.used + token.remain
          /\ InitialToken - token.remain = S + tdebt
          /\ token.used = InitialToken - token.remain
      BY <1>3, <2>2, <2>3, <2>5 DEF TokenMoved
    <2>7. InitialToken - m = S + x /\ u = InitialToken - m
      BY <1>0, <2>4, <2>6
    <2> QED
      BY <2>1, <2>5, <2>7 DEF S
  <1>5. ASSUME NEW r \in Requests, TokenStep(r)
        PROVE  /\ InitialToken - token'.remain
                    = SumFunctionOnSet(ChargeOf', Requests) + tdebt'
               /\ token'.used = InitialToken - token'.remain
    <2>1. \A q \in Requests : q # r => ChargeOf'[q] = ChargeOf[q]
      BY <1>5 DEF TokenStep, ChargeOf, Charge
    <2>2. SumFunctionOnSet(ChargeOf', Requests)
            = SumFunctionOnSet(ChargeOf, Requests) + ChargeOf'[r] - ChargeOf[r]
      BY <1>f, <2>1, SumUpdate, RelayAssumption
    <2>3. ChargeOf[r] \in Int /\ ChargeOf'[r] \in Int
      BY <1>f
    <2>4. TokenMoved(ChargeOf[r], ChargeOf'[r])
      BY <1>5 DEF TokenStep, ChargeOf
    <2> DEFINE S == SumFunctionOnSet(ChargeOf, Requests)
               T == SumFunctionOnSet(ChargeOf', Requests)
               c == ChargeOf[r]
               d == ChargeOf'[r]
    <2>5. token.deleted \/ /\ InitialToken - token.remain = S + tdebt
                           /\ token.used = InitialToken - token.remain
      BY <1>1
    <2>6. S \in Int /\ c \in Int /\ d \in Int /\ T = S + d - c /\ TokenMoved(c, d)
      BY <1>2, <2>2, <2>3, <2>4
    <2> HIDE DEF S, T, c, d
    <2>7. PICK m \in Int, u \in Int, x \in Int : m = token'.remain /\ u = token'.used /\ x = tdebt'
      BY <1>0
    <2>8. /\ m + x + d = token.remain + tdebt + c /\ u + m = token.used + token.remain
          /\ InitialToken - token.remain = S + tdebt
          /\ token.used = InitialToken - token.remain
      BY <1>3, <2>5, <2>6, <2>7 DEF TokenMoved
    <2>9. InitialToken - m = T + x /\ u = InitialToken - m
      BY <1>0, <2>6, <2>8
    <2> QED
      BY <2>7, <2>9 DEF T
  <1> QED
    BY <1>4, <1>5, NextToken

LEMMA ConservedInit == Init => QuotaConserved
  <1> SUFFICES ASSUME Init PROVE QuotaConserved
    OBVIOUS
  <1>1. \A r \in Requests : HoldOf[r] = 0 /\ ChargeOf[r] = 0
    BY DEF Init, HoldOf, ChargeOf, WalletCharge, Charge, NoRecord
  <1>2. SumFunctionOnSet(HoldOf, Requests) = 0 /\ SumFunctionOnSet(ChargeOf, Requests) = 0
    BY <1>1, SumZero, RelayAssumption
  <1> QED
    BY <1>2, RelayAssumption
       DEF Init, QuotaConserved, WalletConserved, TokenConserved, HoldOf, ChargeOf

(* No quota is created or lost, for any number of requests: what left the  *)
(* wallet and the token is what the reservations hold or settled and what  *)
(* was taken without one.                                                  *)
THEOREM Conserved == Spec => []QuotaConserved
  <1>1. IInv /\ QuotaConserved /\ [Next]_vars => QuotaConserved'
    <2> SUFFICES ASSUME IInv, QuotaConserved, [Next]_vars PROVE QuotaConserved'
      OBVIOUS
    <2>1. IInv' /\ EscrowStep
      BY NextKeeps DEF Keeps
    <2> QED
      BY <2>1, WalletStep, TokenConservedStep DEF QuotaConserved
  <1> QED
    BY <1>1, ConservedInit, SpecKeeps, PTL DEF Spec

=============================================================================
