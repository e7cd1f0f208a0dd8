----------------------- MODULE WildFlowProjectionProofs -----------------------
(* Proofs about WildFlowProjection for any sets of audits and projectors,  *)
(* any number of faults and either log database.                           *)
EXTENDS WildFlowProjection, TLAPS

Past(p) == proj[p].pc \in {"log", "mark", "fail"}

(* The log database agrees with itself and with the main database. *)
LogInv ==
    \A a \in Audits :
        /\ logs[a] \in {0, 1}
        /\ logs[a] = 1 => final[a]
        /\ receipt[a] = "projected" => logs[a] = 1
        /\ row[a].state # "absent" => final[a]
        /\ row[a].state = "projected" => receipt[a] = "projected"

(* What a running projector may rely on, and what its token is worth. *)
ProjInv ==
    \A p \in Projectors :
        /\ proj[p].pc # "idle" => proj[p].audit \in Audits /\ final[proj[p].audit]
        /\ proj[p].pc = "mark" => receipt[proj[p].audit] = "projected"
        /\ Past(p) => proj[p].token <= row[proj[p].audit].attempts

(* Claim tokens are not reused. *)
TokenInv ==
    \A p, q \in Projectors :
        p # q /\ Past(p) /\ Past(q) /\ proj[p].audit = proj[q].audit
            => proj[p].token # proj[q].token

IInv == TypeOK /\ LogInv /\ ProjInv /\ TokenInv

-----------------------------------------------------------------------------
(* The initial states, those of an upgraded database included, satisfy the *)
(* inductive invariant.                                                    *)
LEMMA InitIInv == Init => IInv
  <1> SUFFICES ASSUME Init PROVE IInv
    OBVIOUS
  <1>1. TypeOK
    <2>1. {NoRow, [NoRow EXCEPT !.state = "blank"]}
             \subseteq [state : RowState, attempts : Nat, token : Nat]
      BY DEF NoRow, RowState
    <2>2. row \in [Audits -> [state : RowState, attempts : Nat, token : Nat]]
      BY <2>1 DEF Init
    <2>3. proj \in [Projectors -> [pc : {"idle", "claim", "log", "mark", "fail"},
                                   audit : Audits \union {NoAudit}, token : Nat]]
      BY DEF Init, Idle
    <2> QED
      BY <2>2, <2>3, ProjectionAssumption DEF Init, TypeOK
  <1>2. LogInv
    BY DEF Init, LogInv, LegacyShape, NoRow
  <1>3. ProjInv /\ TokenInv
    BY DEF Init, ProjInv, TokenInv, Past, Idle
  <1> QED
    BY <1>1, <1>2, <1>3 DEF IInv

(* What the LOG_DB transaction establishes for audit a. *)
LogCommitted(a) ==
    /\ logs' \in [Audits -> Nat]
    /\ receipt' \in [Audits -> {"none", "projected"}]
    /\ LogInv'
    /\ receipt'[a] = "projected"
    /\ \A b \in Audits : receipt[b] = "projected" => receipt'[b] = "projected"

(* The LOG_DB transaction leaves exactly one Log row for a finished        *)
(* operation, whatever was there before.                                   *)
LEMMA CommitFacts ==
  ASSUME TypeOK, LogInv, NEW a \in Audits, final[a],
         CommitGenericBillingLog(a), UNCHANGED final, UNCHANGED row
  PROVE  LogCommitted(a)
  <1>1. /\ logs' \in [Audits -> Nat]
        /\ receipt' \in [Audits -> {"none", "projected"}]
    BY DEF CommitGenericBillingLog, TypeOK
  <1>2. /\ logs'[a] = 1 /\ receipt'[a] = "projected"
        /\ \A b \in Audits : b # a => logs'[b] = logs[b] /\ receipt'[b] = receipt[b]
    BY DEF CommitGenericBillingLog, TypeOK, LogInv
  <1> QED
    BY <1>1, <1>2 DEF LogCommitted, LogInv, TypeOK

(* Both mark functions keep the inductive invariant: the UPDATE touches    *)
(* only the row the projector still owns, and records projected only when  *)
(* the receipt is there.                                                   *)
LEMMA MarkIInv ==
  ASSUME IInv, NEW p \in Projectors, proj[p].audit \in Audits,
         NEW s \in {"projected", "failed", "unsupported"}, MarkProjection(p, s),
         s = "projected" => receipt[proj[p].audit] = "projected"
  PROVE  IInv'
  <1> DEFINE a == proj[p].audit
  <1> USE DEF IInv, TypeOK, RowState
  <1>1. /\ proj' = [proj EXCEPT ![p] = Idle]
        /\ UNCHANGED <<final, logs, receipt, faults>>
    BY DEF MarkProjection
  <1>2. CASE OwnsClaim(p)
    <2>1. /\ row' = [row EXCEPT ![a].state = s, ![a].token = 0]
          /\ lease' = [lease EXCEPT ![a] = "none"]
          /\ row[a].state = "projecting"
      BY <1>2 DEF MarkProjection, OwnsClaim
    <2>2. TypeOK'
      BY <1>1, <2>1, ProjectionAssumption DEF Idle
    <2>3. LogInv'
      BY <1>1, <2>1 DEF LogInv
    <2>4. \A b \in Audits : row'[b].attempts = row[b].attempts
      BY <2>1
    <2>5. ProjInv' /\ TokenInv'
      BY <1>1, <2>4 DEF ProjInv, TokenInv, Past, Idle
    <2> QED
      BY <2>2, <2>3, <2>5
  <1>3. CASE ~OwnsClaim(p)
    <2>1. UNCHANGED <<row, lease>>
      BY <1>3 DEF MarkProjection
    <2>2. TypeOK' /\ LogInv'
      BY <1>1, <2>1, ProjectionAssumption DEF Idle, LogInv
    <2>3. ProjInv' /\ TokenInv'
      BY <1>1, <2>1 DEF ProjInv, TokenInv, Past, Idle
    <2> QED
      BY <2>2, <2>3
  <1> QED
    BY <1>2, <1>3

(* Every transaction of the main or the log database, every fault and      *)
(* every lease expiry keeps the inductive invariant.                       *)
LEMMA NextIInv == IInv /\ [Next]_vars => IInv'
  <1> SUFFICES ASSUME IInv, [Next]_vars PROVE IInv'
    OBVIOUS
  <1> USE ProjectionAssumption DEF IInv, TypeOK, RowState
  <1>1. ASSUME NEW a \in Audits, FinishBilling(a) PROVE IInv'
    BY <1>1 DEF FinishBilling, EnsureCanonicalBillingLog,
       InitialProjectionState, LogInv, ProjInv, TokenInv, Past
  <1>2. ASSUME NEW a \in Audits, ReconcileCanonicalAudit(a) PROVE IInv'
    BY <1>2 DEF ReconcileCanonicalAudit, EnsureCanonicalBillingLog,
       InitialProjectionState, LogInv, ProjInv, TokenInv, Past
  <1>3. ASSUME NEW a \in Audits, LeaseExpires(a) PROVE IInv'
    BY <1>3 DEF LeaseExpires, LogInv, ProjInv, TokenInv, Past
  <1>4. ASSUME NEW a \in Audits, NEW p \in Projectors, RecordBillingLog(p, a)
        PROVE IInv'
    <2>1. TypeOK'
      BY <1>4 DEF RecordBillingLog, EnsureCanonicalBillingLog, InitialProjectionState
    <2>2. LogInv'
      BY <1>4 DEF RecordBillingLog, EnsureCanonicalBillingLog,
         InitialProjectionState, LogInv
    <2>3. ProjInv'
      BY <1>4 DEF RecordBillingLog, EnsureCanonicalBillingLog,
         InitialProjectionState, LogInv, ProjInv, Past
    <2>4. TokenInv'
      BY <1>4 DEF RecordBillingLog, TokenInv, Past
    <2> QED
      BY <2>1, <2>2, <2>3, <2>4
  <1>5. ASSUME NEW a \in Audits, NEW p \in Projectors, ReconcileProjection(p, a)
        PROVE IInv'
    BY <1>5 DEF ReconcileProjection, Claimable, LogInv, ProjInv, TokenInv, Past
  <1>6. ASSUME NEW p \in Projectors, ClaimProjection(p) PROVE IInv'
    <2> DEFINE a == proj[p].audit
               n == row[a].attempts + 1
    <2>0. a \in Audits /\ final[a] /\ n \in Nat
      BY <1>6 DEF ClaimProjection, ProjInv
    <2>1. CASE ~Claimable(a)
      <3>1. /\ proj' = [proj EXCEPT ![p] = Idle]
            /\ UNCHANGED <<final, row, lease, logs, receipt, faults>>
        BY <1>6, <2>1 DEF ClaimProjection
      <3> QED
        BY <3>1 DEF LogInv, ProjInv, TokenInv, Past, Idle
    <2>2. CASE Claimable(a)
      <3>1. /\ row' = [row EXCEPT ![a] = [state |-> "projecting",
                                          attempts |-> n, token |-> n]]
            /\ lease' = [lease EXCEPT ![a] = "live"]
            /\ proj' = [proj EXCEPT ![p].pc = "log", ![p].token = n]
            /\ UNCHANGED <<final, logs, receipt, faults>>
        BY <1>6, <2>2 DEF ClaimProjection
      <3> HIDE DEF a, n
      <3>2. TypeOK'
        <4>1. proj' \in [Projectors -> [pc : {"idle", "claim", "log", "mark", "fail"},
                                       audit : Audits \union {NoAudit}, token : Nat]]
          <5>1. proj[p] \in [pc : {"idle", "claim", "log", "mark", "fail"},
                            audit : Audits \union {NoAudit}, token : Nat]
            OBVIOUS
          <5>2. [proj[p] EXCEPT !.pc = "log", !.token = n]
                  \in [pc : {"idle", "claim", "log", "mark", "fail"},
                      audit : Audits \union {NoAudit}, token : Nat]
            BY <2>0, <5>1
          <5>3. proj' = [proj EXCEPT ![p] = [proj[p] EXCEPT !.pc = "log", !.token = n]]
            BY <3>1
          <5> QED
            BY <5>2, <5>3
        <4>2. row' \in [Audits -> [state : RowState, attempts : Nat, token : Nat]]
          BY <2>0, <3>1
        <4>3. lease' \in [Audits -> {"none", "live", "expired"}]
          BY <2>0, <3>1
        <4> QED
          BY <3>1, <4>1, <4>2, <4>3
      <3>3. LogInv'
        BY <2>0, <3>1 DEF LogInv
      <3>4. /\ proj'[p] = [proj[p] EXCEPT !.pc = "log", !.token = n]
            /\ \A q \in Projectors : q # p => proj'[q] = proj[q]
            /\ row'[a].attempts = n
            /\ \A b \in Audits : b # a => row'[b] = row[b]
        BY <2>0, <3>1
      <3>5. n = row[a].attempts + 1 /\ a = proj[p].audit
        BY DEF a, n
      <3>6. ASSUME NEW q \in Projectors
            PROVE  /\ proj'[q].pc # "idle" => proj'[q].audit \in Audits /\ final'[proj'[q].audit]
                   /\ proj'[q].pc = "mark" => receipt'[proj'[q].audit] = "projected"
                   /\ Past(q)' => proj'[q].token <= row'[proj'[q].audit].attempts
        <4>1. CASE q = p
          BY <4>1, <2>0, <3>1, <3>4, <3>5 DEF Past
        <4>2. CASE q # p
          BY <4>2, <2>0, <3>1, <3>4, <3>5 DEF Past, ProjInv
        <4> QED BY <4>1, <4>2
      <3>7. ProjInv'
        BY <3>6 DEF ProjInv
      <3>8. TokenInv'
        <4>1. ASSUME NEW q \in Projectors, q # p, Past(q), proj[q].audit = a
              PROVE  proj[q].token # n
          BY <4>1, <2>0, <3>5 DEF ProjInv, Past
        <4> QED
          <5> SUFFICES ASSUME NEW q \in Projectors, NEW r \in Projectors, q # r,
                              Past(q)', Past(r)', proj'[q].audit = proj'[r].audit
                       PROVE  proj'[q].token # proj'[r].token
            BY DEF TokenInv
          <5>1. CASE q = p
            BY <5>1, <4>1, <3>4, <3>5 DEF Past
          <5>2. CASE r = p
            BY <5>2, <4>1, <3>4, <3>5 DEF Past
          <5>3. CASE q # p /\ r # p
            BY <5>3, <3>4 DEF TokenInv, Past
          <5> QED
            BY <5>1, <5>2, <5>3
      <3> QED
        BY <3>2, <3>3, <3>7, <3>8
    <2> QED
      BY <2>1, <2>2
  <1>7. ASSUME NEW p \in Projectors, CreateGenericBillingLog(p) PROVE IInv'
    <2>1. proj[p].audit \in Audits /\ final[proj[p].audit]
      BY <1>7 DEF CreateGenericBillingLog, ProjInv
    <2>2. CommitGenericBillingLog(proj[p].audit) /\ UNCHANGED final /\ UNCHANGED row
      BY <1>7 DEF CreateGenericBillingLog
    <2>3. LogCommitted(proj[p].audit)
      BY <2>1, <2>2, CommitFacts
    <2>4. TypeOK'
      BY <1>7, <2>3 DEF CreateGenericBillingLog, LogCommitted
    <2>5. ProjInv' /\ TokenInv'
      BY <1>7, <2>1, <2>3 DEF CreateGenericBillingLog, LogCommitted, ProjInv, TokenInv, Past
    <2> QED
      BY <2>3, <2>4, <2>5 DEF LogCommitted
  <1>8. ASSUME NEW p \in Projectors, GenericBillingLogError(p) PROVE IInv'
    <2>1. proj[p].audit \in Audits /\ final[proj[p].audit]
      BY <1>8 DEF GenericBillingLogError, ProjInv
    <2>2. CASE CommitGenericBillingLog(proj[p].audit)
      <3>1. LogCommitted(proj[p].audit)
        BY <1>8, <2>1, <2>2, CommitFacts DEF GenericBillingLogError
      <3>2. TypeOK'
        BY <1>8, <3>1 DEF GenericBillingLogError, LogCommitted
      <3>3. ProjInv' /\ TokenInv'
        BY <1>8, <2>1, <3>1 DEF GenericBillingLogError, LogCommitted, ProjInv, TokenInv, Past
      <3> QED
        BY <3>1, <3>2, <3>3 DEF LogCommitted
    <2>3. CASE UNCHANGED <<receipt, logs>>
      BY <1>8, <2>1, <2>3 DEF GenericBillingLogError, LogInv, ProjInv, TokenInv, Past
    <2> QED
      BY <1>8, <2>2, <2>3 DEF GenericBillingLogError
  <1>8a. ASSUME NEW p \in Projectors, ProjectionUnsupported(p) PROVE IInv'
    BY <1>8a DEF ProjectionUnsupported, LogInv, ProjInv, TokenInv, Past
  <1>9. ASSUME NEW p \in Projectors, MarkProjectionProjected(p) PROVE IInv'
    <2>1. proj[p].audit \in Audits /\ receipt[proj[p].audit] = "projected"
      BY <1>9 DEF MarkProjectionProjected, ProjInv
    <2> QED
      BY <1>9, <2>1, MarkIInv DEF MarkProjectionProjected
  <1>10. ASSUME NEW p \in Projectors, MarkProjectionFailed(p) PROVE IInv'
    <2>1. proj[p].audit \in Audits
      BY <1>10 DEF MarkProjectionFailed, ProjInv
    <2> QED
      BY <1>10, <2>1, MarkIInv DEF MarkProjectionFailed
  <1>11. ASSUME NEW p \in Projectors, Stop(p) PROVE IInv'
    BY <1>11 DEF Stop, Idle, LogInv, ProjInv, TokenInv, Past
  <1>12. CASE UNCHANGED vars
    BY <1>12 DEF vars, LogInv, ProjInv, TokenInv, Past
  <1> QED
    BY <1>1, <1>2, <1>3, <1>4, <1>5, <1>6, <1>7, <1>8, <1>8a, <1>9, <1>10,
       <1>11, <1>12 DEF Next

-----------------------------------------------------------------------------
(* Every reachable state satisfies the inductive invariant. *)
THEOREM ProjectionInvariant == Spec => []IInv
  BY InitIInv, NextIInv, PTL DEF Spec

(* createWildFlowGenericBillingLog is idempotent: for any number of        *)
(* concurrent projectors and any pattern of stops, errors and expired      *)
(* leases, LOG_DB holds at most one Log row per audit and none before the  *)
(* operation is settled or refunded.                                       *)
THEOREM LogAtMostOnceTheorem == Spec => []LogAtMostOnce
  <1>1. IInv => LogAtMostOnce
    BY DEF IInv, TypeOK, LogInv, LogAtMostOnce
  <1> QED
    BY <1>1, ProjectionInvariant, PTL

(* The rows, the logs and the projectors keep their types.                 *)
THEOREM ProjectionTypeOK == Spec => []TypeOK
  BY ProjectionInvariant, PTL DEF IInv

(* A row marked projected has its Log row and receipt in the other         *)
(* database.                                                               *)
THEOREM ProjectedHasLogTheorem == Spec => []ProjectedHasLog
  <1>1. IInv => ProjectedHasLog
    BY DEF IInv, LogInv, ProjectedHasLog
  <1> QED
    BY <1>1, ProjectionInvariant, PTL

(* A claim has one owner, however late a projector whose lease ended comes *)
(* back.                                                                   *)
THEOREM ClaimHasOneOwnerTheorem == Spec => []ClaimHasOneOwner
  <1>1. IInv => ClaimHasOneOwner
    BY DEF IInv, TokenInv, ClaimHasOneOwner, OwnsClaim, Past
  <1> QED
    BY <1>1, ProjectionInvariant, PTL

(* No step of a late projector turns a projected row back, and no step     *)
(* takes over a claim whose lease is live.                                 *)
THEOREM NoTakeoverTheorem == Spec => NoTakeover
  <1> DEFINE A == \A a \in Audits :
                     /\ row[a].state = "projected" => row'[a].state = "projected"
                     /\ row[a].state = "projecting" /\ lease[a] = "live"
                          => row'[a].attempts = row[a].attempts
  <1>1. IInv /\ Next => A
    <2> SUFFICES ASSUME IInv, Next PROVE A
      OBVIOUS
    <2> USE DEF IInv, TypeOK
    <2>1. ASSUME NEW b \in Audits,
                 \/ FinishBilling(b) \/ ReconcileCanonicalAudit(b)
                 \/ \E p \in Projectors : RecordBillingLog(p, b)
          PROVE A
      BY <2>1 DEF FinishBilling, ReconcileCanonicalAudit, RecordBillingLog,
         EnsureCanonicalBillingLog, LogInv
    <2>2. ASSUME NEW p \in Projectors, ClaimProjection(p) PROVE A
      BY <2>2 DEF ClaimProjection, Claimable, ProjInv
    <2>3. ASSUME NEW p \in Projectors, NEW s, MarkProjection(p, s),
                 proj[p].pc \in {"mark", "fail"} PROVE A
      BY <2>3 DEF MarkProjection, OwnsClaim, ProjInv
    <2>4. ASSUME UNCHANGED row PROVE A
      BY <2>4
    <2>5. QED
      BY <2>1, <2>2, <2>3, <2>4 DEF Next, MarkProjectionProjected,
         MarkProjectionFailed, LeaseExpires, ReconcileProjection,
         CreateGenericBillingLog, GenericBillingLogError,
         ProjectionUnsupported, Stop
  <1>2. IInv /\ [Next]_vars => [A]_vars
    BY <1>1
  <1> QED
    BY <1>2, ProjectionInvariant, PTL DEF Spec, NoTakeover
=============================================================================
