---------------------------- MODULE AsyncTaskProofs ----------------------------
(***************************************************************************)
(* Proofs about AsyncTask for any number of overlapping passes, any quota, *)
(* costs, limits, faults and crashes: for a task that only passes write,   *)
(* one pass bills, the books stay in step, and an end is final.            *)
(***************************************************************************)
EXTENDS AsyncTask, TLAPS

(* No copy a pass works on is of an ended task, and only a pass that       *)
(* stores images has a copy of a task whose images are being stored.       *)
CopyShape ==
    \A p \in Passes :
        /\ pass[p].copy.quota = InitialQuota
        /\ pass[p].pc \in {"sweep", "fetch"} => pass[p].copy.status \in Running
        /\ pass[p].pc = "store" => pass[p].copy.status = "PERSISTING"

(* Before its end nothing was billed. *)
Fresh ==
    row.status \notin Terminal =>
        /\ row.quota = InitialQuota /\ Total = InitialQuota /\ tcharged = InitialQuota
        /\ ~refunded /\ ~cut

(* How far the pass that bills has come. *)
BillShape ==
    \A p \in Passes : IsBilling(p) =>
        /\ ~cut /\ row.quota = InitialQuota /\ row.status \in Terminal
        /\ pass[p].refund => row.status = "FAILURE"
        /\ \A q \in Passes : IsBilling(q) => q = p
        /\ Total = IF pass[p].pc = "funding" THEN InitialQuota ELSE pass[p].target
        /\ tlost \/ tcharged = IF pass[p].pc = "quota" THEN pass[p].target ELSE InitialQuota

(* The books when nobody bills. *)
Settled ==
    (\A p \in Passes : ~IsBilling(p)) =>
        \/ cut
        \/ /\ tlost \/ tcharged = Total
           /\ Total = row.quota \/ (fund.legacy /\ row.quota = 0 /\ Total = InitialQuota)

RefundShape == refunded => row.status = "FAILURE"

(* No request of the user is on its way to the row. *)
FetchShape == \A f \in Fetches : fetch[f].pc = "idle"

(* What the passes keep, as long as nobody else writes the row. *)
IInv == TypeOK /\ CopyShape /\ Fresh /\ BillShape /\ Settled /\ RefundShape /\ FetchShape

PassRecords == [pc : {"idle", "sweep", "fetch", "store"} \cup Billing,
                copy : Rows, target : Nat, refund : BOOLEAN]

-----------------------------------------------------------------------------
LEMMA InitIInv == Init => IInv
  <1> SUFFICES ASSUME Init PROVE IInv
    OBVIOUS
  <1> USE TaskAssumption DEF Init
  <1>1. FirstRow \in Rows /\ FirstRow.quota = InitialQuota /\ FirstRow.status = "SUBMITTED"
    BY DEF FirstRow, Rows, Statuses, Running, Terminal
  <1>2. fund \in [kind : {"video", "image", "realtime"}, legacy : BOOLEAN,
                 source : {"wallet", "subscription"}]
    BY Zenon
  <1>3. charged \in [{"wallet", "subscription"} -> Int] /\ Total = InitialQuota
    BY <1>2 DEF Total
  <1>4. pass \in [Passes -> [pc : {"idle", "sweep", "fetch", "store"} \cup Billing,
                             copy : Rows, target : Nat, refund : BOOLEAN]]
    BY <1>1 DEF Idle
  <1>5. TypeOK
    <2>1. tlost \in BOOLEAN /\ refunded \in BOOLEAN /\ cut \in BOOLEAN
      BY Zenon
    <2>3. world \in [timeout : BOOLEAN, errors : 0..MaxErrors]
      OBVIOUS
    <2>4. fetch \in [Fetches -> [pc : {"idle", "loaded", "done"}, copy : Rows]]
      BY <1>1
    <2>2. row \in Rows /\ tcharged \in Int /\ crashes \in 0..MaxCrashes
      BY <1>1
    <2> QED
      BY <1>2, <1>3, <1>4, <2>1, <2>2, <2>3, <2>4, Zenon DEF TypeOK
  <1>6. \A p \in Passes : pass[p] = Idle /\ ~IsBilling(p)
    BY DEF IsBilling, Idle, Billing
  <1>7. CopyShape /\ BillShape
    BY <1>1, <1>6 DEF CopyShape, BillShape, Idle
  <1>8. Fresh /\ Settled /\ RefundShape /\ FetchShape
    BY <1>1, <1>3 DEF Fresh, Settled, RefundShape, FetchShape, Terminal
  <1> QED
    BY <1>5, <1>7, <1>8 DEF IInv

(* What the three kinds of step do to the row and to the books.            *)

(* A pass that is not billing, and whose write did not end the task, stops *)
(* or goes on with a copy of the task as it is.                            *)
LEMMA RunningIInv ==
    ASSUME IInv, NEW p \in Passes, ~IsBilling(p),
           NEW x \in [pc : {"idle", "sweep", "fetch", "store"}, copy : Rows,
                      target : Nat, refund : BOOLEAN],
           x.copy.quota = InitialQuota,
           x.pc \in {"sweep", "fetch"} => x.copy.status \in Running,
           x.pc = "store" => x.copy.status = "PERSISTING",
           pass' = [pass EXCEPT ![p] = x],
           \/ row' = row
           \/ /\ row.status \notin Terminal /\ row' \in Rows
              /\ row'.quota = InitialQuota
              /\ row'.status \notin Terminal,
           UNCHANGED <<books, fund, fetch, provider, world>>, crashes' \in 0..MaxCrashes
    PROVE  IInv'
  <1> USE DEF IInv, books
  <1>1. TypeOK'
    BY DEF TypeOK
  <1>2. /\ pass'[p] = x /\ \A q \in Passes : q # p => pass'[q] = pass[q]
    BY DEF TypeOK
  <1>3. \A q \in Passes : IsBilling(q)' <=> IsBilling(q) /\ q # p
    BY <1>2 DEF IsBilling, Billing
  <1>4. Total' = Total
    BY DEF Total
  <1>5. CopyShape'
    BY <1>2 DEF CopyShape
  <1>6. CASE row' = row
    <2>1. BillShape'
      BY <1>2, <1>3, <1>4, <1>6 DEF BillShape
    <2>2. Fresh' /\ Settled' /\ RefundShape' /\ FetchShape'
      BY <1>3, <1>4, <1>6 DEF Fresh, Settled, RefundShape, FetchShape
    <2> QED
      BY <1>1, <1>5, <2>1, <2>2
  <1>7. CASE /\ row.status \notin Terminal /\ row'.quota = InitialQuota
             /\ row'.status \notin Terminal
    <2>1. \A q \in Passes : ~IsBilling(q)
      BY <1>7 DEF BillShape
    <2>2. BillShape'
      BY <1>3, <2>1 DEF BillShape
    <2>3. Fresh' /\ Settled' /\ RefundShape' /\ FetchShape'
      BY <1>4, <1>7 DEF Fresh, Settled, RefundShape, FetchShape
    <2> QED
      BY <1>1, <1>5, <2>2, <2>3
  <1> QED
    BY <1>6, <1>7

(* A pass ends the task, and bills or not. *)
LEMMA EndingIInv ==
    ASSUME IInv, NEW p \in Passes, row.status \notin Terminal,
           row' \in Rows, row'.status \in Terminal,
           NEW x \in [pc : {"idle", "funding"}, copy : Rows, target : Nat, refund : BOOLEAN],
           x.copy.quota = InitialQuota,
           pass' = [pass EXCEPT ![p] = x],
           x.pc = "funding" => row'.quota = InitialQuota
                               /\ (x.refund => row'.status = "FAILURE"),
           row'.quota = InitialQuota \/ (fund.legacy /\ row'.quota = 0),
           UNCHANGED <<books, fund, fetch, provider, crashes>>,
           world' \in [timeout : BOOLEAN, errors : 0..MaxErrors]
    PROVE  IInv'
  <1> USE DEF IInv, books
  <1>1. TypeOK'
    BY DEF TypeOK, Billing
  <1>2. /\ pass'[p] = x /\ \A q \in Passes : q # p => pass'[q] = pass[q]
    BY DEF TypeOK
  <1>3. \A q \in Passes : ~IsBilling(q)
    BY DEF BillShape
  <1>4. /\ Total' = InitialQuota /\ tcharged' = InitialQuota
        /\ ~refunded' /\ ~cut'
    BY DEF Total, Fresh
  <1>5. CopyShape'
    BY <1>2 DEF CopyShape
  <1>6. \A q \in Passes : IsBilling(q)' => q = p /\ x.pc = "funding"
    BY <1>2, <1>3 DEF IsBilling, Billing
  <1>7. BillShape'
    BY <1>2, <1>4, <1>6 DEF BillShape
  <1>8. Fresh' /\ RefundShape' /\ FetchShape'
    BY <1>4 DEF Fresh, RefundShape, FetchShape
  <1>9. Settled'
    BY <1>4, <1>2 DEF Settled, IsBilling, Billing
  <1> QED
    BY <1>1, <1>5, <1>7, <1>8, <1>9

-----------------------------------------------------------------------------
LEMMA IdleFacts ==
    /\ Idle \in [pc : {"idle"}, copy : Rows, target : Nat, refund : BOOLEAN]
    /\ Idle.pc = "idle" /\ Idle.copy.quota = InitialQuota
  BY TaskAssumption DEF Idle, FirstRow, Rows, Statuses, Running, Terminal

(* A pass that wins writes over a task that has not ended. *)
LEMMA CopyFacts ==
    ASSUME IInv, NEW p \in Passes, pass[p].pc \in {"sweep", "fetch", "store"}
    PROVE  /\ ~IsBilling(p)
           /\ pass[p].copy \in Rows /\ pass[p].copy.quota = InitialQuota
           /\ pass[p].copy.status \notin Terminal
           /\ Wins(p) => row.status \notin Terminal
           /\ \A s \in Terminal : Ended(p, s) \in Rows /\ Ended(p, s).status = s
                                  /\ Ended(p, s).quota = InitialQuota
  <1>1. pass[p].copy \in Rows
    BY DEF IInv, TypeOK
  <1>2. pass[p].copy.quota = InitialQuota /\ pass[p].copy.status \notin Terminal
    BY DEF IInv, CopyShape, Running, Terminal
  <1>3. ~IsBilling(p)
    BY DEF IsBilling, Billing
  <1> QED
    BY <1>1, <1>2, <1>3 DEF Wins, Ended, Rows, Statuses, Terminal

(* Nothing but the end of the pass. *)
LEMMA StopIInv ==
    ASSUME IInv, NEW p \in Passes, ~IsBilling(p), Stop(p), row' = row,
           UNCHANGED <<books, fund, fetch, provider, world>>, crashes' \in 0..MaxCrashes
    PROVE  IInv'
  BY RunningIInv, IdleFacts DEF Stop

(* Ending a task and billing it. *)
LEMMA BillIInv ==
    ASSUME IInv, NEW p \in Passes, pass[p].pc \in {"sweep", "fetch", "store"},
           NEW s \in Terminal, UpdateWithStatus(p, Ended(p, s)),
           NEW cost \in Nat, NEW refund \in BOOLEAN, refund => s = "FAILURE",
           Bill(p, cost, refund), UNCHANGED <<books, rest>>
    PROVE  IInv'
  <1>0. crashes \in 0..MaxCrashes /\ world \in [timeout : BOOLEAN, errors : 0..MaxErrors]
    BY DEF IInv, TypeOK
  <1>1. CASE ~Wins(p)
    <2>1. row' = row /\ Stop(p)
      BY <1>1 DEF UpdateWithStatus, Bill
    <2> QED
      BY <1>0, <2>1, CopyFacts, StopIInv DEF rest
  <1>2. CASE Wins(p)
    <2>1. row' = Ended(p, s)
      BY <1>2 DEF UpdateWithStatus
    <2>2. row.status \notin Terminal /\ row' \in Rows /\ row'.status = s
          /\ row'.quota = InitialQuota
      BY <1>2, <2>1, CopyFacts
    <2> DEFINE y == [pass[p] EXCEPT !.pc = "funding", !.target = cost, !.refund = refund]
    <2>3. y \in [pc : {"idle", "funding"}, copy : Rows, target : Nat, refund : BOOLEAN]
          /\ y.copy.quota = InitialQuota /\ y.refund = refund
      <3>1. pass[p] \in PassRecords
        BY DEF IInv, TypeOK, PassRecords
      <3>2. pass[p].copy \in Rows /\ pass[p].copy.quota = InitialQuota
        BY CopyFacts
      <3>3. CASE refund = TRUE
        BY <3>1, <3>2, <3>3 DEF PassRecords
      <3>4. CASE refund = FALSE
        BY <3>1, <3>2, <3>4 DEF PassRecords
      <3> QED
        BY <3>3, <3>4
    <2>4. CASE Stop(p)
      BY <1>0, <2>2, <2>4, EndingIInv, IdleFacts DEF Stop, rest
    <2>5. CASE ~Stop(p)
      <3>1. pass' = [pass EXCEPT ![p] = y]
        BY <2>5 DEF Bill
      <3> HIDE DEF y
      <3> QED
        BY <1>0, <2>2, <2>3, <3>1, EndingIInv DEF rest
    <2> QED
      BY <2>4, <2>5
  <1> QED
    BY <1>1, <1>2

LEMMA FailTaskIInv ==
    ASSUME IInv, NEW p \in Passes, pass[p].pc \in {"sweep", "fetch", "store"},
           FailTaskFromPoll(p), UNCHANGED <<books, rest>>
    PROVE  IInv'
  <1>1. "FAILURE" \in Terminal
    BY DEF Terminal
  <1>2. CASE Bill(p, 0, TRUE)
    BY <1>1, <1>2, BillIInv DEF FailTaskFromPoll
  <1>3. ASSUME NEW cost \in Costs, Bill(p, cost, FALSE) PROVE IInv'
    BY <1>1, <1>3, BillIInv, TaskAssumption DEF FailTaskFromPoll
  <1> QED
    BY <1>2, <1>3 DEF FailTaskFromPoll, BillFailure

LEMMA SucceedIInv ==
    ASSUME IInv, NEW p \in Passes, pass[p].pc \in {"sweep", "fetch", "store"},
           UpdateWithStatus(p, Ended(p, "SUCCESS")), BillSuccess(p), UNCHANGED <<books, rest>>
    PROVE  IInv'
  <1>1. "SUCCESS" \in Terminal
    BY DEF Terminal
  <1>2. PICK cost \in Costs \cup {pass[p].copy.quota} : Bill(p, cost, FALSE)
    BY DEF BillSuccess
  <1>3. cost \in Nat
    BY CopyFacts, TaskAssumption
  <1> QED
    BY <1>1, <1>2, <1>3, BillIInv

(* A write that does not end the task. *)
LEMMA WriteIInv ==
    ASSUME IInv, NEW p \in Passes, pass[p].pc \in {"sweep", "fetch", "store"},
           NEW new \in Rows, new.quota = InitialQuota, new.status \notin Terminal,
           UpdateWithStatus(p, new), Stop(p), UNCHANGED <<books, rest>>
    PROVE  IInv'
  <1>1. crashes \in 0..MaxCrashes
    BY DEF IInv, TypeOK
  <1>2. row' = row \/ (row.status \notin Terminal /\ row' = new)
    BY CopyFacts DEF UpdateWithStatus
  <1> QED
    BY <1>1, <1>2, CopyFacts, RunningIInv, IdleFacts DEF Stop, rest

-----------------------------------------------------------------------------
(* One lemma per group of actions. *)

LEMMA LoadIInv ==
    ASSUME IInv, NEW p \in Passes, LoadTasks(p) \/ LoadTimedOut(p)
    PROVE  IInv'
  <1>1. /\ crashes \in 0..MaxCrashes /\ row \in Rows
        /\ pass \in [Passes -> [pc : {"idle", "sweep", "fetch", "store"} \cup Billing,
                                copy : Rows, target : Nat, refund : BOOLEAN]]
    BY DEF IInv, TypeOK
  <1>2. row.quota = InitialQuota /\ ~IsBilling(p)
        /\ row.status \notin Terminal
    BY DEF IInv, Fresh, LoadTasks, LoadTimedOut, MayTimeOut, Unfinished, IsBilling, Billing
  <1>3. row.status \in Running \cup {"PERSISTING"}
    BY <1>1, <1>2 DEF Rows, Statuses
  <1>4. PICK pc \in {"sweep", "fetch", "store"} :
          /\ pass' = [pass EXCEPT ![p].pc = pc, ![p].copy = row]
          /\ pc = "store" <=> row.status = "PERSISTING"
    BY DEF LoadTasks, LoadTimedOut, MayTimeOut
  <1> DEFINE x == [pass[p] EXCEPT !.pc = pc, !.copy = row]
  <1>5. /\ x \in [pc : {"idle", "sweep", "fetch", "store"}, copy : Rows,
                   target : Nat, refund : BOOLEAN]
        /\ x.copy = row /\ x.pc = pc
    BY <1>1
  <1>6. pass' = [pass EXCEPT ![p] = x]
    BY <1>1, <1>4
  <1>7. row' = row /\ UNCHANGED <<books, fund, fetch, provider, world>> /\ crashes' \in 0..MaxCrashes
    BY <1>1 DEF LoadTasks, LoadTimedOut, rest
  <1> HIDE DEF x
  <1>8. /\ x.copy.quota = InitialQuota
        /\ x.pc \in {"sweep", "fetch"} => x.copy.status \in Running
        /\ x.pc = "store" => x.copy.status = "PERSISTING"
    BY <1>2, <1>3, <1>4, <1>5
  <1> QED
    BY <1>2, <1>5, <1>6, <1>7, <1>8, RunningIInv

LEMMA PollIInv ==
    ASSUME IInv, NEW p \in Passes,
           \/ Sweep(p) \/ PollFails(p) \/ PollNotFound(p) \/ PollFailed(p)
           \/ \E status \in Running, full \in BOOLEAN : PollRunning(p, status, full)
    PROVE  IInv'
  <1>1. CASE Sweep(p)
    <2>1. pass[p].pc = "sweep" /\ UNCHANGED <<books, rest>>
      BY <1>1 DEF Sweep
    <2>2. CASE ~fund.legacy
      <3>1. UpdateWithStatus(p, Ended(p, "FAILURE")) /\ Bill(p, 0, TRUE)
        BY <1>1, <2>2 DEF Sweep
      <3>2. "FAILURE" \in Terminal
        BY DEF Terminal
      <3> QED
        BY <2>1, <3>1, <3>2, BillIInv
    <2>3. CASE fund.legacy /\ Wins(p)
      <3>1. row' = [Ended(p, "FAILURE") EXCEPT !.quota = 0] /\ Stop(p)
        BY <1>1, <2>3 DEF Sweep, UpdateWithStatus
      <3>2. row' \in Rows /\ row'.quota = 0 /\ row'.status \in Terminal
            /\ row.status \notin Terminal
        BY <2>1, <2>3, <3>1, CopyFacts DEF Rows, Terminal
      <3> QED
        BY <2>1, <2>3, <3>1, <3>2, EndingIInv, IdleFacts DEF Stop, rest, IInv, TypeOK
    <2>4. CASE fund.legacy /\ ~Wins(p)
      <3>1. row' = row /\ Stop(p) /\ crashes \in 0..MaxCrashes
        BY <1>1, <2>4 DEF Sweep, UpdateWithStatus, IInv, TypeOK
      <3> QED
        BY <2>1, <3>1, CopyFacts, StopIInv DEF rest
    <2> QED
      BY <2>2, <2>3, <2>4
  <1>2. CASE PollFails(p)
    <2> DEFINE n == IF pass[p].copy.fails < CountBound THEN pass[p].copy.fails + 1
                    ELSE CountBound
    <2>1. pass[p].pc = "fetch" /\ UNCHANGED <<books, rest>>
      BY <1>2 DEF PollFails
    <2>2. n \in 0..CountBound
      BY <2>1, CopyFacts, TaskAssumption DEF Rows
    <2>3. CASE GivesUp(n)
      BY <1>2, <2>1, <2>3, FailTaskIInv DEF PollFails
    <2>4. CASE ~GivesUp(n)
      <3> DEFINE new == [pass[p].copy EXCEPT !.fails = n]
      <3>1. UpdateWithStatus(p, new) /\ Stop(p)
        BY <1>2, <2>4 DEF PollFails
      <3> HIDE DEF n
      <3>2. new \in Rows /\ new.quota = InitialQuota /\ new.status \notin Terminal
        BY <2>1, <2>2, CopyFacts DEF Rows
      <3> HIDE DEF new
      <3> QED
        BY <2>1, <3>1, <3>2, WriteIInv
    <2> QED
      BY <2>3, <2>4
  <1>3. CASE PollNotFound(p)
    BY <1>3, FailTaskIInv DEF PollNotFound
  <1>4. CASE PollFailed(p)
    BY <1>4, FailTaskIInv DEF PollFailed
  <1>5. ASSUME NEW status \in Running, NEW full \in BOOLEAN, PollRunning(p, status, full)
        PROVE  IInv'
    <2> DEFINE new == [pass[p].copy EXCEPT !.status = status, !.fails = 0, !.full = full]
    <2>1. pass[p].pc = "fetch" /\ UNCHANGED <<books, rest>> /\ UpdateWithStatus(p, new) /\ Stop(p)
      BY <1>5 DEF PollRunning
    <2>2. pass[p].copy \in Rows /\ pass[p].copy.quota = InitialQuota
      BY <2>1, CopyFacts
    <2>3. 0 \in 0..CountBound
      BY TaskAssumption
    <2>4. status \in Statuses /\ status \notin Terminal
      BY DEF Statuses, Running, Terminal
    <2>5. new \in Rows
      <3>1. CASE full = TRUE
        BY <2>2, <2>3, <2>4, <3>1 DEF Rows
      <3>2. CASE full = FALSE
        BY <2>2, <2>3, <2>4, <3>2 DEF Rows
      <3> QED
        BY <3>1, <3>2
    <2>6. new.quota = InitialQuota /\ new.status \notin Terminal
      BY <2>2, <2>4 DEF Rows
    <2> HIDE DEF new
    <2> QED
      BY <2>1, <2>5, <2>6, WriteIInv
  <1> QED
    BY <1>1, <1>2, <1>3, <1>4, <1>5

LEMMA StoreIInv ==
    ASSUME IInv, NEW p \in Passes,
           \/ PollSucceeded(p) \/ StoreImages(p) \/ StoreFails(p) \/ FailChannelTasks(p)
           \/ Cancelled(p) \/ (Crash(p) /\ ~IsBilling(p))
    PROVE  IInv'
  <1>0. crashes \in 0..MaxCrashes
    BY DEF IInv, TypeOK
  <1>1. CASE PollSucceeded(p) /\ fund.kind # "image"
    BY <1>1, SucceedIInv DEF PollSucceeded
  <1>2. CASE PollSucceeded(p) /\ fund.kind = "image"
    <2> DEFINE saved == [pass[p].copy EXCEPT !.status = "PERSISTING"]
               x == [pass[p] EXCEPT !.pc = "store", !.copy = saved]
    <2>1. pass[p].pc = "fetch" /\ UNCHANGED <<books, rest>>
          /\ UpdateWithStatus(p, saved)
          /\ ((Wins(p) /\ pass' = [pass EXCEPT ![p] = x]) \/ Stop(p))
      BY <1>2 DEF PollSucceeded, Stop
    <2>2. saved \in Rows /\ saved.quota = InitialQuota /\ saved.status = "PERSISTING"
      BY <2>1, CopyFacts DEF Rows, Statuses
    <2> HIDE DEF saved
    <2>3. /\ x \in [pc : {"idle", "sweep", "fetch", "store"}, copy : Rows,
                     target : Nat, refund : BOOLEAN]
          /\ x.copy = saved /\ x.pc = "store"
      BY <2>2 DEF IInv, TypeOK
    <2> HIDE DEF x
    <2>4. row' = row \/ (row' = saved /\ row.status \notin Terminal)
      BY <2>1, CopyFacts DEF UpdateWithStatus
    <2>5. "PERSISTING" \notin Terminal
      BY DEF Terminal
    <2>6. CASE Stop(p)
      BY <1>0, <2>1, <2>2, <2>4, <2>5, <2>6, CopyFacts, RunningIInv, IdleFacts DEF rest, Stop
    <2>7. CASE Wins(p) /\ pass' = [pass EXCEPT ![p] = x]
      BY <1>0, <2>1, <2>2, <2>3, <2>4, <2>5, <2>7, CopyFacts, RunningIInv DEF rest
    <2> QED
      BY <2>1, <2>6, <2>7
  <1>3. CASE StoreImages(p)
    BY <1>3, SucceedIInv DEF StoreImages
  <1>4. CASE StoreFails(p)
    BY <1>4, CopyFacts, WriteIInv DEF StoreFails
  <1>5. CASE FailChannelTasks(p)
    <2>1. row' = [row EXCEPT !.status = "FAILURE", !.full = TRUE] /\ Stop(p)
          /\ pass[p].pc = "fetch" /\ UNCHANGED <<books, fund, fetch, provider, crashes>>
      BY <1>5 DEF FailChannelTasks
    <2>0. world' \in [timeout : BOOLEAN, errors : 0..MaxErrors]
      BY <1>5, TaskAssumption DEF FailChannelTasks, IInv, TypeOK
    <2>2. row' \in Rows /\ row'.status = "FAILURE" /\ row'.quota = row.quota
          /\ "FAILURE" \in Terminal
      BY <2>1 DEF IInv, TypeOK, Rows, Statuses, Terminal
    <2>3. CASE row.status \notin Terminal
      <3>1. row.quota = InitialQuota
        BY <2>3 DEF IInv, Fresh
      <3> QED
        BY <2>0, <2>1, <2>2, <2>3, <3>1, EndingIInv, IdleFacts DEF Stop
    <2>4. CASE row.status \in Terminal
      <3>1. pass'[p] = Idle /\ \A q \in Passes : q # p => pass'[q] = pass[q]
        BY <2>1 DEF Stop, IInv, TypeOK
      <3>2. \A q \in Passes : IsBilling(q)' <=> IsBilling(q)
        BY <2>1, <3>1, IdleFacts DEF IsBilling, Billing
      <3>3. TypeOK'
        BY <2>0, <2>1, <2>2, IdleFacts DEF IInv, TypeOK, Stop, books
      <3>4. Total' = Total
        BY <2>1 DEF Total, books
      <3>5. CopyShape'
        BY <3>1, IdleFacts DEF IInv, CopyShape
      <3>6. BillShape'
        BY <2>1, <2>2, <3>1, <3>2, <3>4, IdleFacts DEF IInv, BillShape, books, IsBilling, Billing
      <3>7. Fresh' /\ Settled' /\ RefundShape' /\ FetchShape'
        BY <2>1, <2>2, <3>2, <3>4 DEF IInv, Fresh, Settled, RefundShape, FetchShape, books
      <3> QED
        BY <3>3, <3>5, <3>6, <3>7 DEF IInv
    <2> QED
      BY <2>3, <2>4
  <1>6. CASE Cancelled(p)
    BY <1>0, <1>6, CopyFacts, StopIInv DEF Cancelled, rest
  <1>7. CASE Crash(p) /\ ~IsBilling(p)
    <2>1. cut' = cut /\ crashes' \in 0..MaxCrashes
      BY <1>0, <1>7, TaskAssumption DEF Crash, IsBilling, IInv, TypeOK
    <2> QED
      BY <1>7, <2>1, StopIInv DEF Crash, books
  <1> QED
    BY <1>1, <1>2, <1>3, <1>4, <1>5, <1>6, <1>7

(* The pass that bills: it is the only one, so the others see no change. *)
LEMMA BooksIInv ==
    ASSUME IInv, NEW p \in Passes, IsBilling(p),
           \/ AdjustFunding(p) \/ AdjustFundingFails(p) \/ AdjustTokenQuota(p)
           \/ AdjustTokenFails(p) \/ UpdateQuota(p) \/ UpdateQuotaFails(p) \/ Crash(p)
    PROVE  IInv'
  <1> USE DEF IInv
  <1>1. /\ ~cut /\ row.quota = InitialQuota /\ row.status \in Terminal
        /\ pass[p].refund => row.status = "FAILURE"
        /\ \A q \in Passes : IsBilling(q) => q = p
        /\ Total = IF pass[p].pc = "funding" THEN InitialQuota ELSE pass[p].target
        /\ tlost \/ tcharged = IF pass[p].pc = "quota" THEN pass[p].target ELSE InitialQuota
    BY DEF BillShape
  <1>2. pass[p].copy.quota = InitialQuota /\ pass[p].target \in Nat /\ InitialQuota \in Nat
    BY TaskAssumption DEF CopyShape, TypeOK
  <1>3. CASE AdjustFunding(p)
    <2>1. /\ charged' = [charged EXCEPT !["wallet"] = @ + (pass[p].target - InitialQuota)]
          /\ pass[p].pc = "funding" /\ pass' = [pass EXCEPT ![p].pc = "token"]
          /\ refunded' = (refunded \/ pass[p].refund)
          /\ UNCHANGED <<row, tcharged, tlost, cut, rest>>
      BY <1>2, <1>3 DEF AdjustFunding, Adjusted, Delta, FundedBy, SubscriptionId
    <2>2. Total' = pass[p].target /\ charged' \in [{"wallet", "subscription"} -> Int]
      BY <1>1, <1>2, <2>1 DEF Total, TypeOK
    <2>3. refunded' \in BOOLEAN
      BY <2>1, Zenon
    <2>4. TypeOK'
      BY <2>1, <2>2, <2>3 DEF TypeOK, rest, Billing
    <2>5. /\ pass'[p].pc = "token" /\ pass'[p].target = pass[p].target
          /\ pass'[p].copy = pass[p].copy /\ pass'[p].refund = pass[p].refund
          /\ \A q \in Passes : q # p => pass'[q] = pass[q]
      BY <2>1 DEF TypeOK
    <2>6. CopyShape'
      BY <2>1, <2>5 DEF CopyShape
    <2>7. \A q \in Passes : IsBilling(q)' <=> q = p
      BY <1>1, <2>5 DEF IsBilling, Billing
    <2>8. BillShape' /\ Settled'
      BY <1>1, <2>1, <2>2, <2>5, <2>7 DEF BillShape, Settled
    <2>9. Fresh' /\ RefundShape' /\ FetchShape'
      BY <1>1, <2>1 DEF Fresh, RefundShape, FetchShape, rest
    <2> QED
      BY <2>4, <2>6, <2>8, <2>9
  <1>4. CASE AdjustTokenQuota(p) \/ AdjustTokenFails(p)
    <2>1. /\ pass[p].pc = "token" /\ pass' = [pass EXCEPT ![p].pc = "quota"]
          /\ UNCHANGED <<row, charged, refunded, cut, rest>>
          /\ tcharged' \in Int /\ tlost' \in BOOLEAN
      <3>1. pass[p].pc = "token" /\ pass' = [pass EXCEPT ![p].pc = "quota"]
        BY <1>4 DEF AdjustTokenQuota, AdjustTokenFails
      <3>2. UNCHANGED <<row, charged, refunded, cut, rest>>
        BY <1>4 DEF AdjustTokenQuota, AdjustTokenFails
      <3>3. tcharged' \in Int
        BY <1>2, <1>4 DEF AdjustTokenQuota, AdjustTokenFails, Delta, TypeOK
      <3>4. tlost' \in BOOLEAN
        BY <1>4, Zenon DEF AdjustTokenQuota, AdjustTokenFails, TypeOK
      <3> QED
        BY <3>1, <3>2, <3>3, <3>4
    <2>0. tlost' \/ tcharged' = pass[p].target
      <3>1. CASE AdjustTokenQuota(p)
        BY <1>1, <1>2, <3>1 DEF AdjustTokenQuota, Delta
      <3>2. CASE AdjustTokenFails(p)
        BY <3>2 DEF AdjustTokenFails
      <3> QED
        BY <1>4, <3>1, <3>2
    <2>2. Total' = pass[p].target
      BY <1>1, <2>1 DEF Total
    <2>3. TypeOK'
      BY <1>2, <2>1 DEF TypeOK, rest, Billing
    <2>4. /\ pass'[p].pc = "quota" /\ pass'[p].target = pass[p].target
          /\ pass'[p].copy = pass[p].copy /\ pass'[p].refund = pass[p].refund
          /\ \A q \in Passes : q # p => pass'[q] = pass[q]
      BY <2>1 DEF TypeOK
    <2>5. CopyShape'
      BY <2>1, <2>4 DEF CopyShape
    <2>6. \A q \in Passes : IsBilling(q)' <=> q = p
      BY <1>1, <2>4 DEF IsBilling, Billing
    <2>7. BillShape' /\ Settled'
      BY <1>1, <2>0, <2>1, <2>2, <2>4, <2>6 DEF BillShape, Settled
    <2>8. Fresh' /\ RefundShape' /\ FetchShape'
      BY <1>1, <2>1 DEF Fresh, RefundShape, FetchShape, rest
    <2> QED
      BY <2>3, <2>5, <2>7, <2>8
  <1>5. CASE AdjustFundingFails(p) \/ UpdateQuota(p) \/ UpdateQuotaFails(p) \/ Crash(p)
    <2>1. /\ Stop(p) /\ UNCHANGED <<tcharged, tlost, fund, fetch, provider, world>>
          /\ crashes' \in 0..MaxCrashes
      BY <1>5, TaskAssumption
         DEF AdjustFundingFails, UpdateQuota, UpdateQuotaFails, Crash, books, rest, TypeOK
    <2>2. pass'[p] = Idle /\ \A q \in Passes : q # p => pass'[q] = pass[q]
      BY <2>1 DEF Stop, TypeOK
    <2>3. \A q \in Passes : ~IsBilling(q)'
      BY <1>1, <2>2, IdleFacts DEF IsBilling, Billing
    <2>4. \/ charged' = charged /\ refunded' = refunded
          \/ charged' = Adjusted(p) /\ refunded' = (refunded \/ pass[p].refund) /\ cut'
      BY <1>5 DEF AdjustFundingFails, UpdateQuota, UpdateQuotaFails, Crash, books
    <2>5. charged' \in [{"wallet", "subscription"} -> Int]
      BY <1>2, <2>4 DEF Adjusted, Delta, FundedBy, SubscriptionId, TypeOK
    <2>6. refunded' \in BOOLEAN /\ (refunded' => refunded \/ pass[p].refund)
      <3>1. refunded \in BOOLEAN
        BY DEF TypeOK
      <3>2. CASE refunded' = refunded
        BY <3>1, <3>2, Zenon
      <3>3. CASE refunded' = (refunded \/ pass[p].refund)
        BY <3>3, Zenon
      <3> QED
        BY <2>4, <3>2, <3>3, Zenon
    <2>7. /\ row' \in Rows /\ row'.status = row.status
          /\ \/ cut'
             \/ (tlost' \/ tcharged' = Total') /\ Total' = row'.quota
      <3>0. [row EXCEPT !.quota = pass[p].target] \in Rows
            /\ [row EXCEPT !.quota = pass[p].target].status = row.status
            /\ [row EXCEPT !.quota = pass[p].target].quota = pass[p].target /\ row \in Rows
        BY <1>2 DEF TypeOK, Rows
      <3>1. CASE AdjustFundingFails(p)
        <4>1. row' = row /\ (cut' \/ (charged' = charged /\ pass[p].pc = "funding"))
          BY <3>1 DEF AdjustFundingFails, books
        <4> QED
          BY <1>1, <2>1, <3>0, <4>1 DEF Total
      <3>2. CASE UpdateQuota(p)
        <4>1. charged' = charged /\ pass[p].pc = "quota"
              /\ row' = [row EXCEPT !.quota = pass[p].target]
          BY <3>2 DEF UpdateQuota, books
        <4> QED
          BY <1>1, <2>1, <3>0, <4>1 DEF Total
      <3>3. CASE Crash(p)
        BY <3>0, <3>3 DEF Crash, IsBilling
      <3>4. CASE UpdateQuotaFails(p)
        BY <3>0, <3>4 DEF UpdateQuotaFails
      <3> QED
        BY <1>5, <3>1, <3>2, <3>3, <3>4
    <2>8. cut' \in BOOLEAN
      BY <1>5, Zenon DEF AdjustFundingFails, UpdateQuota, UpdateQuotaFails, Crash, books, TypeOK
    <2>9. TypeOK'
      BY <2>1, <2>5, <2>6, <2>7, <2>8, IdleFacts DEF TypeOK, Stop
    <2>10. CopyShape' /\ BillShape'
      BY <2>2, <2>3, IdleFacts DEF CopyShape, BillShape
    <2>11. Settled'
      BY <2>7 DEF Settled
    <2>12. Fresh' /\ RefundShape' /\ FetchShape'
      BY <1>1, <2>1, <2>6, <2>7 DEF Fresh, RefundShape, FetchShape
    <2> QED
      BY <2>9, <2>10, <2>11, <2>12
  <1> QED
    BY <1>3, <1>4, <1>5

LEMMA StutterIInv ==
    ASSUME IInv, UNCHANGED vars \/ ProviderEnds \/ TimeoutPasses
    PROVE  IInv'
  <1> USE DEF IInv, books
  <1>1. UNCHANGED <<row, fund, pass, fetch, charged, tcharged, tlost, refunded, cut, crashes>>
    BY DEF vars, ProviderEnds, TimeoutPasses
  <1>2. world' \in [timeout : BOOLEAN, errors : 0..MaxErrors]
    BY DEF vars, ProviderEnds, TimeoutPasses, TypeOK
  <1>3. provider' \in {"working", "succeeded", "failed"}
    BY DEF vars, ProviderEnds, TimeoutPasses, TypeOK
  <1>4. TypeOK'
    BY <1>1, <1>2, <1>3 DEF TypeOK
  <1>5. Total' = Total /\ \A p \in Passes : IsBilling(p)' <=> IsBilling(p)
    BY <1>1 DEF Total, IsBilling
  <1>6. CopyShape' /\ BillShape'
    BY <1>1, <1>5 DEF CopyShape, BillShape
  <1>7. Fresh' /\ Settled' /\ RefundShape' /\ FetchShape'
    BY <1>1, <1>5 DEF Fresh, Settled, RefundShape, FetchShape
  <1> QED
    BY <1>4, <1>6, <1>7

LEMMA NextIInv == IInv /\ OnlyPolled /\ [Next]_vars => IInv'
  <1> SUFFICES ASSUME IInv, OnlyPolled, [Next]_vars PROVE IInv'
    OBVIOUS
  <1>1. ASSUME NEW p \in Passes,
               LoadTasks(p) \/ LoadTimedOut(p) \/ Work(p) \/ Cancelled(p) \/ Crash(p)
        PROVE  IInv'
    <2>1. IsBilling(p) \/ ~IsBilling(p)
      OBVIOUS
    <2>2. (\/ AdjustFunding(p) \/ AdjustFundingFails(p) \/ AdjustTokenQuota(p)
           \/ AdjustTokenFails(p) \/ UpdateQuota(p) \/ UpdateQuotaFails(p))
            => IsBilling(p)
      BY DEF AdjustFunding, AdjustFundingFails, AdjustTokenQuota, AdjustTokenFails, UpdateQuota,
             UpdateQuotaFails, IsBilling, Billing
    <2> QED
      BY <1>1, <2>1, <2>2, LoadIInv, PollIInv, StoreIInv, BooksIInv DEF Work
  <1>2. ASSUME NEW f \in Fetches,
               \/ LoadTask(f) \/ FetchFails(f)
               \/ \E status \in {"IN_PROGRESS"} \cup Terminal, full \in BOOLEAN :
                    TryRealtimeFetch(f, status, full)
        PROVE  FALSE
    BY <1>2 DEF IInv, FetchShape, OnlyPolled, LoadTask, FetchFails, TryRealtimeFetch
  <1> QED
    BY <1>1, <1>2, StutterIInv DEF Next

-----------------------------------------------------------------------------
(* The types, whoever writes the row. *)

LEMMA WriteType ==
    ASSUME TypeOK, NEW p \in Passes, NEW new \in Rows, UpdateWithStatus(p, new)
    PROVE  row' \in Rows
  BY DEF UpdateWithStatus, TypeOK

LEMMA EndedType ==
    ASSUME TypeOK, NEW p \in Passes, NEW s \in Terminal
    PROVE  pass[p].copy \in Rows /\ Ended(p, s) \in Rows
  BY DEF TypeOK, Ended, Rows, Statuses

LEMMA BillType ==
    ASSUME TypeOK, NEW p \in Passes, NEW cost \in Nat, NEW refund \in BOOLEAN,
           Bill(p, cost, refund)
    PROVE  pass' \in [Passes -> PassRecords]
  <1> DEFINE y == [pass[p] EXCEPT !.pc = "funding", !.target = cost, !.refund = refund]
  <1>1. pass \in [Passes -> PassRecords] /\ pass[p] \in PassRecords
    BY DEF TypeOK, PassRecords
  <1>2. y \in PassRecords
    <2>1. CASE refund = TRUE
      BY <1>1, <2>1 DEF PassRecords, Billing
    <2>2. CASE refund = FALSE
      BY <1>1, <2>2 DEF PassRecords, Billing
    <2> QED
      BY <2>1, <2>2
  <1>3. Idle \in PassRecords
    BY IdleFacts DEF PassRecords
  <1>4. pass' = [pass EXCEPT ![p] = y] \/ pass' = [pass EXCEPT ![p] = Idle]
    BY DEF Bill, Stop
  <1> HIDE DEF y
  <1> QED
    BY <1>1, <1>2, <1>3, <1>4

LEMMA StopType ==
    ASSUME TypeOK, NEW p \in Passes, Stop(p)
    PROVE  pass' \in [Passes -> PassRecords]
  BY IdleFacts DEF TypeOK, Stop, PassRecords

(* The passes and the row. *)
LEMMA PassType ==
    ASSUME TypeOK, NEW p \in Passes,
           LoadTasks(p) \/ LoadTimedOut(p) \/ Work(p) \/ Cancelled(p) \/ Crash(p)
    PROVE  row' \in Rows /\ pass' \in [Passes -> PassRecords]
  <1>0. /\ row \in Rows /\ pass \in [Passes -> PassRecords]
        /\ pass[p].copy \in Rows /\ pass[p].target \in Nat
        /\ {"SUCCESS", "FAILURE"} \subseteq Terminal
    BY DEF TypeOK, PassRecords, Terminal
  <1>1. CASE LoadTasks(p) \/ LoadTimedOut(p) \/ Cancelled(p) \/ Crash(p)
    BY <1>0, <1>1, StopType DEF LoadTasks, LoadTimedOut, Cancelled, Crash, PassRecords
  <1>2. ASSUME FailTaskFromPoll(p) PROVE row' \in Rows /\ pass' \in [Passes -> PassRecords]
    <2>1. row' \in Rows
      BY <1>0, <1>2, WriteType, EndedType DEF FailTaskFromPoll
    <2>2. \E cost \in Nat, refund \in BOOLEAN : Bill(p, cost, refund)
      BY <1>2, TaskAssumption DEF FailTaskFromPoll, BillFailure
    <2> QED
      BY <2>1, <2>2, BillType
  <1>3. ASSUME UpdateWithStatus(p, Ended(p, "SUCCESS")), BillSuccess(p)
        PROVE  row' \in Rows /\ pass' \in [Passes -> PassRecords]
    <2>1. row' \in Rows
      BY <1>0, <1>3, WriteType, EndedType
    <2>2. PICK cost \in Costs \cup {pass[p].copy.quota} : Bill(p, cost, FALSE)
      BY <1>3 DEF BillSuccess
    <2>3. cost \in Nat
      BY <1>0, TaskAssumption DEF Rows
    <2> QED
      BY <2>1, <2>2, <2>3, BillType
  <1>4. CASE Sweep(p)
    <2>1. CASE fund.legacy
      <3>1. [Ended(p, "FAILURE") EXCEPT !.quota = 0] \in Rows
        BY <1>0, EndedType DEF Rows
      <3> QED
        BY <1>4, <2>1, <3>1, WriteType, StopType DEF Sweep
    <2>2. CASE ~fund.legacy
      BY <1>0, <1>4, <2>2, WriteType, EndedType, BillType DEF Sweep
    <2> QED
      BY <2>1, <2>2
  <1>5. CASE PollFails(p)
    <2> DEFINE n == IF pass[p].copy.fails < CountBound THEN pass[p].copy.fails + 1
                    ELSE CountBound
               new == [pass[p].copy EXCEPT !.fails = n]
    <2>1. n \in 0..CountBound
      BY <1>0, TaskAssumption DEF Rows
    <2>2. CASE GivesUp(n)
      BY <1>2, <1>5, <2>2 DEF PollFails
    <2>3. CASE ~GivesUp(n)
      <3>1. UpdateWithStatus(p, new) /\ Stop(p)
        BY <1>5, <2>3 DEF PollFails
      <3> HIDE DEF n
      <3>2. new \in Rows
        BY <1>0, <2>1 DEF Rows
      <3> HIDE DEF new
      <3> QED
        BY <3>1, <3>2, WriteType, StopType
    <2> QED
      BY <2>2, <2>3
  <1>6. CASE PollNotFound(p) \/ PollFailed(p)
    BY <1>2, <1>6 DEF PollNotFound, PollFailed
  <1>7. CASE (PollSucceeded(p) /\ fund.kind # "image") \/ StoreImages(p)
    BY <1>3, <1>7 DEF PollSucceeded, StoreImages
  <1>8. CASE PollSucceeded(p) /\ fund.kind = "image"
    <2> DEFINE saved == [pass[p].copy EXCEPT !.status = "PERSISTING"]
    <2>1. saved \in Rows
      BY <1>0 DEF Rows, Statuses
    <2>2. /\ UpdateWithStatus(p, saved)
          /\ (pass' = [pass EXCEPT ![p].pc = "store", ![p].copy = saved]) \/ Stop(p)
      BY <1>8 DEF PollSucceeded
    <2> HIDE DEF saved
    <2>3. pass' \in [Passes -> PassRecords]
      BY <1>0, <2>1, <2>2, StopType DEF PassRecords
    <2> QED
      BY <2>1, <2>2, <2>3, WriteType
  <1>9. ASSUME NEW status \in Running, NEW full \in BOOLEAN, PollRunning(p, status, full)
        PROVE  row' \in Rows /\ pass' \in [Passes -> PassRecords]
    <2> DEFINE new == [pass[p].copy EXCEPT !.status = status, !.fails = 0, !.full = full]
    <2>1. status \in Statuses /\ 0 \in 0..CountBound
      BY TaskAssumption DEF Statuses
    <2>2. new \in Rows
      <3>1. CASE full = TRUE
        BY <1>0, <2>1, <3>1 DEF Rows
      <3>2. CASE full = FALSE
        BY <1>0, <2>1, <3>2 DEF Rows
      <3> QED
        BY <3>1, <3>2
    <2>3. UpdateWithStatus(p, new) /\ Stop(p)
      BY <1>9 DEF PollRunning
    <2> HIDE DEF new
    <2> QED
      BY <2>2, <2>3, WriteType, StopType
  <1>10. CASE StoreFails(p)
    BY <1>0, <1>10, WriteType, StopType DEF StoreFails
  <1>11. CASE FailChannelTasks(p)
    BY <1>0, <1>11, StopType DEF FailChannelTasks, Rows, Statuses, Terminal
  <1>12. CASE \/ AdjustFunding(p) \/ AdjustFundingFails(p) \/ AdjustTokenQuota(p)
              \/ AdjustTokenFails(p)
    BY <1>0, <1>12, StopType DEF AdjustFunding, AdjustFundingFails, AdjustTokenQuota,
                                 AdjustTokenFails, PassRecords, Billing
  <1>13. CASE UpdateQuota(p) \/ UpdateQuotaFails(p)
    BY <1>0, <1>13, StopType DEF UpdateQuota, UpdateQuotaFails, Rows
  <1> QED
    BY <1>1, <1>4, <1>5, <1>6, <1>7, <1>8, <1>9, <1>10, <1>11, <1>12, <1>13 DEF Work

(* Books and environment in a step of a pass. *)
LEMMA BooksType ==
    ASSUME TypeOK, NEW p \in Passes,
           LoadTasks(p) \/ LoadTimedOut(p) \/ Work(p) \/ Cancelled(p) \/ Crash(p)
    PROVE  /\ charged' \in [{"wallet", "subscription"} -> Int] /\ tcharged' \in Int
           /\ tlost' \in BOOLEAN /\ refunded' \in BOOLEAN /\ cut' \in BOOLEAN
           /\ crashes' \in 0..MaxCrashes
           /\ world' \in [timeout : BOOLEAN, errors : 0..MaxErrors]
           /\ UNCHANGED <<fund, fetch, provider>>
  <1> DEFINE Quiet == \/ LoadTasks(p) \/ LoadTimedOut(p) \/ Cancelled(p) \/ Sweep(p)
                      \/ PollFails(p) \/ PollNotFound(p) \/ PollSucceeded(p) \/ PollFailed(p)
                      \/ \E status \in Running, full \in BOOLEAN : PollRunning(p, status, full)
                      \/ StoreImages(p) \/ StoreFails(p) \/ UpdateQuota(p)
  <1>1. CASE Quiet
    <2>1. UNCHANGED <<books, rest>>
      BY <1>1 DEF LoadTasks, LoadTimedOut, Cancelled, Sweep, PollFails, PollNotFound,
                  PollSucceeded, PollFailed, PollRunning, StoreImages, StoreFails, UpdateQuota
    <2> QED
      BY <2>1 DEF TypeOK, books, rest
  <1>2. CASE FailChannelTasks(p)
    BY <1>2, TaskAssumption DEF FailChannelTasks, TypeOK, books
  <1>3. Delta(p) \in Int /\ Adjusted(p) \in [{"wallet", "subscription"} -> Int]
        /\ (refunded \/ pass[p].refund) \in BOOLEAN
    BY DEF Delta, Adjusted, FundedBy, SubscriptionId, TypeOK, Rows
  <1>4. CASE AdjustFunding(p) \/ AdjustFundingFails(p)
    <2>1. /\ charged' = charged \/ charged' = Adjusted(p)
          /\ refunded' = refunded \/ refunded' = (refunded \/ pass[p].refund)
          /\ cut' = cut \/ cut' = TRUE
          /\ UNCHANGED <<tcharged, tlost, rest>>
      BY <1>4, Zenon DEF AdjustFunding, AdjustFundingFails, books
    <2>2. refunded' \in BOOLEAN /\ cut' \in BOOLEAN
      <3>1. refunded \in BOOLEAN /\ cut \in BOOLEAN
        BY DEF TypeOK
      <3> QED
        BY <1>3, <2>1, <3>1, Zenon
    <2> QED
      BY <1>3, <2>1, <2>2 DEF TypeOK, rest
  <1>5. CASE AdjustTokenQuota(p) \/ AdjustTokenFails(p)
    <2>1. /\ tcharged' \in {tcharged, tcharged + Delta(p)}
          /\ tlost' = tlost \/ tlost' = TRUE
          /\ UNCHANGED <<charged, refunded, cut, rest>>
      BY <1>5, Zenon DEF AdjustTokenQuota, AdjustTokenFails
    <2>2. tlost' \in BOOLEAN
      <3>1. tlost \in BOOLEAN
        BY DEF TypeOK
      <3> QED
        BY <2>1, <3>1, Zenon
    <2>3. tcharged \in Int /\ tcharged' \in Int
      BY <1>3, <2>1 DEF TypeOK
    <2> QED
      BY <2>1, <2>2, <2>3 DEF TypeOK, rest
  <1>6. CASE UpdateQuotaFails(p)
    BY <1>6 DEF UpdateQuotaFails, TypeOK, rest
  <1>7. CASE Crash(p)
    <2>1. cut' \in BOOLEAN
      BY <1>7, Zenon DEF Crash
    <2> QED
      BY <1>7, <2>1, TaskAssumption DEF Crash, TypeOK
  <1> QED
    BY <1>1, <1>2, <1>4, <1>5, <1>6, <1>7 DEF Work

LEMMA FetchType ==
    ASSUME TypeOK, NEW f \in Fetches,
           \/ LoadTask(f) \/ FetchFails(f)
           \/ \E status \in {"IN_PROGRESS"} \cup Terminal, full \in BOOLEAN :
                TryRealtimeFetch(f, status, full)
    PROVE  /\ row' \in Rows /\ UNCHANGED <<fund, pass, provider, world, crashes, books>>
           /\ fetch' \in [Fetches -> [pc : {"idle", "loaded", "done"}, copy : Rows]]
  <1>0. /\ row \in Rows /\ fetch[f].copy \in Rows
        /\ fetch \in [Fetches -> [pc : {"idle", "loaded", "done"}, copy : Rows]]
        /\ FirstRow \in Rows
    BY TaskAssumption DEF TypeOK, FirstRow, Rows, Statuses, Running
  <1>1. CASE LoadTask(f) \/ FetchFails(f)
    BY <1>0, <1>1 DEF LoadTask, FetchFails, FetchEnds
  <1>2. ASSUME NEW status \in {"IN_PROGRESS"} \cup Terminal, NEW full \in BOOLEAN,
               TryRealtimeFetch(f, status, full)
        PROVE  row' \in Rows
    <2> DEFINE new == [fetch[f].copy EXCEPT !.status = status, !.full = full]
    <2>1. status \in Statuses
      BY DEF Statuses, Running
    <2>2. new \in Rows
      <3>1. CASE full = TRUE
        BY <1>0, <2>1, <3>1 DEF Rows
      <3>2. CASE full = FALSE
        BY <1>0, <2>1, <3>2 DEF Rows
      <3> QED
        BY <3>1, <3>2
    <2>3. row' = new \/ row' = row
      BY <1>2 DEF TryRealtimeFetch
    <2> HIDE DEF new
    <2> QED
      BY <1>0, <2>2, <2>3
  <1>3. ASSUME NEW status \in {"IN_PROGRESS"} \cup Terminal, NEW full \in BOOLEAN,
               TryRealtimeFetch(f, status, full)
        PROVE  /\ UNCHANGED <<fund, pass, provider, world, crashes, books>>
               /\ fetch' \in [Fetches -> [pc : {"idle", "loaded", "done"}, copy : Rows]]
    BY <1>0, <1>3 DEF TryRealtimeFetch, FetchEnds
  <1> QED
    BY <1>1, <1>2, <1>3

LEMMA NextType == TypeOK /\ [Next]_vars => TypeOK'
  <1> SUFFICES ASSUME TypeOK, [Next]_vars PROVE TypeOK'
    OBVIOUS
  <1>1. ASSUME NEW p \in Passes,
               LoadTasks(p) \/ LoadTimedOut(p) \/ Work(p) \/ Cancelled(p) \/ Crash(p)
        PROVE  TypeOK'
    BY <1>1, PassType, BooksType DEF TypeOK, PassRecords
  <1>2. ASSUME NEW f \in Fetches,
               \/ LoadTask(f) \/ FetchFails(f)
               \/ \E status \in {"IN_PROGRESS"} \cup Terminal, full \in BOOLEAN :
                    TryRealtimeFetch(f, status, full)
        PROVE  TypeOK'
    BY <1>2, FetchType DEF TypeOK, books
  <1>3. CASE UNCHANGED vars \/ ProviderEnds \/ TimeoutPasses
    BY <1>3 DEF vars, ProviderEnds, TimeoutPasses, TypeOK, books
  <1> QED
    BY <1>1, <1>2, <1>3 DEF Next

(* What the task is does not change. *)
LEMMA FundFixed == TypeOK /\ [Next]_vars => fund' = fund
  <1> SUFFICES ASSUME TypeOK, [Next]_vars PROVE fund' = fund
    OBVIOUS
  <1>1. ASSUME NEW p \in Passes,
               LoadTasks(p) \/ LoadTimedOut(p) \/ Work(p) \/ Cancelled(p) \/ Crash(p)
        PROVE  fund' = fund
    BY <1>1, BooksType
  <1> QED
    BY <1>1, FetchType DEF Next, vars, ProviderEnds, TimeoutPasses

Inv == TypeOK /\ (OnlyPolled => IInv)

LEMMA SpecInv == Spec => []Inv
  <1>1. Init => Inv
    BY InitIInv DEF Inv, IInv
  <1>2. Inv /\ [Next]_vars => Inv'
    BY NextIInv, NextType, FundFixed DEF Inv, OnlyPolled
  <1> QED
    BY <1>1, <1>2, PTL DEF Spec

-----------------------------------------------------------------------------
(* The variables of the model keep their types, fetched task or not: no    *)
(* quota on the row goes below zero and no failure count leaves its range. *)
THEOREM TaskTypeOK == Spec => []TypeOK
  BY SpecInv, PTL DEF Inv

(* Whatever the number of overlapping passes and sweeps, at most one bills *)
(* a task that only passes write, and only when it has ended.              *)
THEOREM OneBills == Spec => []OnePassBills
  <1>1. Inv => OnePassBills
    BY DEF Inv, IInv, BillShape, OnePassBills
  <1> QED
    BY <1>1, SpecInv, PTL

(* The quota on the row of such a task is what was charged: the two writes *)
(* of a settlement, the sweep and the refund agree in every order, apart   *)
(* from a crash or an error between two of them.                           *)
THEOREM QuotaCharged == Spec => [](OnlyPolled => QuotaIsCharged)
  <1>1. ASSUME IInv PROVE QuotaIsCharged
    <2>1. CASE \A p \in Passes : ~IsBilling(p)
      BY <1>1, <2>1 DEF IInv, Settled, QuotaIsCharged
    <2>2. ASSUME NEW p \in Passes, IsBilling(p) PROVE QuotaIsCharged
      <3>1. row.quota = InitialQuota
            /\ Total = IF pass[p].pc = "funding" THEN InitialQuota ELSE pass[p].target
        BY <1>1, <2>2 DEF IInv, BillShape
      <3> QED
        BY <2>2, <3>1 DEF QuotaIsCharged, IsBilling, Billing
    <2> QED
      BY <2>1, <2>2
  <1>2. Inv => (OnlyPolled => QuotaIsCharged)
    BY <1>1 DEF Inv
  <1> QED
    BY <1>2, SpecInv, PTL

(* Its API token is charged and given back what the funding source is. *)
THEOREM TokenFollows == Spec => [](OnlyPolled => TokenFollowsFunding)
  <1>1. ASSUME IInv PROVE TokenFollowsFunding
    <2>1. CASE \A p \in Passes : ~IsBilling(p)
      BY <1>1, <2>1 DEF IInv, Settled, TokenFollowsFunding
    <2>2. ASSUME NEW p \in Passes, IsBilling(p) PROVE TokenFollowsFunding
      <3>1. /\ Total = IF pass[p].pc = "funding" THEN InitialQuota ELSE pass[p].target
            /\ tlost \/ tcharged = IF pass[p].pc = "quota" THEN pass[p].target ELSE InitialQuota
            /\ pass[p].copy.quota = InitialQuota
        BY <1>1, <2>2 DEF IInv, BillShape, CopyShape
      <3> QED
        BY <2>2, <3>1 DEF TokenFollowsFunding, IsBilling, Billing
    <2> QED
      BY <2>1, <2>2
  <1>2. Inv => (OnlyPolled => TokenFollowsFunding)
    BY <1>1 DEF Inv
  <1> QED
    BY <1>2, SpecInv, PTL

(* Row, funding source and token of a task that only passes write agree:   *)
(* both of the above.                                                      *)
THEOREM BooksAgreeTheorem == Spec => []BooksAgree
  BY QuotaCharged, TokenFollows, PTL DEF BooksAgree

(* A delivered task, or one whose images are being stored, is not refunded *)
(* by a sweep or a late failure, if only passes write it.                  *)
THEOREM RefundedFailed == Spec => []RefundedIsFailed
  <1>1. Inv => RefundedIsFailed
    BY DEF Inv, IInv, BillShape, RefundShape, RefundedIsFailed
  <1> QED
    BY <1>1, SpecInv, PTL

(* A write under the condition on the status keeps ended rows as they are, *)
(* and rows whose images are being stored from everything but the pass     *)
(* that stores them.                                                       *)
LEMMA WriteKeepsEnd ==
    ASSUME IInv, NEW p \in Passes, pass[p].pc \in {"sweep", "fetch", "store"},
           NEW new, UpdateWithStatus(p, new),
           pass[p].pc = "store" => new.status \in {"PERSISTING", "SUCCESS"}
    PROVE  /\ row.status \in Terminal => row'.status = row.status
           /\ row.status = "PERSISTING" => row'.status \in {"PERSISTING", "SUCCESS"}
  <1>1. CASE Wins(p)
    <2>1. row' = new /\ row.status = pass[p].copy.status /\ row.status \notin Terminal
      BY <1>1, CopyFacts DEF UpdateWithStatus, Wins
    <2>2. pass[p].pc # "store" => row.status # "PERSISTING"
      BY <2>1 DEF IInv, CopyShape, Running
    <2> QED
      BY <2>1, <2>2
  <1>2. CASE ~Wins(p)
    BY <1>2 DEF UpdateWithStatus
  <1> QED
    BY <1>1, <1>2

(* No stale copy a pass holds revives an ended task, and a saved image     *)
(* result is given up only for its delivery; failed look-ups of the        *)
(* channel aside, and if only passes write the task.                       *)
THEOREM EndFinal == Spec => EndIsFinal
  <1> DEFINE Kept ==
        /\ row.status \in Terminal => row'.status = row.status
        /\ row.status = "PERSISTING" => row'.status \in {"PERSISTING", "SUCCESS"}
  <1>1. ASSUME IInv, OnlyPolled, Next, world'.errors = world.errors PROVE Kept
    <2>1. ASSUME NEW p \in Passes, Work(p) PROVE Kept
      <3>1. CASE /\ pass[p].pc \in {"sweep", "fetch"}
                 /\ \E new : UpdateWithStatus(p, new)
        BY <1>1, <3>1, WriteKeepsEnd
      <3>2. CASE StoreImages(p)
        <4>1. Ended(p, "SUCCESS").status = "SUCCESS"
          BY <1>1, <3>2, CopyFacts DEF StoreImages, Terminal
        <4> QED
          BY <1>1, <3>2, <4>1, WriteKeepsEnd DEF StoreImages
      <3>3. CASE StoreFails(p)
        <4>1. pass[p].copy.status = "PERSISTING"
          BY <1>1, <3>3 DEF StoreFails, IInv, CopyShape
        <4> QED
          BY <1>1, <3>3, <4>1, WriteKeepsEnd DEF StoreFails
      <3>4. CASE FailChannelTasks(p)
        <4>1. world'.errors = world.errors + 1 /\ world.errors \in Nat
          BY <1>1, <3>4, TaskAssumption DEF FailChannelTasks, IInv, TypeOK
        <4> QED
          BY <1>1, <4>1
      <3>5. CASE \/ AdjustFunding(p) \/ AdjustFundingFails(p) \/ AdjustTokenQuota(p)
                 \/ AdjustTokenFails(p) \/ UpdateQuota(p) \/ UpdateQuotaFails(p)
        <4>1. row'.status = row.status
          BY <1>1, <3>5 DEF AdjustFunding, AdjustFundingFails, AdjustTokenQuota,
                            AdjustTokenFails, UpdateQuota, UpdateQuotaFails,
                            IInv, TypeOK, Rows
        <4> QED
          BY <4>1
      <3>6. CASE Sweep(p) \/ PollFails(p) \/ PollNotFound(p) \/ PollSucceeded(p) \/ PollFailed(p)
                 \/ \E status \in Running, full \in BOOLEAN : PollRunning(p, status, full)
        <4>1. pass[p].pc \in {"sweep", "fetch"} /\ \E new : UpdateWithStatus(p, new)
          BY <3>6 DEF Sweep, PollFails, PollNotFound, PollSucceeded, PollFailed, PollRunning,
                      FailTaskFromPoll
        <4> QED
          BY <3>1, <4>1
      <3> QED
        BY <2>1, <3>2, <3>3, <3>4, <3>5, <3>6 DEF Work
    <2>2. ASSUME NEW p \in Passes, LoadTasks(p) \/ LoadTimedOut(p) \/ Cancelled(p) \/ Crash(p)
          PROVE  Kept
      BY <2>2 DEF LoadTasks, LoadTimedOut, Cancelled, Crash
    <2>3. CASE ProviderEnds \/ TimeoutPasses
      BY <2>3 DEF ProviderEnds, TimeoutPasses
    <2>4. ASSUME NEW f \in Fetches,
                 \/ LoadTask(f) \/ FetchFails(f)
                 \/ \E status \in {"IN_PROGRESS"} \cup Terminal, full \in BOOLEAN :
                      TryRealtimeFetch(f, status, full)
          PROVE  FALSE
      BY <1>1, <2>4 DEF IInv, FetchShape, OnlyPolled, LoadTask, FetchFails, TryRealtimeFetch
    <2> QED
      BY <1>1, <2>1, <2>2, <2>3, <2>4 DEF Next
  <1>2. Inv /\ [Next]_vars => [OnlyPolled /\ world'.errors = world.errors => Kept]_vars
    BY <1>1 DEF Inv
  <1> QED
    BY <1>2, SpecInv, PTL DEF Spec, EndIsFinal

=============================================================================
