------------------------------- MODULE SystemTask -------------------------------
(***************************************************************************)
(* System tasks (model/system_task.go, service/system_task.go): background *)
(* work of one type that the master nodes schedule, claim and run under a  *)
(* lease.  The task rows and the lock row of the type are shared; a unique *)
(* active_key keeps a second active row of the type from being created.    *)
(*                                                                         *)
(* A runner does its passes in one goroutine (stale locks, schedule,       *)
(* claim) and every claimed task in a goroutine of its own, with a         *)
(* heartbeat.  Each SQL statement is one step, and may end in an error,    *)
(* written or not.  A restarted process has a new runner id.               *)
(***************************************************************************)
EXTENDS Integers

CONSTANTS
    Nodes,          \* master nodes
    MaxTasks,       \* bound on the task rows that are created
    MaxCrashes,     \* bound on the crashes of a node
    ClaimMayStall   \* TRUE when a runner may pause longer than the lease
                    \* between the statements of ClaimSystemTask

ASSUME SystemTaskAssumption ==
    /\ MaxTasks \in Nat /\ MaxCrashes \in Nat /\ ClaimMayStall \in BOOLEAN

VARIABLES
    task,   \* task[x]: status and locked_by of task row x
    lock,   \* the lock row of the type: task, owner, and whether it expired
    life,   \* life[n]: restarts of node n
    run,    \* run[n]: what the passes of node n are doing
    jobs,   \* the handlers under way, with the state of their context
    orphans \* rows that were claimed in a statement whose answer was lost

vars == <<task, lock, life, run, jobs, orphans>>

Tasks == 1..MaxTasks
Ids == Nodes \X (0..MaxCrashes)
NoId == <<"none", 0>>

NoLock == [task |-> 0, by |-> NoId, expired |-> FALSE]
Locks == [task : 0..MaxTasks, by : Ids \cup {NoId}, expired : BOOLEAN]

Statuses == {"absent", "pending", "running", "succeeded", "failed"}
Active == {"pending", "running"}

TypeOK ==
    /\ task \in [Tasks -> [status : Statuses, by : Ids \cup {NoId}]]
    /\ lock \in Locks
    /\ life \in [Nodes -> 0..MaxCrashes]
    /\ run \in [Nodes -> [pc : {"idle", "mark", "delete", "acquire", "old", "update"},
                          task : 0..MaxTasks, copy : Locks, sees : BOOLEAN]]
    /\ jobs \subseteq [by : Ids, task : Tasks, state : {"run", "cancelled", "release"}]
    /\ orphans \subseteq Tasks

-----------------------------------------------------------------------------
Idle == [pc |-> "idle", task |-> 0, copy |-> NoLock, sees |-> FALSE]

Init ==
    /\ task = [x \in Tasks |-> [status |-> "absent", by |-> NoId]]
    /\ lock = NoLock
    /\ life = [n \in Nodes |-> 0]
    /\ run = [n \in Nodes |-> Idle]
    /\ jobs = {}
    /\ orphans = {}

Id(n) == <<n, life[n]>>

Rest(n) == run' = [run EXCEPT ![n] = Idle]

(* The passes when the lock row becomes new.  A pass compares the end of   *)
(* the lease with a clock it read before: what it saw expire, it has not   *)
(* seen of a lock that was written since, which ends later.                *)
Seeing(new) == [m \in Nodes |-> [run[m] EXCEPT !.sees = @ /\ new = lock]]

Holds(id, x) == lock.task = x /\ lock.by = id /\ ~lock.expired

(* CreateSystemTask from runSystemTaskScheduler, EnqueueSystemTask or      *)
(* StartLogCleanupTask; the unique active_key refuses a second active row. *)
Schedule(x) ==
    /\ task[x].status = "absent"
    /\ \A y \in Tasks : y < x => task[y].status \in {"succeeded", "failed"}
    /\ task' = [task EXCEPT ![x].status = "pending"]
    /\ UNCHANGED <<lock, life, run, jobs, orphans>>

-----------------------------------------------------------------------------
(* ExpireStaleSystemTaskLocks *)

(* Faulty variant: a runner looks only for locks of its own. *)
FaultyFindStaleLock(n) ==
    /\ run[n].pc = "idle" /\ lock.task # 0 /\ lock.expired /\ lock.by = Id(n)
    /\ run' = [run EXCEPT ![n].pc = "mark", ![n].copy = lock, ![n].sees = TRUE]
    /\ UNCHANGED <<task, lock, life, jobs, orphans>>

FindStaleLock(n) ==
    /\ run[n].pc = "idle" /\ lock.task # 0 /\ lock.expired
    /\ run' = [run EXCEPT ![n].pc = "mark", ![n].copy = lock, ![n].sees = TRUE]
    /\ UNCHANGED <<task, lock, life, jobs, orphans>>

(* MarkSystemTaskLeaseExpired *)
Expired(x) ==
    IF task[x].status = "running" THEN [task EXCEPT ![x].status = "failed"] ELSE task

MarkLeaseExpired(n) ==
    /\ run[n].pc = "mark"
    /\ task' = Expired(run[n].copy.task)
    /\ run' = [run EXCEPT ![n].pc = "delete"]
    /\ UNCHANGED <<lock, life, jobs, orphans>>

(* Faulty variant: whatever lock there is, is deleted. *)
FaultySameLock(n) == lock.task # 0

SameLock(n) ==
    run[n].sees /\ lock.task = run[n].copy.task /\ lock.by = run[n].copy.by

DeleteStaleLock(n) ==
    /\ run[n].pc = "delete"
    /\ lock' = IF SameLock(n) THEN NoLock ELSE lock
    /\ run' = [Seeing(lock') EXCEPT ![n] = Idle]
    /\ UNCHANGED <<task, life, jobs, orphans>>

-----------------------------------------------------------------------------
(* ClaimSystemTask.  The clock is read before the row is. *)

FindPending(n, x) ==
    /\ run[n].pc = "idle" /\ task[x].status = "pending"
    /\ run' = [run EXCEPT ![n].pc = "acquire", ![n].task = x, ![n].sees = lock.expired]
    /\ UNCHANGED <<task, lock, life, jobs, orphans>>

(* acquireSystemTaskLock: there is no lock, or it had expired. *)
CanTake(n) == lock.task = 0 \/ (lock.expired /\ run[n].sees)

Taken(n) == [task |-> run[n].task, by |-> Id(n), expired |-> FALSE]

Acquire(n) ==
    /\ run[n].pc = "acquire"
    /\ IF CanTake(n)
         THEN /\ lock' = Taken(n)
              /\ run' = [Seeing(lock') EXCEPT
                          ![n] = [run[n] EXCEPT
                                    !.pc = IF lock.task \in {0, run[n].task}
                                             THEN "update" ELSE "old",
                                    !.copy = lock, !.sees = FALSE]]
         ELSE UNCHANGED lock /\ Rest(n)
    /\ UNCHANGED <<task, life, jobs, orphans>>

(* The lock is taken and the answer lost: the runner does not go on. *)
AcquireUnanswered(n) ==
    /\ run[n].pc = "acquire" /\ CanTake(n)
    /\ lock' = Taken(n)
    /\ run' = [Seeing(lock') EXCEPT ![n] = Idle]
    /\ UNCHANGED <<task, life, jobs, orphans>>

(* The task whose lease was taken over. *)
MarkOldLease(n) ==
    /\ run[n].pc = "old"
    /\ task' = Expired(run[n].copy.task)
    /\ run' = [run EXCEPT ![n].pc = "update"]
    /\ UNCHANGED <<lock, life, jobs, orphans>>

(* Faulty variant: the row is not checked again. *)
FaultyStillPending(x) == task[x].status # "absent"

StillPending(x) == task[x].status = "pending"

(* ReleaseSystemTaskLock *)
Released(id, x) == IF lock.task = x /\ lock.by = id THEN NoLock ELSE lock

(* ClaimSystemTask gives up: it releases the lock, and takes no notice     *)
(* when that fails.                                                        *)
GiveUp(n) ==
    /\ lock' \in {Released(Id(n), run[n].task), lock}
    /\ run' = [Seeing(lock') EXCEPT ![n] = Idle]

Claimed(n) == [task EXCEPT ![run[n].task] = [status |-> "running", by |-> Id(n)]]

UpdateToRunning(n) ==
    /\ run[n].pc = "update"
    /\ IF StillPending(run[n].task)
         THEN /\ task' = Claimed(n)
              /\ jobs' = jobs \cup {[by |-> Id(n), task |-> run[n].task, state |-> "run"]}
              /\ Rest(n)
              /\ UNCHANGED lock
         ELSE GiveUp(n) /\ UNCHANGED <<task, jobs>>
    /\ UNCHANGED <<life, orphans>>

(* The database fails while the lock is held: the row is not claimed ...   *)
ClaimFails(n) ==
    /\ run[n].pc \in {"old", "update"}
    /\ GiveUp(n)
    /\ UNCHANGED <<task, life, jobs, orphans>>

(* ... or it is claimed and the answer lost.  The runner releases the lock *)
(* of a row that is running, and nothing will find the row any more.       *)
ClaimUnanswered(n) ==
    /\ run[n].pc = "update" /\ StillPending(run[n].task)
    /\ task' = Claimed(n)
    /\ orphans' = orphans \cup {run[n].task}
    /\ GiveUp(n)
    /\ UNCHANGED <<life, jobs>>

(* The claimed row cannot be read again: it stays running, under the lock  *)
(* and without a handler, until the lease runs out.                        *)
ReloadFails(n) ==
    /\ run[n].pc = "update" /\ StillPending(run[n].task)
    /\ task' = Claimed(n)
    /\ Rest(n)
    /\ UNCHANGED <<lock, life, jobs, orphans>>

(* The cleanup of stale locks, or the claim, ends in an error before it    *)
(* holds a lock.                                                           *)
PassFails(n) ==
    /\ run[n].pc \in {"mark", "delete", "acquire"}
    /\ Rest(n)
    /\ UNCHANGED <<task, lock, life, jobs, orphans>>

-----------------------------------------------------------------------------
(* The handler of a claimed task. *)

(* Faulty variant: the lease is not asked for. *)
FaultyMayFinish(j) == task[j.task].status = "running" /\ task[j.task].by = j.by

(* FinishSystemTask: the row is running, and the lease is still held. *)
MayFinish(j) ==
    task[j.task].status = "running" /\ task[j.task].by = j.by /\ Holds(j.by, j.task)

(* The handler ends, by itself or because its context was cancelled. *)
Finish(j, status) ==
    /\ j.state \in {"run", "cancelled"}
    /\ IF MayFinish(j)
         THEN /\ task' = [task EXCEPT ![j.task].status = status]
              /\ jobs' = (jobs \ {j}) \cup {[j EXCEPT !.state = "release"]}
         ELSE /\ jobs' = jobs \ {j}
              /\ UNCHANGED task
    /\ UNCHANGED <<lock, life, run, orphans>>

ReleaseLock(j) ==
    /\ j.state = "release"
    /\ lock' = Released(j.by, j.task)
    /\ jobs' = jobs \ {j}
    /\ run' = Seeing(lock')
    /\ UNCHANGED <<task, life, orphans>>

(* One of the two statements fails, which is only logged. *)
FinishFails(j) ==
    /\ jobs' = jobs \ {j}
    /\ UNCHANGED <<task, lock, life, run, orphans>>

(* runWithLeaseHeartbeat: a renewal that fails cancels the context.  One   *)
(* that succeeds keeps the lock from expiring.                             *)
HeartbeatLost(j) ==
    /\ j.state = "run" /\ ~Holds(j.by, j.task)
    /\ jobs' = (jobs \ {j}) \cup {[j EXCEPT !.state = "cancelled"]}
    /\ UNCHANGED <<task, lock, life, run, orphans>>

Claiming(n) == run[n].pc \in {"old", "update"} /\ lock.by = Id(n)

(* The lease is not renewed in time: the process stopped, or paused, or    *)
(* its database calls failed.                                              *)
LeaseExpires ==
    /\ lock.task # 0 /\ ~lock.expired
    /\ ClaimMayStall \/ ~ \E n \in Nodes : Claiming(n)
    /\ lock' = [lock EXCEPT !.expired = TRUE]
    /\ UNCHANGED <<task, life, run, jobs, orphans>>

(* The process stops and is started again. *)
Crash(n) ==
    /\ life[n] < MaxCrashes
    /\ life' = [life EXCEPT ![n] = @ + 1]
    /\ run' = [run EXCEPT ![n] = Idle]
    /\ jobs' = {j \in jobs : j.by # Id(n)}
    /\ UNCHANGED <<task, lock, orphans>>

-----------------------------------------------------------------------------
Pass(n) ==
    \/ FindStaleLock(n) \/ MarkLeaseExpired(n) \/ DeleteStaleLock(n)
    \/ \E x \in Tasks : FindPending(n, x)
    \/ Acquire(n) \/ MarkOldLease(n) \/ UpdateToRunning(n)

Handler(j) ==
    \/ \E status \in {"succeeded", "failed"} : Finish(j, status)
    \/ ReleaseLock(j) \/ FinishFails(j) \/ HeartbeatLost(j)

Next ==
    \/ \E x \in Tasks : Schedule(x)
    \/ \E n \in Nodes :
         \/ Pass(n) \/ PassFails(n) \/ AcquireUnanswered(n)
         \/ ClaimFails(n) \/ ClaimUnanswered(n) \/ ReloadFails(n) \/ Crash(n)
    \/ \E j \in jobs : Handler(j)
    \/ LeaseExpires

Spec == Init /\ [][Next]_vars

(* The lease of an owner that is gone runs out. *)
Abandoned ==
    /\ \A j \in jobs : j.by # lock.by \/ j.task # lock.task
    /\ ~ \E n \in Nodes : Claiming(n)

(* Every runner repeats its passes, in turn for stale locks and for        *)
(* pending rows; no statement fails on all of them every time; handlers    *)
(* return.                                                                 *)
FairSpec ==
    /\ Spec
    /\ \A n \in Nodes : WF_vars(Pass(n))
    /\ SF_vars(\E n \in Nodes : FindStaleLock(n))
    /\ SF_vars(\E n \in Nodes : MarkLeaseExpired(n))
    /\ SF_vars(\E n \in Nodes : DeleteStaleLock(n))
    /\ SF_vars(\E n \in Nodes, x \in Tasks : FindPending(n, x))
    /\ SF_vars(\E n \in Nodes : Acquire(n) /\ CanTake(n))
    /\ SF_vars(\E n \in Nodes : UpdateToRunning(n))
    /\ WF_vars(\E j \in jobs : Handler(j))
    /\ WF_vars(LeaseExpires /\ Abandoned)

-----------------------------------------------------------------------------
(* No two runners execute the same task, through expired leases, taken     *)
(* over locks and restarts.                                                *)
OneHandlerPerTask ==
    \A j, k \in jobs : j.task = k.task => j = k

(* A running row has the lock of its type, which is what the cleanup of    *)
(* stale locks goes by: no row stays running, and keeps its type blocked,  *)
(* after its runner is gone.  Unless the answer to its claim was lost, or  *)
(* a runner paused between claiming the lock and the row for longer than   *)
(* the lease.                                                              *)
RunningIsLocked ==
    ClaimMayStall \/ \A x \in Tasks :
      task[x].status = "running" => lock.task = x \/ x \in orphans

(* A task succeeds at most once and only through a handler that held its   *)
(* lease when it said so; its end is final.                                *)
EndIsFinal ==
    [][\A x \in Tasks :
         /\ task[x].status \in {"succeeded", "failed"} => task'[x] = task[x]
         /\ task[x].status = "pending" => task'[x].status \in Active
         /\ task[x].status = "running" /\ task'[x].status = "succeeded"
              => Holds(task[x].by, x)]_vars

(* Every task ends, so its type is scheduled again: no crash, no lost      *)
(* lease and no failed statement leaves a row pending or running, but for  *)
(* a claim whose answer was lost.                                          *)
TaskEnds ==
    \A x \in Tasks :
      task[x].status \in Active ~> task[x].status \in {"succeeded", "failed"} \/ x \in orphans
=============================================================================
