--------------------------- MODULE SystemTaskProofs ---------------------------
(***************************************************************************)
(* Proofs about SystemTask for any number of nodes, tasks and crashes: one *)
(* handler per task, a lock for every running row, and final ends.         *)
(***************************************************************************)
EXTENDS SystemTask, TLAPS

Ended == {"succeeded", "failed"}

(* No row is running, but for those whose claim was not answered. *)
Quiet == \A x \in Tasks : task[x].status = "running" => x \in orphans

(* The active_key: rows are created one after the other. *)
Ordered ==
    \A x, y \in Tasks : task[x].status # "absent" /\ y < x => task[y].status \in Ended

(* Runner ids that have been in use. *)
Past(id) == id \in Ids /\ id[2] <= life[id[1]]

(* What a lock or a pass refers to has been created. *)
Known ==
    /\ lock.task # 0 => task[lock.task].status # "absent" /\ Past(lock.by)
    /\ lock.task = 0 => ~lock.expired
    /\ \A n \in Nodes :
         /\ run[n].pc \in {"acquire", "old", "update"} =>
              run[n].task \in Tasks /\ task[run[n].task].status # "absent"
         /\ run[n].pc \in {"mark", "delete"} =>
              /\ run[n].copy.task \in Tasks /\ task[run[n].copy.task].status # "absent"
              /\ Past(run[n].copy.by)
         /\ run[n].pc = "old" => run[n].copy.task \in Tasks
         /\ run[n].sees => run[n].pc \in {"mark", "delete", "acquire"}

(* Rows with a handler have been claimed, and a pass never has a handler   *)
(* of the row it is claiming.                                              *)
JobShape ==
    /\ OneHandlerPerTask
    /\ \A j \in jobs :
         /\ task[j.task].status \notin {"absent", "pending"}
         /\ j.state = "release" => task[j.task].status \in Ended
         /\ \A n \in Nodes : run[n].pc \in {"acquire", "old", "update"}
                               => j.by # Id(n) \/ j.task # run[n].task

(* A runner that claims a task has an unexpired lock, and nothing runs. *)
ClaimShape ==
    \A n \in Nodes : run[n].pc \in {"old", "update"} =>
        lock.task = run[n].task /\ lock.by = Id(n) /\ ~lock.expired /\ Quiet

(* A lock that a pass saw expire is still the one it saw, and nothing runs *)
(* once its row was marked, or when the pass saw another row pending.      *)
SeenShape ==
    \A n \in Nodes : run[n].sees =>
        /\ lock.expired
        /\ run[n].pc \in {"mark", "delete"} =>
             lock.task = run[n].copy.task /\ lock.by = run[n].copy.by
        /\ run[n].pc \in {"delete", "acquire"} => Quiet

LockShape == RunningIsLocked /\ ClaimShape /\ SeenShape

IInv == TypeOK /\ Ordered /\ Known /\ JobShape /\ (ClaimMayStall \/ LockShape)

RunRecs ==
    [pc : {"idle", "mark", "delete", "acquire", "old", "update"},
     task : 0..MaxTasks, copy : Locks, sees : BOOLEAN]

-----------------------------------------------------------------------------
LEMMA IdFacts ==
    ASSUME TypeOK
    PROVE  /\ \A n \in Nodes : Id(n) \in Ids /\ Past(Id(n))
           /\ \A n, m \in Nodes : Id(n) = Id(m) => n = m
  BY SystemTaskAssumption DEF TypeOK, Id, Ids, Past

LEMMA RecFacts ==
    /\ Idle \in RunRecs /\ Idle.pc = "idle" /\ ~Idle.sees
    /\ NoLock \in Locks /\ NoLock.task = 0 /\ ~NoLock.expired
  BY SystemTaskAssumption DEF Idle, NoLock, RunRecs, Locks

LEMMA SeeingFacts ==
    ASSUME TypeOK, NEW new \in Locks
    PROVE  /\ Seeing(new) \in [Nodes -> RunRecs]
           /\ \A m \in Nodes :
                /\ Seeing(new)[m].pc = run[m].pc /\ Seeing(new)[m].task = run[m].task
                /\ Seeing(new)[m].copy = run[m].copy
                /\ Seeing(new)[m].sees => run[m].sees /\ new = lock
  <1> DEFINE r(m) == [run[m] EXCEPT !.sees = @ /\ new = lock]
  <1>1. ASSUME NEW m \in Nodes
        PROVE  /\ r(m) \in RunRecs /\ r(m).pc = run[m].pc /\ r(m).task = run[m].task
               /\ r(m).copy = run[m].copy /\ (r(m).sees => run[m].sees /\ new = lock)
    <2>1. run[m] \in RunRecs
      BY DEF TypeOK, RunRecs
    <2>2. CASE run[m].sees /\ new = lock
      <3>1. r(m) = [run[m] EXCEPT !.sees = TRUE]
        BY <2>1, <2>2 DEF RunRecs
      <3> QED
        BY <2>1, <2>2, <3>1 DEF RunRecs
    <2>3. CASE ~(run[m].sees /\ new = lock)
      <3>1. r(m) = [run[m] EXCEPT !.sees = FALSE]
        BY <2>1, <2>3 DEF RunRecs
      <3> QED
        BY <2>1, <3>1 DEF RunRecs
    <2> QED
      BY <2>2, <2>3
  <1>2. Seeing(new) = [m \in Nodes |-> r(m)]
    BY DEF Seeing
  <1> HIDE DEF r
  <1> QED
    BY <1>1, <1>2

LEMMA InitIInv == Init => IInv
  <1> SUFFICES ASSUME Init PROVE IInv
    OBVIOUS
  <1> USE DEF Init
  <1>1. TypeOK
    BY SystemTaskAssumption, RecFacts DEF TypeOK, RunRecs, Statuses
  <1>2. Ordered /\ Known /\ JobShape
    BY RecFacts DEF Ordered, Known, JobShape, OneHandlerPerTask
  <1>3. LockShape
    BY RecFacts DEF LockShape, RunningIsLocked, ClaimShape, SeenShape
  <1> QED
    BY <1>1, <1>2, <1>3 DEF IInv

(* A step of a pass of n that leaves rows, lock and handlers alone. *)
LEMMA PassIInv ==
    ASSUME IInv, NEW n \in Nodes, NEW r \in RunRecs, run' = [run EXCEPT ![n] = r],
           UNCHANGED <<task, lock, life, jobs, orphans>>, run[n].pc \notin {"old", "update"},
           \/ r.pc = "idle" /\ ~r.sees
           \/ /\ r.pc = "mark" /\ r.copy = lock /\ lock.task # 0 /\ lock.expired
           \/ /\ r.pc = "acquire" /\ r.task \in Tasks /\ task[r.task].status = "pending"
              /\ r.sees = lock.expired
    PROVE  IInv'
  <1> USE DEF IInv
  <1>1. run'[n] = r /\ \A m \in Nodes : m # n => run'[m] = run[m]
    BY DEF TypeOK
  <1>2. TypeOK'
    BY DEF TypeOK, RunRecs
  <1>3. Ordered' /\ \A m \in Nodes : Id(m)' = Id(m)
    BY DEF Ordered, Id
  <1>4. \A id : Past(id)' <=> Past(id)
    BY DEF Past
  <1>5. lock.task # 0 => lock.task \in Tasks
    BY DEF TypeOK, Locks, Tasks
  <1>6. Known'
    BY <1>1, <1>4, <1>5 DEF Known
  <1>7. JobShape'
    BY <1>1, <1>3 DEF JobShape, OneHandlerPerTask
  <1>8. ASSUME LockShape PROVE LockShape'
    <2> USE <1>8 DEF LockShape
    <2>1. RunningIsLocked' /\ (Quiet' <=> Quiet)
      BY DEF RunningIsLocked, Quiet
    <2>2. r.pc = "acquire" => Quiet
      <3> SUFFICES ASSUME r.pc = "acquire", NEW x \in Tasks, task[x].status = "running"
                   PROVE  FALSE
        BY DEF Quiet
      <3>1. r.task \in Tasks /\ task[r.task].status = "pending"
        OBVIOUS
      <3>2. x < r.task \/ r.task < x
        BY <3>1 DEF Tasks
      <3> QED
        BY <3>1, <3>2 DEF Ordered, Ended
    <2>3. ClaimShape' /\ SeenShape'
      BY <1>1, <1>3, <2>1, <2>2 DEF ClaimShape, SeenShape
    <2> QED
      BY <2>1, <2>3
  <1> QED
    BY <1>2, <1>3, <1>6, <1>7, <1>8

(* Rows end; a pass may go on after marking one. *)
LEMMA EndIInv ==
    ASSUME IInv, task' \in [Tasks -> [status : Statuses, by : Ids \cup {NoId}]],
           \A x \in Tasks : task'[x].status = task[x].status
                            \/ (task[x].status = "running" /\ task'[x].status \in Ended),
           UNCHANGED <<lock, life, orphans>>,
           \/ run' = run /\ \E j \in jobs : \E s \in {"release", "cancelled", "run"} :
                /\ s = "release" => task'[j.task].status \in Ended
                /\ jobs' = jobs \ {j} \/ jobs' = (jobs \ {j}) \cup {[j EXCEPT !.state = s]}
           \/ /\ jobs' = jobs
              /\ \E n \in Nodes :
                   \/ /\ run[n].pc = "mark" /\ run' = [run EXCEPT ![n].pc = "delete"]
                      /\ task'[run[n].copy.task].status # "running"
                   \/ run[n].pc = "old" /\ run' = [run EXCEPT ![n].pc = "update"]
    PROVE  IInv'
  <1> USE DEF IInv
  <1>1. TypeOK'
    <2>1. run' \in [Nodes -> RunRecs]
      <3>1. run \in [Nodes -> RunRecs]
        BY DEF TypeOK, RunRecs
      <3>2. ASSUME NEW n \in Nodes, NEW pc \in {"delete", "update"}, run' = [run EXCEPT ![n].pc = pc]
            PROVE  run' \in [Nodes -> RunRecs]
        BY <3>1, <3>2 DEF RunRecs
      <3> QED
        BY <3>1, <3>2
    <2>2. jobs' \subseteq [by : Ids, task : Tasks, state : {"run", "cancelled", "release"}]
      <3>1. ASSUME NEW j \in jobs, NEW s \in {"release", "cancelled", "run"}
            PROVE  [j EXCEPT !.state = s]
                     \in [by : Ids, task : Tasks, state : {"run", "cancelled", "release"}]
        BY DEF TypeOK
      <3>2. CASE jobs' = jobs
        BY <3>2 DEF TypeOK
      <3>3. ASSUME NEW j \in jobs, NEW s \in {"release", "cancelled", "run"},
                   jobs' = jobs \ {j} \/ jobs' = (jobs \ {j}) \cup {[j EXCEPT !.state = s]}
            PROVE  jobs' \subseteq [by : Ids, task : Tasks, state : {"run", "cancelled", "release"}]
        <4>1. CASE jobs' = jobs \ {j}
          BY <4>1 DEF TypeOK
        <4>2. CASE jobs' = (jobs \ {j}) \cup {[j EXCEPT !.state = s]}
          <5> DEFINE k == [j EXCEPT !.state = s]
          <5>1. k \in [by : Ids, task : Tasks, state : {"run", "cancelled", "release"}]
            BY <3>1
          <5>2. jobs' = (jobs \ {j}) \cup {k}
            BY <4>2
          <5> HIDE DEF k
          <5> QED
            BY <5>1, <5>2 DEF TypeOK
        <4> QED
          BY <3>3, <4>1, <4>2
      <3> QED
        BY <3>2, <3>3
    <2> QED
      BY <2>1, <2>2 DEF TypeOK, RunRecs
  <1>2. \A m \in Nodes :
          /\ run'[m].task = run[m].task /\ run'[m].copy = run[m].copy /\ run'[m].sees = run[m].sees
          /\ \/ run'[m].pc = run[m].pc
             \/ /\ run[m].pc = "mark" /\ run'[m].pc = "delete"
                /\ task'[run[m].copy.task].status # "running"
             \/ run[m].pc = "old" /\ run'[m].pc = "update"
    <2>1. run \in [Nodes -> RunRecs]
      BY DEF TypeOK, RunRecs
    <2>2. CASE run' = run
      BY <2>2
    <2>3. CASE run' # run
      <3>1. PICK n \in Nodes :
              \/ /\ run[n].pc = "mark" /\ run' = [run EXCEPT ![n].pc = "delete"]
                 /\ task'[run[n].copy.task].status # "running"
              \/ run[n].pc = "old" /\ run' = [run EXCEPT ![n].pc = "update"]
        BY <2>3
      <3>2. \A m \in Nodes : m # n => run'[m] = run[m]
        BY <2>1, <3>1
      <3>3. /\ run'[n].task = run[n].task /\ run'[n].copy = run[n].copy
            /\ run'[n].sees = run[n].sees
        BY <2>1, <3>1 DEF RunRecs
      <3>4. /\ run[n].pc = "mark" => run'[n].pc = "delete"
            /\ run[n].pc = "old" => run'[n].pc = "update"
        BY <2>1, <3>1 DEF RunRecs
      <3> QED
        BY <3>1, <3>2, <3>3, <3>4
    <2> QED
      BY <2>2, <2>3
  <1>3. \A m \in Nodes : Id(m)' = Id(m)
    BY DEF Id
  <1>4. \A id : Past(id)' <=> Past(id)
    BY DEF Past
  <1>5. Ordered'
    BY DEF Ordered, Ended
  <1>6. lock.task # 0 => lock.task \in Tasks
    BY DEF TypeOK, Locks, Tasks
  <1>7. Known'
    <2>1. \A x \in Tasks : task[x].status # "absent" => task'[x].status # "absent"
      BY DEF Ended
    <2>2. \A m \in Nodes : run'[m].pc \in {"acquire", "old", "update"} =>
            run[m].pc \in {"acquire", "old", "update"}
      BY <1>2
    <2>3. \A m \in Nodes : run'[m].pc \in {"mark", "delete"} =>
            run[m].pc \in {"mark", "delete"}
      BY <1>2
    <2>4. \A m \in Nodes : run'[m].pc \in {"acquire", "old", "update"} =>
            run'[m].task \in Tasks /\ task'[run'[m].task].status # "absent"
      BY <1>2, <2>1, <2>2 DEF Known
    <2>5. \A m \in Nodes : run'[m].pc \in {"mark", "delete"} =>
            /\ run'[m].copy.task \in Tasks /\ task'[run'[m].copy.task].status # "absent"
            /\ Past(run[m].copy.by)'
      BY <1>2, <1>4, <2>1, <2>3 DEF Known
    <2>6. \A m \in Nodes : /\ run'[m].pc = "old" => run'[m].copy.task \in Tasks
                           /\ run'[m].sees => run'[m].pc \in {"mark", "delete", "acquire"}
      BY <1>2 DEF Known
    <2>7. /\ lock'.task # 0 => task'[lock'.task].status # "absent" /\ Past(lock.by)'
          /\ lock'.task = 0 => ~lock'.expired
      BY <1>4, <1>6, <2>1 DEF Known
    <2> QED
      BY <2>4, <2>5, <2>6, <2>7 DEF Known
  <1>8. \A j \in jobs' : \E k \in jobs : /\ k.by = j.by /\ k.task = j.task /\ k.task \in Tasks
                                         /\ j.state = k.state
                                            \/ (j.state = "release" => task'[j.task].status \in Ended)
    BY DEF TypeOK
  <1>9. OneHandlerPerTask'
    <2>1. CASE jobs' = jobs
      BY <2>1 DEF JobShape, OneHandlerPerTask
    <2>2. ASSUME NEW j \in jobs, jobs' = jobs \ {j} PROVE OneHandlerPerTask'
      BY <2>2 DEF JobShape, OneHandlerPerTask
    <2>3. ASSUME NEW j \in jobs, NEW s, jobs' = (jobs \ {j}) \cup {[j EXCEPT !.state = s]}
          PROVE  OneHandlerPerTask'
      <3> DEFINE k == [j EXCEPT !.state = s]
      <3>1. k.task = j.task
        BY DEF TypeOK
      <3> HIDE DEF k
      <3>2. jobs' = (jobs \ {j}) \cup {k}
        BY <2>3 DEF k
      <3> QED
        BY <3>1, <3>2 DEF JobShape, OneHandlerPerTask
    <2> QED
      BY <2>1, <2>2, <2>3
  <1>10. JobShape'
    BY <1>2, <1>3, <1>8, <1>9 DEF JobShape, Ended
  <1>11. ASSUME LockShape, ~ClaimMayStall PROVE LockShape'
    <2> USE <1>11 DEF LockShape
    <2>1. RunningIsLocked' /\ (Quiet => Quiet')
      BY DEF RunningIsLocked, Quiet, Ended
    <2>2. ClaimShape'
      BY <1>2, <1>3, <2>1 DEF ClaimShape
    <2>3. SeenShape'
      <3> SUFFICES ASSUME NEW m \in Nodes, run'[m].sees
                   PROVE  /\ lock'.expired
                          /\ run'[m].pc \in {"mark", "delete"} =>
                               lock'.task = run'[m].copy.task /\ lock'.by = run'[m].copy.by
                          /\ run'[m].pc \in {"delete", "acquire"} => Quiet'
        BY DEF SeenShape
      <3>1. CASE run'[m].pc = run[m].pc
        BY <1>2, <2>1, <3>1 DEF SeenShape
      <3>2. CASE /\ run[m].pc = "mark" /\ run'[m].pc = "delete"
                 /\ task'[run[m].copy.task].status # "running"
        <4>1. lock.task = run[m].copy.task /\ lock.by = run[m].copy.by /\ lock.expired
          BY <1>2, <3>2 DEF SeenShape
        <4>2. Quiet'
          BY <3>2, <4>1 DEF RunningIsLocked, Quiet, Ended
        <4> QED
          BY <1>2, <3>2, <4>1, <4>2
      <3>3. CASE run[m].pc = "old" /\ run'[m].pc = "update"
        BY <1>2, <3>3 DEF Known
      <3> QED
        BY <1>2, <3>1, <3>2, <3>3
    <2> QED
      BY <2>1, <2>2, <2>3
  <1> QED
    BY <1>1, <1>5, <1>7, <1>10, <1>11

(* The lock is deleted: by the pass that found it stale, by the runner     *)
(* that found its row gone, or by the handler that ended its row.          *)
LEMMA UnlockIInv ==
    ASSUME IInv, UNCHANGED <<task, life, orphans>>, jobs' \subseteq jobs,
           lock' = NoLock \/ lock' = lock,
           lock' = NoLock /\ ~ClaimMayStall =>
             /\ Quiet
             /\ \A m \in Nodes : run'[m].pc \in {"old", "update"} =>
                  lock.task # run'[m].task \/ lock.by # Id(m) \/ lock.expired,
           run' \in [Nodes -> RunRecs],
           \A m \in Nodes : \/ run'[m].pc = "idle" /\ ~run'[m].sees
                            \/ /\ run'[m].pc = run[m].pc /\ run'[m].task = run[m].task
                               /\ run'[m].copy = run[m].copy
                               /\ ~run'[m].sees \/ (run[m].sees /\ lock' = lock)
    PROVE  IInv'
  <1> USE RecFacts DEF IInv
  <1>1. TypeOK'
    BY DEF TypeOK, RunRecs
  <1>2. \A m \in Nodes : Id(m)' = Id(m)
    BY DEF Id
  <1>3. \A id : Past(id)' <=> Past(id)
    BY DEF Past
  <1>4. Ordered' /\ (Quiet' <=> Quiet)
    BY DEF Ordered, Quiet
  <1>5. Known'
    BY <1>3 DEF Known
  <1>6. JobShape'
    BY <1>2 DEF JobShape, OneHandlerPerTask
  <1>7. ASSUME LockShape, ~ClaimMayStall PROVE LockShape'
    <2> USE <1>7 DEF LockShape
    <2>1. RunningIsLocked'
      BY DEF RunningIsLocked, Quiet
    <2>2. ClaimShape'
      BY <1>2, <1>4 DEF ClaimShape
    <2>3. SeenShape'
      BY <1>4 DEF SeenShape
    <2> QED
      BY <2>1, <2>2, <2>3
  <1> QED
    BY <1>1, <1>4, <1>5, <1>6, <1>7

-----------------------------------------------------------------------------
LEMMA ScheduleIInv ==
    ASSUME IInv, NEW x \in Tasks, Schedule(x)
    PROVE  IInv'
  <1> USE DEF IInv
  <1>1. /\ task[x].status = "absent" /\ UNCHANGED <<lock, life, run, jobs, orphans>>
        /\ task' = [task EXCEPT ![x].status = "pending"]
        /\ \A y \in Tasks : y < x => task[y].status \in Ended
    BY DEF Schedule, Ended
  <1>2. TypeOK'
    BY <1>1 DEF TypeOK, Statuses
  <1>3. task'[x].status = "pending" /\ \A y \in Tasks : y # x => task'[y] = task[y]
    BY <1>1 DEF TypeOK
  <1>4. \A y \in Tasks : x < y => task[y].status = "absent"
    BY <1>1 DEF Ordered, Ended
  <1>5. Ordered'
    <2> SUFFICES ASSUME NEW y \in Tasks, NEW z \in Tasks,
                        task'[y].status # "absent", z < y
                 PROVE  task'[z].status \in Ended
      BY DEF Ordered
    <2>1. y < x \/ y = x \/ x < y
      BY DEF Tasks
    <2>2. ~(x < y)
      BY <1>3, <1>4 DEF Tasks
    <2>3. z < x
      BY <2>1, <2>2 DEF Tasks
    <2> QED
      BY <1>1, <1>3, <2>3 DEF Tasks
  <1>6. lock.task # 0 => lock.task \in Tasks /\ lock.task # x
    BY <1>1 DEF TypeOK, Locks, Tasks, Known
  <1>7. (\A m \in Nodes : Id(m)' = Id(m)) /\ (\A id : Past(id)' <=> Past(id))
    BY <1>1 DEF Id, Past
  <1>8. Known'
    BY <1>1, <1>3, <1>6, <1>7 DEF Known
  <1>9. JobShape'
    BY <1>1, <1>3, <1>7 DEF JobShape, OneHandlerPerTask, TypeOK
  <1>10. ASSUME LockShape PROVE LockShape'
    <2> USE <1>10 DEF LockShape
    <2>1. RunningIsLocked' /\ (Quiet => Quiet')
      BY <1>1, <1>3 DEF RunningIsLocked, Quiet
    <2>2. ClaimShape' /\ SeenShape'
      BY <1>1, <1>7, <2>1 DEF ClaimShape, SeenShape
    <2> QED
      BY <2>1, <2>2
  <1> QED
    BY <1>2, <1>5, <1>8, <1>9, <1>10

LEMMA LeaseIInv ==
    ASSUME IInv, LeaseExpires
    PROVE  IInv'
  <1> USE DEF IInv
  <1>1. /\ lock.task # 0 /\ ~lock.expired /\ lock' = [lock EXCEPT !.expired = TRUE]
        /\ ClaimMayStall \/ ~ \E n \in Nodes : Claiming(n)
        /\ UNCHANGED <<task, life, run, jobs, orphans>>
    BY DEF LeaseExpires
  <1>2. lock' \in Locks /\ lock'.task = lock.task /\ lock'.by = lock.by /\ lock'.expired
    BY <1>1 DEF TypeOK, Locks
  <1>3. TypeOK' /\ Ordered'
    BY <1>1, <1>2 DEF TypeOK, Ordered
  <1>4. /\ \A m \in Nodes : Id(m)' = Id(m)
        /\ \A id : Past(id)' <=> Past(id)
        /\ Quiet' <=> Quiet
    BY <1>1 DEF Id, Past, Quiet
  <1>5. Known'
    BY <1>1, <1>2, <1>4 DEF Known
  <1>6. JobShape'
    BY <1>1, <1>4 DEF JobShape, OneHandlerPerTask
  <1>7. ASSUME LockShape, ~ClaimMayStall PROVE LockShape'
    <2> USE <1>7 DEF LockShape
    <2>1. \A n \in Nodes : run[n].pc \notin {"old", "update"}
      BY <1>1 DEF Claiming, ClaimShape
    <2>2. RunningIsLocked' /\ ClaimShape'
      BY <1>1, <1>2, <1>4, <2>1 DEF RunningIsLocked, ClaimShape
    <2>3. SeenShape'
      BY <1>1, <1>2, <1>4 DEF SeenShape
    <2> QED
      BY <2>2, <2>3
  <1> QED
    BY <1>3, <1>5, <1>6, <1>7

(* A restarted process has an id that nothing refers to. *)
LEMMA CrashIInv ==
    ASSUME IInv, NEW n \in Nodes, Crash(n)
    PROVE  IInv'
  <1> USE DEF IInv
  <1>1. /\ life[n] < MaxCrashes /\ life' = [life EXCEPT ![n] = @ + 1]
        /\ run' = [run EXCEPT ![n] = Idle] /\ jobs' \subseteq jobs
        /\ UNCHANGED <<task, lock, orphans>>
    BY DEF Crash
  <1>2. life' \in [Nodes -> 0..MaxCrashes]
    BY <1>1, SystemTaskAssumption DEF TypeOK
  <1>3. TypeOK' /\ Ordered' /\ (Quiet' <=> Quiet)
    BY <1>1, <1>2, RecFacts DEF TypeOK, RunRecs, Ordered, Quiet
  <1>4. run'[n] = Idle /\ \A m \in Nodes : m # n => run'[m] = run[m]
    BY <1>1 DEF TypeOK
  <1>5. \A m \in Nodes : m # n => Id(m)' = Id(m)
    BY <1>1 DEF Id, TypeOK
  <1>6. \A id : Past(id) => Past(id)' /\ id # Id(n)'
    BY <1>1, SystemTaskAssumption DEF Past, Id, Ids, TypeOK
  <1>7. Known'
    BY <1>1, <1>4, <1>6, RecFacts DEF Known
  <1>8. JobShape'
    BY <1>1, <1>4, <1>5, RecFacts DEF JobShape, OneHandlerPerTask
  <1>9. ASSUME LockShape PROVE LockShape'
    <2> USE <1>9 DEF LockShape
    <2>1. RunningIsLocked' /\ ClaimShape'
      BY <1>1, <1>3, <1>4, <1>5, RecFacts DEF RunningIsLocked, ClaimShape
    <2>2. SeenShape'
      BY <1>1, <1>3, <1>4, RecFacts DEF SeenShape
    <2> QED
      BY <2>1, <2>2
  <1> QED
    BY <1>3, <1>7, <1>8, <1>9

(* The lock is taken: it was free, or seen to have expired by a runner to  *)
(* whom the row was pending, so that nothing runs.                         *)
LEMMA AcquireIInv ==
    ASSUME IInv, NEW n \in Nodes, Acquire(n) \/ AcquireUnanswered(n), CanTake(n)
    PROVE  IInv'
  <1> USE DEF IInv
  <1> DEFINE r == [run[n] EXCEPT !.pc = IF lock.task \in {0, run[n].task}
                                           THEN "update" ELSE "old",
                                 !.copy = lock, !.sees = FALSE]
  <1>1. /\ run[n].pc = "acquire" /\ UNCHANGED <<task, life, jobs, orphans>>
        /\ lock' = Taken(n)
        /\ \/ run' = [Seeing(lock') EXCEPT ![n] = r]
           \/ run' = [Seeing(lock') EXCEPT ![n] = Idle]
    BY DEF Acquire, AcquireUnanswered
  <1>2. run[n].task \in Tasks /\ task[run[n].task].status # "absent"
    BY <1>1 DEF Known
  <1>3. Id(n) \in Ids /\ Past(Id(n)) /\ \A m \in Nodes : Id(m) = Id(n) => m = n
    BY IdFacts
  <1>4. /\ lock' \in Locks /\ lock'.task = run[n].task /\ lock'.by = Id(n) /\ ~lock'.expired
    BY <1>1, <1>2, <1>3 DEF Locks, Tasks, Taken
  <1>5. /\ run' \in [Nodes -> RunRecs] /\ ~run'[n].sees
        /\ \/ run'[n].pc = "idle"
           \/ run'[n].pc \in {"old", "update"} /\ run'[n].task = run[n].task
        /\ run'[n].pc = "old" => run'[n].copy.task \in Tasks
        /\ \A m \in Nodes : m # n => /\ run'[m].pc = run[m].pc /\ run'[m].task = run[m].task
                                     /\ run'[m].copy = run[m].copy
                                     /\ run'[m].sees => run[m].sees /\ lock' = lock
    <2>1. PICK S \in [Nodes -> RunRecs] :
            /\ S = Seeing(lock')
            /\ \A m \in Nodes : /\ S[m].pc = run[m].pc /\ S[m].task = run[m].task
                                /\ S[m].copy = run[m].copy
                                /\ S[m].sees => run[m].sees /\ lock' = lock
      BY <1>4, SeeingFacts
    <2>2. /\ r \in RunRecs /\ r.pc \in {"old", "update"} /\ r.task = run[n].task
          /\ r.copy = lock /\ ~r.sees
          /\ r.pc = "old" => lock.task # 0
      BY DEF TypeOK, RunRecs
    <2>3. lock.task # 0 => lock.task \in Tasks
      BY DEF TypeOK, Locks, Tasks
    <2> HIDE DEF r
    <2>4. CASE run' = [S EXCEPT ![n] = r]
      BY <2>1, <2>2, <2>3, <2>4
    <2>5. CASE run' = [S EXCEPT ![n] = Idle]
      BY <2>1, <2>5, RecFacts
    <2> QED
      BY <1>1, <2>1, <2>4, <2>5
  <1> HIDE DEF r
  <1>6. TypeOK' /\ Ordered'
    BY <1>1, <1>4, <1>5 DEF TypeOK, RunRecs, Ordered
  <1>7. /\ \A m \in Nodes : Id(m)' = Id(m)
        /\ \A id : Past(id)' <=> Past(id)
        /\ Quiet' <=> Quiet
    BY <1>1 DEF Id, Past, Quiet
  <1>8. Known'
    BY <1>1, <1>2, <1>3, <1>4, <1>5, <1>7 DEF Known, Tasks
  <1>9. JobShape'
    BY <1>1, <1>5, <1>7 DEF JobShape, OneHandlerPerTask
  <1>10. ASSUME LockShape, ~ClaimMayStall PROVE LockShape'
    <2> USE <1>10 DEF LockShape
    <2>1. Quiet
      BY <1>1 DEF CanTake, SeenShape, RunningIsLocked, Quiet, Tasks
    <2>2. RunningIsLocked'
      BY <1>1, <2>1 DEF RunningIsLocked, Quiet
    <2>3. \A m \in Nodes : m # n => run[m].pc \notin {"old", "update"}
      BY DEF CanTake, ClaimShape, Known, Tasks
    <2>4. ClaimShape'
      BY <1>3, <1>4, <1>5, <1>7, <2>1, <2>3 DEF ClaimShape
    <2>5. \A m \in Nodes : ~run'[m].sees
      BY <1>4, <1>5 DEF SeenShape
    <2> QED
      BY <2>2, <2>4, <2>5 DEF SeenShape
  <1> QED
    BY <1>6, <1>8, <1>9, <1>10

(* The row is claimed.  Its handler starts unless it cannot be read, or    *)
(* unless the answer was lost and the lock released.                       *)
LEMMA RunIInv ==
    ASSUME IInv, NEW n \in Nodes,
           \/ UpdateToRunning(n) /\ StillPending(run[n].task)
           \/ ReloadFails(n) \/ ClaimUnanswered(n)
    PROVE  IInv'
  <1> USE DEF IInv
  <1> DEFINE x == run[n].task
             k == [by |-> Id(n), task |-> x, state |-> "run"]
  <1>1. /\ run[n].pc = "update" /\ task[x].status = "pending"
        /\ task' = [task EXCEPT ![x] = [status |-> "running", by |-> Id(n)]]
        /\ jobs' = jobs \cup {k} \/ jobs' = jobs
        /\ \/ run' = [run EXCEPT ![n] = Idle] /\ lock' = lock /\ orphans' = orphans
           \/ /\ run' = [Seeing(lock') EXCEPT ![n] = Idle] /\ orphans' = orphans \cup {x}
              /\ (lock' = lock \/ lock' = NoLock)
        /\ UNCHANGED life
    BY DEF UpdateToRunning, ReloadFails, ClaimUnanswered, GiveUp, Released, Claimed,
           StillPending, Rest
  <1>2. x \in Tasks
    BY <1>1 DEF Known
  <1>3. Id(n) \in Ids /\ \A m \in Nodes : Id(m) = Id(n) => m = n
    BY IdFacts
  <1>4. /\ k \in [by : Ids, task : Tasks, state : {"run", "cancelled", "release"}]
        /\ k.by = Id(n) /\ k.task = x /\ k.state = "run"
    BY <1>2, <1>3
  <1> HIDE DEF k
  <1>5. task' \in [Tasks -> [status : Statuses, by : Ids \cup {NoId}]]
    BY <1>1, <1>2, <1>3 DEF TypeOK, Statuses
  <1>7. task'[x].status = "running" /\ \A y \in Tasks : y # x => task'[y] = task[y]
    BY <1>1, <1>2 DEF TypeOK
  <1> HIDE DEF x
  <1>8. Ordered'
    BY <1>1, <1>2, <1>7 DEF Ordered, Ended
  <1>9. /\ run' \in [Nodes -> RunRecs] /\ run'[n] = Idle
        /\ \A m \in Nodes : m # n => /\ run'[m].pc = run[m].pc /\ run'[m].task = run[m].task
                                     /\ run'[m].copy = run[m].copy
                                     /\ run'[m].sees => run[m].sees /\ lock' = lock
    <2>1. lock' \in Locks
      BY <1>1, RecFacts DEF TypeOK
    <2>2. PICK S \in [Nodes -> RunRecs] :
            /\ S = Seeing(lock')
            /\ \A m \in Nodes : /\ S[m].pc = run[m].pc /\ S[m].task = run[m].task
                                /\ S[m].copy = run[m].copy
                                /\ S[m].sees => run[m].sees /\ lock' = lock
      BY <2>1, SeeingFacts
    <2>3. CASE run' = [S EXCEPT ![n] = Idle]
      BY <2>2, <2>3, RecFacts
    <2>4. CASE run' = [run EXCEPT ![n] = Idle] /\ lock' = lock
      BY <2>4, RecFacts DEF TypeOK, RunRecs
    <2> QED
      BY <1>1, <2>2, <2>3, <2>4
  <1>6. TypeOK'
    BY <1>1, <1>2, <1>4, <1>5, <1>9, RecFacts DEF TypeOK, RunRecs
  <1>10. /\ \A m \in Nodes : Id(m)' = Id(m)
         /\ \A id : Past(id)' <=> Past(id)
    BY <1>1 DEF Id, Past
  <1>11. lock.task # 0 => lock.task \in Tasks
    BY DEF TypeOK, Locks, Tasks
  <1>12. Known'
    BY <1>1, <1>2, <1>7, <1>9, <1>10, <1>11, RecFacts DEF Known
  <1>13. JobShape'
    <2>1. \A j \in jobs : j.task \in Tasks /\ j.task # x
      BY <1>1 DEF JobShape, TypeOK
    <2>2. OneHandlerPerTask'
      BY <1>1, <1>4, <2>1 DEF JobShape, OneHandlerPerTask
    <2>3. \A m \in Nodes : m # n => k.by # Id(m)
      BY <1>3, <1>4
    <2> QED
      BY <1>1, <1>4, <1>7, <1>9, <1>10, <2>1, <2>2, <2>3, RecFacts DEF JobShape, Ended
  <1>14. ASSUME LockShape, ~ClaimMayStall PROVE LockShape'
    <2> USE <1>14 DEF LockShape
    <2>1. /\ lock.task = x /\ lock.by = Id(n) /\ ~lock.expired /\ Quiet
          /\ \A m \in Nodes : m # n => run[m].pc \notin {"old", "update"} /\ ~run[m].sees
      BY <1>1, <1>3 DEF ClaimShape, SeenShape, x
    <2>2. RunningIsLocked'
      BY <1>1, <1>7, <2>1 DEF RunningIsLocked, Quiet
    <2>3. ClaimShape' /\ SeenShape'
      BY <1>9, <2>1, RecFacts DEF ClaimShape, SeenShape
    <2> QED
      BY <2>2, <2>3
  <1> QED
    BY <1>6, <1>8, <1>12, <1>13, <1>14

(* MarkSystemTaskLeaseExpired ends a running row and nothing else. *)
LEMMA ExpiredFacts ==
    ASSUME TypeOK, NEW y \in Tasks, task' = Expired(y)
    PROVE  /\ task' \in [Tasks -> [status : Statuses, by : Ids \cup {NoId}]]
           /\ \A x \in Tasks : task'[x].status = task[x].status
                 \/ (task[x].status = "running" /\ task'[x].status \in Ended)
           /\ task'[y].status # "running"
  <1>1. CASE task[y].status = "running"
    <2>1. task' = [task EXCEPT ![y].status = "failed"]
      BY <1>1 DEF Expired
    <2>2. task' \in [Tasks -> [status : Statuses, by : Ids \cup {NoId}]]
      BY <2>1 DEF TypeOK, Statuses
    <2> QED
      BY <1>1, <2>1, <2>2 DEF TypeOK, Ended
  <1>2. CASE task[y].status # "running"
    BY <1>2 DEF Expired, TypeOK
  <1> QED
    BY <1>1, <1>2

LEMMA NextIInv == IInv /\ [Next]_vars => IInv'
  <1> SUFFICES ASSUME IInv, [Next]_vars PROVE IInv'
    OBVIOUS
  <1>0. TypeOK /\ run \in [Nodes -> RunRecs] /\ lock \in Locks
    BY DEF IInv, TypeOK, RunRecs
  <1>4. ASSUME NEW n \in Nodes, run' = [Seeing(lock') EXCEPT ![n] = Idle],
               lock' = lock \/ lock' = NoLock
        PROVE  /\ run' \in [Nodes -> RunRecs] /\ run'[n].pc = "idle" /\ ~run'[n].sees
               /\ \A m \in Nodes \ {n} : /\ run'[m].pc = run[m].pc /\ run'[m].task = run[m].task
                                         /\ run'[m].copy = run[m].copy
                                         /\ ~run'[m].sees \/ (run[m].sees /\ lock' = lock)
    <2>1. lock' \in Locks
      BY <1>0, <1>4, RecFacts
    <2>2. PICK S \in [Nodes -> RunRecs] :
            /\ S = Seeing(lock')
            /\ \A m \in Nodes : /\ S[m].pc = run[m].pc /\ S[m].task = run[m].task
                                /\ S[m].copy = run[m].copy
                                /\ S[m].sees => run[m].sees /\ lock' = lock
      BY <1>0, <2>1, SeeingFacts
    <2> QED
      BY <1>4, <2>2, RecFacts
  <1>5. lock = NoLock /\ ~ClaimMayStall =>
          /\ Quiet
          /\ \A m \in Nodes : run[m].pc \in {"old", "update"} => lock.task # run[m].task
    BY RecFacts DEF IInv, LockShape, RunningIsLocked, Quiet, Tasks, Known
  <1>1. ASSUME NEW n \in Nodes,
               \/ Pass(n) \/ PassFails(n) \/ AcquireUnanswered(n)
               \/ ClaimFails(n) \/ ClaimUnanswered(n) \/ ReloadFails(n)
        PROVE  IInv'
    <2>1. CASE FindStaleLock(n)
      <3> DEFINE r == [run[n] EXCEPT !.pc = "mark", !.copy = lock, !.sees = TRUE]
      <3>1. r \in RunRecs /\ r.pc = "mark" /\ r.copy = lock
        BY <1>0 DEF RunRecs
      <3>2. run[n].pc = "idle" /\ lock.task # 0 /\ lock.expired
            /\ UNCHANGED <<task, lock, life, jobs, orphans>>
        BY <2>1 DEF FindStaleLock, IInv, Known
      <3>3. run' = [run EXCEPT ![n] = r]
        BY <1>0, <2>1 DEF FindStaleLock
      <3> HIDE DEF r
      <3> QED
        BY <3>1, <3>2, <3>3, PassIInv
    <2>2. ASSUME NEW x \in Tasks, FindPending(n, x) PROVE IInv'
      <3> DEFINE r == [run[n] EXCEPT !.pc = "acquire", !.task = x, !.sees = lock.expired]
      <3>1. r \in RunRecs /\ r.pc = "acquire" /\ r.task = x /\ r.sees = lock.expired
        <4>1. lock.expired \in BOOLEAN /\ run[n] \in RunRecs /\ x \in 0..MaxTasks
          BY <1>0 DEF Locks, Tasks
        <4>2. CASE lock.expired = TRUE
          BY <4>1, <4>2 DEF RunRecs
        <4>3. CASE lock.expired = FALSE
          BY <4>1, <4>3 DEF RunRecs
        <4> QED
          BY <4>1, <4>2, <4>3
      <3>2. run[n].pc = "idle" /\ task[x].status = "pending"
            /\ UNCHANGED <<task, lock, life, jobs, orphans>>
        BY <2>2 DEF FindPending
      <3>3. run' = [run EXCEPT ![n] = r]
        BY <1>0, <2>2 DEF FindPending
      <3> HIDE DEF r
      <3> QED
        BY <3>1, <3>2, <3>3, PassIInv
    <2>3. CASE MarkLeaseExpired(n)
      <3>1. run[n].pc = "mark" /\ task' = Expired(run[n].copy.task)
            /\ run' = [run EXCEPT ![n].pc = "delete"] /\ UNCHANGED <<lock, life, jobs, orphans>>
            /\ run[n].copy.task \in Tasks
        BY <2>3 DEF MarkLeaseExpired, IInv, Known
      <3>2. /\ task' \in [Tasks -> [status : Statuses, by : Ids \cup {NoId}]]
            /\ \A x \in Tasks : task'[x].status = task[x].status
                  \/ (task[x].status = "running" /\ task'[x].status \in Ended)
            /\ task'[run[n].copy.task].status # "running"
        BY <1>0, <3>1, ExpiredFacts
      <3> QED
        BY <3>1, <3>2, EndIInv
    <2>4. CASE MarkOldLease(n)
      <3>1. run[n].pc = "old" /\ task' = Expired(run[n].copy.task)
            /\ run' = [run EXCEPT ![n].pc = "update"] /\ UNCHANGED <<lock, life, jobs, orphans>>
            /\ run[n].copy.task \in Tasks
        BY <2>4 DEF MarkOldLease, IInv, Known
      <3>2. /\ task' \in [Tasks -> [status : Statuses, by : Ids \cup {NoId}]]
            /\ \A x \in Tasks : task'[x].status = task[x].status
                  \/ (task[x].status = "running" /\ task'[x].status \in Ended)
        BY <1>0, <3>1, ExpiredFacts
      <3> QED
        BY <3>1, <3>2, EndIInv
    <2>5. CASE DeleteStaleLock(n)
      <3>1. /\ run[n].pc = "delete" /\ run' = [Seeing(lock') EXCEPT ![n] = Idle]
            /\ UNCHANGED <<task, life, jobs, orphans>>
            /\ lock' = lock \/ (lock' = NoLock /\ run[n].sees)
        BY <2>5 DEF DeleteStaleLock, SameLock
      <3>2. /\ run' \in [Nodes -> RunRecs] /\ run'[n].pc = "idle" /\ ~run'[n].sees
            /\ \A m \in Nodes \ {n} : /\ run'[m].pc = run[m].pc /\ run'[m].task = run[m].task
                                      /\ run'[m].copy = run[m].copy
                                      /\ ~run'[m].sees \/ (run[m].sees /\ lock' = lock)
        BY <1>4, <3>1
      <3>3. lock' = NoLock /\ ~ClaimMayStall =>
              /\ Quiet
              /\ \A m \in Nodes : run'[m].pc \in {"old", "update"} =>
                   lock.task # run'[m].task \/ lock.by # Id(m) \/ lock.expired
        BY <1>5, <3>1, <3>2 DEF IInv, LockShape, SeenShape
      <3> QED
        BY <3>1, <3>2, <3>3, UnlockIInv
    <2>6. CASE PassFails(n) \/ (Acquire(n) /\ ~CanTake(n))
      <3>1. run[n].pc \in {"mark", "delete", "acquire"} /\ run' = [run EXCEPT ![n] = Idle]
            /\ UNCHANGED <<task, lock, life, jobs, orphans>>
        BY <2>6 DEF PassFails, Acquire, Rest
      <3> QED
        BY <3>1, RecFacts, PassIInv
    <2>7. CASE (Acquire(n) /\ CanTake(n)) \/ AcquireUnanswered(n)
      BY <2>7, AcquireIInv DEF AcquireUnanswered
    <2>8. CASE \/ UpdateToRunning(n) /\ StillPending(run[n].task)
               \/ ReloadFails(n) \/ ClaimUnanswered(n)
      BY <2>8, RunIInv
    <2>9. CASE (UpdateToRunning(n) /\ ~StillPending(run[n].task)) \/ ClaimFails(n)
      <3>1. /\ run[n].pc \in {"old", "update"}
            /\ lock' = lock \/ lock' = NoLock
            /\ run' = [Seeing(lock') EXCEPT ![n] = Idle]
            /\ UNCHANGED <<task, life, jobs, orphans>>
        BY <2>9 DEF UpdateToRunning, ClaimFails, GiveUp, Released
      <3>2. /\ run' \in [Nodes -> RunRecs] /\ run'[n].pc = "idle" /\ ~run'[n].sees
            /\ \A m \in Nodes \ {n} : /\ run'[m].pc = run[m].pc /\ run'[m].task = run[m].task
                                      /\ run'[m].copy = run[m].copy
                                      /\ ~run'[m].sees \/ (run[m].sees /\ lock' = lock)
        BY <1>4, <3>1
      <3>3. ~ClaimMayStall =>
              /\ lock.task = run[n].task /\ lock.by = Id(n) /\ Quiet
              /\ \A m \in Nodes : m # n => lock.by # Id(m)
        BY <1>0, <3>1, IdFacts DEF IInv, LockShape, ClaimShape
      <3> QED
        BY <3>1, <3>2, <3>3, UnlockIInv
    <2> QED
      BY <1>1, <2>1, <2>2, <2>3, <2>4, <2>5, <2>6, <2>7, <2>8, <2>9 DEF Pass
  <1>2. ASSUME NEW j \in jobs, Handler(j) PROVE IInv'
    <2>0. j.task \in Tasks /\ j.by \in Ids
      BY <1>0 DEF TypeOK
    <2>1. ASSUME NEW status \in Ended, Finish(j, status) PROVE IInv'
      <3>1. /\ UNCHANGED <<lock, life, run, orphans>>
            /\ \/ /\ MayFinish(j) /\ task' = [task EXCEPT ![j.task].status = status]
                  /\ jobs' = (jobs \ {j}) \cup {[j EXCEPT !.state = "release"]}
               \/ task' = task /\ jobs' = jobs \ {j}
        BY <2>1 DEF Finish
      <3>2. CASE task' = task /\ jobs' = jobs \ {j}
        BY <1>0, <3>1, <3>2, EndIInv DEF TypeOK
      <3>3. CASE /\ MayFinish(j) /\ task' = [task EXCEPT ![j.task].status = status]
                 /\ jobs' = (jobs \ {j}) \cup {[j EXCEPT !.state = "release"]}
        <4>1. /\ task' \in [Tasks -> [status : Statuses, by : Ids \cup {NoId}]]
              /\ \A x \in Tasks : task'[x].status = task[x].status
                    \/ (task[x].status = "running" /\ task'[x].status \in Ended)
              /\ task'[j.task].status \in Ended
          BY <1>0, <2>0, <3>3 DEF TypeOK, Statuses, Ended, MayFinish
        <4> QED
          BY <3>1, <3>3, <4>1, EndIInv
      <3> QED
        BY <3>1, <3>2, <3>3
    <2>2. CASE HeartbeatLost(j)
      BY <1>0, <2>2, EndIInv DEF HeartbeatLost, TypeOK
    <2>3. CASE ReleaseLock(j)
      <3>1. /\ j.state = "release" /\ lock' = Released(j.by, j.task)
            /\ jobs' = jobs \ {j} /\ run' = Seeing(lock') /\ UNCHANGED <<task, life, orphans>>
        BY <2>3 DEF ReleaseLock
      <3>2. task[j.task].status \in Ended
        BY <3>1 DEF IInv, JobShape
      <3>0. lock' \in Locks
        BY <1>0, <3>1, RecFacts DEF Released
      <3>3. /\ run' \in [Nodes -> RunRecs]
            /\ \A m \in Nodes : /\ run'[m].pc = run[m].pc /\ run'[m].task = run[m].task
                                /\ run'[m].copy = run[m].copy
                                /\ ~run'[m].sees \/ (run[m].sees /\ lock' = lock)
        BY <1>0, <3>0, <3>1, SeeingFacts
      <3>4. CASE lock.task = j.task /\ lock.by = j.by
        <4>1. lock' = NoLock
          BY <3>1, <3>4 DEF Released
        <4>2. ClaimMayStall \/ Quiet
          BY <3>2, <3>4 DEF IInv, LockShape, RunningIsLocked, Quiet, Ended
        <4>3. \A m \in Nodes : run[m].pc \in {"old", "update"} =>
                lock.task # run[m].task \/ lock.by # Id(m)
          BY <3>4 DEF IInv, JobShape
        <4> QED
          BY <3>1, <3>3, <4>1, <4>2, <4>3, UnlockIInv
      <3>5. CASE ~(lock.task = j.task /\ lock.by = j.by)
        <4>1. lock' = lock
          BY <3>1, <3>5 DEF Released
        <4> QED
          BY <1>5, <3>1, <3>3, <4>1, UnlockIInv
      <3> QED
        BY <3>4, <3>5
    <2>4. CASE FinishFails(j)
      BY <1>0, <2>4, EndIInv DEF FinishFails, TypeOK
    <2> QED
      BY <1>2, <2>1, <2>2, <2>3, <2>4 DEF Handler, Ended
  <1>3. CASE UNCHANGED vars
    <2>1. /\ UNCHANGED <<task, lock, life, run, jobs, orphans>>
          /\ \A n \in Nodes : Id(n)' = Id(n)
          /\ \A id : Past(id)' <=> Past(id)
          /\ Quiet' <=> Quiet
      BY <1>3 DEF vars, Id, Past, Quiet
    <2>2. TypeOK' /\ Ordered' /\ Known'
      BY <2>1 DEF IInv, TypeOK, Ordered, Known
    <2>3. JobShape'
      BY <2>1 DEF IInv, JobShape, OneHandlerPerTask
    <2>4. ASSUME LockShape PROVE LockShape'
      BY <2>1, <2>4 DEF LockShape, RunningIsLocked, ClaimShape, SeenShape
    <2> QED
      BY <2>2, <2>3, <2>4 DEF IInv
  <1> QED
    BY <1>1, <1>2, <1>3, ScheduleIInv, LeaseIInv, CrashIInv DEF Next

LEMMA SpecIInv == Spec => []IInv
  BY InitIInv, NextIInv, PTL DEF Spec

-----------------------------------------------------------------------------
(* Rows, lock and passes keep their types: no step writes a status that    *)
(* the rest of the code does not know.                                     *)
THEOREM SystemTaskTypeOK == Spec => []TypeOK
  BY SpecIInv, PTL DEF IInv

(* Whatever the number of nodes, restarts and lost leases, a task has at   *)
(* most one handler.                                                       *)
THEOREM OneHandler == Spec => []OneHandlerPerTask
  <1>1. IInv => OneHandlerPerTask
    BY DEF IInv, JobShape
  <1> QED
    BY <1>1, SpecIInv, PTL

(* While claims do not stall, the lock that cleanup goes by is that of the *)
(* running row, for every row but one whose claim was not answered.        *)
THEOREM RunningLocked == Spec => []RunningIsLocked
  <1>1. IInv => RunningIsLocked
    BY DEF IInv, LockShape, RunningIsLocked
  <1> QED
    BY <1>1, SpecIInv, PTL

(* An end is final, a pending row is not ended behind its runner's back,   *)
(* and a row succeeds only while its runner holds the lease.               *)
THEOREM EndFinal == Spec => EndIsFinal
  <1> DEFINE Kept(x) ==
        /\ task[x].status \in {"succeeded", "failed"} => task'[x] = task[x]
        /\ task[x].status = "pending" => task'[x].status \in Active
        /\ task[x].status = "running" /\ task'[x].status = "succeeded"
             => Holds(task[x].by, x)
  <1>1. ASSUME IInv, Next, NEW x \in Tasks PROVE Kept(x)
    <2>0. TypeOK /\ Known
      BY <1>1 DEF IInv
    <2>1. ASSUME NEW y \in Tasks, Schedule(y) PROVE Kept(x)
      BY <2>0, <2>1 DEF Schedule, TypeOK, Active
    <2>2. ASSUME NEW n \in Nodes, MarkLeaseExpired(n) \/ MarkOldLease(n) PROVE Kept(x)
      <3>1. run[n].copy.task \in Tasks /\ task' = Expired(run[n].copy.task)
        BY <2>0, <2>2 DEF Known, MarkLeaseExpired, MarkOldLease
      <3> QED
        BY <2>0, <3>1 DEF Expired, TypeOK, Active
    <2>3. ASSUME NEW n \in Nodes, UpdateToRunning(n) \/ ReloadFails(n) \/ ClaimUnanswered(n)
          PROVE  Kept(x)
      <3>1. run[n].task \in Tasks
        BY <2>0, <2>3 DEF Known, UpdateToRunning, ReloadFails, ClaimUnanswered
      <3>2. CASE StillPending(run[n].task)
        BY <2>0, <2>3, <3>1, <3>2 DEF UpdateToRunning, ReloadFails, ClaimUnanswered, Claimed,
                                         StillPending, TypeOK, Active
      <3>3. CASE ~StillPending(run[n].task)
        BY <2>3, <3>3 DEF UpdateToRunning, ReloadFails, ClaimUnanswered, Active
      <3> QED
        BY <3>2, <3>3
    <2>4. ASSUME NEW j \in jobs, NEW status \in {"succeeded", "failed"}, Finish(j, status)
          PROVE  Kept(x)
      <3>1. j.task \in Tasks
        BY <2>0 DEF TypeOK
      <3>2. CASE MayFinish(j)
        <4>1. task' = [task EXCEPT ![j.task].status = status]
              /\ task[j.task].status = "running" /\ Holds(task[j.task].by, j.task)
          BY <2>4, <3>2 DEF Finish, MayFinish
        <4>2. task'[x] = task[x] \/ x = j.task
          BY <2>0, <3>1, <4>1 DEF TypeOK
        <4> QED
          BY <4>1, <4>2 DEF Active
      <3>3. CASE ~MayFinish(j)
        BY <2>4, <3>3 DEF Finish, Active
      <3> QED
        BY <3>2, <3>3
    <2>5. CASE UNCHANGED task
      BY <2>5 DEF Active
    <2>6. ASSUME NEW n \in Nodes,
                 \/ FindStaleLock(n) \/ DeleteStaleLock(n) \/ Acquire(n)
                 \/ AcquireUnanswered(n) \/ PassFails(n) \/ ClaimFails(n) \/ Crash(n)
                 \/ \E y \in Tasks : FindPending(n, y)
          PROVE  UNCHANGED task
      BY <2>6 DEF FindStaleLock, DeleteStaleLock, Acquire, AcquireUnanswered, PassFails,
                  ClaimFails, Crash, FindPending
    <2>7. ASSUME NEW j \in jobs, ReleaseLock(j) \/ FinishFails(j) \/ HeartbeatLost(j)
          PROVE  UNCHANGED task
      BY <2>7 DEF ReleaseLock, FinishFails, HeartbeatLost
    <2>8. LeaseExpires => UNCHANGED task
      BY DEF LeaseExpires
    <2> QED
      BY <1>1, <2>1, <2>2, <2>3, <2>4, <2>5, <2>6, <2>7, <2>8 DEF Next, Pass, Handler
  <1>2. IInv /\ [Next]_vars => [\A x \in Tasks : Kept(x)]_vars
    BY <1>1
  <1> QED
    BY <1>2, SpecIInv, PTL DEF Spec, EndIsFinal

=============================================================================
