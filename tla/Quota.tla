-------------------------------- MODULE Quota --------------------------------
(***************************************************************************)
(* Quotas and cost accounting of one process: core/quota.py (the store and *)
(* the manager) and core/cost_tracker.py, which reports every model call   *)
(* to it.  Everything here is synchronous, so each call of the code is one *)
(* step; what interleaves are the calls of different tasks: a task asks    *)
(* (check_quota), is admitted, starts (start_task), calls models           *)
(* (record_call) and ends (end_task), or waits in the queues.              *)
(*                                                                         *)
(* A unit of usage stands for tokens and their price at once.              *)
(***************************************************************************)
EXTENDS Amounts

CONSTANTS QuotaTasks,       \* the tasks that ask for admission
          QuotaUsers, QuotaAgents, Departments,
          TaskUser,         \* the user a task belongs to
          TaskAgent,        \* the agent that runs it
          UserDepartment,   \* the department of a user
          MaxUserTasks, MaxDepartmentTasks,    \* max_concurrent_tasks
          MaxUserCost, MaxDepartmentCost, MaxSystemCost,  \* max_daily_cost
          MaxUserQueued, MaxDepartmentQueued,  \* max_queued
          Estimate,         \* estimated_cost of a task
          Racing,           \* bound: tasks between check_quota and start_task
          MaxDays, MaxSpent \* bounds: days, units a task spends

ASSUME QuotaAssumption ==
  /\ TaskUser \in [QuotaTasks -> QuotaUsers]
  /\ TaskAgent \in [QuotaTasks -> QuotaAgents]
  /\ UserDepartment \in [QuotaUsers -> Departments]
  /\ MaxUserTasks \in Nat /\ MaxDepartmentTasks \in Nat
  /\ Racing \in Nat \ {0}
  /\ IsFiniteSet(QuotaTasks) /\ IsFiniteSet(QuotaUsers) /\ IsFiniteSet(QuotaAgents)

VARIABLES
  date,            \* what date.today() answers
  storeDay,        \* _today: the day the store last looked
  userUsage,       \* _user_usage: spent today, by user or agent name
  departmentUsage, systemUsage,
  concurrent, departmentConcurrent,
  userQueued, departmentQueued, \* the queues and their counters, which change together
  taskCost,        \* the tracker's _task_costs
  taskPhase        \* where each task stands

counters == <<concurrent, departmentConcurrent>>
usage == <<storeDay, userUsage, departmentUsage, systemUsage>>
queued == <<userQueued, departmentQueued>>
quotaVars == <<date, usage, counters, queued, taskCost, taskPhase>>

Payers == QuotaUsers \cup QuotaAgents
Members(d) == {u \in QuotaUsers : UserDepartment[u] = d}
TasksIn(u, phase) == {t \in QuotaTasks : TaskUser[t] = u /\ taskPhase[t] = phase}

\* Usage as the store sees it after _check_reset: cleared if the day changed.
CheckReset ==
  IF date = storeDay
  THEN [user |-> userUsage, department |-> departmentUsage, system |-> systemUsage]
  ELSE [user |-> [p \in Payers |-> 0], department |-> [d \in Departments |-> 0],
        system |-> 0]

\* check_quota, first level that objects.  The LLM level is left out: its bucket
\* is only ever refilled, so it never objects.  QUEUE, REJECT and ALLOW are
\* decided by what follows; DOWNGRADE takes the place of REJECT for tokens.
CheckQuota(u) ==
  LET d == UserDepartment[u]
      seen == CheckReset
  IN  IF concurrent[u] >= MaxUserTasks THEN "queue"
      ELSE IF seen.user[u] + Estimate > MaxUserCost THEN "reject"
      ELSE IF departmentConcurrent[d] >= MaxDepartmentTasks THEN "queue"
      ELSE IF seen.department[d] + Estimate > MaxDepartmentCost THEN "reject"
      ELSE IF seen.system + Estimate > MaxSystemCost THEN "reject"
      ELSE "allow"

QuotaInit ==
  /\ date = 1 /\ storeDay = 1
  /\ userUsage = [p \in Payers |-> 0]
  /\ departmentUsage = [d \in Departments |-> 0]
  /\ systemUsage = 0
  /\ concurrent = [u \in QuotaUsers |-> 0]
  /\ departmentConcurrent = [d \in Departments |-> 0]
  /\ userQueued = [u \in QuotaUsers |-> 0]
  /\ departmentQueued = [d \in Departments |-> 0]
  /\ taskCost = [t \in QuotaTasks |-> 0]
  /\ taskPhase = [t \in QuotaTasks |-> "new"]

Look ==  \* every look at the usage resets it first
  /\ storeDay' = date
  /\ userUsage' = CheckReset.user
  /\ departmentUsage' = CheckReset.department
  /\ systemUsage' = CheckReset.system

\* can_enqueue and enqueue
CanEnqueue(u) ==
  /\ userQueued[u] < MaxUserQueued
  /\ departmentQueued[UserDepartment[u]] < MaxDepartmentQueued

Enqueue(u) ==
  /\ userQueued' = [userQueued EXCEPT ![u] = @ + 1]
  /\ departmentQueued' = [departmentQueued EXCEPT ![UserDepartment[u]] = @ + 1]

\* check_quota, with what its caller does on the answer
Ask(t) ==
  LET u == TaskUser[t]
      verdict == CheckQuota(u)
  IN  /\ taskPhase[t] \in {"new", "called"}
      /\ verdict = "allow" =>
           Cardinality({s \in QuotaTasks : taskPhase[s] = "allowed"}) < Racing
      /\ Look
      /\ \/ verdict = "allow" /\ taskPhase' = [taskPhase EXCEPT ![t] = "allowed"]
            /\ UNCHANGED queued
         \/ verdict = "queue" /\ CanEnqueue(u) /\ Enqueue(u)
            /\ taskPhase' = [taskPhase EXCEPT ![t] = "waiting"]
         \/ /\ verdict = "reject" \/ (verdict = "queue" /\ ~CanEnqueue(u))
            /\ taskPhase' = [taskPhase EXCEPT ![t] = "refused"]
            /\ UNCHANGED queued
      /\ UNCHANGED <<date, counters, taskCost>>

StartTask(t) ==
  /\ taskPhase[t] = "allowed"
  /\ taskPhase' = [taskPhase EXCEPT ![t] = "running"]
  /\ concurrent' = [concurrent EXCEPT ![TaskUser[t]] = @ + 1]
  /\ departmentConcurrent' =
       [departmentConcurrent EXCEPT ![UserDepartment[TaskUser[t]]] = @ + 1]
  /\ UNCHANGED <<date, usage, queued, taskCost>>

\* record_call.  The router names no user and no department: usage then goes to
\* the agent's name, and to no department.
Charge(t, payer, cost, departments) ==
  /\ storeDay' = date
  /\ userUsage' = [CheckReset.user EXCEPT ![payer] = @ + cost]
  /\ departmentUsage' = [d \in Departments |->
       CheckReset.department[d] + (IF d \in departments THEN cost ELSE 0)]
  /\ systemUsage' = CheckReset.system + cost
  /\ taskCost' = [taskCost EXCEPT ![t] = @ + cost]

RecordCall(t, cost, named) ==
  /\ taskPhase[t] = "running"
  /\ taskCost[t] + cost <= MaxSpent
  /\ IF named THEN Charge(t, TaskUser[t], cost, {UserDepartment[TaskUser[t]]})
              ELSE Charge(t, TaskAgent[t], cost, {})
  /\ UNCHANGED <<date, counters, queued, taskPhase>>

LessOne(n) == IF n = 0 THEN 0 ELSE n - 1  \* max(0, n - 1)

\* Mutant: a task that ran past midnight is not counted down
EndTaskToday(t) ==
  /\ taskPhase[t] = "running"
  /\ taskPhase' = [taskPhase EXCEPT ![t] = "ended"]
  /\ IF storeDay < date THEN UNCHANGED counters
     ELSE /\ concurrent' = [concurrent EXCEPT ![TaskUser[t]] = LessOne(@)]
          /\ departmentConcurrent' =
               [departmentConcurrent EXCEPT ![UserDepartment[TaskUser[t]]] = LessOne(@)]
  /\ UNCHANGED <<date, usage, queued, taskCost>>

EndTask(t) ==
  /\ taskPhase[t] = "running"
  /\ taskPhase' = [taskPhase EXCEPT ![t] = "ended"]
  /\ concurrent' = [concurrent EXCEPT ![TaskUser[t]] = LessOne(@)]
  /\ departmentConcurrent' =
       [departmentConcurrent EXCEPT ![UserDepartment[TaskUser[t]]] = LessOne(@)]
  /\ UNCHANGED <<date, usage, queued, taskCost>>

\* dequeue: the two queues are popped independently of each other
Dequeue(us, d) ==
  /\ userQueued' = [u \in QuotaUsers |->
                      IF u \in us THEN LessOne(userQueued[u]) ELSE userQueued[u]]
  /\ departmentQueued' = [departmentQueued EXCEPT ![d] = LessOne(@)]

\* The queues keep times only, so which of the waiting tasks goes on is the
\* caller's choice; an entry may be left whose task has gone on already.
ReleaseWaiting(waiting) ==
  IF waiting = {} THEN UNCHANGED taskPhase
  ELSE \E t \in waiting : taskPhase' = [taskPhase EXCEPT ![t] = "called"]

\* notify_next for a user with the user's department, or for a department
NotifyUser(u) ==
  /\ userQueued[u] > 0
  /\ Dequeue({u}, UserDepartment[u])
  /\ ReleaseWaiting(TasksIn(u, "waiting"))
  /\ UNCHANGED <<date, usage, counters, taskCost>>

NotifyDepartment(d) ==
  /\ departmentQueued[d] > 0
  /\ Dequeue({}, d)
  /\ ReleaseWaiting(UNION {TasksIn(u, "waiting") : u \in Members(d)})
  /\ UNCHANGED <<date, usage, counters, taskCost>>

NewDay ==
  /\ date < MaxDays
  /\ date' = date + 1
  /\ UNCHANGED <<usage, counters, queued, taskCost, taskPhase>>

QuotaNext ==
  \/ \E t \in QuotaTasks : Ask(t) \/ StartTask(t) \/ EndTask(t)
  \/ \E t \in QuotaTasks, cost \in 1..2, named \in BOOLEAN : RecordCall(t, cost, named)
  \/ \E u \in QuotaUsers : NotifyUser(u)
  \/ \E d \in Departments : NotifyDepartment(d)
  \/ NewDay

QuotaSpec == QuotaInit /\ [][QuotaNext]_quotaVars
-------------------------------------------------------------------------------
(* check_quota and start_task are separate calls: the limit on concurrent     *)
(* tasks can be exceeded, but by no more than the tasks that stand between    *)
(* the two calls at a time, less the one that was admitted rightly.           *)
OverAdmissionBounded ==
  /\ \A u \in QuotaUsers : concurrent[u] <= MaxUserTasks + Racing - 1
  /\ \A d \in Departments :
       departmentConcurrent[d] <= MaxDepartmentTasks + Racing - 1

(* The counters tell the tasks that run, also of tasks that run past midnight *)
(* when the usage of the day is cleared (_check_reset).                       *)
CountersMatchRunning ==
  /\ \A u \in QuotaUsers : concurrent[u] = Cardinality(TasksIn(u, "running"))
  /\ \A d \in Departments : departmentConcurrent[d] = Sum(concurrent, Members(d))

(* The levels are cleared and charged together: the system's usage is that of *)
(* everybody who paid, a department's that of its members, and no more than   *)
(* what the tracker has charged to tasks, all of it on the first day.         *)
LevelsAgree ==
  /\ systemUsage = Sum(userUsage, Payers)
  /\ \A d \in Departments : departmentUsage[d] = Sum(userUsage, Members(d))
  /\ systemUsage <= Sum(taskCost, QuotaTasks)
  /\ storeDay = 1 => systemUsage = Sum(taskCost, QuotaTasks)

(* dequeue pops the queues of the user and of the department independently:   *)
(* whatever the order of notifications, a task that waits has an entry left   *)
(* in its user's queue, and a department's queue is never the longer one.     *)
WaitingHaveEntries ==
  /\ \A u \in QuotaUsers : Cardinality(TasksIn(u, "waiting")) <= userQueued[u]
  /\ \A d \in Departments : departmentQueued[d] <= Sum(userQueued, Members(d))

(* What is admitted is what the limits allow, but for the race between the    *)
(* two calls, what is counted is what runs and what was charged, and nobody   *)
(* waits without an entry in a queue.                                         *)
AdmissionSound ==
  /\ OverAdmissionBounded
  /\ CountersMatchRunning
  /\ LevelsAgree
  /\ WaitingHaveEntries
==============================================================================
