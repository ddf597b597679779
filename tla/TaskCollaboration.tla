--------------------------- MODULE TaskCollaboration ---------------------------
(***************************************************************************)
(* Tasks shared by several users: the in-memory task store                 *)
(* (storage/task_store.py), the REST handlers that submit, claim and hand  *)
(* off a task (api/routes/tasks.py) and the gRPC handler that submits one  *)
(* and runs it in the background (grpc/handlers.py, grpc/server.py).       *)
(*                                                                         *)
(* REST handlers are coroutines of one event loop: between two awaits      *)
(* nothing else runs on that loop.  `loop' names the coroutine that is in  *)
(* the middle of such a segment.  A gRPC call runs in a thread of a pool   *)
(* (Threaded = TRUE), which preempts the loop anywhere, or, when the       *)
(* transport-neutral handler is called in-process, as a coroutine of the   *)
(* same loop (Threaded = FALSE).                                           *)
(*                                                                         *)
(* store.get returns the stored record itself, not a copy: a handler that  *)
(* reads the record again sees every later change to it.                   *)
(***************************************************************************)
EXTENDS Naturals, Sequences, FiniteSets

CONSTANTS
    Users,           \* user ids
    TenantAdmins,    \* users whose global role is tenant_admin
    PlatformAdmins,  \* users whose global role is platform_admin
    Ids,             \* task ids
    Requests,        \* REST requests the event loop serves at a time
    Workers,         \* gRPC calls served at a time, background run included
    SharedSets,      \* values a gRPC client sends as metadata._shared_with
    None,            \* Python's None: no task, no assignee, no version, nobody
    Threaded,        \* gRPC calls run in threads of their own
    MayReuseId,      \* POST /api/tasks may name an id that is in use
    MaxTimeline      \* BOUND: events after which no further change is begun

ASSUME CollaborationAssumption ==
    /\ TenantAdmins \subseteq Users
    /\ PlatformAdmins \subseteq Users
    /\ SharedSets \subseteq SUBSET Users
    /\ None \notin Users \cup Ids \cup Requests \cup Workers \cup Nat
    /\ Requests \cap Workers = {}
    /\ Threaded \in BOOLEAN
    /\ MayReuseId \in BOOLEAN
    \* BOUND: a thread that is updating a record when POST /api/tasks replaces it
    \* goes on with the object it replaced; reuse is modelled on one loop only.
    /\ ~(Threaded /\ MayReuseId)
    /\ MaxTimeline \in Nat

VARIABLES
    store,     \* InMemoryTaskStore._store: id -> TaskRecord, None where absent
    request,   \* the REST requests being served
    worker,    \* the gRPC calls being served
    loop,      \* the coroutine in the middle of a segment, or None
    timeline   \* the task events of the audit log, oldest first

vars == <<store, request, worker, loop, timeline>>

--------------------------------------------------------------------------------
(* TaskRecord and the operations of InMemoryTaskStore                       *)

Terminal == {"completed", "failed"}

TaskRecord ==
    [status   : {"pending"} \cup Terminal,
     owner    : Users,
     assignee : Users \cup {None},
     shared   : SUBSET Users,
     version  : Nat \ {0}]

ASSUME NoneIsNoRecord == None \notin TaskRecord

\* Mutant: the version starts at zero.
NewRecordUnversioned(st, u, sh) ==
    [status |-> st, owner |-> u, assignee |-> None, shared |-> sh, version |-> 0]

\* A record as both submit paths build it: unclaimed, version 1, private.
NewRecord(st, u, sh) ==
    [status |-> st, owner |-> u, assignee |-> None, shared |-> sh, version |-> 1]

Exists(id) == store[id] # None

\* save: insert or overwrite.
Save(id, rec) == store' = [store EXCEPT ![id] = rec]

\* The steps of update_fields: the version is tested, the field is written, and
\* the version is counted up.  A thread may run between any two of them.
VersionMatches(id, expected) == store[id].version = expected

\* Mutant: the assignee becomes the owner as well.
SetAssigneeAndOwner(id, u) ==
    store' = [store EXCEPT ![id].assignee = u, ![id].owner = u]

SetAssignee(id, u) == store' = [store EXCEPT ![id].assignee = u]

SetStatus(id, st) == store' = [store EXCEPT ![id].status = st]

\* Mutant: the version stays.
StampNothing(id) == store' = [store EXCEPT ![id].version = @]

StampVersion(id) == store' = [store EXCEPT ![id].version = @ + 1]

--------------------------------------------------------------------------------
(* Who may do what                                                          *)

\* AccessControl.can_read for a private resource of the user's own tenant.
CanRead(u, rec) ==
    u \in TenantAdmins \cup PlatformAdmins \cup {rec.owner} \cup rec.shared

\* The permission test of handoff_task.
CanHandOff(u, rec) == u \in PlatformAdmins \cup {rec.owner, rec.assignee}

\* Mutant: the status is not looked at.
AllowedWhateverStatus(q) ==
    /\ Exists(q.id)
    /\ IF q.op = "claim" THEN CanRead(q.user, store[q.id])
                         ELSE CanHandOff(q.user, store[q.id])
    /\ q.op = "handoff" => store[q.id].assignee # q.to

\* What a claim or a handoff checks before it touches the store.
Allowed(q) ==
    /\ Exists(q.id)
    /\ IF q.op = "claim" THEN CanRead(q.user, store[q.id])
                         ELSE CanHandOff(q.user, store[q.id])
    /\ store[q.id].status \notin Terminal
    /\ q.op = "handoff" => store[q.id].assignee # q.to

--------------------------------------------------------------------------------
(* Scheduling                                                               *)

IdleRequest == [pc |-> "idle", op |-> None, user |-> None, id |-> None,
                to |-> None, expected |-> None, prev |-> None]

IdleWorker == [pc |-> "idle", id |-> None, answer |-> None, want |-> None,
               expected |-> None]

\* A coroutine starts or continues a segment when no other is inside one.
OnLoop(c) == loop \in {None, c}

\* A gRPC call needs the loop only when it is a coroutine of that loop.
WorkerRuns(w) == Threaded \/ OnLoop(w)
TakeLoop(w)   == loop' = IF Threaded THEN loop ELSE w
LeaveLoop(w)  == loop' = IF Threaded THEN loop ELSE None

\* A generated id (uuid4) is one nothing uses yet.
Fresh(id) ==
    /\ ~Exists(id)
    /\ \A q \in Requests : request[q].pc = "running" => request[q].id # id

Room == Len(timeline) < MaxTimeline

Event(id, action, actor, from, to, v) ==
    [id |-> id, action |-> action, actor |-> actor,
     from |-> from, to |-> to, version |-> v]

Log(e) == timeline' = Append(timeline, e)

--------------------------------------------------------------------------------
(* POST /api/tasks                                                          *)

\* The segment before the agent runs; it ends at the await of the agent.
BeginSubmit(r, u, id) ==
    /\ request[r].pc = "idle" /\ OnLoop(r) /\ Room
    /\ MayReuseId \/ Fresh(id)
    /\ request' = [request EXCEPT ![r] =
           [IdleRequest EXCEPT !.pc = "running", !.op = "submit", !.user = u, !.id = id]]
    /\ UNCHANGED <<store, worker, loop, timeline>>

\* The agent returned: the record is saved under the id and the event logged.
FinishSubmit(r) ==
    /\ request[r].pc = "running" /\ OnLoop(r)
    /\ \E st \in Terminal : Save(request[r].id, NewRecord(st, request[r].user, {}))
    /\ Log(Event(request[r].id, "task.completed", request[r].user, None, None, 1))
    /\ request' = [request EXCEPT ![r] = IdleRequest]
    /\ UNCHANGED <<worker, loop>>

\* The run raised: nothing is saved.
AbortSubmit(r) ==
    /\ request[r].pc = "running" /\ OnLoop(r)
    /\ Log(Event(request[r].id, "task.failed", request[r].user, None, None, None))
    /\ request' = [request EXCEPT ![r] = IdleRequest]
    /\ UNCHANGED <<store, worker, loop>>

--------------------------------------------------------------------------------
(* POST /api/tasks/{id}/claim and /handoff: one segment, step by step       *)

\* A call as its handler receives it: a claim assigns the caller, a handoff the
\* user it names; `expected' is the version the client sent, or None.
Call(op, u, to, id, expected) ==
    [pc |-> "idle", op |-> op, user |-> u, id |-> id,
     to |-> IF op = "claim" THEN u ELSE to, expected |-> expected, prev |-> None]

\* Answered 403, 404 or 422.
Refuse(r, q) ==
    /\ request[r].pc = "idle" /\ OnLoop(r)
    /\ ~Allowed(q)
    /\ UNCHANGED vars

Accept(r, q) ==
    /\ request[r].pc = "idle" /\ OnLoop(r) /\ Room
    /\ Allowed(q)
    /\ request' = [request EXCEPT ![r] = [q EXCEPT !.pc = "checked"]]
    /\ loop' = r
    /\ UNCHANGED <<store, worker, timeline>>

\* Without a version from the client the handler expects the one it sees.
Bind(r) ==
    /\ request[r].pc = "checked"
    /\ LET rec == store[request[r].id]
       IN  request' = [request EXCEPT
               ![r].pc = "bound",
               ![r].expected = IF @ = None THEN rec.version ELSE @,
               ![r].prev = rec.assignee]
    /\ UNCHANGED <<store, worker, loop, timeline>>

Match(r) ==
    /\ request[r].pc = "bound"
    /\ VersionMatches(request[r].id, request[r].expected)
    /\ request' = [request EXCEPT ![r].pc = "matched"]
    /\ UNCHANGED <<store, worker, loop, timeline>>

\* VersionConflict, answered 409.
Conflict(r) ==
    /\ request[r].pc = "bound"
    /\ ~VersionMatches(request[r].id, request[r].expected)
    /\ request' = [request EXCEPT ![r] = IdleRequest]
    /\ loop' = None
    /\ UNCHANGED <<store, worker, timeline>>

Write(r) ==
    /\ request[r].pc = "matched"
    /\ SetAssignee(request[r].id, request[r].to)
    /\ request' = [request EXCEPT ![r].pc = "written"]
    /\ UNCHANGED <<worker, loop, timeline>>

Stamp(r) ==
    /\ request[r].pc = "written"
    /\ StampVersion(request[r].id)
    /\ request' = [request EXCEPT ![r].pc = "stamped"]
    /\ UNCHANGED <<worker, loop, timeline>>

\* Mutant: the previous assignee is read from the record after the update.
ReportAliased(r) ==
    /\ request[r].pc = "stamped"
    /\ LET q == request[r]
       IN  Log(Event(q.id, IF q.op = "claim" THEN "task.claimed" ELSE "task.handoff",
                     q.user, IF q.op = "claim" THEN None ELSE store[q.id].assignee,
                     store[q.id].assignee, store[q.id].version))
    /\ request' = [request EXCEPT ![r] = IdleRequest]
    /\ loop' = None
    /\ UNCHANGED <<store, worker>>

\* The event reports the record as it reads after the update.
Report(r) ==
    /\ request[r].pc = "stamped"
    /\ LET q == request[r]
       IN  Log(IF q.op = "claim"
               THEN Event(q.id, "task.claimed", q.user, None,
                          store[q.id].assignee, store[q.id].version)
               ELSE Event(q.id, "task.handoff", q.user, q.prev,
                          store[q.id].assignee, store[q.id].version))
    /\ request' = [request EXCEPT ![r] = IdleRequest]
    /\ loop' = None
    /\ UNCHANGED <<store, worker>>

--------------------------------------------------------------------------------
(* gRPC SubmitTask and its background run                                   *)

GrpcSubmit(w, u, id, sh) ==
    /\ worker[w].pc = "idle" /\ WorkerRuns(w)
    /\ Fresh(id)
    /\ Save(id, NewRecord("pending", u, sh))
    /\ worker' = [worker EXCEPT ![w] = [IdleWorker EXCEPT !.pc = "llm", !.id = id]]
    /\ UNCHANGED <<request, loop, timeline>>

\* asyncio.run returns with the reply and cancels the run that waits for the
\* model; the cancellation is not an Exception, so no handler catches it.
CancelRun(w) ==
    /\ Threaded
    /\ worker[w].pc = "llm"
    /\ worker' = [worker EXCEPT ![w] = IdleWorker]
    /\ UNCHANGED <<store, request, loop, timeline>>

\* call_llm returned text or raised.
LlmAnswers(w) ==
    /\ worker[w].pc = "llm" /\ WorkerRuns(w)
    /\ \E a \in Terminal :
           worker' = [worker EXCEPT ![w].pc = "answered", ![w].answer = a, ![w].want = a]
    /\ TakeLoop(w)
    /\ UNCHANGED <<store, request, timeline>>

\* Mutant: complete() expects the version the task was submitted with.
GetSubmittedThenCurrent(w) ==
    /\ worker[w].pc = "answered"
    /\ worker' = [worker EXCEPT
           ![w].pc = "bound",
           ![w].expected = IF worker[w].want = "completed"
                           THEN 1 ELSE store[worker[w].id].version]
    /\ UNCHANGED <<store, request, loop, timeline>>

\* Mutant: complete() and fail() both expect that version.
GetSubmitted(w) ==
    /\ worker[w].pc = "answered"
    /\ worker' = [worker EXCEPT ![w].pc = "bound", ![w].expected = 1]
    /\ UNCHANGED <<store, request, loop, timeline>>

\* get, then current.version as the expected version.
GetCurrent(w) ==
    /\ worker[w].pc = "answered"
    /\ worker' = [worker EXCEPT ![w].pc = "bound",
                                ![w].expected = store[worker[w].id].version]
    /\ UNCHANGED <<store, request, loop, timeline>>

WorkerMatch(w) ==
    /\ worker[w].pc = "bound"
    /\ VersionMatches(worker[w].id, worker[w].expected)
    /\ worker' = [worker EXCEPT ![w].pc = "matched"]
    /\ UNCHANGED <<store, request, loop, timeline>>

\* A conflict in complete() is caught like any error and leads to fail(); a
\* conflict in fail() is only logged.
WorkerConflict(w) ==
    /\ worker[w].pc = "bound"
    /\ ~VersionMatches(worker[w].id, worker[w].expected)
    /\ \/ /\ worker[w].want = "completed"
          /\ worker' = [worker EXCEPT ![w].pc = "answered", ![w].want = "failed"]
          /\ UNCHANGED loop
       \/ /\ worker[w].want = "failed"
          /\ worker' = [worker EXCEPT ![w] = IdleWorker]
          /\ LeaveLoop(w)
    /\ UNCHANGED <<store, request, timeline>>

WorkerWrite(w) ==
    /\ worker[w].pc = "matched"
    /\ SetStatus(worker[w].id, worker[w].want)
    /\ worker' = [worker EXCEPT ![w].pc = "written"]
    /\ UNCHANGED <<request, loop, timeline>>

\* complete() or fail() is over; neither writes an audit event.
WorkerStamp(w) ==
    /\ worker[w].pc = "written"
    /\ StampVersion(worker[w].id)
    /\ worker' = [worker EXCEPT ![w] = IdleWorker]
    /\ LeaveLoop(w)
    /\ UNCHANGED <<request, timeline>>

--------------------------------------------------------------------------------
Init ==
    /\ store = [id \in Ids |-> None]
    /\ request = [r \in Requests |-> IdleRequest]
    /\ worker = [w \in Workers |-> IdleWorker]
    /\ loop = None
    /\ timeline = <<>>

\* Versions a client may have seen, or made up, within the bound.
SentVersions == 1..(MaxTimeline + 1) \cup {None}

RequestStep(r) ==
    \/ FinishSubmit(r) \/ AbortSubmit(r)
    \/ Bind(r) \/ Match(r) \/ Conflict(r)
    \/ Write(r) \/ Stamp(r) \/ Report(r)

WorkerStep(w) ==
    \/ CancelRun(w) \/ LlmAnswers(w) \/ GetCurrent(w)
    \/ WorkerMatch(w) \/ WorkerConflict(w)
    \/ WorkerWrite(w) \/ WorkerStamp(w)

Next ==
    \/ \E r \in Requests, u \in Users, id \in Ids :
           \/ BeginSubmit(r, u, id)
           \/ \E op \in {"claim", "handoff"}, to \in Users, v \in SentVersions :
                  LET q == Call(op, u, to, id, v)
                  IN  Accept(r, q) \/ Refuse(r, q)
    \/ \E r \in Requests : RequestStep(r)
    \/ \E w \in Workers, u \in Users, id \in Ids, sh \in SharedSets :
           GrpcSubmit(w, u, id, sh)
    \/ \E w \in Workers : WorkerStep(w)

Spec == Init /\ [][Next]_vars

\* The event loop runs ready coroutines first in, first out, threads get their
\* turn, and a call to the model returns or times out.
Fairness ==
    /\ \A r \in Requests : SF_vars(RequestStep(r))
    /\ \A w \in Workers : SF_vars(WorkerStep(w))

FairSpec == Spec /\ Fairness

--------------------------------------------------------------------------------
(* Properties                                                               *)

RequestType ==
    [pc : {"idle", "running", "checked", "bound", "matched", "written", "stamped"},
     op : {None, "submit", "claim", "handoff"},
     user : Users \cup {None}, id : Ids \cup {None}, to : Users \cup {None},
     expected : Nat \cup {None}, prev : Users \cup {None}]

WorkerType ==
    [pc : {"idle", "llm", "answered", "bound", "matched", "written"},
     id : Ids \cup {None}, answer : Terminal \cup {None},
     want : Terminal \cup {None}, expected : Nat \cup {None}]

EventType ==
    [id : Ids,
     action : {"task.completed", "task.failed", "task.claimed", "task.handoff"},
     actor : Users, from : Users \cup {None}, to : Users \cup {None},
     version : Nat \cup {None}]

\* Every variable has its type.
TypeOK ==
    /\ store \in [Ids -> TaskRecord \cup {None}]
    /\ request \in [Requests -> RequestType]
    /\ worker \in [Workers -> WorkerType]
    /\ loop \in Requests \cup Workers \cup {None}
    /\ timeline \in Seq(EventType)

KeepsOwners ==
    \A id \in Ids : Exists(id) => /\ store'[id] # None
                                 /\ store'[id].owner = store[id].owner

\* A request to POST /api/tasks ends in this step, and its record is the one stored.
SavesAnew(id) ==
    \E r \in Requests :
        /\ request[r].pc = "running" /\ request[r].id = id
        /\ request'[r] = IdleRequest
        /\ \E st \in Terminal : store'[id] = NewRecord(st, request[r].user, {})

KeepsFinished ==
    \A id \in Ids :
        Exists(id) /\ store[id].status \in Terminal
        => /\ store'[id] # None
           /\ [store'[id] EXCEPT !.version = 0] = [store[id] EXCEPT !.version = 0]

RecordsAnswers ==
    \A id \in Ids :
        /\ Exists(id) /\ store[id].status = "pending"
        /\ store'[id] # None /\ store'[id].status \in Terminal
        => \E w \in Workers : /\ worker[w].id = id
                               /\ worker[w].answer = store'[id].status

\* "owner_id is immutable (always the creator)" (the comment on TaskRecord,
\* storage/task_store.py:45).
OwnerNeverChanges == [][KeepsOwners]_vars

\* Claims, handoffs and background runs leave the owner of a task alone, although
\* threads preempt each other between their steps: only POST /api/tasks under an
\* id in use replaces it, and then the whole record is the later submission's
\* (InMemoryTaskStore.save overwrites; update_fields cannot name owner_id).
OwnersReplacedWhole == [][\A id \in Ids :
    Exists(id) => /\ store'[id] # None
                  /\ store'[id].owner # store[id].owner => SavesAnew(id)]_vars

\* A finished task is never claimed, handed off, finished again or replaced,
\* although the status is checked some steps before the record is written
\* (claim_task and handoff_task answer 422 for a terminal task).
TerminalIsFinal == [][KeepsFinished]_vars

\* A background run that got an answer from the model records that answer: a
\* write that comes between does not turn a completed task into a failed one
\* (the except branch of GrpcServiceHandler._run_task).
AnswerIsRecorded == [][RecordsAnswers]_vars

\* The task was saved by POST /api/tasks, finished from the start.
Posted(id) == \E k \in 1..Len(timeline) : /\ timeline[k].id = id
                                           /\ timeline[k].action = "task.completed"

IsMove(e, id) == e.id = id /\ e.action \in {"task.claimed", "task.handoff"}

\* Where the moves of a task are among the first n events, and whom they leave
\* the task to.
Moves(id, n) == {k \in 1..n : IsMove(timeline[k], id)}

AssigneeAfter(id, n) ==
    IF Moves(id, n) = {} THEN None
    ELSE timeline[CHOOSE k \in Moves(id, n) : \A i \in Moves(id, n) : i <= k].to

\* The events of a task tell its whole history once no update is under way: they
\* carry consecutive versions, a handoff starts where the event before it ended,
\* and the last one names the present assignee (GET /api/tasks/{id}/events
\* against the record).
TimelineReplays ==
    loop = None =>
    \A id \in Ids :
        LET moves == Moves(id, Len(timeline))
        IN  /\ \A k \in moves :
                   /\ timeline[k].version = Cardinality(Moves(id, k)) + 1
                   /\ timeline[k].action = "task.handoff" =>
                          timeline[k].from = AssigneeAfter(id, k - 1)
            /\ Exists(id) =>
                   /\ store[id].assignee = AssigneeAfter(id, Len(timeline))
                   /\ store[id].version =
                         Cardinality(moves) + IF store[id].status = "pending" \/ Posted(id)
                                              THEN 1 ELSE 2

\* The versions on a task's timeline rise, even when a gRPC thread preempts a
\* handler between its version test, its write and its report: a client orders
\* the events of a task by their versions.
TimelineVersionsRise ==
    \A id \in Ids :
        \A i, j \in Moves(id, Len(timeline)) :
            i < j => timeline[i].version < timeline[j].version

\* A task accepted over gRPC ends as completed or failed, so that a client that
\* polls GetTask sees the end (the comment in GrpcServiceHandler.submit_task).
AcceptedTaskFinishes ==
    \A id \in Ids : (Exists(id) /\ store[id].status = "pending")
                       ~> (Exists(id) /\ store[id].status \in Terminal)

\* The store without the scheduling: an update counts from its write on, the
\* version it is about to stamp included.
Updating(id) ==
    \/ \E r \in Requests : request[r].pc = "written" /\ request[r].id = id
    \/ \E w \in Workers : worker[w].pc = "written" /\ worker[w].id = id

View ==
    [id \in Ids |-> IF Updating(id) THEN [store[id] EXCEPT !.version = @ + 1]
                                    ELSE store[id]]

\* Seen so, the store is the task board.
Board == INSTANCE TaskBoard WITH board <- View
ImplementsBoard == Board!Spec
================================================================================
