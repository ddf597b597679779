------------------------ MODULE TaskCollaborationProofs ------------------------
(***************************************************************************)
(* What TaskCollaboration guarantees for every set of users, tasks,        *)
(* requests and workers.                                                   *)
(***************************************************************************)
EXTENDS TaskCollaboration, TLAPS, FiniteSetTheorems, WellFoundedInduction

\* The points inside the segment of a claim or a handoff, and of a run.
InSegment == {"checked", "bound", "matched", "written", "stamped"}
InWorkerSegment == {"answered", "bound", "matched", "written"}

\* Whoever is at work on a task works on one that is in the store, and its
\* arguments are bound.
Grounded ==
    /\ \A r \in Requests :
          request[r].pc = "running" => request[r].id \in Ids /\ request[r].user \in Users
    /\ \A r \in Requests :
          request[r].pc \in InSegment =>
              /\ request[r].id \in Ids /\ Exists(request[r].id)
              /\ request[r].user \in Users /\ request[r].to \in Users
    /\ \A w \in Workers :
          worker[w].pc # "idle" => worker[w].id \in Ids /\ Exists(worker[w].id)
    /\ \A w \in Workers :
          worker[w].pc \in InWorkerSegment => worker[w].want \in Terminal

Typed == TypeOK /\ Grounded

USE DEF Terminal, InSegment, InWorkerSegment

\* A typed update of one request or one worker leaves both functions typed.
LEMMA RequestTyped ==
  ASSUME TypeOK, NEW r \in Requests, NEW q \in RequestType,
         request' = [request EXCEPT ![r] = q]
  PROVE  request' \in [Requests -> RequestType]
  BY DEF TypeOK

\* Replacing one worker's job leaves the workers typed.
LEMMA WorkerTyped ==
  ASSUME TypeOK, NEW w \in Workers, NEW j \in WorkerType,
         worker' = [worker EXCEPT ![w] = j]
  PROVE  worker' \in [Workers -> WorkerType]
  BY DEF TypeOK

\* So does moving a request or a worker on.
LEMMA RequestAt ==
  ASSUME NEW q \in RequestType, NEW p \in InSegment
  PROVE  [q EXCEPT !.pc = p] \in RequestType
  BY DEF RequestType

\* A worker that moves to another place of its segment stays typed.
LEMMA WorkerAt ==
  ASSUME NEW j \in WorkerType, NEW p \in InWorkerSegment
  PROVE  [j EXCEPT !.pc = p] \in WorkerType
  BY DEF WorkerType

\* A worker that has its answer, and the status it wants for it, is typed.
LEMMA WorkerWants ==
  ASSUME NEW j \in WorkerType, NEW st \in Terminal
  PROVE  /\ [j EXCEPT !.pc = "answered", !.answer = st, !.want = st] \in WorkerType
         /\ [j EXCEPT !.pc = "answered", !.want = st] \in WorkerType
  BY DEF WorkerType

\* A worker that has read the version it expects is typed.
LEMMA WorkerExpects ==
  ASSUME NEW j \in WorkerType, NEW v \in Nat
  PROVE  [j EXCEPT !.pc = "bound", !.expected = v] \in WorkerType
  BY DEF WorkerType

\* What a submission begins with, over REST and over gRPC, is typed.
LEMMA SubmittedTyped ==
  ASSUME NEW u \in Users, NEW id \in Ids, NEW q \in RequestType
  PROVE  [q EXCEPT !.pc = "running", !.op = "submit", !.user = u, !.id = id] \in RequestType
  BY DEF RequestType

\* A worker that takes up a submitted task is typed.
LEMMA WorkerSubmitted ==
  ASSUME NEW id \in Ids, NEW j \in WorkerType
  PROVE  [j EXCEPT !.pc = "llm", !.id = id] \in WorkerType
  BY DEF WorkerType

\* A request and a worker that do nothing are typed.
LEMMA IdleTyped == IdleRequest \in RequestType /\ IdleWorker \in WorkerType
  BY DEF IdleRequest, IdleWorker, RequestType, WorkerType

\* The first state is typed.
LEMMA TypedInit == Init => Typed
  BY CollaborationAssumption
  DEF Init, Typed, TypeOK, Grounded, IdleRequest, IdleWorker, RequestType, WorkerType

\* Records in the store stay there, so what is grounded in one stays grounded.
LEMMA TypedNext == Typed /\ [Next]_vars => Typed'
<1> SUFFICES ASSUME Typed, [Next]_vars PROVE Typed'
  OBVIOUS
<1> USE CollaborationAssumption, NoneIsNoRecord DEF Typed
<1>1. ASSUME NEW r \in Requests, NEW u \in Users, NEW id \in Ids, BeginSubmit(r, u, id)
      PROVE  Typed'
  <2> DEFINE q == [IdleRequest EXCEPT !.pc = "running", !.op = "submit", !.user = u, !.id = id]
  <2>1. q.pc = "running" /\ q.user = u /\ q.id = id
    BY DEF IdleRequest
  <2>2. q \in RequestType
    BY IdleTyped, SubmittedTyped
  <2>3. request' = [request EXCEPT ![r] = q] /\ UNCHANGED <<store, worker, loop, timeline>>
    BY <1>1 DEF BeginSubmit
  <2> HIDE DEF q
  <2>4. TypeOK'
    BY <2>2, <2>3 DEF TypeOK
  <2>5. Grounded'
    BY <2>1, <2>3 DEF Grounded, TypeOK, Exists
  <2> QED
    BY <2>4, <2>5
<1>2. ASSUME NEW r \in Requests, FinishSubmit(r) PROVE Typed'
  <2> DEFINE id == request[r].id
  <2>1. PICK st \in Terminal : store' = [store EXCEPT ![id] = NewRecord(st, request[r].user, {})]
    BY <1>2 DEF FinishSubmit, Save
  <2>2. id \in Ids /\ request[r].user \in Users
    BY <1>2 DEF FinishSubmit, Grounded
  <2>3. NewRecord(st, request[r].user, {}) \in TaskRecord
    BY <2>2 DEF NewRecord, TaskRecord
  <2>4. store' \in [Ids -> TaskRecord \cup {None}] /\ \A i \in Ids : Exists(i) => Exists(i)'
    BY <2>1, <2>2, <2>3 DEF TypeOK, Exists
  <2>5. request' \in [Requests -> RequestType] /\ timeline' \in Seq(EventType)
    BY <1>2, <2>2 DEF FinishSubmit, TypeOK, IdleRequest, RequestType, Log, Event, EventType
  <2> QED
    BY <1>2, <2>4, <2>5 DEF FinishSubmit, TypeOK, Grounded, IdleRequest
<1>3. ASSUME NEW r \in Requests, AbortSubmit(r) PROVE Typed'
  <2>1. request[r].id \in Ids /\ request[r].user \in Users
    BY <1>3 DEF AbortSubmit, Grounded
  <2>2. request' \in [Requests -> RequestType] /\ timeline' \in Seq(EventType)
    BY <1>3, <2>1 DEF AbortSubmit, TypeOK, IdleRequest, RequestType, Log, Event, EventType
  <2> QED
    BY <1>3, <2>2 DEF AbortSubmit, TypeOK, Grounded, IdleRequest, Exists
<1>4. ASSUME NEW r \in Requests, NEW op \in {"claim", "handoff"}, NEW u \in Users,
             NEW to \in Users, NEW id \in Ids, NEW v \in SentVersions,
             Accept(r, Call(op, u, to, id, v))
      PROVE  Typed'
  <2> DEFINE q == [Call(op, u, to, id, v) EXCEPT !.pc = "checked"]
  <2>1. q = [pc |-> "checked", op |-> op, user |-> u, id |-> id,
             to |-> IF op = "claim" THEN u ELSE to, expected |-> v, prev |-> None]
    BY DEF Call
  <2>2. q \in RequestType
    BY <2>1 DEF RequestType, SentVersions
  <2>3. Exists(id)
    BY <1>4 DEF Accept, Allowed, Call, IdleRequest
  <2>4. request' = [request EXCEPT ![r] = q] /\ loop' = r /\ UNCHANGED <<store, worker, timeline>>
    BY <1>4 DEF Accept
  <2> HIDE DEF q
  <2>5. TypeOK'
    BY <2>2, <2>4 DEF TypeOK
  <2>6. Grounded'
    BY <2>1, <2>3, <2>4 DEF Grounded, TypeOK, Exists
  <2> QED
    BY <2>5, <2>6
<1>5. ASSUME NEW r \in Requests, Bind(r) PROVE Typed'
  <2> DEFINE rec == store[request[r].id]
             v == IF request[r].expected = None THEN rec.version ELSE request[r].expected
             q == [request[r] EXCEPT !.pc = "bound", !.expected = v, !.prev = rec.assignee]
  <2>1. rec \in TaskRecord /\ request[r] \in RequestType
    BY <1>5 DEF Bind, TypeOK, Grounded, Exists
  <2>2. rec.assignee \in Users \cup {None} /\ v \in Nat \cup {None}
    BY <2>1 DEF TaskRecord, RequestType
  <2>3. request' = [request EXCEPT ![r] = q]
    BY <1>5, <2>1 DEF Bind, TypeOK
  <2> HIDE DEF rec, v
  <2>4. q \in RequestType /\ q.id = request[r].id /\ q.to = request[r].to
        /\ q.user = request[r].user /\ q.pc = "bound"
    BY <2>1, <2>2 DEF RequestType
  <2> HIDE DEF q
  <2>5. TypeOK'
    <3>1. request' \in [Requests -> RequestType]
      BY <2>3, <2>4, RequestTyped
    <3> QED
      BY <1>5, <3>1 DEF Bind, TypeOK
  <2>6. /\ UNCHANGED <<store, worker, loop, timeline>> /\ request[r].pc = "checked"
        /\ request'[r] = q /\ \A p \in Requests \ {r} : request'[p] = request[p]
    <3>1. UNCHANGED <<store, worker, loop, timeline>> /\ request[r].pc = "checked"
      BY ONLY <1>5 DEF Bind
    <3>2. request \in [Requests -> RequestType]
      BY DEF TypeOK
    <3>3. request'[r] = q /\ \A p \in Requests \ {r} : request'[p] = request[p]
      BY ONLY <1>5, <2>3, <3>2
    <3> QED
      BY ONLY <3>1, <3>3
  <2>7. Grounded'
    BY <2>4, <2>6 DEF Grounded, Exists
  <2> QED
    BY <2>5, <2>7
<1>6. ASSUME NEW r \in Requests, Match(r) PROVE Typed'
  <2>1. TypeOK'
    <3>1. [request[r] EXCEPT !.pc = "matched"] \in RequestType
      BY RequestAt DEF TypeOK
    <3>2. request' = [request EXCEPT ![r] = [request[r] EXCEPT !.pc = "matched"]]
      BY <1>6 DEF Match
    <3>3. request' \in [Requests -> RequestType]
      BY <3>1, <3>2, RequestTyped
    <3> QED
      BY <1>6, <3>3 DEF Match, TypeOK
  <2>2. Grounded'
    BY <1>6 DEF Match, TypeOK, RequestType, Grounded, Exists
  <2> QED
    BY <2>1, <2>2
<1>14. ASSUME NEW r \in Requests, Conflict(r) PROVE Typed'
  <2>1. TypeOK'
    BY <1>14 DEF Conflict, TypeOK, RequestType, IdleRequest
  <2>2. Grounded'
    BY <1>14 DEF Conflict, TypeOK, IdleRequest, Grounded, Exists
  <2> QED
    BY <2>1, <2>2
<1>7. ASSUME NEW r \in Requests, Write(r) PROVE Typed'
  <2>1. /\ request[r].id \in Ids /\ request[r].to \in Users
        /\ store[request[r].id] \in TaskRecord
    BY <1>7 DEF Write, TypeOK, Grounded, Exists
  <2>2. store' \in [Ids -> TaskRecord \cup {None}] /\ \A i \in Ids : Exists(i) => Exists(i)'
    <3>1. [store[request[r].id] EXCEPT !.assignee = request[r].to] \in TaskRecord
      BY <2>1 DEF TaskRecord
    <3> QED
      BY <1>7, <2>1, <3>1 DEF Write, SetAssignee, TypeOK, Exists
  <2>3. TypeOK'
    <3>1. [request[r] EXCEPT !.pc = "written"] \in RequestType
      BY RequestAt DEF TypeOK
    <3>2. request' = [request EXCEPT ![r] = [request[r] EXCEPT !.pc = "written"]]
      BY <1>7 DEF Write
    <3>3. request' \in [Requests -> RequestType]
      BY <3>1, <3>2, RequestTyped
    <3> QED
      BY <1>7, <2>2, <3>3 DEF Write, TypeOK
  <2>4. Grounded'
    BY <1>7, <2>2 DEF Write, TypeOK, RequestType, Grounded
  <2> QED
    BY <2>3, <2>4
<1>15. ASSUME NEW r \in Requests, Stamp(r) PROVE Typed'
  <2>1. request[r].id \in Ids /\ store[request[r].id] \in TaskRecord
    BY <1>15 DEF Stamp, TypeOK, Grounded, Exists
  <2>2. store' \in [Ids -> TaskRecord \cup {None}] /\ \A i \in Ids : Exists(i) => Exists(i)'
    <3>1. [store[request[r].id] EXCEPT !.version = @ + 1] \in TaskRecord
      BY <2>1 DEF TaskRecord
    <3> QED
      BY <1>15, <2>1, <3>1 DEF Stamp, StampVersion, TypeOK, Exists
  <2>3. TypeOK'
    <3>1. [request[r] EXCEPT !.pc = "stamped"] \in RequestType
      BY RequestAt DEF TypeOK
    <3>2. request' = [request EXCEPT ![r] = [request[r] EXCEPT !.pc = "stamped"]]
      BY <1>15 DEF Stamp
    <3>3. request' \in [Requests -> RequestType]
      BY <3>1, <3>2, RequestTyped
    <3> QED
      BY <1>15, <2>2, <3>3 DEF Stamp, TypeOK
  <2>4. Grounded'
    BY <1>15, <2>2 DEF Stamp, TypeOK, RequestType, Grounded
  <2> QED
    BY <2>3, <2>4
<1>8. ASSUME NEW r \in Requests, Report(r) PROVE Typed'
  <2>1. /\ request[r] \in RequestType /\ request[r].id \in Ids /\ request[r].user \in Users
        /\ store[request[r].id] \in TaskRecord
    BY <1>8 DEF Report, TypeOK, Grounded, Exists
  <2>2. timeline' \in Seq(EventType)
    BY <1>8, <2>1 DEF Report, TypeOK, Log, Event, EventType, TaskRecord, RequestType
  <2> QED
    BY <1>8, <2>2 DEF Report, TypeOK, Grounded, IdleRequest, RequestType, Exists
<1>9. ASSUME NEW w \in Workers, NEW u \in Users, NEW id \in Ids, NEW sh \in SharedSets,
             GrpcSubmit(w, u, id, sh)
      PROVE  Typed'
  <2>1. NewRecord("pending", u, sh) \in TaskRecord
    BY DEF NewRecord, TaskRecord
  <2>2. store' \in [Ids -> TaskRecord \cup {None}] /\ \A i \in Ids : Exists(i) => Exists(i)'
    BY <1>9, <2>1 DEF GrpcSubmit, Save, TypeOK, Exists
  <2>3. Exists(id)'
    BY <1>9, <2>1 DEF GrpcSubmit, Save, TypeOK, Exists
  <2> DEFINE j == [IdleWorker EXCEPT !.pc = "llm", !.id = id]
  <2>4. j.pc = "llm" /\ j.id = id
    BY DEF IdleWorker
  <2>5. j \in WorkerType
    BY IdleTyped, WorkerSubmitted
  <2>6. worker' = [worker EXCEPT ![w] = j] /\ UNCHANGED <<request, loop, timeline>>
    BY <1>9 DEF GrpcSubmit
  <2> HIDE DEF j
  <2>7. TypeOK'
    BY <2>2, <2>5, <2>6 DEF TypeOK
  <2>8. Grounded'
    BY <2>2, <2>3, <2>4, <2>6 DEF TypeOK, Grounded
  <2> QED
    BY <2>7, <2>8
<1>10. ASSUME NEW w \in Workers, CancelRun(w) PROVE Typed'
  <2>1. TypeOK'
    BY <1>10 DEF CancelRun, IdleWorker, TypeOK, WorkerType
  <2>2. Grounded'
    BY <1>10 DEF CancelRun, IdleWorker, TypeOK, WorkerType, Grounded, Exists
  <2> QED
    BY <2>1, <2>2
<1>16. ASSUME NEW w \in Workers, LlmAnswers(w) PROVE Typed'
  <2>1. TypeOK'
    <3>1. PICK a \in Terminal :
             worker' = [worker EXCEPT ![w].pc = "answered", ![w].answer = a, ![w].want = a]
      BY <1>16 DEF LlmAnswers
    <3>2. [worker[w] EXCEPT !.pc = "answered", !.answer = a, !.want = a] \in WorkerType
      BY WorkerWants DEF TypeOK
    <3>3. worker' = [worker EXCEPT ![w] =
                        [worker[w] EXCEPT !.pc = "answered", !.answer = a, !.want = a]]
      BY ONLY <3>1, TypeOK DEF TypeOK, WorkerType
    <3>4. worker' \in [Workers -> WorkerType]
      BY <3>2, <3>3, WorkerTyped
    <3> QED
      BY <1>16, <3>4 DEF LlmAnswers, TakeLoop, TypeOK
  <2>2. Grounded'
    BY <1>16 DEF LlmAnswers, TakeLoop, TypeOK, WorkerType, Grounded, Exists
  <2> QED
    BY <2>1, <2>2
<1>17. ASSUME NEW w \in Workers, WorkerMatch(w) PROVE Typed'
  <2>1. TypeOK'
    BY <1>17 DEF WorkerMatch, TypeOK, WorkerType
  <2>2. Grounded'
    BY <1>17 DEF WorkerMatch, TypeOK, WorkerType, Grounded, Exists
  <2> QED
    BY <2>1, <2>2
<1>18. ASSUME NEW w \in Workers, WorkerConflict(w) PROVE Typed'
  <2>1. CASE worker' = [worker EXCEPT ![w].pc = "answered", ![w].want = "failed"] /\ UNCHANGED loop
    <3>1. TypeOK'
      <4>1. [worker[w] EXCEPT !.pc = "answered", !.want = "failed"] \in WorkerType
        BY WorkerWants DEF TypeOK
      <4>2. worker' = [worker EXCEPT ![w] = [worker[w] EXCEPT !.pc = "answered", !.want = "failed"]]
        BY ONLY <2>1, TypeOK DEF TypeOK, WorkerType
      <4>3. worker' \in [Workers -> WorkerType]
        BY <4>1, <4>2, WorkerTyped
      <4> QED
        BY <1>18, <2>1, <4>3 DEF WorkerConflict, TypeOK
    <3>2. Grounded'
      BY <1>18, <2>1 DEF WorkerConflict, TypeOK, WorkerType, Grounded, Exists
    <3> QED
      BY <3>1, <3>2
  <2>2. CASE worker' = [worker EXCEPT ![w] = IdleWorker] /\ LeaveLoop(w)
    <3>1. TypeOK'
      BY <1>18, <2>2 DEF WorkerConflict, LeaveLoop, IdleWorker, TypeOK, WorkerType
    <3>2. Grounded'
      BY <1>18, <2>2 DEF WorkerConflict, IdleWorker, TypeOK, Grounded, Exists
    <3> QED
      BY <3>1, <3>2
  <2> QED
    BY <1>18, <2>1, <2>2 DEF WorkerConflict
<1>11. ASSUME NEW w \in Workers, GetCurrent(w) PROVE Typed'
  <2>1. worker[w].id \in Ids /\ store[worker[w].id].version \in Nat
    BY <1>11 DEF GetCurrent, TypeOK, Grounded, Exists, TaskRecord
  <2>2. TypeOK'
    <3>1. [worker[w] EXCEPT !.pc = "bound", !.expected = store[worker[w].id].version] \in WorkerType
      BY <2>1, WorkerExpects DEF TypeOK
    <3>2. worker' = [worker EXCEPT ![w] = [worker[w] EXCEPT !.pc = "bound", !.expected = store[worker[w].id].version]]
      BY ONLY <1>11, TypeOK DEF GetCurrent, TypeOK, WorkerType
    <3>3. worker' \in [Workers -> WorkerType]
      BY <3>1, <3>2, WorkerTyped
    <3> QED
      BY <1>11, <3>3 DEF GetCurrent, TypeOK
  <2>3. Grounded'
    BY <1>11 DEF GetCurrent, TypeOK, WorkerType, Grounded, Exists
  <2> QED
    BY <2>2, <2>3
<1>12. ASSUME NEW w \in Workers, WorkerWrite(w) PROVE Typed'
  <2>1. /\ worker[w].id \in Ids /\ worker[w].want \in Terminal
        /\ store[worker[w].id] \in TaskRecord
    BY <1>12 DEF WorkerWrite, TypeOK, Grounded, Exists
  <2>2. store' \in [Ids -> TaskRecord \cup {None}] /\ \A i \in Ids : Exists(i) => Exists(i)'
    <3>1. [store[worker[w].id] EXCEPT !.status = worker[w].want] \in TaskRecord
      BY <2>1 DEF TaskRecord
    <3> QED
      BY <1>12, <2>1, <3>1 DEF WorkerWrite, SetStatus, TypeOK, Exists
  <2>3. TypeOK'
    <3>1. [worker[w] EXCEPT !.pc = "written"] \in WorkerType
      BY WorkerAt DEF TypeOK
    <3>2. worker' = [worker EXCEPT ![w] = [worker[w] EXCEPT !.pc = "written"]]
      BY <1>12 DEF WorkerWrite
    <3>3. worker' \in [Workers -> WorkerType]
      BY <3>1, <3>2, WorkerTyped
    <3> QED
      BY <1>12, <2>2, <3>3 DEF WorkerWrite, TypeOK
  <2>4. Grounded'
    BY <1>12, <2>2 DEF WorkerWrite, TypeOK, WorkerType, Grounded
  <2> QED
    BY <2>3, <2>4
<1>19. ASSUME NEW w \in Workers, WorkerStamp(w) PROVE Typed'
  <2>1. /\ worker[w].id \in Ids /\ worker[w].want \in Terminal
        /\ store[worker[w].id] \in TaskRecord
    BY <1>19 DEF WorkerStamp, TypeOK, Grounded, Exists
  <2>2. store' \in [Ids -> TaskRecord \cup {None}] /\ \A i \in Ids : Exists(i) => Exists(i)'
    <3>1. [store[worker[w].id] EXCEPT !.version = @ + 1] \in TaskRecord
      BY <2>1 DEF TaskRecord
    <3>2. store' = [store EXCEPT ![worker[w].id] = [store[worker[w].id] EXCEPT !.version = @ + 1]]
      BY <1>19 DEF WorkerStamp, StampVersion
    <3> QED
      BY <2>1, <3>1, <3>2 DEF TypeOK, Exists
  <2>3. TypeOK'
    BY <1>19, <2>2 DEF WorkerStamp, LeaveLoop, IdleWorker, TypeOK, WorkerType
  <2>4. Grounded'
    BY <1>19, <2>2 DEF WorkerStamp, LeaveLoop, IdleWorker, TypeOK, WorkerType, Grounded
  <2> QED
    BY <2>3, <2>4
<1>13. CASE UNCHANGED vars
  BY <1>13 DEF vars, TypeOK, Grounded, Exists
<1> QED
  BY <1>1, <1>2, <1>3, <1>4, <1>5, <1>6, <1>7, <1>8, <1>9, <1>10, <1>11, <1>12, <1>13,
     <1>14, <1>15, <1>16, <1>17, <1>18, <1>19
  DEF Next, RequestStep, WorkerStep, Refuse

\* Every variable keeps its type, threads and reused ids included.
THEOREM Typing == Spec => []TypeOK
<1>1. Init => Typed
  BY TypedInit
<1>2. Typed /\ [Next]_vars => Typed'
  BY TypedNext
<1>3. Typed => TypeOK
  BY DEF Typed
<1> QED
  BY <1>1, <1>2, <1>3, PTL DEF Spec

--------------------------------------------------------------------------------
(* One event loop, generated ids                                            *)

OneLoop == ~Threaded /\ ~MayReuseId

\* Whoever is inside a segment holds the loop.
LoopHeld ==
    /\ \A r \in Requests : request[r].pc \in InSegment => loop = r
    /\ \A w \in Workers : worker[w].pc \in InWorkerSegment => loop = w

\* A claim or a handoff past its checks works on a pending task; so does a run,
\* up to its write, and the task is its alone.
PendingInHand ==
    /\ \A r \in Requests :
          request[r].pc \in InSegment => store[request[r].id].status = "pending"
    /\ \A w \in Workers :
          worker[w].pc \in {"llm", "answered", "bound", "matched"} =>
              store[worker[w].id].status = "pending"
    /\ \A v, w \in Workers :
          /\ worker[v].pc # "idle" /\ worker[w].pc # "idle"
          /\ worker[v].id = worker[w].id
          => v = w

\* A submit that waits for its agent has an id no task and no other submit has.
IdInHand ==
    /\ \A r \in Requests : request[r].pc = "running" => ~Exists(request[r].id)
    /\ \A q, r \in Requests :
          /\ request[q].pc = "running" /\ request[r].pc = "running"
          /\ request[q].id = request[r].id
          => q = r

\* A run writes what the model answered, against the version it has just read.
AnswerInHand ==
    \A w \in Workers :
        /\ worker[w].pc \in InWorkerSegment => worker[w].want = worker[w].answer
        /\ worker[w].pc \in {"bound", "matched"} =>
              worker[w].expected = store[worker[w].id].version

InHand == LoopHeld /\ PendingInHand /\ IdInHand /\ AnswerInHand

\* At first no coroutine has a task in hand.
LEMMA InHandInit == Init => InHand
  BY DEF Init, InHand, LoopHeld, PendingInHand, IdInHand, AnswerInHand, IdleRequest, IdleWorker

\* Two coroutines are never inside a segment at the same time.
LEMMA OneInside ==
  ASSUME Typed, LoopHeld
  PROVE  /\ \A q, r \in Requests :
                request[q].pc \in InSegment /\ request[r].pc \in InSegment => q = r
         /\ \A v, w \in Workers :
                worker[v].pc \in InWorkerSegment /\ worker[w].pc \in InWorkerSegment => v = w
         /\ \A r \in Requests, w \in Workers :
                ~(request[r].pc \in InSegment /\ worker[w].pc \in InWorkerSegment)
  BY CollaborationAssumption DEF LoopHeld

\* On one event loop every step keeps what the coroutines have in hand.
LEMMA InHandNext == OneLoop /\ Typed /\ InHand /\ [Next]_vars => InHand'
<1> SUFFICES ASSUME OneLoop, Typed, InHand, [Next]_vars PROVE InHand'
  OBVIOUS
<1> USE CollaborationAssumption, NoneIsNoRecord DEF OneLoop
<1>1. ASSUME NEW r \in Requests, NEW u \in Users, NEW id \in Ids, BeginSubmit(r, u, id) PROVE InHand'
  <2>1. LoopHeld'
    BY <1>1, OneInside DEF BeginSubmit, Fresh, OnLoop, IdleRequest, InHand, LoopHeld, Typed, TypeOK
  <2>2. PendingInHand'
    BY <1>1, OneInside DEF BeginSubmit, Fresh, OnLoop, IdleRequest, InHand, PendingInHand, Typed, TypeOK, Grounded, Exists
  <2>3. IdInHand'
    BY <1>1, OneInside DEF BeginSubmit, Fresh, OnLoop, IdleRequest, InHand, IdInHand, Typed, TypeOK, Grounded, Exists
  <2>4. AnswerInHand'
    BY <1>1, OneInside DEF BeginSubmit, Fresh, OnLoop, IdleRequest, InHand, PendingInHand, AnswerInHand, Typed, TypeOK, Grounded, Exists
  <2> QED
    BY <2>1, <2>2, <2>3, <2>4 DEF InHand
<1>2. ASSUME NEW r \in Requests, FinishSubmit(r) PROVE InHand'
  <2> DEFINE id == request[r].id
  <2>1. LoopHeld'
    BY <1>2 DEF FinishSubmit, OnLoop, IdleRequest, InHand, LoopHeld, Typed, TypeOK
  \* The id is new: nobody else is at work on it.
  <2>2. /\ id \in Ids /\ ~Exists(id)
        /\ \A w \in Workers : worker[w].pc # "idle" => worker[w].id # id
        /\ \A q \in Requests : request[q].pc \in InSegment => request[q].id # id
    BY <1>2 DEF FinishSubmit, InHand, IdInHand, Typed, Grounded
  <2>3. \A i \in Ids : i # id => store'[i] = store[i]
    BY <1>2 DEF FinishSubmit, Save, Typed, TypeOK
  <2>4. /\ worker' = worker /\ request'[r].pc = "idle"
        /\ \A q \in Requests : q # r => request'[q] = request[q]
    BY <1>2 DEF FinishSubmit, IdleRequest, Typed, TypeOK
  <2>5. PendingInHand'
    <3>1. \A q \in Requests :
             request'[q].pc \in InSegment => store'[request'[q].id].status = "pending"
      BY <2>2, <2>3, <2>4 DEF InHand, PendingInHand, Typed, Grounded
    <3>2. \A w \in Workers :
             worker'[w].pc \in {"llm", "answered", "bound", "matched"} =>
                store'[worker'[w].id].status = "pending"
      BY <2>2, <2>3, <2>4 DEF InHand, PendingInHand, Typed, Grounded
    <3> QED
      BY <2>4, <3>1, <3>2 DEF InHand, PendingInHand
  <2>6. IdInHand'
    BY <1>2 DEF FinishSubmit, Save, NewRecord, IdleRequest, InHand, IdInHand,
                Typed, TypeOK, Grounded, Exists
  <2>7. AnswerInHand'
    BY <2>2, <2>3, <2>4 DEF InHand, AnswerInHand, Typed, Grounded
  <2> QED
    BY <2>1, <2>5, <2>6, <2>7 DEF InHand
<1>3. ASSUME NEW r \in Requests, AbortSubmit(r) PROVE InHand'
  <2>1. LoopHeld'
    BY <1>3, OneInside DEF AbortSubmit, OnLoop, IdleRequest, InHand, LoopHeld, Typed, TypeOK
  <2>2. PendingInHand'
    BY <1>3, OneInside DEF AbortSubmit, OnLoop, IdleRequest, InHand, PendingInHand, Typed, TypeOK, Grounded, Exists
  <2>3. IdInHand'
    BY <1>3, OneInside DEF AbortSubmit, OnLoop, IdleRequest, InHand, IdInHand, Typed, TypeOK, Grounded, Exists
  <2>4. AnswerInHand'
    BY <1>3, OneInside DEF AbortSubmit, OnLoop, IdleRequest, InHand, PendingInHand, AnswerInHand, Typed, TypeOK, Grounded, Exists
  <2> QED
    BY <2>1, <2>2, <2>3, <2>4 DEF InHand
<1>4. ASSUME NEW r \in Requests, NEW op \in {"claim", "handoff"}, NEW u \in Users,
             NEW to \in Users, NEW id \in Ids, NEW v \in SentVersions, Accept(r, Call(op, u, to, id, v)) PROVE InHand'
  <2>1. LoopHeld'
    BY <1>4, OneInside DEF Accept, Call, Allowed, OnLoop, InHand, LoopHeld, Typed, TypeOK
  <2>2. PendingInHand'
    <3>1. /\ store' = store /\ worker' = worker
          /\ request'[r].id = id
          /\ \A q \in Requests : q # r => request'[q] = request[q]
      BY <1>4 DEF Accept, Call, Typed, TypeOK
    <3>2. store[id].status = "pending"
      BY <1>4 DEF Accept, Call, Allowed, Exists, Typed, TypeOK, TaskRecord
    <3> QED
      BY <3>1, <3>2 DEF InHand, PendingInHand
  <2>3. IdInHand'
    BY <1>4, OneInside DEF Accept, Call, Allowed, OnLoop, InHand, IdInHand, Typed, TypeOK, Grounded, Exists
  <2>4. AnswerInHand'
    BY <1>4, OneInside DEF Accept, Call, Allowed, OnLoop, InHand, PendingInHand, AnswerInHand, Typed, TypeOK, Grounded, Exists
  <2> QED
    BY <2>1, <2>2, <2>3, <2>4 DEF InHand
<1>5. ASSUME NEW r \in Requests, Bind(r) PROVE InHand'
  <2>a. /\ UNCHANGED <<store, worker, loop>> /\ request[r].pc = "checked"
        /\ request'[r].pc = "bound" /\ request'[r].id = request[r].id
        /\ \A q \in Requests \ {r} : request'[q] = request[q]
    BY <1>5 DEF Bind, Typed, TypeOK, RequestType
  <2>1. LoopHeld'
    <3>1. LoopHeld
      BY DEF InHand
    <3> QED
      BY ONLY <2>a, <3>1 DEF LoopHeld, InSegment
  <2>2. PendingInHand'
    BY <2>a DEF InHand, PendingInHand
  <2>3. IdInHand'
    BY <2>a DEF InHand, IdInHand, Exists
  <2>4. AnswerInHand'
    BY <1>5, OneInside DEF Bind, InHand, PendingInHand, AnswerInHand, Typed, TypeOK, Grounded, Exists
  <2> QED
    BY <2>1, <2>2, <2>3, <2>4 DEF InHand
<1>6. ASSUME NEW r \in Requests, Match(r) PROVE InHand'
  <2>1. LoopHeld'
    BY <1>6, OneInside DEF Match, InHand, LoopHeld, Typed, TypeOK
  <2>2. PendingInHand'
    BY <1>6, OneInside DEF Match, InHand, PendingInHand, Typed, TypeOK, Grounded, Exists
  <2>3. IdInHand'
    BY <1>6, OneInside DEF Match, InHand, IdInHand, Typed, TypeOK, Grounded, Exists
  <2>4. AnswerInHand'
    BY <1>6, OneInside DEF Match, InHand, PendingInHand, AnswerInHand, Typed, TypeOK, Grounded, Exists
  <2> QED
    BY <2>1, <2>2, <2>3, <2>4 DEF InHand
<1>7. ASSUME NEW r \in Requests, Conflict(r) PROVE InHand'
  <2>1. LoopHeld'
    BY <1>7, OneInside DEF Conflict, IdleRequest, InHand, LoopHeld, Typed, TypeOK
  <2>2. PendingInHand'
    BY <1>7, OneInside DEF Conflict, IdleRequest, InHand, PendingInHand, Typed, TypeOK, Grounded, Exists
  <2>3. IdInHand'
    BY <1>7, OneInside DEF Conflict, IdleRequest, InHand, IdInHand, Typed, TypeOK, Grounded, Exists
  <2>4. AnswerInHand'
    BY <1>7, OneInside DEF Conflict, IdleRequest, InHand, PendingInHand, AnswerInHand, Typed, TypeOK, Grounded, Exists
  <2> QED
    BY <2>1, <2>2, <2>3, <2>4 DEF InHand
<1>8. ASSUME NEW r \in Requests, Write(r) PROVE InHand'
  <2>1. LoopHeld'
    BY <1>8, OneInside DEF Write, SetAssignee, InHand, LoopHeld, Typed, TypeOK
  <2>2. PendingInHand'
    BY <1>8, OneInside DEF Write, SetAssignee, InHand, PendingInHand, Typed, TypeOK, Grounded, Exists
  <2>3. IdInHand'
    BY <1>8, OneInside DEF Write, SetAssignee, InHand, IdInHand, Typed, TypeOK, Grounded, Exists
  <2>4. AnswerInHand'
    BY <1>8, OneInside DEF Write, SetAssignee, InHand, PendingInHand, AnswerInHand, Typed, TypeOK, Grounded, Exists
  <2> QED
    BY <2>1, <2>2, <2>3, <2>4 DEF InHand
<1>9. ASSUME NEW r \in Requests, Stamp(r) PROVE InHand'
  <2>1. LoopHeld'
    BY <1>9, OneInside DEF Stamp, StampVersion, InHand, LoopHeld, Typed, TypeOK
  <2>2. PendingInHand'
    BY <1>9, OneInside DEF Stamp, StampVersion, InHand, PendingInHand, Typed, TypeOK, Grounded, Exists
  <2>3. IdInHand'
    BY <1>9, OneInside DEF Stamp, StampVersion, InHand, IdInHand, Typed, TypeOK, Grounded, Exists
  <2>4. AnswerInHand'
    BY <1>9, OneInside DEF Stamp, StampVersion, InHand, PendingInHand, AnswerInHand, Typed, TypeOK, Grounded, Exists
  <2> QED
    BY <2>1, <2>2, <2>3, <2>4 DEF InHand
<1>10. ASSUME NEW r \in Requests, Report(r) PROVE InHand'
  <2>1. LoopHeld'
    BY <1>10, OneInside DEF Report, IdleRequest, InHand, LoopHeld, Typed, TypeOK
  <2>2. PendingInHand'
    <3>1. /\ store' = store /\ worker' = worker /\ request'[r].pc = "idle"
          /\ \A q \in Requests : q # r => request'[q] = request[q]
      BY <1>10 DEF Report, IdleRequest, Typed, TypeOK
    <3>2. PendingInHand
      BY DEF InHand
    <3> QED
      BY ONLY <3>1, <3>2 DEF PendingInHand, InSegment
  <2>3. IdInHand'
    <3>1. /\ store' = store /\ request'[r].pc = "idle"
          /\ \A q \in Requests : q # r => request'[q] = request[q]
      BY <1>10 DEF Report, IdleRequest, Typed, TypeOK
    <3>2. IdInHand
      BY DEF InHand
    <3> QED
      BY ONLY <3>1, <3>2 DEF IdInHand, Exists
  <2>4. AnswerInHand'
    BY <1>10, OneInside DEF Report, IdleRequest, InHand, PendingInHand, AnswerInHand, Typed, TypeOK, Grounded, Exists
  <2> QED
    BY <2>1, <2>2, <2>3, <2>4 DEF InHand
<1>11. ASSUME NEW w \in Workers, NEW u \in Users, NEW id \in Ids, NEW sh \in SharedSets, GrpcSubmit(w, u, id, sh) PROVE InHand'
  <2>1. LoopHeld'
    BY <1>11, OneInside DEF GrpcSubmit, Fresh, Save, NewRecord, WorkerRuns, OnLoop, IdleWorker, InHand, LoopHeld, Typed, TypeOK
  <2>2. PendingInHand'
    BY <1>11, OneInside DEF GrpcSubmit, Fresh, Save, NewRecord, WorkerRuns, OnLoop, IdleWorker, InHand, PendingInHand, Typed, TypeOK, Grounded, Exists
  <2>3. IdInHand'
    BY <1>11, OneInside DEF GrpcSubmit, Fresh, Save, NewRecord, WorkerRuns, OnLoop, IdleWorker, InHand, IdInHand, Typed, TypeOK, Grounded, Exists
  <2>4. AnswerInHand'
    BY <1>11, OneInside DEF GrpcSubmit, Fresh, Save, NewRecord, WorkerRuns, OnLoop, IdleWorker, InHand, PendingInHand, AnswerInHand, Typed, TypeOK, Grounded, Exists
  <2> QED
    BY <2>1, <2>2, <2>3, <2>4 DEF InHand
<1>12. ASSUME NEW w \in Workers, LlmAnswers(w) PROVE InHand'
  <2>1. LoopHeld'
    BY <1>12, OneInside DEF LlmAnswers, WorkerRuns, OnLoop, TakeLoop, InHand, LoopHeld, Typed, TypeOK
  <2>2. PendingInHand'
    BY <1>12, OneInside DEF LlmAnswers, WorkerRuns, OnLoop, TakeLoop, InHand, PendingInHand, Typed, TypeOK, Grounded, Exists
  <2>3. IdInHand'
    BY <1>12, OneInside DEF LlmAnswers, WorkerRuns, OnLoop, TakeLoop, InHand, IdInHand, Typed, TypeOK, Grounded, Exists
  <2>4. AnswerInHand'
    BY <1>12, OneInside DEF LlmAnswers, WorkerRuns, OnLoop, TakeLoop, InHand, PendingInHand, AnswerInHand, Typed, TypeOK, Grounded, Exists
  <2> QED
    BY <2>1, <2>2, <2>3, <2>4 DEF InHand
<1>13. ASSUME NEW w \in Workers, GetCurrent(w) PROVE InHand'
  <2>1. LoopHeld'
    BY <1>13, OneInside DEF GetCurrent, InHand, LoopHeld, Typed, TypeOK
  <2>2. PendingInHand'
    BY <1>13, OneInside DEF GetCurrent, InHand, PendingInHand, Typed, TypeOK, Grounded, Exists
  <2>3. IdInHand'
    BY <1>13, OneInside DEF GetCurrent, InHand, IdInHand, Typed, TypeOK, Grounded, Exists
  <2>4. AnswerInHand'
    BY <1>13, OneInside DEF GetCurrent, InHand, PendingInHand, AnswerInHand, Typed, TypeOK, Grounded, Exists
  <2> QED
    BY <2>1, <2>2, <2>3, <2>4 DEF InHand
<1>14. ASSUME NEW w \in Workers, WorkerMatch(w) PROVE InHand'
  <2>1. LoopHeld'
    BY <1>14, OneInside DEF WorkerMatch, InHand, LoopHeld, Typed, TypeOK
  <2>2. PendingInHand'
    BY <1>14, OneInside DEF WorkerMatch, InHand, PendingInHand, Typed, TypeOK, Grounded, Exists
  <2>3. IdInHand'
    BY <1>14, OneInside DEF WorkerMatch, InHand, IdInHand, Typed, TypeOK, Grounded, Exists
  <2>4. AnswerInHand'
    BY <1>14, OneInside DEF WorkerMatch, InHand, PendingInHand, AnswerInHand, Typed, TypeOK, Grounded, Exists
  <2> QED
    BY <2>1, <2>2, <2>3, <2>4 DEF InHand
<1>15. ASSUME NEW w \in Workers, WorkerWrite(w) PROVE InHand'
  <2>1. LoopHeld'
    BY <1>15, OneInside DEF WorkerWrite, SetStatus, InHand, LoopHeld, Typed, TypeOK
  <2>2. PendingInHand'
    BY <1>15, OneInside DEF WorkerWrite, SetStatus, InHand, PendingInHand, Typed, TypeOK, Grounded, Exists
  <2>3. IdInHand'
    BY <1>15, OneInside DEF WorkerWrite, SetStatus, InHand, IdInHand, Typed, TypeOK, Grounded, Exists
  <2>4. AnswerInHand'
    BY <1>15, OneInside DEF WorkerWrite, SetStatus, InHand, PendingInHand, AnswerInHand, Typed, TypeOK, Grounded, Exists
  <2> QED
    BY <2>1, <2>2, <2>3, <2>4 DEF InHand
<1>16. ASSUME NEW w \in Workers, WorkerStamp(w) PROVE InHand'
  <2>1. LoopHeld'
    BY <1>16, OneInside DEF WorkerStamp, StampVersion, LeaveLoop, IdleWorker, InHand, LoopHeld, Typed, TypeOK
  <2>2. PendingInHand'
    BY <1>16, OneInside DEF WorkerStamp, StampVersion, LeaveLoop, IdleWorker, InHand, PendingInHand, Typed, TypeOK, Grounded, Exists
  <2>3. IdInHand'
    BY <1>16, OneInside DEF WorkerStamp, StampVersion, LeaveLoop, IdleWorker, InHand, IdInHand, Typed, TypeOK, Grounded, Exists
  <2>4. AnswerInHand'
    BY <1>16, OneInside DEF WorkerStamp, StampVersion, LeaveLoop, IdleWorker, InHand, PendingInHand, AnswerInHand, Typed, TypeOK, Grounded, Exists
  <2> QED
    BY <2>1, <2>2, <2>3, <2>4 DEF InHand
\* Neither a cancellation nor a conflict happens to a run on the loop.
<1>17. ASSUME NEW w \in Workers, CancelRun(w) \/ WorkerConflict(w) PROVE FALSE
  BY <1>17 DEF CancelRun, WorkerConflict, VersionMatches, InHand, AnswerInHand
<1>18. CASE UNCHANGED vars
  BY <1>18 DEF vars, InHand, LoopHeld, PendingInHand, IdInHand, AnswerInHand, Exists
<1> QED
  BY <1>1, <1>2, <1>3, <1>4, <1>5, <1>6, <1>7, <1>8, <1>9, <1>10, <1>11, <1>12, <1>13,
     <1>14, <1>15, <1>16, <1>17, <1>18
  DEF Next, RequestStep, WorkerStep, Refuse

--------------------------------------------------------------------------------
(* The properties                                                           *)

\* On one event loop both parts of the invariant hold in every reachable state.
LEMMA Invariance == ASSUME OneLoop PROVE Spec => [](Typed /\ InHand)
<1>1. Init => Typed /\ InHand
  BY TypedInit, InHandInit
<1>2. Typed /\ InHand /\ [Next]_vars => Typed' /\ InHand'
  BY TypedNext, InHandNext
<1> QED
  BY <1>1, <1>2, PTL DEF Spec

\* What a step can do to the store.
Unchanged == store' = store
Posts     == \E id \in Ids, rec \in TaskRecord : ~Exists(id) /\ Save(id, rec)
Assigns   == \E id \in Ids, u \in Users : /\ Exists(id) /\ store[id].status = "pending"
                                        /\ SetAssignee(id, u)
Finishes  == \E w \in Workers : /\ worker[w].id \in Ids /\ Exists(worker[w].id)
                                /\ store[worker[w].id].status = "pending"
                                /\ worker[w].answer \in Terminal
                                /\ SetStatus(worker[w].id, worker[w].answer)
Stamps    == \E id \in Ids : Exists(id) /\ StampVersion(id)

\* Every step leaves the stored records alone, posts, assigns, finishes or stamps one of them.
LEMMA StoreStep ==
  ASSUME OneLoop, Typed, InHand, [Next]_vars
  PROVE  Unchanged \/ Posts \/ Assigns \/ Finishes \/ Stamps
<1>1. ASSUME NEW r \in Requests, FinishSubmit(r) PROVE Posts
  <2>1. PICK st \in Terminal : Save(request[r].id, NewRecord(st, request[r].user, {}))
    BY <1>1 DEF FinishSubmit
  <2>2. request[r].id \in Ids /\ ~Exists(request[r].id) /\ request[r].user \in Users
    BY <1>1 DEF FinishSubmit, InHand, IdInHand, Typed, Grounded
  <2>3. NewRecord(st, request[r].user, {}) \in TaskRecord
    BY <2>2 DEF NewRecord, TaskRecord
  <2> QED
    BY <2>1, <2>2, <2>3 DEF Posts
<1>2. ASSUME NEW w \in Workers, NEW u \in Users, NEW id \in Ids, NEW sh \in SharedSets,
             GrpcSubmit(w, u, id, sh)
      PROVE  Posts
  <2>1. NewRecord("pending", u, sh) \in TaskRecord
    BY CollaborationAssumption DEF NewRecord, TaskRecord
  <2> QED
    BY <1>2, <2>1 DEF GrpcSubmit, Fresh, Posts
<1>3. ASSUME NEW r \in Requests, Write(r) PROVE Assigns
  BY <1>3 DEF Write, Assigns, Typed, Grounded, InHand, PendingInHand
<1>4. ASSUME NEW r \in Requests, Stamp(r) PROVE Stamps
  BY <1>4 DEF Stamp, Stamps, Typed, Grounded
<1>5. ASSUME NEW w \in Workers, WorkerWrite(w) PROVE Finishes
  BY <1>5 DEF WorkerWrite, Finishes, Typed, Grounded, InHand, PendingInHand, AnswerInHand
<1>6. ASSUME NEW w \in Workers, WorkerStamp(w) PROVE Stamps
  BY <1>6 DEF WorkerStamp, Stamps, Typed, Grounded
<1>7. ASSUME NEW r \in Requests,
             \/ \E u \in Users, id \in Ids : BeginSubmit(r, u, id)
             \/ AbortSubmit(r) \/ Bind(r) \/ Match(r) \/ Conflict(r) \/ Report(r)
      PROVE  Unchanged
  BY <1>7 DEF BeginSubmit, AbortSubmit, Bind, Match, Conflict, Report, Unchanged
<1>8. ASSUME NEW r \in Requests, NEW q, Accept(r, q) \/ Refuse(r, q) PROVE Unchanged
  BY <1>8 DEF Accept, Refuse, vars, Unchanged
<1>9. ASSUME NEW w \in Workers,
             \/ CancelRun(w) \/ LlmAnswers(w) \/ GetCurrent(w)
             \/ WorkerMatch(w) \/ WorkerConflict(w)
      PROVE  Unchanged
  BY <1>9 DEF CancelRun, LlmAnswers, GetCurrent, WorkerMatch, WorkerConflict, Unchanged
<1>10. CASE UNCHANGED vars
  BY <1>10 DEF vars, Unchanged
<1> QED
  BY <1>1, <1>2, <1>3, <1>4, <1>5, <1>6, <1>7, <1>8, <1>9, <1>10
  DEF Next, RequestStep, WorkerStep

\* The writes of an update leave the owner of a record alone.
LEMMA OwnerUntouched ==
  ASSUME TypeOK, NEW id \in Ids, NEW at \in Ids, Exists(id), Exists(at),
         \/ \E u \in Users : SetAssignee(at, u)
         \/ \E st \in Terminal : SetStatus(at, st)
         \/ StampVersion(at)
  PROVE  store'[id] # None /\ store'[id].owner = store[id].owner
<1>1. store[id] \in TaskRecord /\ store \in [Ids -> TaskRecord \cup {None}]
  BY DEF TypeOK, Exists
<1>2. CASE store'[id] = store[id]
  BY <1>2 DEF Exists
<1>3. ASSUME NEW u \in Users, store'[id] = [store[id] EXCEPT !.assignee = u]
      PROVE  store'[id] \in TaskRecord /\ store'[id].owner = store[id].owner
  BY ONLY <1>1, <1>3 DEF TaskRecord
<1>4. ASSUME NEW st \in Terminal, store'[id] = [store[id] EXCEPT !.status = st]
      PROVE  store'[id] \in TaskRecord /\ store'[id].owner = store[id].owner
  BY ONLY <1>1, <1>4 DEF TaskRecord
<1>5. ASSUME store'[id] = [store[id] EXCEPT !.version = @ + 1]
      PROVE  store'[id] \in TaskRecord /\ store'[id].owner = store[id].owner
  BY ONLY <1>1, <1>5 DEF TaskRecord
<1> QED
  BY <1>1, <1>2, <1>3, <1>4, <1>5, NoneIsNoRecord DEF SetAssignee, SetStatus, StampVersion

\* Nothing but a later submission under the same id changes who owns a task,
\* with threads and with reused ids too.
THEOREM Ownership == Spec => OwnersReplacedWhole
<1> DEFINE Kept(id) == /\ store'[id] # None
                       /\ store'[id].owner # store[id].owner => SavesAnew(id)
<1>1. ASSUME Typed, [Next]_vars, NEW id \in Ids, Exists(id)
      PROVE  Kept(id)
  <2>1. ASSUME NEW r \in Requests, FinishSubmit(r) PROVE Kept(id)
    <3>1. request[r].id \in Ids /\ request[r].user \in Users /\ store \in [Ids -> TaskRecord \cup {None}]
      BY <1>1, <2>1 DEF FinishSubmit, Typed, TypeOK, Grounded
    <3>2. PICK st \in Terminal : Save(request[r].id, NewRecord(st, request[r].user, {}))
      BY <2>1 DEF FinishSubmit
    <3>3. CASE request[r].id = id
      <4>1. store'[id] = NewRecord(st, request[r].user, {})
        BY <3>1, <3>2, <3>3 DEF Save
      <4>2. store'[id] \in TaskRecord
        BY <3>1, <4>1 DEF NewRecord, TaskRecord
      <4>3. request'[r] = IdleRequest
        BY <1>1, <2>1 DEF FinishSubmit, Typed, TypeOK
      <4> QED
        BY <2>1, <3>3, <4>1, <4>2, <4>3, NoneIsNoRecord DEF SavesAnew, FinishSubmit
    <3>4. CASE request[r].id # id
      BY <1>1, <3>1, <3>2, <3>4 DEF Save, Exists
    <3> QED
      BY <3>3, <3>4
  <2>2. ASSUME NEW w \in Workers, NEW u \in Users, NEW at \in Ids, NEW sh \in SharedSets,
               GrpcSubmit(w, u, at, sh)
        PROVE  Kept(id)
    BY <1>1, <2>2 DEF GrpcSubmit, Fresh, Save, Exists, Typed, TypeOK
  <2>3. ASSUME NEW r \in Requests, Write(r) \/ Stamp(r) PROVE Kept(id)
    <3>1. request[r].id \in Ids /\ Exists(request[r].id) /\ request[r].to \in Users
      BY <1>1, <2>3 DEF Write, Stamp, Typed, Grounded
    <3> QED
      BY <1>1, <2>3, <3>1, OwnerUntouched DEF Write, Stamp, Typed
  <2>4. ASSUME NEW w \in Workers, WorkerWrite(w) \/ WorkerStamp(w) PROVE Kept(id)
    <3>1. worker[w].id \in Ids /\ Exists(worker[w].id) /\ worker[w].want \in Terminal
      BY <1>1, <2>4 DEF WorkerWrite, WorkerStamp, Typed, Grounded
    <3> QED
      BY <1>1, <2>4, <3>1, OwnerUntouched DEF WorkerWrite, WorkerStamp, Typed
  <2>5. ASSUME store' = store PROVE Kept(id)
    BY <1>1, <2>5 DEF Exists
  <2>6. ASSUME NEW r \in Requests,
               \/ \E u \in Users, at \in Ids : BeginSubmit(r, u, at)
               \/ AbortSubmit(r) \/ Bind(r) \/ Match(r) \/ Conflict(r) \/ Report(r)
        PROVE  Kept(id)
    BY <2>5, <2>6 DEF BeginSubmit, AbortSubmit, Bind, Match, Conflict, Report
  <2>7. ASSUME NEW r \in Requests, NEW q, Accept(r, q) \/ Refuse(r, q) PROVE Kept(id)
    BY <2>5, <2>7 DEF Accept, Refuse, vars
  <2>8. ASSUME NEW w \in Workers,
               \/ CancelRun(w) \/ LlmAnswers(w) \/ GetCurrent(w)
               \/ WorkerMatch(w) \/ WorkerConflict(w)
        PROVE  Kept(id)
    BY <2>5, <2>8 DEF CancelRun, LlmAnswers, GetCurrent, WorkerMatch, WorkerConflict
  <2>9. CASE UNCHANGED vars
    BY <2>5, <2>9 DEF vars
  <2> QED
    BY <1>1, <2>1, <2>2, <2>3, <2>4, <2>6, <2>7, <2>8, <2>9
    DEF Next, RequestStep, WorkerStep
<1>2. Typed /\ [Next]_vars => [\A id \in Ids : Exists(id) => Kept(id)]_vars
  BY <1>1
<1> QED
  BY <1>2, TypedInit, TypedNext, PTL DEF Spec, OwnersReplacedWhole

\* A stamp changes the version of a record and leaves it one.
LEMMA StampedRecord ==
  ASSUME NEW r \in TaskRecord
  PROVE  /\ [r EXCEPT !.version = @ + 1] \in TaskRecord
         /\ [[r EXCEPT !.version = @ + 1] EXCEPT !.version = 0] = [r EXCEPT !.version = 0]
<1>1. r.version + 1 \in Nat \ {0}
  BY DEF TaskRecord
<1>2. \A n \in Nat \ {0} : [r EXCEPT !.version = n] \in TaskRecord
  BY Zenon DEF TaskRecord
<1>3. [r EXCEPT !.version = @ + 1] \in TaskRecord
  BY <1>1, <1>2
<1>4. \A n : [[r EXCEPT !.version = n] EXCEPT !.version = 0] = [r EXCEPT !.version = 0]
  BY DEF TaskRecord
<1> QED
  BY <1>3, <1>4

\* A finished task stays as it is, but for the version its own end still stamps.
THEOREM Finality == ASSUME OneLoop PROVE Spec => TerminalIsFinal
<1> DEFINE Fixed(id) ==
      /\ store'[id] # None
      /\ [store'[id] EXCEPT !.version = 0] = [store[id] EXCEPT !.version = 0]
<1>1. ASSUME Typed, InHand, [Next]_vars, NEW id \in Ids, Exists(id),
             store[id].status \in Terminal
      PROVE  Fixed(id)
  <2> USE <1>1, NoneIsNoRecord DEF Typed, TypeOK, Exists
  <2>1. CASE store'[id] = store[id]
    BY <2>1
  <2>2. CASE Stamps /\ store'[id] # store[id]
    <3>1. /\ store[id] \in TaskRecord
          /\ store'[id] = [store[id] EXCEPT !.version = @ + 1]
      BY <2>2 DEF Stamps, StampVersion
    <3>2. /\ [store'[id] EXCEPT !.version = 0] = [store[id] EXCEPT !.version = 0]
          /\ store'[id] \in TaskRecord
      BY ONLY <3>1, StampedRecord
    <3> QED
      BY <3>2, NoneIsNoRecord DEF Fixed
  <2>3. Posts \/ Assigns \/ Finishes \/ Unchanged => store'[id] = store[id]
    BY DEF Posts, Save, Assigns, SetAssignee, Finishes, SetStatus, Unchanged
  <2> QED
    BY <2>1, <2>2, <2>3, StoreStep
<1>2. Typed /\ InHand /\ [Next]_vars => [KeepsFinished]_vars
  BY <1>1 DEF KeepsFinished
<1> QED
  BY <1>2, Invariance, PTL DEF Spec, TerminalIsFinal

\* What the model answered is what the task ends as.
THEOREM Answers == ASSUME OneLoop PROVE Spec => AnswerIsRecorded
<1> DEFINE Ends(id) == /\ Exists(id) /\ store[id].status = "pending"
                       /\ store'[id] # None /\ store'[id].status \in Terminal
           Answered(id) == \E w \in Workers : /\ worker[w].id = id
                                             /\ worker[w].answer = store'[id].status
<1>1. ASSUME Typed, InHand, [Next]_vars, NEW id \in Ids, Ends(id)
      PROVE  Answered(id)
  <2> USE <1>1 DEF Typed, TypeOK, Exists, TaskRecord
  <2>1. CASE Unchanged
    BY <2>1 DEF Unchanged
  <2>2. CASE Posts
    BY <2>2 DEF Posts, Save
  <2>3. CASE Assigns
    BY <2>3 DEF Assigns, SetAssignee
  <2>4. CASE Finishes
    BY <2>4 DEF Finishes, SetStatus
  <2>5. CASE Stamps
    BY <2>5 DEF Stamps, StampVersion
  <2> QED
    BY <2>1, <2>2, <2>3, <2>4, <2>5, StoreStep
<1>2. Typed /\ InHand /\ [Next]_vars => [RecordsAnswers]_vars
  BY <1>1 DEF RecordsAnswers
<1> QED
  BY <1>2, Invariance, PTL DEF Spec, AnswerIsRecorded

--------------------------------------------------------------------------------
(* The task board                                                           *)

\* The coroutine that holds the loop is the only one that can be updating.
LEMMA WhoUpdates ==
  ASSUME Typed, LoopHeld
  PROVE  /\ \A r \in Requests : request[r].pc = "written" =>
                \A i \in Ids : Updating(i) <=> i = request[r].id
         /\ \A w \in Workers : worker[w].pc = "written" =>
                \A i \in Ids : Updating(i) <=> i = worker[w].id
         /\ \A r \in Requests : request[r].pc = "matched" => \A i \in Ids : ~Updating(i)
         /\ \A w \in Workers : worker[w].pc = "matched" => \A i \in Ids : ~Updating(i)
  BY OneInside DEF Updating

\* An absent task is not being updated.
LEMMA AbsentIdle ==
  ASSUME Typed, NEW id \in Ids, ~Exists(id)
  PROVE  ~Updating(id)
  BY DEF Typed, Grounded, Updating

\* The board changes where the store does, unless the updates under way do.
LEMMA ViewKept ==
  ASSUME store' = store, \A i \in Ids : Updating(i)' <=> Updating(i)
  PROVE  View' = View
  BY DEF View

\* The save of a new record is a post on the board.
LEMMA ViewPosts ==
  ASSUME Typed, NEW id \in Ids, ~Exists(id), NEW u \in Users, NEW sh \in SUBSET Users,
         NEW st \in {"pending", "completed", "failed"},
         Save(id, NewRecord(st, u, sh)),
         \A i \in Ids : Updating(i)' <=> Updating(i)
  PROVE  Board!Post(id)
<1>1. ~Updating(id)
  BY AbsentIdle
<1>2. View[id] = None
  BY <1>1 DEF View, Exists
<1>3. View' = [View EXCEPT ![id] = NewRecord(st, u, sh)]
  BY <1>1 DEF View, Save, Typed, TypeOK
<1> QED
  BY <1>2, <1>3 DEF Board!Post, NewRecord

\* Every step is a step of the board, or a stutter.
LEMMA BoardStep ==
  ASSUME OneLoop, Typed, InHand, [Next]_vars
  PROVE  [Board!Next]_View
<1> USE DEF InHand
<1>1. ASSUME NEW r \in Requests, FinishSubmit(r) PROVE Board!Next
  <2>1. PICK st \in Terminal : Save(request[r].id, NewRecord(st, request[r].user, {}))
    BY <1>1 DEF FinishSubmit
  <2>2. request[r].id \in Ids /\ ~Exists(request[r].id) /\ request[r].user \in Users
    BY <1>1 DEF FinishSubmit, IdInHand, Typed, Grounded
  <2>3. \A i \in Ids : Updating(i)' <=> Updating(i)
    BY <1>1 DEF FinishSubmit, Updating, IdleRequest, Typed, TypeOK
  <2>4. Board!Post(request[r].id)
    BY <2>1, <2>2, <2>3, ViewPosts
  <2> QED
    BY <2>2, <2>4 DEF Board!Next
<1>2. ASSUME NEW w \in Workers, NEW u \in Users, NEW id \in Ids, NEW sh \in SharedSets,
             GrpcSubmit(w, u, id, sh)
      PROVE  Board!Next
  <2>1. ~Exists(id) /\ Save(id, NewRecord("pending", u, sh)) /\ sh \in SUBSET Users
    BY <1>2, CollaborationAssumption DEF GrpcSubmit, Fresh
  <2>2. \A i \in Ids : Updating(i)' <=> Updating(i)
    BY <1>2 DEF GrpcSubmit, Updating, IdleWorker, Typed, TypeOK
  <2>3. Board!Post(id)
    BY <2>1, <2>2, ViewPosts
  <2> QED
    BY <2>3 DEF Board!Next
<1>3. ASSUME NEW r \in Requests, Write(r) PROVE Board!Next
  <2> DEFINE id == request[r].id
             u  == request[r].to
  <2>1. /\ id \in Ids /\ u \in Users /\ store[id] \in TaskRecord
        /\ store[id].status = "pending" /\ Exists(id)
    BY <1>3 DEF Write, Typed, TypeOK, Grounded, Exists, PendingInHand
  <2>2. \A i \in Ids : ~Updating(i)
    BY <1>3, WhoUpdates DEF Write
  <2>3. \A i \in Ids : Updating(i)' <=> i = id
    BY <1>3, <2>2 DEF Write, Updating, Typed, TypeOK
  <2>4. store' = [store EXCEPT ![id] = [store[id] EXCEPT !.assignee = u]]
    BY <1>3 DEF Write, SetAssignee
  <2>5. View = store
    BY <2>2 DEF View, Typed, TypeOK
  <2>6. View' = [i \in Ids |-> IF i = id THEN [store'[i] EXCEPT !.version = @ + 1] ELSE store'[i]]
    BY <2>3 DEF View
  <2>7. [store'[id] EXCEPT !.version = @ + 1]
          = [store[id] EXCEPT !.assignee = u, !.version = @ + 1]
    BY <2>1, <2>4 DEF Typed, TypeOK, TaskRecord
  <2>8. View' = [View EXCEPT ![id].assignee = u, ![id].version = @ + 1]
    BY <2>1, <2>4, <2>5, <2>6, <2>7 DEF Typed, TypeOK
  <2>9. Board!Assign(id)
    BY <2>1, <2>5, <2>8 DEF Board!Assign, Board!Open, Exists
  <2> QED
    BY <2>1, <2>9 DEF Board!Next
<1>4. ASSUME NEW w \in Workers, WorkerWrite(w) PROVE Board!Next
  <2> DEFINE id == worker[w].id
             st == worker[w].want
  <2>1. /\ id \in Ids /\ st \in Terminal /\ store[id] \in TaskRecord
        /\ store[id].status = "pending" /\ Exists(id)
    BY <1>4 DEF WorkerWrite, Typed, TypeOK, Grounded, Exists, PendingInHand
  <2>2. \A i \in Ids : ~Updating(i)
    BY <1>4, WhoUpdates DEF WorkerWrite
  <2>3. \A i \in Ids : Updating(i)' <=> i = id
    BY <1>4, <2>2 DEF WorkerWrite, Updating, Typed, TypeOK
  <2>4. store' = [store EXCEPT ![id] = [store[id] EXCEPT !.status = st]]
    BY <1>4 DEF WorkerWrite, SetStatus
  <2>5. View = store
    BY <2>2 DEF View, Typed, TypeOK
  <2>6. View' = [i \in Ids |-> IF i = id THEN [store'[i] EXCEPT !.version = @ + 1] ELSE store'[i]]
    BY <2>3 DEF View
  <2>7. [store'[id] EXCEPT !.version = @ + 1]
          = [store[id] EXCEPT !.status = st, !.version = @ + 1]
    BY <2>1, <2>4 DEF Typed, TypeOK, TaskRecord
  <2>8. View' = [View EXCEPT ![id].status = st, ![id].version = @ + 1]
    BY <2>1, <2>4, <2>5, <2>6, <2>7 DEF Typed, TypeOK
  <2>9. Board!Finish(id)
    BY <2>1, <2>5, <2>8 DEF Board!Finish, Board!Open, Exists
  <2> QED
    BY <2>1, <2>9 DEF Board!Next
<1>5. ASSUME NEW r \in Requests, Stamp(r) PROVE View' = View
  <2> DEFINE id == request[r].id
  <2>1. id \in Ids
    BY <1>5 DEF Stamp, Typed, Grounded
  <2>2. \A i \in Ids : Updating(i) <=> i = id
    BY <1>5, WhoUpdates DEF Stamp
  <2>3. \A i \in Ids : ~Updating(i)'
    BY <1>5, OneInside DEF Stamp, Updating, Typed, TypeOK
  <2> QED
    BY <1>5, <2>1, <2>2, <2>3 DEF Stamp, StampVersion, View, Typed, TypeOK
<1>6. ASSUME NEW w \in Workers, WorkerStamp(w) PROVE View' = View
  <2> DEFINE id == worker[w].id
  <2>1. id \in Ids
    BY <1>6 DEF WorkerStamp, Typed, Grounded
  <2>2. \A i \in Ids : Updating(i) <=> i = id
    BY <1>6, WhoUpdates DEF WorkerStamp
  <2>3. \A i \in Ids : ~Updating(i)'
    BY <1>6, OneInside DEF WorkerStamp, Updating, IdleWorker, Typed, TypeOK
  <2> QED
    BY <1>6, <2>1, <2>2, <2>3 DEF WorkerStamp, StampVersion, View, Typed, TypeOK
<1>7. ASSUME NEW r \in Requests,
             \/ \E u \in Users, id \in Ids : BeginSubmit(r, u, id)
             \/ AbortSubmit(r) \/ Bind(r) \/ Match(r) \/ Conflict(r) \/ Report(r)
      PROVE  View' = View
  <2>1. store' = store /\ worker' = worker
    BY <1>7 DEF BeginSubmit, AbortSubmit, Bind, Match, Conflict, Report
  <2>2. /\ request[r].pc # "written" /\ request'[r].pc # "written"
        /\ \A q \in Requests : q # r => request'[q] = request[q]
    <3>1. CASE \E u \in Users, id \in Ids : BeginSubmit(r, u, id)
      BY <3>1 DEF BeginSubmit, IdleRequest, Typed, TypeOK
    <3>2. CASE AbortSubmit(r) \/ Conflict(r) \/ Report(r)
      BY <3>2 DEF AbortSubmit, Conflict, Report, IdleRequest, Typed, TypeOK
    <3>3. CASE Match(r)
      BY <3>3 DEF Match, Typed, TypeOK, RequestType
    <3>4. CASE Bind(r)
      BY <3>4 DEF Bind, Typed, TypeOK, RequestType
    <3> QED
      BY <1>7, <3>1, <3>2, <3>3, <3>4
  <2>3. \A i \in Ids : Updating(i)' <=> Updating(i)
    BY <2>1, <2>2 DEF Updating
  <2> QED
    BY <2>1, <2>3, ViewKept
<1>8. ASSUME NEW r \in Requests, NEW op \in {"claim", "handoff"}, NEW u \in Users,
             NEW to \in Users, NEW id \in Ids, NEW v \in SentVersions,
             Accept(r, Call(op, u, to, id, v))
      PROVE  View' = View
  <2>1. store' = store /\ worker' = worker
    BY <1>8 DEF Accept
  <2>2. /\ request[r].pc # "written" /\ request'[r].pc # "written"
        /\ \A q \in Requests : q # r => request'[q] = request[q]
    BY <1>8 DEF Accept, Call, Typed, TypeOK
  <2>3. \A i \in Ids : Updating(i)' <=> Updating(i)
    BY <2>1, <2>2 DEF Updating
  <2> QED
    BY <2>1, <2>3, ViewKept
<1>9. ASSUME NEW w \in Workers,
             \/ CancelRun(w) \/ LlmAnswers(w) \/ GetCurrent(w)
             \/ WorkerMatch(w) \/ WorkerConflict(w)
      PROVE  View' = View
  <2>1. store' = store /\ request' = request
    BY <1>9 DEF CancelRun, LlmAnswers, GetCurrent, WorkerMatch, WorkerConflict
  <2>2. /\ worker[w].pc # "written" /\ worker'[w].pc # "written"
        /\ \A j \in Workers : j # w => worker'[j] = worker[j]
    BY <1>9 DEF CancelRun, LlmAnswers, GetCurrent, WorkerMatch, WorkerConflict, IdleWorker,
                Typed, TypeOK, WorkerType
  <2>3. \A i \in Ids : Updating(i)' <=> Updating(i)
    BY <2>1, <2>2 DEF Updating
  <2> QED
    BY <2>1, <2>3, ViewKept
<1>10. CASE UNCHANGED vars
  BY <1>10 DEF vars, View, Updating
<1> QED
  BY <1>1, <1>2, <1>3, <1>4, <1>5, <1>6, <1>7, <1>8, <1>9, <1>10
  DEF Next, RequestStep, WorkerStep, Refuse

\* On one event loop the store is the task board: posted once, assigned while
\* pending, finished once, and a new version at every change.
THEOREM Refinement == ASSUME OneLoop PROVE Spec => ImplementsBoard
<1>1. Init => Board!Init
  BY DEF Init, Board!Init, View, Updating, IdleRequest, IdleWorker
<1>2. Typed /\ InHand /\ [Next]_vars => [Board!Next]_View
  BY BoardStep
<1> QED
  BY <1>1, <1>2, Invariance, PTL DEF Spec, ImplementsBoard, Board!Spec

--------------------------------------------------------------------------------
(* The versions of a timeline, under preemption by threads                  *)

\* Requests exclude each other on the loop, whatever threads do; without threads
\* calls over gRPC do so too.
LoopKept ==
    /\ \A r \in Requests : request[r].pc \in InSegment => loop = r
    /\ ~Threaded => \A w \in Workers : worker[w].pc \in InWorkerSegment => loop = w

\* The versions of a task's events are its versions of the past, and a request
\* that has stamped the record and not reported it has a version no event has.
Behind ==
    /\ \A k \in 1..Len(timeline) : \A id \in Ids : IsMove(timeline[k], id) =>
          /\ Exists(id) /\ timeline[k].version \in Nat
          /\ timeline[k].version <= store[id].version
    /\ \A r \in Requests : request[r].pc = "stamped" =>
          \A k \in Moves(request[r].id, Len(timeline)) :
              timeline[k].version < store[request[r].id].version

RiseInv == LoopKept /\ IdInHand /\ Behind /\ TimelineVersionsRise

\* Whoever enters a segment takes the loop, whoever leaves it gives it back.
LEMMA LoopKeptNext == Typed /\ LoopKept /\ [Next]_vars => LoopKept'
<1> SUFFICES ASSUME Typed, LoopKept, [Next]_vars PROVE LoopKept'
  OBVIOUS
<1> USE CollaborationAssumption DEF Typed, TypeOK, LoopKept, OnLoop, IdleRequest, IdleWorker
<1>1. ASSUME NEW r \in Requests, NEW u \in Users, NEW id \in Ids, BeginSubmit(r, u, id)
      PROVE  LoopKept'
  BY <1>1 DEF BeginSubmit
<1>2. ASSUME NEW r \in Requests, FinishSubmit(r) \/ AbortSubmit(r) PROVE LoopKept'
  BY <1>2 DEF FinishSubmit, AbortSubmit
<1>3. ASSUME NEW r \in Requests, NEW q, Accept(r, q) PROVE LoopKept'
  BY <1>3 DEF Accept
<1>4. ASSUME NEW r \in Requests, Bind(r) \/ Match(r) \/ Write(r) \/ Stamp(r) PROVE LoopKept'
  <2>1. loop' = loop /\ worker' = worker
    BY <1>4 DEF Bind, Match, Write, Stamp
  <2>2. request[r].pc \in InSegment /\ \A p \in Requests \ {r} : request'[p] = request[p]
    BY <1>4 DEF Bind, Match, Write, Stamp
  <2> QED
    BY <2>1, <2>2
<1>5. ASSUME NEW r \in Requests, Conflict(r) \/ Report(r) PROVE LoopKept'
  <2>1. loop' = None /\ worker' = worker /\ request' = [request EXCEPT ![r] = IdleRequest]
    BY <1>5 DEF Conflict, Report
  <2>2. request[r].pc \in InSegment
    BY <1>5 DEF Conflict, Report
  <2> QED
    BY <2>1, <2>2
<1>6. ASSUME NEW w \in Workers, NEW u \in Users, NEW id \in Ids, NEW sh \in SharedSets,
             GrpcSubmit(w, u, id, sh)
      PROVE  LoopKept'
  BY <1>6 DEF GrpcSubmit
<1>7. ASSUME NEW w \in Workers, CancelRun(w) PROVE LoopKept'
  BY <1>7 DEF CancelRun
<1>8. ASSUME NEW w \in Workers, LlmAnswers(w) PROVE LoopKept'
  <2>1. request' = request /\ (\A v \in Workers \ {w} : worker'[v] = worker[v])
    BY <1>8 DEF LlmAnswers
  <2>2. CASE Threaded
    BY <1>8, <2>1, <2>2 DEF LlmAnswers, TakeLoop
  <2>3. CASE ~Threaded
    <3>1. loop \in {None, w} /\ loop' = w
      BY <1>8, <2>3 DEF LlmAnswers, TakeLoop, WorkerRuns
    <3> QED
      BY <2>1, <2>3, <3>1
  <2> QED
    BY <2>2, <2>3
<1>9. ASSUME NEW w \in Workers, GetCurrent(w) \/ WorkerMatch(w) \/ WorkerWrite(w) PROVE LoopKept'
  <2>1. loop' = loop /\ request' = request
    BY <1>9 DEF GetCurrent, WorkerMatch, WorkerWrite
  <2>2. worker[w].pc \in InWorkerSegment /\ \A v \in Workers \ {w} : worker'[v] = worker[v]
    BY <1>9 DEF GetCurrent, WorkerMatch, WorkerWrite
  <2> QED
    BY <2>1, <2>2
<1>10. ASSUME NEW w \in Workers, WorkerConflict(w) \/ WorkerStamp(w) PROVE LoopKept'
  <2>1. request' = request /\ (\A v \in Workers \ {w} : worker'[v] = worker[v])
    BY <1>10 DEF WorkerConflict, WorkerStamp
  <2>2. worker[w].pc \in InWorkerSegment
    BY <1>10 DEF WorkerConflict, WorkerStamp
  <2>3. loop' = loop \/ (worker' = [worker EXCEPT ![w] = IdleWorker] /\ LeaveLoop(w))
    BY <1>10 DEF WorkerConflict, WorkerStamp
  <2>4. CASE loop' = loop
    BY <2>1, <2>2, <2>4
  <2>5. CASE loop' # loop
    <3>1. ~Threaded /\ loop' = None /\ worker' = [worker EXCEPT ![w] = IdleWorker]
      BY <2>3, <2>5 DEF LeaveLoop
    <3>2. loop = w
      BY <2>2, <3>1
    <3> QED
      BY <2>1, <3>1, <3>2
  <2> QED
    BY <2>4, <2>5
<1>11. CASE UNCHANGED vars
  BY <1>11 DEF vars
<1> QED
  BY <1>1, <1>2, <1>3, <1>4, <1>5, <1>6, <1>7, <1>8, <1>9, <1>10, <1>11
  DEF Next, RequestStep, WorkerStep, Refuse

\* Ids that wait for their agent stay unused, and records are never replaced:
\* versions rise.
Grows ==
    \A id \in Ids : Exists(id) => Exists(id)' /\ store[id].version <= store'[id].version

\* No step replaces a record or takes a version back.
LEMMA GrowsNext ==
  ~MayReuseId /\ Typed /\ IdInHand /\ [Next]_vars => IdInHand' /\ Grows
<1> SUFFICES ASSUME ~MayReuseId, Typed, IdInHand, [Next]_vars PROVE IdInHand' /\ Grows
  OBVIOUS
<1> USE CollaborationAssumption, NoneIsNoRecord
    DEF Typed, TypeOK, IdInHand, IdleRequest, IdleWorker, Exists
<1>0. \A id \in Ids : Exists(id) => store[id] \in TaskRecord /\ store[id].version \in Nat
  BY DEF TaskRecord
<1>1. ASSUME NEW r \in Requests, NEW u \in Users, NEW id \in Ids, BeginSubmit(r, u, id)
      PROVE  IdInHand' /\ Grows
  BY <1>0, <1>1 DEF BeginSubmit, Fresh, Grows
<1>2. ASSUME NEW r \in Requests, FinishSubmit(r) PROVE IdInHand' /\ Grows
  <2>1. /\ request[r].id \in Ids /\ ~Exists(request[r].id)
        /\ request' = [request EXCEPT ![r] = IdleRequest]
        /\ \A id \in Ids \ {request[r].id} : store'[id] = store[id]
    BY <1>2 DEF FinishSubmit, Grounded, Save
  <2>2. IdInHand'
    BY <1>2, <2>1 DEF FinishSubmit, Grounded
  <2>3. Grows
    BY <1>0, <2>1 DEF Grows
  <2> QED
    BY <2>2, <2>3
<1>3. ASSUME NEW r \in Requests, AbortSubmit(r) PROVE IdInHand' /\ Grows
  BY <1>0, <1>3 DEF AbortSubmit, Grows
<1>4. ASSUME NEW r \in Requests, NEW q, Accept(r, q) PROVE IdInHand' /\ Grows
  BY <1>0, <1>4 DEF Accept, Grows
<1>5. ASSUME NEW r \in Requests, Bind(r) \/ Match(r) \/ Conflict(r) \/ Report(r)
      PROVE  IdInHand' /\ Grows
  <2>1. /\ store' = store /\ request'[r].pc # "running"
        /\ \A p \in Requests \ {r} : request'[p] = request[p]
    BY <1>5 DEF Bind, Match, Conflict, Report, RequestType
  <2> QED
    BY <1>0, <2>1 DEF Grows
<1>6. ASSUME NEW r \in Requests, Write(r) \/ Stamp(r) PROVE IdInHand' /\ Grows
  <2>1. /\ request'[r].pc # "running" /\ request[r].id \in Ids /\ Exists(request[r].id)
        /\ request[r].to \in Users
        /\ \A p \in Requests \ {r} : request'[p] = request[p]
    BY <1>6 DEF Write, Stamp, Grounded, RequestType
  <2>2. \/ store' = [store EXCEPT ![request[r].id].assignee = request[r].to]
        \/ store' = [store EXCEPT ![request[r].id].version = @ + 1]
    BY <1>6 DEF Write, Stamp, SetAssignee, StampVersion
  <2> DEFINE rec == store[request[r].id]
             new == store'[request[r].id]
  <2>5. rec \in TaskRecord
    BY <1>0, <2>1
  <2> DEFINE v == request[r].to
  <2>6. \/ new = [rec EXCEPT !.assignee = v]
        \/ new = [rec EXCEPT !.version = rec.version + 1]
    BY <2>1, <2>2
  <2>7. \A id \in Ids \ {request[r].id} : store'[id] = store[id]
    BY <2>2
  <2>8. new \in TaskRecord /\ rec.version <= new.version
    <3>1. v \in Users
      BY <2>1
    <3> HIDE DEF rec, new, v
    <3>2. CASE new = [rec EXCEPT !.assignee = v]
      BY ONLY <2>5, <3>1, <3>2 DEF TaskRecord
    <3>3. CASE new = [rec EXCEPT !.version = rec.version + 1]
      BY ONLY <2>5, <3>3 DEF TaskRecord
    <3> QED
      BY <2>6, <3>2, <3>3
  <2>3. \A id \in Ids : Exists(id)' <=> Exists(id)
    BY <2>1, <2>7, <2>8
  <2>4. Grows
    BY <1>0, <2>3, <2>7, <2>8 DEF Grows
  <2> QED
    BY <2>1, <2>3, <2>4 DEF Grounded
<1>7. ASSUME NEW w \in Workers, NEW u \in Users, NEW id \in Ids, NEW sh \in SharedSets,
             GrpcSubmit(w, u, id, sh)
      PROVE  IdInHand' /\ Grows
  BY <1>0, <1>7 DEF GrpcSubmit, Fresh, Save, Grows
<1>8. ASSUME NEW w \in Workers,
             \/ CancelRun(w) \/ LlmAnswers(w) \/ GetCurrent(w)
             \/ WorkerMatch(w) \/ WorkerConflict(w)
      PROVE  IdInHand' /\ Grows
  <2>1. store' = store /\ request' = request
    BY <1>8 DEF CancelRun, LlmAnswers, GetCurrent, WorkerMatch, WorkerConflict
  <2> QED
    BY <1>0, <2>1 DEF Grows
<1>9. ASSUME NEW w \in Workers, WorkerWrite(w) \/ WorkerStamp(w) PROVE IdInHand' /\ Grows
  <2>1. /\ request' = request /\ worker[w].id \in Ids /\ Exists(worker[w].id)
        /\ worker[w].want \in Terminal
    BY <1>9 DEF WorkerWrite, WorkerStamp, Grounded
  <2>2. \/ store' = [store EXCEPT ![worker[w].id].status = worker[w].want]
        \/ store' = [store EXCEPT ![worker[w].id].version = @ + 1]
    BY <1>9 DEF WorkerWrite, WorkerStamp, SetStatus, StampVersion
  <2> DEFINE rec == store[worker[w].id]
             new == store'[worker[w].id]
  <2>5. rec \in TaskRecord
    BY <1>0, <2>1
  <2> DEFINE v == worker[w].want
  <2>6. \/ new = [rec EXCEPT !.status = v]
        \/ new = [rec EXCEPT !.version = rec.version + 1]
    BY <2>1, <2>2
  <2>7. \A id \in Ids \ {worker[w].id} : store'[id] = store[id]
    BY <2>2
  <2>8. new \in TaskRecord /\ rec.version <= new.version
    <3>1. v \in Terminal
      BY <2>1
    <3> HIDE DEF rec, new, v
    <3>2. CASE new = [rec EXCEPT !.status = v]
      BY ONLY <2>5, <3>1, <3>2 DEF TaskRecord
    <3>3. CASE new = [rec EXCEPT !.version = rec.version + 1]
      BY ONLY <2>5, <3>3 DEF TaskRecord
    <3> QED
      BY <2>6, <3>2, <3>3
  <2>3. \A id \in Ids : Exists(id)' <=> Exists(id)
    BY <2>1, <2>7, <2>8
  <2>4. Grows
    BY <1>0, <2>3, <2>7, <2>8 DEF Grows
  <2> QED
    BY <2>1, <2>3, <2>4 DEF Grounded
<1>10. CASE UNCHANGED vars
  BY <1>0, <1>10 DEF vars, Grows
<1> QED
  BY <1>1, <1>2, <1>3, <1>4, <1>5, <1>6, <1>7, <1>8, <1>9, <1>10
  DEF Next, RequestStep, WorkerStep, Refuse

\* What a step does to the timeline: nothing, or it adds an event that is no
\* move, or a report.
NoMove == \E e \in EventType : /\ timeline' = Append(timeline, e)
                               /\ \A id \in Ids : ~IsMove(e, id)

\* Every step does one of these.
LEMMA TimelineStep ==
  ASSUME Typed, [Next]_vars
  PROVE  timeline' = timeline \/ NoMove \/ \E r \in Requests : Report(r)
<1> USE CollaborationAssumption DEF Typed, TypeOK
<1>1. ASSUME NEW r \in Requests, FinishSubmit(r) \/ AbortSubmit(r) PROVE NoMove
  <2>1. request[r].id \in Ids /\ request[r].user \in Users
    BY <1>1 DEF FinishSubmit, AbortSubmit, Grounded
  <2>2. PICK e : /\ timeline' = Append(timeline, e)
                 /\ \/ e = Event(request[r].id, "task.completed", request[r].user, None, None, 1)
                    \/ e = Event(request[r].id, "task.failed", request[r].user, None, None, None)
    BY <1>1 DEF FinishSubmit, AbortSubmit, Log
  <2>3. e \in EventType /\ \A id \in Ids : ~IsMove(e, id)
    BY <2>1, <2>2 DEF Event, EventType, IsMove
  <2> QED
    BY <2>2, <2>3 DEF NoMove
<1>2. ASSUME NEW r \in Requests,
             \/ \E u \in Users, id \in Ids : BeginSubmit(r, u, id)
             \/ Bind(r) \/ Match(r) \/ Conflict(r) \/ Write(r) \/ Stamp(r)
      PROVE  timeline' = timeline
  BY <1>2 DEF BeginSubmit, Bind, Match, Conflict, Write, Stamp
<1>3. ASSUME NEW r \in Requests, NEW q, Accept(r, q) \/ Refuse(r, q) PROVE timeline' = timeline
  BY <1>3 DEF Accept, Refuse, vars
<1>4. ASSUME NEW w \in Workers,
             \/ \E u \in Users, id \in Ids, sh \in SharedSets : GrpcSubmit(w, u, id, sh)
             \/ WorkerStep(w)
      PROVE  timeline' = timeline
  BY <1>4 DEF GrpcSubmit, WorkerStep, CancelRun, LlmAnswers, GetCurrent, WorkerMatch,
              WorkerConflict, WorkerWrite, WorkerStamp
<1>5. CASE UNCHANGED vars
  BY <1>5 DEF vars
<1> QED
  BY <1>1, <1>2, <1>3, <1>4, <1>5 DEF Next, RequestStep


\* A step other than a report adds no move, and a report adds one, after all.
LEMMA MovesKept ==
  ASSUME Typed, timeline' = timeline \/ NoMove
  PROVE  /\ Len(timeline') \in Nat /\ Len(timeline') >= Len(timeline)
         /\ \A k \in 1..Len(timeline) : timeline'[k] = timeline[k]
         /\ \A k \in 1..Len(timeline') : \A id \in Ids :
               IsMove(timeline'[k], id) => k \in 1..Len(timeline)
         /\ \A id \in Ids : Moves(id, Len(timeline))' = Moves(id, Len(timeline))
<1>1. timeline \in Seq(EventType) /\ Len(timeline) \in Nat
  BY DEF Typed, TypeOK
<1>2. CASE timeline' = timeline
  BY <1>1, <1>2 DEF Moves
<1>3. CASE NoMove
  <2>1. PICK e \in EventType : timeline' = Append(timeline, e) /\ \A id \in Ids : ~IsMove(e, id)
    BY <1>3 DEF NoMove
  <2>2. /\ Len(timeline') = Len(timeline) + 1 /\ timeline'[Len(timeline) + 1] = e
        /\ \A k \in 1..Len(timeline) : timeline'[k] = timeline[k]
    BY <1>1, <2>1
  <2>3. \A k \in 1..Len(timeline') : \A id \in Ids :
          IsMove(timeline'[k], id) => k \in 1..Len(timeline)
    BY <1>1, <2>1, <2>2
  <2>4. \A id \in Ids : Moves(id, Len(timeline))' = Moves(id, Len(timeline))
    BY <1>1, <2>2, <2>3 DEF Moves
  <2> QED
    BY <1>1, <2>2, <2>3, <2>4
<1> QED
  BY <1>2, <1>3

\* The event a report writes.
LEMMA Reported ==
  ASSUME Typed, NEW r \in Requests, Report(r)
  PROVE  /\ request[r].id \in Ids /\ Exists(request[r].id) /\ store' = store
         /\ Len(timeline) \in Nat /\ Len(timeline') = Len(timeline) + 1
         /\ \A k \in 1..Len(timeline) : timeline'[k] = timeline[k]
         /\ LET e == timeline'[Len(timeline) + 1]
            IN  /\ e.id = request[r].id
                /\ e.to = store[request[r].id].assignee
                /\ e.version = store[request[r].id].version
                /\ e.action = "task.handoff" => e.from = request[r].prev
                /\ e.action \in {"task.claimed", "task.handoff"}
<1> DEFINE q == request[r]
<1>1. timeline \in Seq(EventType) /\ Len(timeline) \in Nat
  BY DEF Typed, TypeOK
<1>2. q.id \in Ids /\ Exists(q.id) /\ store' = store
  BY DEF Report, Typed, Grounded
<1>3. PICK e : /\ timeline' = Append(timeline, e)
               /\ e = IF q.op = "claim"
                      THEN Event(q.id, "task.claimed", q.user, None,
                                 store[q.id].assignee, store[q.id].version)
                      ELSE Event(q.id, "task.handoff", q.user, q.prev,
                                 store[q.id].assignee, store[q.id].version)
  BY DEF Report, Log
<1> HIDE DEF q
<1>4. /\ e.id = q.id /\ e.to = store[q.id].assignee /\ e.version = store[q.id].version
      /\ e.action = "task.handoff" => e.from = q.prev
      /\ e.action \in {"task.claimed", "task.handoff"}
  BY <1>3 DEF Event
<1>5. /\ Len(timeline') = Len(timeline) + 1 /\ timeline'[Len(timeline) + 1] = e
      /\ \A k \in 1..Len(timeline) : timeline'[k] = timeline[k]
  BY <1>1, <1>3
<1> QED
  BY <1>1, <1>2, <1>4, <1>5 DEF q

\* A request is stamped because it was, or by its stamp.
LEMMA StampedBy ==
  ASSUME Typed, [Next]_vars, NEW r \in Requests, request'[r].pc = "stamped"
  PROVE  request'[r].id = request[r].id /\ (request[r].pc = "stamped" \/ Stamp(r))
<1> USE DEF Typed, TypeOK, IdleRequest
<1>1. ASSUME NEW p \in Requests, NEW u \in Users, NEW id \in Ids, BeginSubmit(p, u, id)
      PROVE  request'[r] = request[r]
  BY <1>1 DEF BeginSubmit
<1>2. ASSUME NEW p \in Requests, FinishSubmit(p) \/ AbortSubmit(p) \/ Conflict(p) \/ Report(p)
      PROVE  request'[r] = request[r]
  BY <1>2 DEF FinishSubmit, AbortSubmit, Conflict, Report
<1>3. ASSUME NEW p \in Requests, NEW u \in Users, NEW id \in Ids, NEW op, NEW to, NEW v,
             Accept(p, Call(op, u, to, id, v))
      PROVE  request'[r] = request[r]
  BY <1>3 DEF Accept, Call
<1>4. ASSUME NEW p \in Requests, Bind(p) \/ Match(p) \/ Write(p)
      PROVE  request'[r] = request[r]
  <2>1. request'[p].pc # "stamped" /\ \A q \in Requests \ {p} : request'[q] = request[q]
    BY <1>4 DEF Bind, Match, Write, RequestType
  <2> QED
    BY <2>1
<1>5. ASSUME NEW p \in Requests, Stamp(p)
      PROVE  request'[r].id = request[r].id /\ (request[r].pc = "stamped" \/ Stamp(r))
  BY <1>5 DEF Stamp, RequestType
<1>6. ASSUME NEW w \in Workers,
             \/ \E u \in Users, id \in Ids, sh \in SharedSets : GrpcSubmit(w, u, id, sh)
             \/ WorkerStep(w)
      PROVE  request'[r] = request[r]
  BY <1>6 DEF GrpcSubmit, WorkerStep, CancelRun, LlmAnswers, GetCurrent, WorkerMatch,
              WorkerConflict, WorkerWrite, WorkerStamp
<1>7. CASE UNCHANGED vars
  BY <1>7 DEF vars
<1> QED
  BY <1>1, <1>2, <1>3, <1>4, <1>5, <1>6, <1>7 DEF Next, RequestStep, Refuse

\* Events stay behind the records they tell of, and so their versions rise.
LEMMA BehindNext ==
  ASSUME ~MayReuseId, Typed, LoopKept, IdInHand, Behind, TimelineVersionsRise, [Next]_vars
  PROVE  Behind' /\ TimelineVersionsRise'
<1> USE CollaborationAssumption
<1>0. Typed' /\ Grows /\ Len(timeline) \in Nat
  BY TypedNext, GrowsNext DEF Typed, TypeOK
<1>1. \A id \in Ids : Exists(id) =>
        /\ Exists(id)' /\ store[id].version \in Nat /\ store'[id].version \in Nat
        /\ store[id].version <= store'[id].version
  BY <1>0, NoneIsNoRecord DEF Typed, TypeOK, TaskRecord, Grows, Exists
<1>2. ASSUME timeline' = timeline \/ NoMove PROVE Behind' /\ TimelineVersionsRise'
  <2> USE <1>2
  <2>1. ASSUME NEW k \in 1..Len(timeline'), NEW id \in Ids, IsMove(timeline'[k], id)
        PROVE  /\ Exists(id)' /\ timeline'[k].version \in Nat
               /\ timeline'[k].version <= store'[id].version
    <3>1. k \in 1..Len(timeline) /\ timeline'[k] = timeline[k]
      BY <2>1, MovesKept
    <3>2. Exists(id) /\ timeline[k].version \in Nat /\ timeline[k].version <= store[id].version
      BY <2>1, <3>1 DEF Behind
    <3> QED
      BY <1>1, <3>1, <3>2
  <2>2. ASSUME NEW r \in Requests, request'[r].pc = "stamped",
               NEW k \in (Moves(request[r].id, Len(timeline)))'
        PROVE  timeline'[k].version < store'[request'[r].id].version
    <3>0. request'[r].id \in Ids
      BY <1>0, <2>2 DEF Typed, Grounded
    <3>1. /\ k \in Moves(request'[r].id, Len(timeline)) /\ timeline'[k] = timeline[k]
          /\ k \in 1..Len(timeline) /\ IsMove(timeline[k], request'[r].id)
      BY <2>2, <3>0, MovesKept DEF Moves
    <3>2. /\ Exists(request'[r].id) /\ timeline[k].version \in Nat
          /\ timeline[k].version <= store[request'[r].id].version
      BY <3>0, <3>1 DEF Behind
    <3>3. CASE request[r].pc = "stamped" /\ request'[r].id = request[r].id
      <4>1. timeline[k].version < store[request'[r].id].version
        BY <3>1, <3>3 DEF Behind
      <4> QED
        BY <1>1, <3>0, <3>1, <3>2, <4>1
    <3>4. CASE Stamp(r) /\ request'[r].id = request[r].id
      <4>1. store'[request'[r].id].version = store[request'[r].id].version + 1
        BY <1>1, <3>0, <3>2, <3>4, NoneIsNoRecord
        DEF Stamp, StampVersion, Typed, TypeOK, TaskRecord, Exists
      <4> QED
        BY <1>1, <3>0, <3>1, <3>2, <4>1
    <3> QED
      BY <2>2, <3>3, <3>4, StampedBy
  <2>3. TimelineVersionsRise'
    BY <1>0, MovesKept DEF TimelineVersionsRise, Moves
  <2> QED
    BY <2>1, <2>2, <2>3 DEF Behind
<1>3. ASSUME NEW r \in Requests, Report(r) PROVE Behind' /\ TimelineVersionsRise'
  <2> DEFINE n == Len(timeline) + 1
             t == request[r].id
  <2>1. /\ t \in Ids /\ Exists(t) /\ store' = store /\ Len(timeline') = n
        /\ \A k \in 1..Len(timeline) : timeline'[k] = timeline[k]
        /\ timeline'[n].id = t /\ timeline'[n].version = store[t].version
    BY <1>3, Reported
  <2>2. \A k \in Moves(t, Len(timeline)) : timeline[k].version < store[t].version
    BY <1>3 DEF Report, Behind
  <2> HIDE DEF t
  <2>3. \A id \in Ids : IsMove(timeline'[n], id) => id = t
    BY <2>1 DEF IsMove
  <2>4. \A k \in 1..n : \A id \in Ids : IsMove(timeline'[k], id) =>
          /\ Exists(id)' /\ timeline'[k].version \in Nat
          /\ timeline'[k].version <= store'[id].version
    BY <1>0, <1>1, <2>1, <2>3 DEF Behind, Exists
  <2>5. \A p \in Requests : request'[p].pc # "stamped"
    <3>1. request' = [request EXCEPT ![r] = IdleRequest] /\ request[r].pc = "stamped"
      BY <1>3 DEF Report
    <3> QED
      BY <3>1 DEF LoopKept, IdleRequest, Typed, TypeOK
  <2>6. ASSUME NEW id \in Ids, NEW i \in 1..n, NEW j \in 1..n, i < j,
               IsMove(timeline'[i], id), IsMove(timeline'[j], id)
        PROVE  timeline'[i].version < timeline'[j].version
    <3>1. i \in 1..Len(timeline) /\ timeline'[i] = timeline[i]
      BY <1>0, <2>1, <2>6
    <3>2. CASE j = n
      BY <2>1, <2>2, <2>3, <2>6, <3>1, <3>2 DEF Moves
    <3>3. CASE j # n
      <4>1. j \in 1..Len(timeline) /\ timeline'[j] = timeline[j]
        BY <1>0, <2>1, <3>3
      <4> QED
        BY <2>6, <3>1, <4>1 DEF TimelineVersionsRise, Moves
    <3> QED
      BY <3>2, <3>3
  <2>7. TimelineVersionsRise'
    BY <2>1, <2>6 DEF TimelineVersionsRise, Moves
  <2> QED
    BY <2>1, <2>4, <2>5, <2>7 DEF Behind
<1> QED
  BY <1>2, <1>3, TimelineStep

\* The versions on a task's timeline rise, with the gRPC calls in threads or on
\* the loop, as long as no submission names an id that is in use.
THEOREM VersionsRise == ASSUME ~MayReuseId PROVE Spec => []TimelineVersionsRise
<1>1. Init => Typed /\ RiseInv
  <2> SUFFICES ASSUME Init PROVE RiseInv
    BY TypedInit
  <2>1. LoopKept /\ IdInHand
    BY DEF Init, LoopKept, IdInHand, IdleRequest, IdleWorker
  <2>2. Behind /\ TimelineVersionsRise
    BY DEF Init, Behind, TimelineVersionsRise, Moves, IdleRequest
  <2> QED
    BY <2>1, <2>2 DEF RiseInv
<1>2. Typed /\ RiseInv /\ [Next]_vars => Typed' /\ RiseInv'
  BY TypedNext, LoopKeptNext, GrowsNext, BehindNext DEF RiseInv
<1>3. RiseInv => TimelineVersionsRise
  BY DEF RiseInv
<1> QED
  BY <1>1, <1>2, <1>3, PTL DEF Spec

--------------------------------------------------------------------------------
(* The timeline as a history, on one event loop                             *)

\* The number of a task's moves
Count(id) == Cardinality(Moves(id, Len(timeline)))

\* Each move has the next version, and a handoff starts from the assignee before.
Numbered ==
    \A id \in Ids : \A k \in Moves(id, Len(timeline)) :
        /\ timeline[k].version = Cardinality(Moves(id, k)) + 1
        /\ timeline[k].action = "task.handoff" => timeline[k].from = AssigneeAfter(id, k - 1)

\* A request is at one of these points with the task; a run has written its end.
Touched(id, steps) == \E r \in Requests : request[r].pc \in steps /\ request[r].id = id
Ended(id) == \E w \in Workers : worker[w].pc = "written" /\ worker[w].id = id

\* The history ends where the record is.  The record is ahead of it while a
\* request has written or stamped what it reports later; it is behind while a
\* run has written an end whose version is not stamped.
History ==
    /\ \A id \in Ids : ~Exists(id) => Moves(id, Len(timeline)) = {} /\ ~Posted(id)
    /\ \A id \in Ids : Exists(id) /\ store[id].status = "pending" => ~Posted(id)
    /\ \A id \in Ids : Exists(id) /\ ~Touched(id, {"written", "stamped"}) =>
          store[id].assignee = AssigneeAfter(id, Len(timeline))
    /\ \A id \in Ids : Exists(id) /\ ~Touched(id, {"stamped"}) /\ ~Ended(id) =>
          store[id].version = Count(id) + IF store[id].status = "pending" \/ Posted(id)
                                          THEN 1 ELSE 2
    /\ \A r \in Requests : request[r].pc = "stamped" =>
          store[request[r].id].version = Count(request[r].id) + 2
    /\ \A w \in Workers : worker[w].pc = "written" =>
          store[worker[w].id].version = Count(worker[w].id) + 1 /\ ~Posted(worker[w].id)
    /\ \A r \in Requests : request[r].pc \in {"bound", "matched", "written", "stamped"} =>
          request[r].prev = AssigneeAfter(request[r].id, Len(timeline))

ReplayInv == Numbered /\ History

\* A run that has written its end is at work on an ended task.
WrittenIsTerminal == \A w \in Workers :
    worker[w].pc = "written" => store[worker[w].id].status \in Terminal


\* A set of numbers has a least one, and a bounded one a greatest.
LEMMA Least == ASSUME NEW S \in SUBSET Nat, S # {} PROVE \E m \in S : \A k \in S : m <= k
<1> DEFINE R == OpToRel(<, Nat)
<1>1. IsWellFoundedOn(R, Nat)
  BY NatLessThanWellFounded
<1>2. PICK m \in S : \A y \in S : ~ (<<y, m>> \in R)
  BY <1>1, WFMin
<1>3. \A y \in S : ~ (y < m)
  BY <1>2 DEF OpToRel
<1> QED
  BY <1>3

\* The greatest of finitely many positions.
LEMMA Latest ==
  ASSUME NEW n \in Nat, NEW S \in SUBSET (1..n), S # {}
  PROVE  \E m \in S : \A i \in S : i <= m
<1> DEFINE above == {m \in Nat : \A i \in S : i <= m}
<1>1. n \in above
  OBVIOUS
<1>4. PICK m \in above : \A k \in above : m <= k
  BY <1>1, Least
<1>5. PICK i \in S : TRUE
  OBVIOUS
<1>6. m >= 1 /\ m - 1 \in Nat
  BY <1>5
<1>7. m - 1 \notin above
  BY <1>4, <1>6
<1>8. PICK k \in S : k > m - 1
  BY <1>6, <1>7
<1> QED
  BY <1>8

\* The moves among the first events are finitely many, and one of them is last.
LEMMA LastMove ==
  ASSUME NEW id, NEW n \in Nat
  PROVE  /\ IsFiniteSet(Moves(id, n)) /\ Cardinality(Moves(id, n)) \in Nat
         /\ Moves(id, n) # {} => \E k \in Moves(id, n) : \A i \in Moves(id, n) : i <= k
<1>1. Moves(id, n) \in SUBSET (1..n)
  BY DEF Moves
<1>2. IsFiniteSet(1..n)
  BY FS_Interval
<1>3. IsFiniteSet(Moves(id, n)) /\ Cardinality(Moves(id, n)) \in Nat
  BY <1>1, <1>2, FS_Subset, FS_CardinalityType
<1>4. PICK M : M = Moves(id, n)
  OBVIOUS
<1>5. M # {} => \E k \in M : \A i \in M : i <= k
  BY <1>1, <1>4, Latest
<1> QED
  BY <1>3, <1>4, <1>5

\* Events added leave what was there before them as it was.
LEMMA PrefixKept ==
  ASSUME NEW n \in Nat, \A k \in 1..n : timeline'[k] = timeline[k], NEW id
  PROVE  Moves(id, n)' = Moves(id, n) /\ AssigneeAfter(id, n)' = AssigneeAfter(id, n)
<1>1. Moves(id, n)' = Moves(id, n)
  BY DEF Moves
<1>2. CASE Moves(id, n) = {}
  BY <1>1, <1>2 DEF AssigneeAfter
<1>3. CASE Moves(id, n) # {}
  <2> DEFINE last == CHOOSE k \in Moves(id, n) : \A i \in Moves(id, n) : i <= k
  <2>1. last \in Moves(id, n)
    BY <1>3, LastMove
  <2>2. timeline'[last] = timeline[last]
    BY <2>1 DEF Moves
  <2> QED
    BY <1>1, <1>3, <2>2 DEF AssigneeAfter
<1> QED
  BY <1>1, <1>2, <1>3

\* A step that adds no move leaves the history of every task as it was.
LEMMA HistoryKept ==
  ASSUME Typed, timeline' = timeline \/ NoMove, NEW id \in Ids
  PROVE  /\ Moves(id, Len(timeline))' = Moves(id, Len(timeline))
         /\ Count(id)' = Count(id)
         /\ AssigneeAfter(id, Len(timeline))' = AssigneeAfter(id, Len(timeline))
         /\ \A k \in Moves(id, Len(timeline)) :
               /\ timeline'[k] = timeline[k] /\ Moves(id, k)' = Moves(id, k)
               /\ AssigneeAfter(id, k - 1)' = AssigneeAfter(id, k - 1)
<1>1. Len(timeline) \in Nat
  BY DEF Typed, TypeOK
<1>2. /\ \A k \in 1..Len(timeline) : timeline'[k] = timeline[k]
      /\ Moves(id, Len(timeline))' = Moves(id, Len(timeline))
  BY MovesKept
<1>3. AssigneeAfter(id, Len(timeline))' = AssigneeAfter(id, Len(timeline))
  <2>1. CASE Moves(id, Len(timeline)) = {}
    BY <1>2, <2>1 DEF AssigneeAfter
  <2>2. CASE Moves(id, Len(timeline)) # {}
    <3> DEFINE M == Moves(id, Len(timeline))
               last == CHOOSE k \in M : \A i \in M : i <= k
    <3>1. last \in M
      BY <1>1, <2>2, LastMove
    <3>2. timeline'[last] = timeline[last]
      BY <1>2, <3>1 DEF Moves
    <3> QED
      BY <1>2, <2>2, <3>2 DEF AssigneeAfter
  <2> QED
    BY <2>1, <2>2
<1>4. ASSUME NEW k \in Moves(id, Len(timeline))
      PROVE  /\ timeline'[k] = timeline[k] /\ Moves(id, k)' = Moves(id, k)
             /\ AssigneeAfter(id, k - 1)' = AssigneeAfter(id, k - 1)
  <2>1. k \in 1..Len(timeline) /\ k \in Nat /\ k - 1 \in Nat
    BY <1>1 DEF Moves
  <2>2. (\A i \in 1..k : timeline'[i] = timeline[i]) /\ \A i \in 1..(k - 1) : timeline'[i] = timeline[i]
    BY <1>1, <1>2, <2>1
  <2>3. PICK m \in Nat : m = k
    BY <2>1
  <2>4. PICK p \in Nat : p = k - 1
    BY <2>1
  <2> QED
    BY <1>2, <2>1, <2>2, <2>3, <2>4, PrefixKept
<1> QED
  BY <1>2, <1>3, <1>4 DEF Count


\* Versions are numbers, and records stay records.
LEMMA Versions ==
  ASSUME Typed
  PROVE  \A id \in Ids : /\ Exists(id) => store[id] \in TaskRecord /\ store[id].version \in Nat
                         /\ Count(id) \in Nat
<1>1. Len(timeline) \in Nat
  BY DEF Typed, TypeOK
<1>2. PICK n \in Nat : n = Len(timeline)
  BY <1>1
<1> QED
  BY <1>2, LastMove DEF Typed, TypeOK, Exists, TaskRecord, Count

\* The moves written down stay as they are.
LEMMA NumberedKept ==
  ASSUME Typed, timeline' = timeline \/ NoMove, Numbered PROVE Numbered'
  BY HistoryKept DEF Numbered

\* A step that neither writes nor stamps nor reports: what is under way has read
\* the assignee the task is left with.
LEMMA QuietStep ==
  ASSUME Typed, ReplayInv, timeline' = timeline \/ NoMove, store' = store,
         \A id \in Ids : Posted(id)' <=> Posted(id),
         \A r \in Requests : \/ request'[r] = request[r]
                             \/ /\ request[r].pc \notin {"written", "stamped"}
                                /\ request'[r].pc \notin {"written", "stamped"},
         \A r \in Requests : request'[r].pc \in {"bound", "matched", "written", "stamped"} =>
            /\ request'[r].id \in Ids
            /\ request'[r].prev = AssigneeAfter(request'[r].id, Len(timeline)),
         \A w \in Workers : \/ worker'[w] = worker[w]
                            \/ worker[w].pc # "written" /\ worker'[w].pc # "written"
  PROVE  ReplayInv'
<1> USE DEF ReplayInv
<1>1. Numbered'
  BY NumberedKept
<1>2. \A id \in Ids : /\ Moves(id, Len(timeline))' = Moves(id, Len(timeline))
                      /\ Count(id)' = Count(id)
                      /\ AssigneeAfter(id, Len(timeline))' = AssigneeAfter(id, Len(timeline))
  BY HistoryKept
<1>3. \A id \in Ids : /\ Exists(id)' <=> Exists(id)
                      /\ Touched(id, {"written", "stamped"})' <=> Touched(id, {"written", "stamped"})
                      /\ Touched(id, {"stamped"})' <=> Touched(id, {"stamped"})
                      /\ Ended(id)' <=> Ended(id)
  BY DEF Exists, Touched, Ended
<1>4. History'
  <2>1. \A id \in Ids : /\ ~Exists(id)' => Moves(id, Len(timeline))' = {} /\ ~Posted(id)'
                        /\ Exists(id)' /\ store'[id].status = "pending" => ~Posted(id)'
    BY <1>2, <1>3 DEF History
  <2>2. \A id \in Ids : Exists(id)' /\ ~Touched(id, {"written", "stamped"})' =>
           store'[id].assignee = AssigneeAfter(id, Len(timeline))'
    BY <1>2, <1>3 DEF History
  <2>3. \A id \in Ids : Exists(id)' /\ ~Touched(id, {"stamped"})' /\ ~Ended(id)' =>
           store'[id].version = Count(id)' + IF store'[id].status = "pending" \/ Posted(id)'
                                             THEN 1 ELSE 2
    BY <1>2, <1>3 DEF History
  <2>4. ASSUME NEW r \in Requests, request'[r].pc = "stamped"
        PROVE  store'[request'[r].id].version = (Count(request[r].id) + 2)'
    <3>1. request'[r] = request[r] /\ request[r].id \in Ids
      BY <2>4
    <3> QED
      BY <1>2, <2>4, <3>1 DEF History
  <2>5. ASSUME NEW w \in Workers, worker'[w].pc = "written"
        PROVE  (store[worker[w].id].version = Count(worker[w].id) + 1 /\ ~Posted(worker[w].id))'
    <3>1. worker'[w] = worker[w] /\ worker[w].id \in Ids
      BY <2>5 DEF Typed, Grounded
    <3> QED
      BY <1>2, <2>5, <3>1 DEF History
  <2>6. ASSUME NEW r \in Requests, request'[r].pc \in {"bound", "matched", "written", "stamped"}
        PROVE  (request[r].prev = AssigneeAfter(request[r].id, Len(timeline)))'
    <3>1. PICK id \in Ids : id = request'[r].id
      BY <2>6
    <3>2. request'[r].prev = AssigneeAfter(id, Len(timeline))
      BY <2>6, <3>1
    <3> QED
      BY <1>2, <3>1, <3>2
  <2> QED
    BY <2>1, <2>2, <2>3, <2>4, <2>5, <2>6 DEF History
<1> QED
  BY <1>1, <1>4


\* Without threads the segment of a request is its alone.
LEMMA Alone ==
  ASSUME Typed, InHand, NEW r \in Requests, request[r].pc \in InSegment
  PROVE  /\ \A p \in Requests \ {r} : request[p].pc \notin InSegment
         /\ \A w \in Workers : worker[w].pc \notin InWorkerSegment
  BY OneInside DEF InHand

\* So is that of a run.
LEMMA WorkerAlone ==
  ASSUME Typed, InHand, NEW w \in Workers, worker[w].pc \in InWorkerSegment
  PROVE  /\ \A r \in Requests : request[r].pc \notin InSegment
         /\ \A v \in Workers \ {w} : worker[v].pc \notin InWorkerSegment
  BY OneInside DEF InHand

\* Without a new event no task becomes a posted one.
LEMMA PostedKept ==
  ASSUME Typed, timeline' = timeline PROVE \A id \in Ids : Posted(id)' <=> Posted(id)
  BY DEF Posted

\* A request reads the assignee the history names: nobody else is in a segment.
LEMMA BindReplays ==
  ASSUME OneLoop, Typed, InHand, ReplayInv, NEW r \in Requests, Bind(r) PROVE ReplayInv'
<1>1. /\ request[r].id \in Ids /\ Exists(request[r].id)
      /\ request[r].pc = "checked" /\ UNCHANGED <<store, worker, loop, timeline>>
      /\ request'[r].id = request[r].id /\ request'[r].pc = "bound"
      /\ request'[r].prev = store[request[r].id].assignee
      /\ \A p \in Requests \ {r} : request'[p] = request[p]
  BY DEF Bind, Typed, TypeOK, Grounded, RequestType
<1>2. \A p \in Requests \ {r} : request[p].pc \notin InSegment
  BY <1>1, Alone
<1>3. ~Touched(request[r].id, {"written", "stamped"})
  BY <1>1, <1>2 DEF Touched
<1>4. request'[r].prev = AssigneeAfter(request[r].id, Len(timeline))
  BY <1>1, <1>3 DEF ReplayInv, History
<1>5. \A p \in Requests : request'[p].pc \in {"bound", "matched", "written", "stamped"} =>
         /\ request'[p].id \in Ids
         /\ request'[p].prev = AssigneeAfter(request'[p].id, Len(timeline))
  <2> SUFFICES ASSUME NEW p \in Requests,
                      request'[p].pc \in {"bound", "matched", "written", "stamped"}
               PROVE  /\ request'[p].id \in Ids
                      /\ request'[p].prev = AssigneeAfter(request'[p].id, Len(timeline))
    OBVIOUS
  <2>1. p # r => request[p].pc \notin InSegment /\ request'[p].pc = request[p].pc
    BY ONLY <1>1, <1>2
  <2>2. p = r
    BY <2>1
  <2> QED
    BY <1>1, <1>4, <2>2
<1>6. \A p \in Requests : \/ request'[p] = request[p]
                          \/ /\ request[p].pc \notin {"written", "stamped"}
                             /\ request'[p].pc \notin {"written", "stamped"}
  BY <1>1
<1> QED
  BY <1>1, <1>5, <1>6, QuietStep, PostedKept

\* Steps that only take a request or a run from one point to another, or let it go.
LEMMA MovesOn ==
  ASSUME OneLoop, Typed, InHand, ReplayInv, [Next]_vars, store' = store,
         timeline' = timeline \/ NoMove, \A id \in Ids : Posted(id)' <=> Posted(id),
         NEW r \in Requests,
         request[r].pc \notin {"written", "stamped"},
         request'[r].pc \in {"idle", "running", "checked"}
           \/ /\ request'[r].pc = "matched" /\ request[r].pc = "bound"
              /\ request'[r].prev = request[r].prev /\ request'[r].id = request[r].id,
         \A p \in Requests \ {r} : request'[p] = request[p], worker' = worker
  PROVE  ReplayInv'
<1>1. \A p \in Requests : request'[p].pc \in {"bound", "matched", "written", "stamped"} =>
         /\ request'[p].id \in Ids
         /\ request'[p].prev = AssigneeAfter(request'[p].id, Len(timeline))
  BY DEF ReplayInv, History, Typed, Grounded
<1>2. \A p \in Requests : \/ request'[p] = request[p]
                          \/ /\ request[p].pc \notin {"written", "stamped"}
                             /\ request'[p].pc \notin {"written", "stamped"}
  OBVIOUS
<1> QED
  BY <1>1, <1>2, QuietStep

\* The same for a run.
LEMMA RunMovesOn ==
  ASSUME OneLoop, Typed, InHand, ReplayInv, store' = store, timeline' = timeline,
         request' = request, NEW w \in Workers,
         worker[w].pc # "written" /\ worker'[w].pc # "written",
         \A v \in Workers \ {w} : worker'[v] = worker[v]
  PROVE  ReplayInv'
<1>1. \A p \in Requests : request'[p].pc \in {"bound", "matched", "written", "stamped"} =>
         /\ request'[p].id \in Ids
         /\ request'[p].prev = AssigneeAfter(request'[p].id, Len(timeline))
  BY DEF ReplayInv, History, Typed, Grounded
<1>2. \A v \in Workers : \/ worker'[v] = worker[v]
                         \/ worker[v].pc # "written" /\ worker'[v].pc # "written"
  OBVIOUS
<1> QED
  BY <1>1, <1>2, QuietStep, PostedKept


\* The write names the new assignee before the event that will tell of it.
LEMMA WriteReplays ==
  ASSUME OneLoop, Typed, InHand, ReplayInv, NEW r \in Requests, Write(r) PROVE ReplayInv'
<1> DEFINE t == request[r].id
<1> USE DEF Write, ReplayInv
<1>1. /\ t \in Ids /\ Exists(t) /\ timeline' = timeline /\ worker' = worker
      /\ request'[r].id = t /\ request'[r].pc = "written" /\ request'[r].prev = request[r].prev
      /\ \A p \in Requests \ {r} : request'[p] = request[p]
  BY DEF Typed, TypeOK, Grounded, RequestType
<1>2. /\ \A p \in Requests \ {r} : request[p].pc \notin InSegment
      /\ \A w \in Workers : worker[w].pc \notin InWorkerSegment
  BY Alone
<1>3. store'[t] = [store[t] EXCEPT !.assignee = request[r].to]
      /\ \A id \in Ids \ {t} : store'[id] = store[id]
  BY <1>1 DEF SetAssignee, Typed, TypeOK
<1>4. \A id \in Ids : /\ Exists(id)' <=> Exists(id)
                      /\ Exists(id) => /\ store'[id].status = store[id].status
                                       /\ store'[id].version = store[id].version
  <2>1. store[t] \in TaskRecord /\ request[r].to \in Users
    BY <1>1, Versions DEF Typed, Grounded
  <2>2. store'[t] \in TaskRecord /\ store'[t].status = store[t].status
        /\ store'[t].version = store[t].version
    BY <1>3, <2>1 DEF TaskRecord
  <2> QED
    BY <1>1, <1>3, <2>2, NoneIsNoRecord DEF Exists
<1>5. /\ Numbered'
      /\ \A id \in Ids : /\ Moves(id, Len(timeline))' = Moves(id, Len(timeline))
                         /\ Count(id)' = Count(id) /\ (Posted(id)' <=> Posted(id))
                         /\ AssigneeAfter(id, Len(timeline))' = AssigneeAfter(id, Len(timeline))
  BY <1>1, NumberedKept, HistoryKept, PostedKept
<1>6. /\ \A id \in Ids : ~Touched(id, {"stamped"}) /\ ~Touched(id, {"stamped"})' /\ ~Ended(id) /\ ~Ended(id)'
      /\ \A id \in Ids \ {t} : ~Touched(id, {"written", "stamped"}) /\ ~Touched(id, {"written", "stamped"})'
      /\ Touched(t, {"written", "stamped"})'
  BY <1>1, <1>2 DEF Touched, Ended
<1>7. History'
  <2>1. \A id \in Ids : /\ ~Exists(id)' => Moves(id, Len(timeline))' = {} /\ ~Posted(id)'
                        /\ Exists(id)' /\ store'[id].status = "pending" => ~Posted(id)'
    BY <1>4, <1>5 DEF History
  <2>2. \A id \in Ids : Exists(id)' /\ ~Touched(id, {"written", "stamped"})' =>
           store'[id].assignee = AssigneeAfter(id, Len(timeline))'
    BY <1>3, <1>4, <1>5, <1>6 DEF History
  <2>3. \A id \in Ids : Exists(id)' /\ ~Touched(id, {"stamped"})' /\ ~Ended(id)' =>
           store'[id].version = Count(id)' + IF store'[id].status = "pending" \/ Posted(id)'
                                             THEN 1 ELSE 2
    BY <1>4, <1>5, <1>6 DEF History
  <2>4. \A p \in Requests : request'[p].pc # "stamped"
    BY <1>1, <1>2
  <2>5. \A w \in Workers : worker'[w].pc # "written"
    BY <1>1, <1>2
  <2>6. ASSUME NEW p \in Requests, request'[p].pc \in {"bound", "matched", "written", "stamped"}
        PROVE  (request[p].prev = AssigneeAfter(request[p].id, Len(timeline)))'
    <3>1. p = r
      BY <1>1, <1>2, <2>6
    <3>2. request[r].prev = AssigneeAfter(t, Len(timeline))
      BY DEF History
    <3> QED
      BY <1>1, <1>5, <3>1, <3>2
  <2> QED
    BY <2>1, <2>2, <2>3, <2>4, <2>5, <2>6 DEF History
<1> QED
  BY <1>5, <1>7

\* The version is counted up.
LEMMA StampsVersion ==
  ASSUME Typed, NEW t \in Ids, Exists(t), StampVersion(t)
  PROVE  /\ \A id \in Ids : /\ Exists(id)' <=> Exists(id)
                            /\ Exists(id) => /\ store'[id].status = store[id].status
                                             /\ store'[id].assignee = store[id].assignee
         /\ \A id \in Ids \ {t} : store'[id] = store[id]
         /\ store'[t].version = store[t].version + 1
<1>1. store[t] \in TaskRecord
  BY Versions
<1>2. store'[t] = [store[t] EXCEPT !.version = store[t].version + 1]
      /\ \A id \in Ids \ {t} : store'[id] = store[id]
  BY DEF StampVersion, Typed, TypeOK
<1>3. /\ store'[t] \in TaskRecord /\ store'[t].status = store[t].status
      /\ store'[t].assignee = store[t].assignee /\ store'[t].version = store[t].version + 1
  BY <1>1, <1>2 DEF TaskRecord
<1> QED
  BY <1>2, <1>3, NoneIsNoRecord DEF Exists

\* The stamp puts the record one version ahead of its events.
LEMMA StampReplays ==
  ASSUME OneLoop, Typed, InHand, ReplayInv, NEW r \in Requests, Stamp(r) PROVE ReplayInv'
<1> DEFINE t == request[r].id
<1> USE DEF Stamp, ReplayInv
<1>1. /\ t \in Ids /\ Exists(t) /\ timeline' = timeline /\ worker' = worker
      /\ request'[r].id = t /\ request'[r].pc = "stamped" /\ request'[r].prev = request[r].prev
      /\ \A p \in Requests \ {r} : request'[p] = request[p]
  BY DEF Typed, TypeOK, Grounded, RequestType
<1>2. /\ \A p \in Requests \ {r} : request[p].pc \notin InSegment
      /\ \A w \in Workers : worker[w].pc \notin InWorkerSegment
  BY Alone
<1>3. /\ \A id \in Ids : /\ Exists(id)' <=> Exists(id)
                         /\ Exists(id) => /\ store'[id].status = store[id].status
                                          /\ store'[id].assignee = store[id].assignee
      /\ \A id \in Ids \ {t} : store'[id] = store[id]
      /\ store'[t].version = store[t].version + 1
  BY <1>1, StampsVersion
<1>4. store[t].status = "pending"
  BY <1>1 DEF InHand, PendingInHand
<1>5. /\ Numbered'
      /\ \A id \in Ids : /\ Moves(id, Len(timeline))' = Moves(id, Len(timeline))
                         /\ Count(id)' = Count(id) /\ (Posted(id)' <=> Posted(id))
                         /\ AssigneeAfter(id, Len(timeline))' = AssigneeAfter(id, Len(timeline))
  BY <1>1, NumberedKept, HistoryKept, PostedKept
<1>6. /\ \A id \in Ids : ~Touched(id, {"stamped"}) /\ ~Ended(id)
      /\ \A id \in Ids \ {t} : ~Touched(id, {"written", "stamped"})
      /\ Touched(t, {"stamped"})' /\ Touched(t, {"written", "stamped"})'
  BY <1>1, <1>2 DEF Touched, Ended
<1>7. store[t].version = Count(t) + 1
  BY <1>1, <1>4, <1>6 DEF History
<1>8. History'
  <2>1. \A id \in Ids : /\ ~Exists(id)' => Moves(id, Len(timeline))' = {} /\ ~Posted(id)'
                        /\ Exists(id)' /\ store'[id].status = "pending" => ~Posted(id)'
    BY <1>3, <1>5 DEF History
  <2>2. \A id \in Ids : Exists(id)' /\ ~Touched(id, {"written", "stamped"})' =>
           store'[id].assignee = AssigneeAfter(id, Len(timeline))'
    BY <1>3, <1>5, <1>6 DEF History
  <2>3. \A id \in Ids : Exists(id)' /\ ~Touched(id, {"stamped"})' /\ ~Ended(id)' =>
           store'[id].version = Count(id)' + IF store'[id].status = "pending" \/ Posted(id)'
                                             THEN 1 ELSE 2
    BY <1>3, <1>5, <1>6 DEF History
  <2>4. ASSUME NEW p \in Requests, request'[p].pc = "stamped"
        PROVE  (store[request[p].id].version = Count(request[p].id) + 2)'
    <3>1. p = r
      BY <1>1, <1>2, <2>4
    <3>2. store'[t].version = Count(t) + 2
      BY <1>1, <1>3, <1>7, Versions
    <3> QED
      BY <1>1, <1>5, <3>1, <3>2
  <2>5. \A w \in Workers : worker'[w].pc # "written"
    BY <1>1, <1>2
  <2>6. ASSUME NEW p \in Requests, request'[p].pc \in {"bound", "matched", "written", "stamped"}
        PROVE  (request[p].prev = AssigneeAfter(request[p].id, Len(timeline)))'
    <3>1. p = r
      BY <1>1, <1>2, <2>6
    <3>2. request[r].prev = AssigneeAfter(t, Len(timeline))
      BY DEF History
    <3> QED
      BY <1>1, <1>5, <3>1, <3>2
  <2> QED
    BY <2>1, <2>2, <2>3, <2>4, <2>5, <2>6 DEF History
<1> QED
  BY <1>5, <1>8


\* A report adds a move of its task, after all others.
LEMMA MoveAdded ==
  ASSUME Typed, NEW r \in Requests, Report(r), NEW t \in Ids, t = request[r].id
  PROVE  LET n == Len(timeline)
         IN  /\ \A id \in Ids \ {t} :
                  /\ Moves(id, Len(timeline))' = Moves(id, n) /\ Count(id)' = Count(id)
                  /\ AssigneeAfter(id, Len(timeline))' = AssigneeAfter(id, n)
             /\ Moves(t, Len(timeline))' = Moves(t, n) \cup {n + 1}
             /\ Count(t)' = Count(t) + 1
             /\ AssigneeAfter(t, Len(timeline))' = store[t].assignee
             /\ \A id \in Ids : \A k \in 0..n :
                  Moves(id, k)' = Moves(id, k) /\ AssigneeAfter(id, k)' = AssigneeAfter(id, k)
<1> DEFINE n == Len(timeline)
<1>1. /\ n \in Nat /\ Len(timeline') = n + 1
      /\ \A k \in 1..n : timeline'[k] = timeline[k]
      /\ IsMove(timeline'[n + 1], t) /\ timeline'[n + 1].to = store[t].assignee
      /\ \A id \in Ids \ {t} : ~IsMove(timeline'[n + 1], id)
  BY Reported DEF IsMove
<1>2. ASSUME NEW id \in Ids, NEW k \in 0..n
      PROVE  Moves(id, k)' = Moves(id, k) /\ AssigneeAfter(id, k)' = AssigneeAfter(id, k)
  <2>1. k \in Nat /\ \A i \in 1..k : timeline'[i] = timeline[i]
    BY <1>1
  <2> QED
    BY <2>1, PrefixKept
<1>3. ASSUME NEW id \in Ids \ {t}
      PROVE  /\ Moves(id, Len(timeline))' = Moves(id, n) /\ Count(id)' = Count(id)
             /\ AssigneeAfter(id, Len(timeline))' = AssigneeAfter(id, n)
  <2>1. Moves(id, Len(timeline))' = Moves(id, n)
    BY <1>1 DEF Moves
  <2>2. AssigneeAfter(id, Len(timeline))' = AssigneeAfter(id, n)
    <3>1. CASE Moves(id, n) = {}
      BY <2>1, <3>1 DEF AssigneeAfter
    <3>2. CASE Moves(id, n) # {}
      <4> DEFINE last == CHOOSE k \in Moves(id, n) : \A i \in Moves(id, n) : i <= k
      <4>1. last \in Moves(id, n)
        BY <1>1, <3>2, LastMove
      <4>2. timeline'[last] = timeline[last]
        BY <1>1, <4>1 DEF Moves
      <4> QED
        BY <2>1, <3>2, <4>2 DEF AssigneeAfter
    <3> QED
      BY <3>1, <3>2
  <2> QED
    BY <2>1, <2>2 DEF Count
<1>4. Moves(t, Len(timeline))' = Moves(t, n) \cup {n + 1} /\ n + 1 \notin Moves(t, n)
  BY <1>1 DEF Moves
<1>5. Count(t)' = Count(t) + 1
  <2>1. IsFiniteSet(Moves(t, n)) /\ Cardinality(Moves(t, n)) \in Nat
    BY <1>1, LastMove
  <2>2. Cardinality(Moves(t, n) \cup {n + 1}) = Cardinality(Moves(t, n)) + 1
    BY <1>4, <2>1, FS_AddElement
  <2> QED
    BY <1>4, <2>2 DEF Count
<1>6. AssigneeAfter(t, Len(timeline))' = store[t].assignee
  <2> DEFINE M == Moves(t, n) \cup {n + 1}
  <2>1. \A i \in M : i <= n + 1
    BY <1>1 DEF Moves
  <2>2. \A k \in M : (\A i \in M : i <= k) => k = n + 1
    BY <1>1, <2>1 DEF Moves
  <2>3. (CHOOSE k \in M : \A i \in M : i <= k) = n + 1
    BY <2>1, <2>2
  <2> QED
    BY <1>1, <1>4, <2>3 DEF AssigneeAfter
<1> QED
  BY <1>2, <1>3, <1>4, <1>5, <1>6

\* The report catches up with the record.
LEMMA ReportReplays ==
  ASSUME OneLoop, Typed, InHand, ReplayInv, NEW r \in Requests, Report(r) PROVE ReplayInv'
<1> USE DEF ReplayInv
<1>0. PICK t \in Ids, n \in Nat : t = request[r].id /\ n = Len(timeline)
  BY Reported
<1>1. /\ Exists(t) /\ Len(timeline') = n + 1 /\ store' = store
      /\ \A k \in 1..n : timeline'[k] = timeline[k]
      /\ timeline'[n + 1].version = store[t].version
      /\ timeline'[n + 1].action = "task.handoff" => timeline'[n + 1].from = request[r].prev
      /\ timeline'[n + 1].action # "task.completed" /\ timeline'[n + 1].id = t
  BY <1>0, Reported
<1>2. /\ request[r].pc = "stamped" /\ worker' = worker
      /\ request' = [request EXCEPT ![r] = IdleRequest]
  BY DEF Report
<1>3. /\ \A p \in Requests : request'[p].pc \notin InSegment
      /\ \A p \in Requests \ {r} : request[p].pc \notin InSegment
      /\ \A w \in Workers : worker[w].pc \notin InWorkerSegment
  BY <1>2, Alone DEF IdleRequest, Typed, TypeOK
<1>4. /\ store[t].version = Count(t) + 2 /\ store[t].status = "pending"
      /\ request[r].prev = AssigneeAfter(t, n) /\ Count(t) \in Nat
  BY <1>0, <1>1, <1>2, Versions DEF History, InHand, PendingInHand
<1>5. /\ \A id \in Ids \ {t} :
           /\ Moves(id, Len(timeline))' = Moves(id, n) /\ Count(id)' = Count(id)
           /\ AssigneeAfter(id, Len(timeline))' = AssigneeAfter(id, n)
      /\ Moves(t, Len(timeline))' = Moves(t, n) \cup {n + 1}
      /\ Count(t)' = Count(t) + 1
      /\ AssigneeAfter(t, Len(timeline))' = store[t].assignee
      /\ \A id \in Ids : \A k \in 0..n :
           Moves(id, k)' = Moves(id, k) /\ AssigneeAfter(id, k)' = AssigneeAfter(id, k)
  BY <1>0, MoveAdded
<1>6. \A id \in Ids : Posted(id)' <=> Posted(id)
  BY <1>0, <1>1 DEF Posted
<1>7. Numbered'
  <2> SUFFICES ASSUME NEW id \in Ids, NEW k \in (Moves(id, Len(timeline)))'
               PROVE  (/\ timeline[k].version = Cardinality(Moves(id, k)) + 1
                       /\ timeline[k].action = "task.handoff" =>
                             timeline[k].from = AssigneeAfter(id, k - 1))'
    BY DEF Numbered
  <2>1. CASE k \in Moves(id, n)
    <3>1. k \in 0..n /\ k - 1 \in 0..n /\ timeline'[k] = timeline[k]
      BY <1>1, <2>1 DEF Moves
    <3>2. Moves(id, k)' = Moves(id, k) /\ AssigneeAfter(id, k - 1)' = AssigneeAfter(id, k - 1)
      BY <1>5, <3>1
    <3> QED
      BY <1>0, <2>1, <3>1, <3>2 DEF Numbered
  <2>2. CASE k \notin Moves(id, n)
    <3>1. id = t /\ k = n + 1
      BY <1>5, <2>2
    <3>2. Cardinality(Moves(t, n + 1))' = Count(t) + 1
      BY <1>1, <1>5 DEF Count
    <3>3. AssigneeAfter(t, n)' = AssigneeAfter(t, n) /\ k - 1 = n
      BY <1>1, <1>5, <3>1
    <3>4. AssigneeAfter(id, k - 1)' = AssigneeAfter(t, n)
      <4>1. PICK m \in 0..n : m = n /\ m = k - 1
        BY <1>1, <3>3
      <4>2. AssigneeAfter(t, m)' = AssigneeAfter(t, m)
        BY <1>1, <1>5
      <4> QED
        BY <3>1, <4>1, <4>2
    <3>5. (Cardinality(Moves(id, k)))' = Count(t) + 1
      BY <1>1, <1>5, <3>1 DEF Count
    <3> QED
      BY <1>1, <1>4, <3>1, <3>4, <3>5
  <2> QED
    BY <2>1, <2>2
<1>8. \A id \in Ids : /\ Exists(id)' <=> Exists(id)
                      /\ ~Touched(id, {"stamped"})' /\ ~Ended(id)' /\ ~Ended(id)
                      /\ ~Touched(id, {"written", "stamped"})'
                      /\ id # t => ~Touched(id, {"stamped"}) /\ ~Touched(id, {"written", "stamped"})
  BY <1>0, <1>1, <1>2, <1>3 DEF Touched, Ended, Exists
<1>9. History'
  <2>1. \A id \in Ids : /\ ~Exists(id)' => Moves(id, Len(timeline))' = {} /\ ~Posted(id)'
                        /\ Exists(id)' /\ store'[id].status = "pending" => ~Posted(id)'
    BY <1>0, <1>1, <1>5, <1>6, <1>8 DEF History
  <2>2. \A id \in Ids : Exists(id)' /\ ~Touched(id, {"written", "stamped"})' =>
           store'[id].assignee = AssigneeAfter(id, Len(timeline))'
    BY <1>0, <1>1, <1>5, <1>8 DEF History
  <2>3. ASSUME NEW id \in Ids, Exists(id)'
        PROVE  store'[id].version = Count(id)' + IF store'[id].status = "pending" \/ Posted(id)'
                                                 THEN 1 ELSE 2
    <3>1. CASE id = t
      BY <1>1, <1>4, <1>5, <3>1
    <3>2. CASE id # t
      BY <1>0, <1>1, <1>5, <1>6, <1>8, <2>3, <3>2 DEF History
    <3> QED
      BY <3>1, <3>2
  <2>4. \A p \in Requests : request'[p].pc \notin {"bound", "matched", "written", "stamped"}
    BY <1>3
  <2>5. \A w \in Workers : worker'[w].pc # "written"
    BY <1>2, <1>3
  <2> QED
    BY <2>1, <2>2, <2>3, <2>4, <2>5 DEF History
<1> QED
  BY <1>7, <1>9


\* A record is saved under an id that has no history, with the version it starts
\* with, by nobody who writes or stamps.
LEMMA PostReplays ==
  ASSUME OneLoop, Typed, InHand, ReplayInv, NEW t \in Ids, ~Exists(t), NEW rec \in TaskRecord,
         Save(t, rec), rec.assignee = None, rec.version = 1,
         timeline' = timeline \/ NoMove,
         \A id \in Ids \ {t} : Posted(id)' <=> Posted(id),
         rec.status = "pending" <=> ~Posted(t)',
         \A r \in Requests : request'[r] = request[r] \/ (request'[r].pc = "idle" /\ request[r].pc = "running"),
         \A w \in Workers : worker'[w] = worker[w] \/ (worker'[w].pc = "llm" /\ worker[w].pc = "idle")
  PROVE  ReplayInv'
<1> USE DEF ReplayInv
<1>1. /\ Numbered'
      /\ \A id \in Ids : /\ Moves(id, Len(timeline))' = Moves(id, Len(timeline))
                         /\ Count(id)' = Count(id) /\ Count(id) \in Nat
                         /\ AssigneeAfter(id, Len(timeline))' = AssigneeAfter(id, Len(timeline))
  BY NumberedKept, HistoryKept, Versions
<1>2. store'[t] = rec /\ rec # None /\ \A id \in Ids \ {t} : store'[id] = store[id]
  BY NoneIsNoRecord DEF Save, Typed, TypeOK
<1>3. Moves(t, Len(timeline)) = {} /\ Count(t) = 0 /\ AssigneeAfter(t, Len(timeline)) = None
  <2>1. Moves(t, Len(timeline)) = {}
    BY DEF History
  <2> QED
    BY <2>1, FS_EmptySet DEF Count, AssigneeAfter
<1>4. /\ \A r \in Requests : request'[r].pc \in {"bound", "matched", "written", "stamped"} =>
           request'[r] = request[r] /\ request[r].id \in Ids \ {t}
      /\ \A w \in Workers : worker'[w].pc = "written" => worker'[w] = worker[w] /\ worker[w].id \in Ids \ {t}
  BY DEF Typed, Grounded
<1>5. \A id \in Ids \ {t} : /\ Exists(id)' <=> Exists(id)
                            /\ Touched(id, {"written", "stamped"})' <=> Touched(id, {"written", "stamped"})
                            /\ Touched(id, {"stamped"})' <=> Touched(id, {"stamped"})
                            /\ Ended(id)' <=> Ended(id)
  BY <1>2 DEF Exists, Touched, Ended
<1>6. History'
  <2>0. Exists(t)'
    BY <1>2 DEF Exists
  <2>1. \A id \in Ids : /\ ~Exists(id)' => Moves(id, Len(timeline))' = {} /\ ~Posted(id)'
                        /\ Exists(id)' /\ store'[id].status = "pending" => ~Posted(id)'
    BY <1>1, <1>2, <1>3, <1>5, <2>0 DEF History
  <2>2. \A id \in Ids : Exists(id)' /\ ~Touched(id, {"written", "stamped"})' =>
           store'[id].assignee = AssigneeAfter(id, Len(timeline))'
    BY <1>1, <1>2, <1>3, <1>5 DEF History
  <2>3. ASSUME NEW id \in Ids, Exists(id)', ~Touched(id, {"stamped"})', ~Ended(id)'
        PROVE  store'[id].version = Count(id)' + IF store'[id].status = "pending" \/ Posted(id)'
                                                 THEN 1 ELSE 2
    <3>1. CASE id = t
      BY <1>1, <1>2, <1>3, <3>1
    <3>2. CASE id # t
      BY <1>1, <1>2, <1>5, <2>3, <3>2 DEF History
    <3> QED
      BY <3>1, <3>2
  <2>4. ASSUME NEW r \in Requests, request'[r].pc = "stamped"
        PROVE  (store[request[r].id].version = Count(request[r].id) + 2)'
    <3>1. PICK id \in Ids \ {t} : id = request[r].id /\ id = request'[r].id
      BY <1>4, <2>4
    <3>2. store[id].version = Count(id) + 2
      BY <1>4, <2>4, <3>1 DEF History
    <3> QED
      BY <1>1, <1>2, <3>1, <3>2
  <2>5. ASSUME NEW w \in Workers, worker'[w].pc = "written"
        PROVE  (store[worker[w].id].version = Count(worker[w].id) + 1 /\ ~Posted(worker[w].id))'
    <3>1. PICK id \in Ids \ {t} : id = worker[w].id /\ id = worker'[w].id
      BY <1>4, <2>5
    <3>2. store[id].version = Count(id) + 1 /\ ~Posted(id)
      BY <1>4, <2>5, <3>1 DEF History
    <3> QED
      BY <1>1, <1>2, <3>1, <3>2
  <2>6. ASSUME NEW r \in Requests, request'[r].pc \in {"bound", "matched", "written", "stamped"}
        PROVE  (request[r].prev = AssigneeAfter(request[r].id, Len(timeline)))'
    <3>1. PICK id \in Ids \ {t} : id = request[r].id /\ id = request'[r].id
      BY <1>4, <2>6
    <3>2. request[r].prev = AssigneeAfter(id, Len(timeline)) /\ request'[r] = request[r]
      BY <1>4, <2>6, <3>1 DEF History
    <3> QED
      BY <1>1, <3>1, <3>2
  <2> QED
    BY <2>1, <2>2, <2>3, <2>4, <2>5, <2>6 DEF History
<1> QED
  BY <1>1, <1>6

\* A posted task is finished from the start.
LEMMA SubmitReplays ==
  ASSUME OneLoop, Typed, InHand, ReplayInv, NEW r \in Requests, FinishSubmit(r) PROVE ReplayInv'
<1>1. PICK st \in Terminal, t \in Ids :
         t = request[r].id /\ Save(t, NewRecord(st, request[r].user, {}))
  BY DEF FinishSubmit, Typed, Grounded
<1>2. /\ ~Exists(t) /\ request[r].user \in Users /\ worker' = worker
      /\ timeline' = Append(timeline, Event(t, "task.completed", request[r].user, None, None, 1))
      /\ request[r].pc = "running" /\ request' = [request EXCEPT ![r] = IdleRequest]
  BY <1>1 DEF FinishSubmit, Log, InHand, IdInHand, Typed, Grounded
<1>3. PICK rec \in TaskRecord : rec = NewRecord(st, request[r].user, {})
  <2>1. NewRecord(st, request[r].user, {}) \in TaskRecord
    BY <1>2 DEF NewRecord, TaskRecord
  <2> QED
    BY <2>1
<1>4. rec.assignee = None /\ rec.version = 1 /\ rec.status # "pending"
  BY <1>3 DEF NewRecord
<1>5. PICK e \in EventType : e = Event(t, "task.completed", request[r].user, None, None, 1)
  BY <1>2 DEF Event, EventType
<1>6. /\ timeline \in Seq(EventType) /\ Len(timeline) \in Nat
      /\ e.id = t /\ e.action = "task.completed" /\ \A id \in Ids : ~IsMove(e, id)
  BY <1>5 DEF Typed, TypeOK, Event, IsMove
<1>7. /\ Len(timeline') = Len(timeline) + 1 /\ timeline'[Len(timeline) + 1] = e
      /\ \A k \in 1..Len(timeline) : timeline'[k] = timeline[k]
  BY <1>2, <1>5, <1>6
<1>8. NoMove
  BY <1>2, <1>5, <1>6 DEF NoMove
<1>9. Posted(t)' /\ \A id \in Ids \ {t} : Posted(id)' <=> Posted(id)
  BY <1>6, <1>7 DEF Posted
<1>10. \A p \in Requests : request'[p] = request[p] \/ (request'[p].pc = "idle" /\ request[p].pc = "running")
  BY <1>2 DEF IdleRequest, Typed, TypeOK
<1> QED
  BY <1>1, <1>2, <1>3, <1>4, <1>8, <1>9, <1>10, PostReplays

\* A task accepted over gRPC is pending.
LEMMA GrpcSubmitReplays ==
  ASSUME OneLoop, Typed, InHand, ReplayInv, NEW w \in Workers, NEW u \in Users, NEW t \in Ids,
         NEW sh \in SharedSets, GrpcSubmit(w, u, t, sh)
  PROVE  ReplayInv'
<1>1. /\ ~Exists(t) /\ Save(t, NewRecord("pending", u, sh)) /\ timeline' = timeline
      /\ worker[w].pc = "idle" /\ request' = request
      /\ worker' = [worker EXCEPT ![w] = [IdleWorker EXCEPT !.pc = "llm", !.id = t]]
  BY DEF GrpcSubmit, Fresh
<1>2. PICK rec \in TaskRecord : rec = NewRecord("pending", u, sh)
  <2>1. NewRecord("pending", u, sh) \in TaskRecord
    BY CollaborationAssumption DEF NewRecord, TaskRecord
  <2> QED
    BY <2>1
<1>3. rec.assignee = None /\ rec.version = 1 /\ rec.status = "pending"
  BY <1>2 DEF NewRecord
<1>4. ~Posted(t) /\ \A id \in Ids : Posted(id)' <=> Posted(id)
  BY <1>1, PostedKept DEF ReplayInv, History
<1>5. \A v \in Workers : worker'[v] = worker[v] \/ (worker'[v].pc = "llm" /\ worker[v].pc = "idle")
  BY <1>1 DEF IdleWorker, Typed, TypeOK
<1> QED
  BY <1>1, <1>2, <1>3, <1>4, <1>5, PostReplays


\* The end of a run is written before its version is stamped.
LEMMA EndReplays ==
  ASSUME OneLoop, Typed, InHand, ReplayInv, NEW w \in Workers, WorkerWrite(w) PROVE ReplayInv'
<1> USE DEF WorkerWrite, ReplayInv
<1>0. PICK t \in Ids : t = worker[w].id
  BY DEF Typed, Grounded
<1>1. /\ Exists(t) /\ timeline' = timeline /\ request' = request
      /\ worker'[w].id = t /\ worker'[w].pc = "written" /\ worker[w].want \in Terminal
      /\ \A v \in Workers \ {w} : worker'[v] = worker[v]
  BY <1>0 DEF Typed, TypeOK, Grounded, WorkerType
<1>2. /\ \A p \in Requests : request[p].pc \notin InSegment
      /\ \A v \in Workers \ {w} : worker[v].pc \notin InWorkerSegment
  BY WorkerAlone
<1>3. /\ store'[t] = [store[t] EXCEPT !.status = worker[w].want]
      /\ \A id \in Ids \ {t} : store'[id] = store[id]
  BY <1>0, <1>1 DEF SetStatus, Typed, TypeOK
<1>4. store[t].status = "pending"
  BY <1>0, <1>1 DEF InHand, PendingInHand
<1>5. /\ store'[t].status \in Terminal /\ store'[t] # None
      /\ store'[t].assignee = store[t].assignee /\ store'[t].version = store[t].version
  <2>1. store[t] \in TaskRecord
    BY <1>1, Versions
  <2>2. store'[t] \in TaskRecord /\ store'[t].status = worker[w].want
        /\ store'[t].assignee = store[t].assignee /\ store'[t].version = store[t].version
    BY <1>1, <1>3, <2>1 DEF TaskRecord
  <2> QED
    BY <1>1, <2>2, NoneIsNoRecord
<1>6. /\ Numbered'
      /\ \A id \in Ids : /\ Moves(id, Len(timeline))' = Moves(id, Len(timeline))
                         /\ Count(id)' = Count(id) /\ (Posted(id)' <=> Posted(id))
                         /\ AssigneeAfter(id, Len(timeline))' = AssigneeAfter(id, Len(timeline))
  BY <1>1, NumberedKept, HistoryKept, PostedKept
<1>7. /\ \A id \in Ids : /\ Exists(id)' <=> Exists(id)
                         /\ ~Touched(id, {"written", "stamped"}) /\ ~Touched(id, {"stamped"})
                         /\ ~Ended(id) /\ (Ended(id)' <=> id = t)
  BY <1>0, <1>1, <1>2, <1>3, <1>5 DEF Exists, Touched, Ended
<1>8. store[t].version = Count(t) + 1 /\ ~Posted(t)
  BY <1>1, <1>4, <1>7 DEF History
<1>9. History'
  <2>1. \A id \in Ids : /\ ~Exists(id)' => Moves(id, Len(timeline))' = {} /\ ~Posted(id)'
                        /\ Exists(id)' /\ store'[id].status = "pending" => ~Posted(id)'
    BY <1>3, <1>5, <1>6, <1>7, <1>8 DEF History
  <2>2. ASSUME NEW id \in Ids, Exists(id)'
        PROVE  store'[id].assignee = AssigneeAfter(id, Len(timeline))'
    <3>1. store'[id].assignee = store[id].assignee
      BY <1>3, <1>5
    <3>2. store[id].assignee = AssigneeAfter(id, Len(timeline))
      BY <1>7, <2>2 DEF History
    <3> QED
      BY <1>6, <3>1, <3>2
  <2>3. \A id \in Ids : Exists(id)' /\ ~Ended(id)' =>
           store'[id].version = Count(id)' + IF store'[id].status = "pending" \/ Posted(id)'
                                             THEN 1 ELSE 2
    BY <1>3, <1>6, <1>7 DEF History
  <2>4. \A p \in Requests : request'[p].pc \notin {"bound", "matched", "written", "stamped"}
    BY <1>1, <1>2
  <2>5. ASSUME NEW v \in Workers, worker'[v].pc = "written"
        PROVE  (store[worker[v].id].version = Count(worker[v].id) + 1 /\ ~Posted(worker[v].id))'
    <3>1. v = w
      BY <1>1, <1>2, <2>5
    <3> QED
      BY <1>1, <1>5, <1>6, <1>8, <3>1
  <2> QED
    BY <2>1, <2>2, <2>3, <2>4, <2>5 DEF History
<1> QED
  BY <1>6, <1>9

\* The stamp of an ended task is the one that no event tells of.
LEMMA EndStampReplays ==
  ASSUME OneLoop, Typed, InHand, ReplayInv, NEW w \in Workers, WorkerStamp(w),
         store[worker[w].id].status # "pending"
  PROVE  ReplayInv'
<1> USE DEF WorkerStamp, ReplayInv
<1>0. PICK t \in Ids : t = worker[w].id
  BY DEF Typed, Grounded
<1>1. /\ Exists(t) /\ timeline' = timeline /\ request' = request
      /\ worker' = [worker EXCEPT ![w] = IdleWorker]
      /\ store[t].status # "pending"
  BY <1>0 DEF Typed, Grounded
<1>2. /\ \A p \in Requests : request[p].pc \notin InSegment
      /\ \A v \in Workers \ {w} : worker[v].pc \notin InWorkerSegment
      /\ \A v \in Workers : worker'[v].pc # "written"
  BY <1>1, WorkerAlone DEF IdleWorker, Typed, TypeOK
<1>3. /\ \A id \in Ids : /\ Exists(id)' <=> Exists(id)
                         /\ Exists(id) => /\ store'[id].status = store[id].status
                                          /\ store'[id].assignee = store[id].assignee
      /\ \A id \in Ids \ {t} : store'[id] = store[id]
      /\ store'[t].version = store[t].version + 1
  BY <1>0, <1>1, StampsVersion
<1>4. /\ Numbered'
      /\ \A id \in Ids : /\ Moves(id, Len(timeline))' = Moves(id, Len(timeline))
                         /\ Count(id)' = Count(id) /\ (Posted(id)' <=> Posted(id)) /\ Count(id) \in Nat
                         /\ AssigneeAfter(id, Len(timeline))' = AssigneeAfter(id, Len(timeline))
  BY <1>1, NumberedKept, HistoryKept, PostedKept, Versions
<1>5. store[t].version = Count(t) + 1 /\ ~Posted(t)
  BY <1>0 DEF History
<1>6. \A id \in Ids : /\ ~Touched(id, {"written", "stamped"}) /\ ~Touched(id, {"stamped"})
                      /\ id # t => ~Ended(id)
  BY <1>0, <1>2 DEF Touched, Ended
<1>7. History'
  <2>1. \A id \in Ids : /\ ~Exists(id)' => Moves(id, Len(timeline))' = {} /\ ~Posted(id)'
                        /\ Exists(id)' /\ store'[id].status = "pending" => ~Posted(id)'
    BY <1>3, <1>4 DEF History
  <2>2. \A id \in Ids : Exists(id)' => store'[id].assignee = AssigneeAfter(id, Len(timeline))'
    BY <1>3, <1>4, <1>6 DEF History
  <2>3. ASSUME NEW id \in Ids, Exists(id)'
        PROVE  store'[id].version = Count(id)' + IF store'[id].status = "pending" \/ Posted(id)'
                                                 THEN 1 ELSE 2
    <3>1. CASE id = t
      <4>1. store'[t].version = Count(t) + 2
        BY <1>3, <1>4, <1>5
      <4> QED
        BY <1>1, <1>3, <1>4, <1>5, <3>1, <4>1
    <3>2. CASE id # t
      BY <1>3, <1>4, <1>6, <2>3, <3>2 DEF History
    <3> QED
      BY <3>1, <3>2
  <2>4. \A p \in Requests : request'[p].pc \notin {"bound", "matched", "written", "stamped"}
    BY <1>1, <1>2
  <2> QED
    BY <1>2, <2>1, <2>2, <2>3, <2>4 DEF History
<1> QED
  BY <1>4, <1>7

\* Every step keeps the history and the records together.
LEMMA ReplayNext ==
  ASSUME OneLoop, Typed, InHand, ReplayInv, WrittenIsTerminal, [Next]_vars PROVE ReplayInv'
<1> USE DEF Typed, TypeOK, IdleRequest, IdleWorker
<1>1. ASSUME NEW r \in Requests, NEW u \in Users, NEW id \in Ids, BeginSubmit(r, u, id)
      PROVE  ReplayInv'
  <2>1. /\ store' = store /\ timeline' = timeline /\ worker' = worker
        /\ request[r].pc = "idle" /\ request'[r].pc = "running"
        /\ \A p \in Requests \ {r} : request'[p] = request[p]
    BY <1>1 DEF BeginSubmit
  <2> QED
    BY <2>1, MovesOn, PostedKept
<1>2. ASSUME NEW r \in Requests, AbortSubmit(r) PROVE ReplayInv'
  <2>1. /\ store' = store /\ worker' = worker
        /\ request[r].pc = "running" /\ request'[r].pc = "idle"
        /\ \A p \in Requests \ {r} : request'[p] = request[p]
    BY <1>2 DEF AbortSubmit
  <2>2. PICK e \in EventType : /\ timeline' = Append(timeline, e)
                               /\ e.action = "task.failed" /\ \A id \in Ids : ~IsMove(e, id)
    <3>1. request[r].id \in Ids /\ request[r].user \in Users
      BY <2>1 DEF Grounded
    <3>2. PICK e : e = Event(request[r].id, "task.failed", request[r].user, None, None, None)
      OBVIOUS
    <3>3. timeline' = Append(timeline, e)
      BY <1>2, <3>2 DEF AbortSubmit, Log
    <3>4. e \in EventType /\ e.action = "task.failed" /\ \A id \in Ids : ~IsMove(e, id)
      BY <3>1, <3>2 DEF Event, EventType, IsMove
    <3> QED
      BY <3>3, <3>4
  <2>3. NoMove
    BY <2>2 DEF NoMove
  <2>4. \A id \in Ids : Posted(id)' <=> Posted(id)
    <3>1. /\ Len(timeline) \in Nat /\ Len(timeline') = Len(timeline) + 1
          /\ timeline'[Len(timeline) + 1] = e
          /\ \A k \in 1..Len(timeline) : timeline'[k] = timeline[k]
      BY <2>2
    <3> QED
      BY <2>2, <3>1 DEF Posted
  <2> QED
    BY <2>1, <2>3, <2>4, MovesOn
<1>3. ASSUME NEW r \in Requests, NEW u \in Users, NEW to \in Users, NEW id \in Ids, NEW op, NEW v,
             Accept(r, Call(op, u, to, id, v))
      PROVE  ReplayInv'
  <2>1. /\ store' = store /\ timeline' = timeline /\ worker' = worker
        /\ request[r].pc = "idle" /\ request'[r].pc = "checked"
        /\ \A p \in Requests \ {r} : request'[p] = request[p]
    BY <1>3 DEF Accept, Call
  <2> QED
    BY <2>1, MovesOn, PostedKept
<1>4. ASSUME NEW r \in Requests, Match(r) PROVE ReplayInv'
  <2>1. /\ store' = store /\ timeline' = timeline /\ worker' = worker
        /\ request[r].pc = "bound" /\ request'[r].pc = "matched"
        /\ request'[r].prev = request[r].prev /\ request'[r].id = request[r].id
        /\ \A p \in Requests \ {r} : request'[p] = request[p]
    BY <1>4 DEF Match, RequestType
  <2> QED
    BY <2>1, MovesOn, PostedKept
<1>5. ASSUME NEW r \in Requests, Conflict(r) PROVE ReplayInv'
  <2>1. /\ store' = store /\ timeline' = timeline /\ worker' = worker
        /\ request[r].pc = "bound" /\ request'[r].pc = "idle"
        /\ \A p \in Requests \ {r} : request'[p] = request[p]
    BY <1>5 DEF Conflict
  <2> QED
    BY <2>1, MovesOn, PostedKept
<1>6. ASSUME NEW w \in Workers,
             CancelRun(w) \/ LlmAnswers(w) \/ GetCurrent(w) \/ WorkerMatch(w) \/ WorkerConflict(w)
      PROVE  ReplayInv'
  <2>1. /\ store' = store /\ timeline' = timeline /\ request' = request
        /\ worker[w].pc # "written"
        /\ \A p \in Workers \ {w} : worker'[p] = worker[p]
    BY <1>6 DEF CancelRun, LlmAnswers, GetCurrent, WorkerMatch, WorkerConflict
  <2>2. worker'[w].pc # "written"
    BY <1>6 DEF CancelRun, LlmAnswers, GetCurrent, WorkerMatch, WorkerConflict, WorkerType
  <2> QED
    BY <2>1, <2>2, RunMovesOn
<1>7. ASSUME NEW w \in Workers, WorkerStamp(w) PROVE ReplayInv'
  <2>1. store[worker[w].id].status # "pending"
    BY <1>7 DEF WorkerStamp, WrittenIsTerminal
  <2> QED
    BY <1>7, <2>1, EndStampReplays
<1>8. CASE UNCHANGED vars
  <2>1. /\ store' = store /\ timeline' = timeline /\ request' = request /\ worker' = worker
    BY <1>8 DEF vars
  <2>2. \A p \in Requests : request'[p].pc \in {"bound", "matched", "written", "stamped"} =>
          /\ request'[p].id \in Ids
          /\ request'[p].prev = AssigneeAfter(request'[p].id, Len(timeline))
    BY <2>1 DEF ReplayInv, History, Grounded
  <2> QED
    BY <2>1, <2>2, QuietStep, PostedKept
<1> QED
  BY <1>1, <1>2, <1>3, <1>4, <1>5, <1>6, <1>7, <1>8, SubmitReplays, BindReplays, WriteReplays,
     StampReplays, ReportReplays, GrpcSubmitReplays, EndReplays
  DEF Next, RequestStep, WorkerStep, Refuse


\* A run that has written the end of its task leaves it ended.
LEMMA WrittenNext ==
  ASSUME OneLoop, Typed, InHand, WrittenIsTerminal, [Next]_vars PROVE WrittenIsTerminal'
<1> USE NoneIsNoRecord DEF Typed, TypeOK, IdleWorker
<1>1. ASSUME NEW id \in Ids, Exists(id), store[id].status \in Terminal
      PROVE  store'[id].status \in Terminal
  <2>0. store[id] \in TaskRecord
    BY <1>1, Versions
  <2>1. CASE Unchanged
    BY <1>1, <2>1 DEF Unchanged
  <2>2. CASE Posts
    BY <1>1, <2>2 DEF Posts, Save
  <2>3. CASE Assigns
    BY <1>1, <2>0, <2>3 DEF Assigns, SetAssignee, TaskRecord
  <2>4. CASE Finishes
    BY <1>1, <2>4 DEF Finishes, SetStatus
  <2>5. CASE Stamps
    BY <1>1, <2>0, <2>5 DEF Stamps, StampVersion, TaskRecord
  <2> QED
    BY <2>1, <2>2, <2>3, <2>4, <2>5, StoreStep
<1>2. ASSUME NEW w \in Workers, WorkerWrite(w)
      PROVE  /\ worker'[w].id = worker[w].id /\ store'[worker[w].id].status \in Terminal
             /\ \A v \in Workers \ {w} : worker'[v] = worker[v]
  <2>1. /\ worker[w].id \in Ids /\ Exists(worker[w].id) /\ worker[w].want \in Terminal
        /\ worker'[w].id = worker[w].id
        /\ \A v \in Workers \ {w} : worker'[v] = worker[v]
    BY <1>2 DEF WorkerWrite, Grounded, WorkerType
  <2>2. store'[worker[w].id] = [store[worker[w].id] EXCEPT !.status = worker[w].want]
    BY <1>2, <2>1 DEF WorkerWrite, SetStatus
  <2>3. store[worker[w].id] \in TaskRecord
    BY <2>1, Versions
  <2> QED
    BY <2>1, <2>2, <2>3 DEF TaskRecord
<1>3. ASSUME NEW w \in Workers, ~ WorkerWrite(w), worker'[w].pc = "written"
      PROVE  worker[w] = worker'[w] \/ \E v \in Workers : WorkerWrite(v)
  <2>1. ASSUME NEW v \in Workers, NEW u \in Users, NEW id \in Ids, NEW sh \in SharedSets,
               GrpcSubmit(v, u, id, sh)
        PROVE  worker[w] = worker'[w]
    BY <1>3, <2>1 DEF GrpcSubmit
  <2>2. ASSUME NEW v \in Workers,
               \/ CancelRun(v) \/ LlmAnswers(v) \/ GetCurrent(v) \/ WorkerMatch(v)
               \/ WorkerConflict(v) \/ WorkerStamp(v)
        PROVE  worker[w] = worker'[w]
    <3>1. worker'[v].pc # "written" /\ \A x \in Workers \ {v} : worker'[x] = worker[x]
      BY <2>2 DEF CancelRun, LlmAnswers, GetCurrent, WorkerMatch, WorkerConflict, WorkerStamp,
                  WorkerType
    <3> QED
      BY <1>3, <3>1
  <2>3. ASSUME worker' = worker PROVE worker[w] = worker'[w]
    BY <2>3
  <2>4. ASSUME NEW r \in Requests,
               \/ \E u \in Users, id \in Ids : BeginSubmit(r, u, id)
               \/ RequestStep(r) \/ \E q : Accept(r, q) \/ Refuse(r, q)
        PROVE  worker' = worker
    BY <2>4 DEF BeginSubmit, RequestStep, FinishSubmit, AbortSubmit, Bind, Match, Conflict, Write,
                Stamp, Report, Accept, Refuse, vars
  <2> QED
    BY <2>1, <2>2, <2>3, <2>4 DEF Next, WorkerStep, vars
<1>4. CASE \E w \in Workers : WorkerWrite(w)
  <2>1. PICK w \in Workers : WorkerWrite(w)
    BY <1>4
  <2>2. ASSUME NEW v \in Workers, worker'[v].pc = "written"
        PROVE  store'[worker'[v].id].status \in Terminal
    <3>1. CASE v = w
      BY <1>2, <2>1, <3>1
    <3>2. CASE v # w
      BY <1>1, <1>2, <2>1, <2>2, <3>2 DEF WrittenIsTerminal, Grounded
    <3> QED
      BY <3>1, <3>2
  <2> QED
    BY <2>2 DEF WrittenIsTerminal
<1>5. CASE ~ \E w \in Workers : WorkerWrite(w)
  BY <1>1, <1>3, <1>5 DEF WrittenIsTerminal, Grounded
<1> QED
  BY <1>4, <1>5

\* The events of a task tell its whole history, the last of them the present
\* assignee and version, whenever no update is under way.
THEOREM Replays == ASSUME OneLoop PROVE Spec => []TimelineReplays
<1>1. Init => Typed /\ InHand /\ WrittenIsTerminal /\ ReplayInv
  <2> SUFFICES ASSUME Init PROVE WrittenIsTerminal /\ ReplayInv
    BY TypedInit, InHandInit
  <2>1. WrittenIsTerminal
    BY DEF Init, WrittenIsTerminal, IdleWorker
  <2>2. \A id : Moves(id, Len(timeline)) = {} /\ ~Posted(id)
    BY DEF Init, Moves, Posted
  <2>3. Numbered
    BY <2>2 DEF Numbered
  <2>4. History
    BY <2>2 DEF Init, History, Exists, IdleRequest, IdleWorker
  <2> QED
    BY <2>1, <2>3, <2>4 DEF ReplayInv
<1>2. Typed /\ InHand /\ WrittenIsTerminal /\ ReplayInv /\ [Next]_vars
        => Typed' /\ InHand' /\ WrittenIsTerminal' /\ ReplayInv'
  BY TypedNext, InHandNext, WrittenNext, ReplayNext
<1>3. Typed /\ InHand /\ ReplayInv => TimelineReplays
  <2> SUFFICES ASSUME Typed, InHand, ReplayInv, loop = None, NEW id \in Ids
               PROVE  /\ \A k \in Moves(id, Len(timeline)) :
                           /\ timeline[k].version = Cardinality(Moves(id, k)) + 1
                           /\ timeline[k].action = "task.handoff" =>
                                 timeline[k].from = AssigneeAfter(id, k - 1)
                      /\ Exists(id) =>
                           /\ store[id].assignee = AssigneeAfter(id, Len(timeline))
                           /\ store[id].version =
                                Cardinality(Moves(id, Len(timeline)))
                                  + IF store[id].status = "pending" \/ Posted(id) THEN 1 ELSE 2
    BY DEF TimelineReplays
  <2>1. /\ \A r \in Requests : request[r].pc \notin InSegment
        /\ \A w \in Workers : worker[w].pc \notin InWorkerSegment
    BY CollaborationAssumption DEF InHand, LoopHeld
  <2>2. ~Touched(id, {"written", "stamped"}) /\ ~Touched(id, {"stamped"}) /\ ~Ended(id)
    BY <2>1 DEF Touched, Ended
  <2> QED
    BY <2>2 DEF ReplayInv, Numbered, History, Count
<1> QED
  BY <1>1, <1>2, <1>3, PTL DEF Spec
================================================================================
