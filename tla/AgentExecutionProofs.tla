-------------------------- MODULE AgentExecutionProofs --------------------------
(***************************************************************************)
(* What AgentExecution guarantees for any number of requests, any retries, *)
(* with and without a resolver, with errors of the disk and with crashes.  *)
(***************************************************************************)
EXTENDS AgentExecution, SequenceTheorems, TLAPS

Places == Calling \cup {"new", "started", "discuss", "ceo", "returned", "done", "gone"}

RunType == [pc : Places, attempt : 0..MaxRetries, calls : Nat,
            answer : {None, "completed", "failed"}]

\* What a request can go on to.
OutcomeType == [pc : Places, calls : Nat, events : Seq(STRING),
                answer : {None, "completed", "failed"}]

--------------------------------------------------------------------------------
(* What the helpers do                                                      *)

\* Going on replaces the request's record and leaves the others alone.
LEMMA GoOnRun ==
    ASSUME run \in [Runs -> RunType], NEW r \in Runs, NEW out, GoOn(r, out)
    PROVE  /\ run'[r] = [pc |-> out.pc, attempt |-> run[r].attempt,
                         calls |-> run[r].calls + out.calls, answer |-> out.answer]
           /\ \A q \in Runs : q # r => run'[q] = run[q]
BY DEF GoOn

\* So it moves the request and no other.
LEMMA GoOnMoves ==
    ASSUME run \in [Runs -> RunType], NEW r \in Runs, NEW out, GoOn(r, out)
    PROVE  run'[r].pc = out.pc /\ \A q \in Runs : q # r => run'[q] = run[q]
<1>1. run'[r] = [pc |-> out.pc, attempt |-> run[r].attempt,
                 calls |-> run[r].calls + out.calls, answer |-> out.answer]
  BY GoOnRun
<1> QED
  BY <1>1, GoOnRun

\* Going on with an outcome keeps the type of run.
LEMMA GoOnTyped ==
    ASSUME ExecutionAssumption, run \in [Runs -> RunType], NEW r \in Runs, NEW out, GoOn(r, out),
           out.pc \in Places, out.calls \in Nat, out.answer \in {None, "completed", "failed"}
    PROVE  run' \in [Runs -> RunType]
<1> DEFINE q == [pc |-> out.pc, attempt |-> run[r].attempt,
                 calls |-> run[r].calls + out.calls, answer |-> out.answer]
<1>1. run[r] \in RunType
  OBVIOUS
<1>2. q \in RunType
  BY <1>1 DEF RunType
<1>3. run' = [run EXCEPT ![r] = q]
  BY DEF GoOn
<1> QED
  BY <1>2, <1>3

\* Where a failure leads, and at what cost.
LEMMA SequelCost ==
    ASSUME NEW r \in Runs, NEW out \in Sequel(r)
    PROVE  /\ out.pc \in {"returned", "discuss", "ceo", "self"}
           /\ out.calls = IF out.pc = "self" THEN 1 ELSE 0
           /\ out.answer \in {None, "failed"}
           /\ out.pc = "self" => run[r].attempt < 2
           /\ out.pc # "returned" => Escalating
           /\ out.pc = "returned" => out.answer = "failed"
BY DEF Sequel, Resolutions, ToCeo, ToPeers, To, Answer

\* The same for the CEO's part.
LEMMA CeoCost ==
    ASSUME NEW out \in ToCeo
    PROVE  /\ out.pc \in {"ceo", "returned"} /\ out.calls = 0 /\ out.answer \in {None, "failed"}
           /\ out.pc = "returned" => out.answer = "failed"
BY DEF ToCeo, To, Answer

--------------------------------------------------------------------------------
(* The run of a request                                                     *)

\* The calls begun so far, by where the request is: the attempts, one for SELF,
\* which is taken only before the third attempt, and one for PEER.
Spent(r) ==
    LET q == run[r]
        self == IF q.attempt < 2 THEN 1 ELSE 0
    IN  /\ q.pc \in {"new", "started"} => q.calls = 0 /\ q.attempt = 0
        /\ q.pc = "working" => q.calls = q.attempt + 1
        /\ q.pc = "self" => Escalating /\ q.attempt < 2 /\ q.calls <= q.attempt + 2
        /\ q.pc \in {"discuss"} => Escalating /\ q.calls <= q.attempt + 1 + self
        /\ q.pc = "peer" => Escalating /\ q.calls <= q.attempt + 2 + self
        /\ q.calls <= IF Escalating THEN q.attempt + 2 + self ELSE q.attempt + 1

\* A request that has returned has its answer.
Answered(r) == run[r].pc \in {"returned", "done"} => run[r].answer \in {"completed", "failed"}

RunInv ==
    /\ run \in [Runs -> RunType]
    /\ \A r \in Runs : Spent(r) /\ Answered(r)

\* A request that goes on somewhere keeps the invariant if its own record does.
LEMMA OneRun ==
    ASSUME RunInv, NEW r \in Runs, run' \in [Runs -> RunType],
           \A q \in Runs : q # r => run'[q] = run[q],
           Spent(r)', Answered(r)'
    PROVE  RunInv'
BY DEF RunInv, Spent, Answered

\* Giving up keeps it.
LEMMA GiveUpRun ==
    ASSUME ExecutionAssumption, RunInv, NEW r \in Runs, At(r, "working"), NEW before, NEW step, NEW saved,
           GiveUp(r, before, step) \/ GiveUpRaises(r, before, step, saved)
    PROVE  RunInv'
<1>1. PICK out : /\ GoOn(r, out)
                 /\ out.pc \in {"returned", "discuss", "ceo", "self"}
                 /\ out.calls = IF out.pc = "self" THEN 1 ELSE 0
                 /\ out.answer \in {None, "failed"}
                 /\ out.pc = "self" => run[r].attempt < 2
                 /\ out.pc # "returned" => Escalating
                 /\ out.pc = "returned" => out.answer = "failed"
  <2>1. CASE GiveUp(r, before, step)
    <3>1. PICK out \in Sequel(r) : GoOn(r, [out EXCEPT !.events = before \o <<"failed">> \o @])
      BY <2>1 DEF GiveUp
    <3> DEFINE new == [out EXCEPT !.events = before \o <<"failed">> \o @]
    <3>2. new.pc = out.pc /\ new.calls = out.calls /\ new.answer = out.answer
      BY DEF Sequel, Resolutions, ToCeo, ToPeers, To, Answer
    <3> QED
      BY <3>1, <3>2, SequelCost
  <2>2. CASE GiveUpRaises(r, before, step, saved)
    BY <2>2 DEF GiveUpRaises, Answer
  <2> QED
    BY <2>1, <2>2
<1>2. run' \in [Runs -> RunType]
  BY <1>1, GoOnTyped DEF RunInv, Places, Calling
<1>3. /\ run'[r] = [pc |-> out.pc, attempt |-> run[r].attempt,
                    calls |-> run[r].calls + out.calls, answer |-> out.answer]
      /\ \A q \in Runs : q # r => run'[q] = run[q]
  BY <1>1, GoOnRun DEF RunInv
<1>4. run[r].attempt \in Nat /\ run[r].calls = run[r].attempt + 1
  BY DEF RunInv, Spent, At, RunType, ExecutionAssumption
<1> QED
  BY <1>1, <1>2, <1>3, <1>4, OneRun DEF Spent, Answered

\* Every step keeps the invariant of the runs.
LEMMA RunStep ==
    ASSUME ExecutionAssumption, RunInv, [Next]_vars
    PROVE  RunInv'
<1> USE DEF At
<1>t. \A r \in Runs : /\ run[r] \in RunType /\ run[r].attempt \in Nat /\ run[r].calls \in Nat
                      /\ run[r].attempt <= MaxRetries
  BY DEF RunInv, RunType, ExecutionAssumption
<1>g. ASSUME NEW r \in Runs, NEW out, GoOn(r, out),
             out.pc \in Places, out.calls \in {0, 1}, out.answer \in {None, "completed", "failed"},
             out.pc = "returned" => out.answer \in {"completed", "failed"},
             \/ out.pc \in {"returned", "ceo"} /\ out.calls = 0 /\ run[r].pc # "gone"
             \/ out.pc = "started" /\ out.calls = 0 /\ run[r].pc = "new"
             \/ out.pc = "working" /\ out.calls = 1 /\ run[r].pc = "started"
             \/ out.pc = "discuss" /\ out.calls = 0 /\ run[r].pc = "self"
             \/ out.pc = "peer" /\ out.calls = 1 /\ run[r].pc = "discuss"
      PROVE  RunInv'
  <2>1. run' \in [Runs -> RunType]
    BY <1>g, GoOnTyped DEF RunInv
  <2>2. /\ run'[r] = [pc |-> out.pc, attempt |-> run[r].attempt,
                      calls |-> run[r].calls + out.calls, answer |-> out.answer]
        /\ \A q \in Runs : q # r => run'[q] = run[q]
    BY <1>g, GoOnRun DEF RunInv
  <2>3. Answered(r)'
    BY <1>g, <2>2 DEF Answered
  <2>4. Spent(r)'
    BY <1>g, <1>t, <2>2 DEF Spent, RunInv
  <2> QED
    BY <2>1, <2>2, <2>3, <2>4, OneRun
<1>1. ASSUME NEW r \in Runs, Submit(r) PROVE RunInv'
  BY <1>1, <1>g DEF Submit, To, Places, Calling
<1>2. ASSUME NEW r \in Runs, RefuseInput(r) \/ BeginRaises(r) PROVE RunInv'
  BY <1>2, <1>g DEF RefuseInput, BeginRaises, Answer, Places, Calling
<1>3. ASSUME NEW r \in Runs, Begin(r) PROVE RunInv'
  BY <1>3, <1>g DEF Begin, To, Places, Calling
<1>4. ASSUME NEW r \in Runs, Retry(r) PROVE RunInv'
  <2>1. /\ run'[r] = [pc |-> "working", attempt |-> run[r].attempt + 1,
                      calls |-> run[r].calls + 1, answer |-> run[r].answer]
        /\ \A q \in Runs : q # r => run'[q] = run[q]
        /\ run' = [run EXCEPT ![r] = run'[r]]
    BY <1>4, <1>t DEF Retry, RunInv, RunType
  <2>2. run' \in [Runs -> RunType]
    BY <1>4, <1>t, <2>1 DEF Retry, RunInv, RunType, ExecutionAssumption
  <2>3. Spent(r)' /\ Answered(r)'
    BY <1>4, <1>t, <2>1 DEF Retry, RunInv, Spent, Answered
  <2> QED
    BY <2>1, <2>2, <2>3, OneRun
<1>5. ASSUME NEW r \in Runs, Succeed(r) PROVE RunInv'
  BY <1>5, <1>g DEF Succeed, Answer, Places, Calling
<1>6. ASSUME NEW r \in Runs, SucceedRaises(r) PROVE RunInv'
  BY <1>6, GiveUpRun DEF SucceedRaises
<1>7. ASSUME NEW r \in Runs, Fail(r) PROVE RunInv'
  BY <1>7, GiveUpRun DEF Fail
<1>8. ASSUME NEW r \in Runs, Resolve(r) PROVE RunInv'
  <2>1. PICK a \in {"completed", "failed"} : GoOn(r, Answer(a, <<"completed">>))
    BY <1>8 DEF Resolve
  <2> QED
    BY <1>8, <2>1, <1>g DEF Resolve, Answer, Places, Calling
<1>9. ASSUME NEW r \in Runs, ResolveFails(r) PROVE RunInv'
  <2>1. PICK out \in ToCeo \cup (IF run[r].pc = "self" THEN {ToPeers} ELSE {}) : GoOn(r, out)
    BY <1>9 DEF ResolveFails
  <2>2. CASE out \in ToCeo
    BY <1>9, <2>1, <2>2, CeoCost, <1>g DEF ResolveFails, Places, Calling
  <2>3. CASE run[r].pc = "self" /\ out = ToPeers
    BY <2>1, <2>3, <1>g DEF ToPeers, To, Places, Calling
  <2> QED
    BY <2>1, <2>2, <2>3
<1>10. ASSUME NEW r \in Runs, Discuss(r) PROVE RunInv'
  <2>1. PICK out \in ToCeo \cup {To("peer", 1, <<>>)} : GoOn(r, out)
    BY <1>10 DEF Discuss
  <2>2. CASE out \in ToCeo
    BY <1>10, <2>1, <2>2, CeoCost, <1>g DEF Discuss, Places, Calling
  <2>3. CASE out = To("peer", 1, <<>>)
    BY <1>10, <2>1, <2>3, <1>g DEF Discuss, To, Places, Calling
  <2> QED
    BY <2>1, <2>2, <2>3
<1>11. ASSUME NEW r \in Runs, CeoDecides(r) PROVE RunInv'
  BY <1>11, <1>g DEF CeoDecides, Answer, Places, Calling
<1>12. ASSUME NEW r \in Runs, Finish(r) \/ FailTracked(r) PROVE RunInv'
  <2>1. /\ run'[r] = [run[r] EXCEPT !.pc = "done"] /\ run[r].pc = "returned"
        /\ \A q \in Runs : q # r => run'[q] = run[q]
        /\ run' = [run EXCEPT ![r] = run'[r]]
    BY <1>12, <1>t DEF Finish, FailTracked, Done, RunInv
  <2>2. run'[r] \in RunType
    BY <1>t, <2>1 DEF RunType, Places
  <2>3. run' \in [Runs -> RunType]
    BY <2>1, <2>2 DEF RunInv
  <2>4. Spent(r)' /\ Answered(r)'
    BY <1>t, <2>1 DEF RunInv, Spent, Answered, RunType
  <2> QED
    BY <2>1, <2>3, <2>4, OneRun
<1>13. CASE Crash
  <2>1. \A r \in Runs : run'[r] = IF InFlight(r) THEN [run[r] EXCEPT !.pc = "gone"] ELSE run[r]
    BY <1>13 DEF Crash
  <2>l. ASSUME NEW q \in RunType
        PROVE  LET g == [q EXCEPT !.pc = "gone"]
               IN  g \in RunType /\ g.pc = "gone" /\ g.calls = q.calls /\ g.attempt = q.attempt
    BY ONLY <2>l DEF RunType, Places
  <2>2. \A r \in Runs : run'[r] \in RunType
    BY <1>t, <2>1, <2>l
  <2>3. run' \in [Runs -> RunType]
    BY <1>13, <2>2 DEF Crash
  <2>4. ASSUME NEW r \in Runs PROVE Spent(r)' /\ Answered(r)'
    <3>1. Spent(r) /\ Answered(r) /\ run[r] \in RunType
      BY <1>t DEF RunInv
    <3>2. CASE InFlight(r)
      <4>1. run'[r].pc = "gone" /\ run'[r].calls = run[r].calls /\ run'[r].attempt = run[r].attempt
        BY <2>1, <2>l, <3>1, <3>2
      <4> QED
        BY ONLY <3>1, <4>1 DEF Spent, Answered
    <3>3. CASE ~InFlight(r)
      <4>1. run'[r] = run[r]
        BY <2>1, <3>3
      <4> QED
        BY ONLY <3>1, <4>1 DEF Spent, Answered
    <3> QED
      BY <3>2, <3>3
  <2> QED
    BY <2>3, <2>4 DEF RunInv
<1>14. CASE UNCHANGED vars \/ \E i \in TaskIds : CreateOffer(i) \/ AnswerOffer(i)
  BY <1>14 DEF vars, CreateOffer, AnswerOffer, RunInv, Spent, Answered
<1> QED
  BY <1>1, <1>2, <1>3, <1>4, <1>5, <1>6, <1>7, <1>8, <1>9, <1>10, <1>11, <1>12, <1>13, <1>14
  DEF Next, Step

\* The runs are well formed at every time.
LEMMA RunsInvariant == Spec => []RunInv
<1>1. Init => RunInv
  BY ExecutionAssumption DEF Init, RunInv, RunType, Places, Spent, Answered, ExecutionAssumption
<1>2. RunInv /\ [Next]_vars => RunInv'
  BY RunStep, ExecutionAssumption
<1> QED
  BY <1>1, <1>2, PTL DEF Spec

\* No request costs more calls of do_work than its budget, whatever fails: the loop of
\* _run_with_retry (agent.py:306) and the paths of the resolver are bounded.
THEOREM Budget == Spec => []CallsBounded
<1>1. RunInv => CallsBounded
  <2> SUFFICES ASSUME RunInv, NEW r \in Runs PROVE run[r].calls <= CallBudget
    BY DEF CallsBounded
  <2> DEFINE a == run[r].attempt
             n == run[r].calls
  <2>1. a \in Nat /\ n \in Nat /\ a <= MaxRetries /\ MaxRetries \in Nat
    BY ExecutionAssumption DEF RunInv, RunType, ExecutionAssumption
  <2>2. n <= IF Escalating THEN a + 2 + (IF a < 2 THEN 1 ELSE 0) ELSE a + 1
    BY DEF RunInv, Spent
  <2> HIDE DEF a, n
  <2>3. n <= CallBudget
    BY <2>1, <2>2 DEF CallBudget
  <2> QED
    BY <2>3 DEF n
<1> QED
  BY <1>1, RunsInvariant, PTL

--------------------------------------------------------------------------------
(* What the requests leave behind                                           *)

StoresTyped ==
    /\ own \in [Runs -> Standing \cup {None}]
    /\ live \in [TaskIds -> Standing \cup {None}]
    /\ file \in [TaskIds -> Standing \cup {None}]
    /\ lost \subseteq TaskIds
    /\ node \in [TaskIds -> {None, "running", "completed", "failed"}]
    /\ offer \in [TaskIds -> [status : {"pending", "resumed", "abandoned"},
                              resumable : BOOLEAN] \cup {None}]

\* What a write of a checkpoint and a deletion do to its file, and to no other.
LEMMA SaveEffect ==
    ASSUME StoresTyped, NEW i \in TaskIds, NEW s \in Standing \cup {None}, Save(i, s) \/ (Delete(i) /\ s = None)
    PROVE  /\ file' \in [TaskIds -> Standing \cup {None}] /\ lost' \subseteq TaskIds
           /\ \A j \in TaskIds : j # i => file'[j] = file[j] /\ (j \in lost' <=> j \in lost)
           /\ file'[i] \in {s, file[i], None}
           /\ file'[i] = s \/ i \in lost'
BY DEF StoresTyped, Save, Delete

\* The stores keep their types.
LEMMA StoresStep ==
    ASSUME ExecutionAssumption, StoresTyped, [Next]_vars
    PROVE  StoresTyped'
<1> USE DEF StoresTyped, Standing, CompleteStep, FailStep, ExecutionAssumption
<1>1. ASSUME NEW r \in Runs, RefuseInput(r) \/ BeginRaises(r) \/ Retry(r)
      PROVE  StoresTyped'
  BY <1>1 DEF RefuseInput, BeginRaises, Retry
<1>b. ASSUME NEW r \in Runs, Submit(r) \/ Begin(r) PROVE StoresTyped'
  BY <1>b, SaveEffect DEF Submit, Begin
<1>2. ASSUME NEW r \in Runs, Succeed(r) PROVE StoresTyped'
  BY <1>2 DEF Succeed, Delete
<1>c. ASSUME NEW r \in Runs, NEW before, NEW step \in Standing \cup {None}, GiveUp(r, before, step)
      PROVE  /\ own' \in [Runs -> Standing \cup {None}]
             /\ file' \in [TaskIds -> Standing \cup {None}] /\ lost' \subseteq TaskIds
             /\ node' \in [TaskIds -> {None, "running", "completed", "failed"}]
  BY <1>c, SaveEffect DEF GiveUp
<1>d. ASSUME NEW r \in Runs, NEW before, NEW step \in Standing \cup {None},
             NEW saved \in Standing \cup {None}, GiveUpRaises(r, before, step, saved)
      PROVE  /\ own' \in [Runs -> Standing \cup {None}]
             /\ file' \in [TaskIds -> Standing \cup {None}] /\ lost' \subseteq TaskIds
             /\ node' \in [TaskIds -> {None, "running", "completed", "failed"}]
  BY <1>d DEF GiveUpRaises
<1>3. ASSUME NEW r \in Runs, Fail(r) PROVE StoresTyped'
  BY <1>3, <1>c, <1>d DEF Fail
<1>4. ASSUME NEW r \in Runs, SucceedRaises(r) PROVE StoresTyped'
  BY <1>4, <1>c, <1>d DEF SucceedRaises
<1>5. ASSUME NEW r \in Runs, Resolve(r) \/ ResolveFails(r) \/ Discuss(r) \/ CeoDecides(r)
      PROVE  StoresTyped'
  BY <1>5 DEF Resolve, ResolveFails, Discuss, CeoDecides, Delete
<1>6. ASSUME NEW r \in Runs, Finish(r) \/ FailTracked(r) PROVE StoresTyped'
  BY <1>6, SaveEffect DEF Finish, FailTracked
<1>7. CASE Crash
  BY <1>7 DEF Crash
<1>8. ASSUME NEW i \in TaskIds, CreateOffer(i) PROVE StoresTyped'
  BY <1>8 DEF CreateOffer
<1>9. ASSUME NEW i \in TaskIds, AnswerOffer(i) PROVE StoresTyped'
  <2>1. PICK s \in {"resumed", "abandoned"} : offer' = [offer EXCEPT ![i] = [offer[i] EXCEPT !.status = s]]
    BY <1>9 DEF AnswerOffer
  <2>2. offer[i] \in [status : {"pending", "resumed", "abandoned"}, resumable : BOOLEAN]
    BY <1>9 DEF AnswerOffer
  <2>3. [offer[i] EXCEPT !.status = s] \in
            [status : {"pending", "resumed", "abandoned"}, resumable : BOOLEAN]
    BY <2>2
  <2> QED
    BY <1>9, <2>1, <2>3 DEF AnswerOffer
<1>10. CASE UNCHANGED vars
  BY <1>10 DEF vars
<1> QED
  BY <1>1, <1>b, <1>2, <1>3, <1>4, <1>5, <1>6, <1>7, <1>8, <1>9, <1>10 DEF Next, Step

\* Every variable has its type, for all values of the constants.
THEOREM Typing == Spec => []TypeOK
<1>1. Init => StoresTyped
  BY DEF Init, StoresTyped
<1>2. StoresTyped /\ [Next]_vars => StoresTyped'
  BY StoresStep, ExecutionAssumption
<1>3. RunInv /\ StoresTyped => TypeOK
  BY DEF RunInv, StoresTyped, TypeOK, RunType, Places
<1> QED
  BY <1>1, <1>2, <1>3, RunsInvariant, PTL DEF Spec

--------------------------------------------------------------------------------
OwnIds == \A q, r \in Runs : IdOf[q] = IdOf[r] => q = r

\* What the tracker and the file have of a request: the tracker hides the file while
\* it is under way, the agent has deleted the file of one that succeeded, and what
\* the answer writes afterwards is there unless that write failed.
Tracked(r) ==
    LET i == IdOf[r]
    IN  /\ InFlight(r) => live[i] = "pending"
        /\ At(r, "returned") /\ run[r].answer = "completed" => file[i] = None
        /\ At(r, "done") /\ run[r].answer = "completed" =>
               live[i] = None /\ (file[i] = "completed" \/ (file[i] = None /\ i \in lost))
        /\ At(r, "done") /\ run[r].answer = "failed" =>
               live[i] \in {None, "failed"} /\ (file[i] = "failed" \/ i \in lost)

\* What a step of a request leaves alone: the other requests' files.
OthersKept(r) ==
    \A i \in TaskIds : i # IdOf[r] => file'[i] = file[i] /\ (i \in lost' <=> i \in lost)

\* A step of one request that leaves the tracker alone and stays in flight.
LEMMA TrackedInside ==
    ASSUME ExecutionAssumption, OwnIds, NEW r \in Runs, InFlight(r), live' = live,
           \A q \in Runs : q # r => run'[q] = run[q],
           run'[r].pc \in Calling \cup {"discuss", "ceo", "returned"},
           run'[r].pc = "returned" /\ run'[r].answer = "completed" => file'[IdOf[r]] = None,
           OthersKept(r),
           \A q \in Runs : Tracked(q)
    PROVE  \A q \in Runs : Tracked(q)'
BY DEF OwnIds, Tracked, InFlight, At, Calling, ExecutionAssumption, OthersKept

\* Every step keeps it, if the requests have ids of their own.
LEMMA TrackedStep ==
    ASSUME ExecutionAssumption, OwnIds, RunInv, StoresTyped, \A r \in Runs : Tracked(r), [Next]_vars
    PROVE  \A r \in Runs : Tracked(r)'
<1> USE DEF ExecutionAssumption
<1>t. run \in [Runs -> RunType]
  BY DEF RunInv
<1>g. ASSUME NEW r \in Runs, NEW out, GoOn(r, out), InFlight(r), live' = live,
             out.pc \in Calling \cup {"discuss", "ceo", "returned"},
             out.pc = "returned" /\ out.answer = "completed" => file'[IdOf[r]] = None,
             OthersKept(r)
      PROVE  \A q \in Runs : Tracked(q)'
  <2>1. run'[r].pc = out.pc /\ \A q \in Runs : q # r => run'[q] = run[q]
    BY <1>g, <1>t, GoOnMoves
  <2>2. run'[r].answer = out.answer
    <3>1. run'[r] = [pc |-> out.pc, attempt |-> run[r].attempt,
                     calls |-> run[r].calls + out.calls, answer |-> out.answer]
      BY <1>g, <1>t, GoOnRun
    <3> QED
      BY <3>1
  <2> QED
    BY <1>g, <2>1, <2>2, TrackedInside
<1>s. ASSUME NEW r \in Runs, NEW s \in Standing \cup {None}, Save(IdOf[r], s) \/ (Delete(IdOf[r]) /\ s = None)
      PROVE  OthersKept(r)
  BY <1>s, SaveEffect DEF OthersKept
<1>d. ASSUME NEW r \in Runs, Delete(IdOf[r]) PROVE OthersKept(r) /\ file'[IdOf[r]] = None
  BY <1>d DEF OthersKept, Delete, StoresTyped
<1>u. ASSUME NEW r \in Runs, UNCHANGED <<file, lost>> PROVE OthersKept(r)
  BY <1>u DEF OthersKept
<1>1. ASSUME NEW r \in Runs, Submit(r) PROVE \A q \in Runs : Tracked(q)'
  <2>1. /\ run'[r].pc = "started" /\ \A q \in Runs : q # r => run'[q] = run[q]
    <3>1. GoOn(r, To("started", 0, <<>>))
      BY <1>1 DEF Submit
    <3>2. /\ run'[r].pc = To("started", 0, <<>>).pc
          /\ \A q \in Runs : q # r => run'[q] = run[q]
      BY <3>1, <1>t, GoOnMoves
    <3> QED
      BY <3>2 DEF To
  <2>2. /\ live'[IdOf[r]] = "pending"
        /\ \A i \in TaskIds : i # IdOf[r] => live'[i] = live[i]
    BY <1>1 DEF Submit, StoresTyped
  <2>3. OthersKept(r)
    BY <1>1, <1>s DEF Submit, Standing
  <2> QED
    BY <2>1, <2>2, <2>3 DEF OwnIds, Tracked, InFlight, At, OthersKept
<1>2. ASSUME NEW r \in Runs, RefuseInput(r) \/ BeginRaises(r) PROVE \A q \in Runs : Tracked(q)'
  BY <1>2, <1>u, <1>g DEF RefuseInput, BeginRaises, Answer, At, InFlight
<1>3. ASSUME NEW r \in Runs, Begin(r) PROVE \A q \in Runs : Tracked(q)'
  BY <1>3, <1>s, <1>g DEF Begin, To, At, InFlight, Calling, Standing
<1>4. ASSUME NEW r \in Runs, Retry(r) PROVE \A q \in Runs : Tracked(q)'
  <2>1. run'[r].pc = "working" /\ \A q \in Runs : q # r => run'[q] = run[q]
    BY <1>4, <1>t DEF Retry, At, RunType
  <2> QED
    BY <1>4, <1>u, <2>1, TrackedInside DEF Retry, At, InFlight, Calling
<1>5. ASSUME NEW r \in Runs, Succeed(r) PROVE \A q \in Runs : Tracked(q)'
  BY <1>5, <1>d, <1>g DEF Succeed, Answer, At, InFlight, Calling
<1>a. ASSUME NEW r \in Runs, At(r, "working"), live' = live, NEW before, NEW step \in Standing \cup {None}, NEW saved,
             GiveUp(r, before, step) \/ GiveUpRaises(r, before, step, saved)
      PROVE  \A q \in Runs : Tracked(q)'
  <2>1. PICK out : /\ GoOn(r, out) /\ out.pc \in {"returned", "discuss", "ceo", "self"}
                   /\ out.answer \in {None, "failed"}
    <3>1. CASE GiveUp(r, before, step)
      <4>1. PICK out \in Sequel(r) :
                GoOn(r, [out EXCEPT !.events = before \o <<"failed">> \o @])
        BY <3>1 DEF GiveUp
      <4>2. LET new == [out EXCEPT !.events = before \o <<"failed">> \o @]
            IN  new.pc = out.pc /\ new.answer = out.answer
        BY DEF Sequel, Resolutions, ToCeo, ToPeers, To, Answer
      <4> QED
        BY <4>1, <4>2, SequelCost
    <3>2. CASE GiveUpRaises(r, before, step, saved)
      BY <3>2 DEF GiveUpRaises, Answer
    <3> QED
      BY <1>a, <3>1, <3>2
  <2>2. OthersKept(r)
    <3>1. CASE GiveUp(r, before, step)
      BY <3>1, <1>s DEF GiveUp, FailStep, Standing
    <3>2. CASE GiveUpRaises(r, before, step, saved)
      BY <3>2 DEF GiveUpRaises, StoresTyped, OthersKept
    <3> QED
      BY <1>a, <3>1, <3>2
  <2> QED
    BY <1>a, <2>1, <2>2, <1>g DEF At, InFlight, Calling
<1>6. ASSUME NEW r \in Runs, SucceedRaises(r) PROVE \A q \in Runs : Tracked(q)'
  BY <1>6, <1>a DEF SucceedRaises, StoresTyped, CompleteStep, Standing
<1>7. ASSUME NEW r \in Runs, Fail(r) PROVE \A q \in Runs : Tracked(q)'
  BY <1>7, <1>a DEF Fail, StoresTyped
<1>8. ASSUME NEW r \in Runs, Resolve(r) PROVE \A q \in Runs : Tracked(q)'
  BY <1>8, <1>d, <1>g DEF Resolve, Answer, InFlight, Calling
<1>9. ASSUME NEW r \in Runs, ResolveFails(r) PROVE \A q \in Runs : Tracked(q)'
  <2>1. PICK out : /\ GoOn(r, out) /\ out.pc \in {"ceo", "returned", "discuss"}
                   /\ out.answer \in {None, "failed"}
    BY <1>9, CeoCost DEF ResolveFails, ToPeers, To
  <2> QED
    BY <1>9, <2>1, <1>u, <1>g DEF ResolveFails, InFlight, Calling
<1>10. ASSUME NEW r \in Runs, Discuss(r) PROVE \A q \in Runs : Tracked(q)'
  <2>1. PICK out : /\ GoOn(r, out) /\ out.pc \in {"ceo", "returned", "peer"}
                   /\ out.answer \in {None, "failed"}
    BY <1>10, CeoCost DEF Discuss, To
  <2> QED
    BY <1>10, <2>1, <1>u, <1>g DEF Discuss, At, InFlight, Calling
<1>11. ASSUME NEW r \in Runs, CeoDecides(r) PROVE \A q \in Runs : Tracked(q)'
  BY <1>11, <1>u, <1>g DEF CeoDecides, Answer, At, InFlight
<1>12. ASSUME NEW r \in Runs, Finish(r) \/ FailTracked(r) PROVE \A q \in Runs : Tracked(q)'
  <2>1. /\ run'[r].pc = "done" /\ run'[r].answer = run[r].answer /\ run[r].pc = "returned"
        /\ \A q \in Runs : q # r => run'[q] = run[q]
    BY <1>12, <1>t DEF Finish, FailTracked, Done, At, RunType
  <2>2. live[IdOf[r]] = "pending"
    BY <2>1 DEF Tracked, InFlight
  <2>3. OthersKept(r) /\ \A i \in TaskIds : i # IdOf[r] => live'[i] = live[i]
    <3>1. OthersKept(r)
      BY <1>12, <1>s, <1>u, <2>2 DEF Finish, FailTracked, CompleteStep, FailStep, Standing
    <3> QED
      BY <3>1, <1>12 DEF Finish, FailTracked, StoresTyped
  <2>4. Tracked(r)'
    <3>1. CASE Finish(r)
      <4>1. run[r].answer = "completed" /\ live'[IdOf[r]] = None /\ Save(IdOf[r], "completed")
        BY <3>1, <2>2 DEF Finish, CompleteStep, StoresTyped
      <4>2. file[IdOf[r]] = None
        BY <2>1, <4>1 DEF Tracked, At
      <4>3. /\ file'[IdOf[r]] \in {"completed", None}
            /\ file'[IdOf[r]] = "completed" \/ IdOf[r] \in lost'
        BY <4>1, <4>2, SaveEffect DEF Standing
      <4> QED
        BY <2>1, <4>1, <4>3 DEF Tracked, InFlight, At, Calling
    <3>2. CASE FailTracked(r)
      <4>1. run[r].answer = "failed" /\ live'[IdOf[r]] \in {None, "failed"} /\ Save(IdOf[r], "failed")
        BY <3>2, <2>2 DEF FailTracked, FailStep, StoresTyped
      <4>2. file'[IdOf[r]] = "failed" \/ IdOf[r] \in lost'
        BY <4>1, SaveEffect DEF Standing
      <4> QED
        BY <2>1, <4>1, <4>2 DEF Tracked, InFlight, At, Calling
    <3> QED
      BY <1>12, <3>1, <3>2
  <2> QED
    BY <2>1, <2>3, <2>4 DEF OwnIds, Tracked, InFlight, At, OthersKept
<1>13. CASE Crash
  <2>1. \A r \in Runs : run'[r] = IF InFlight(r) THEN [run[r] EXCEPT !.pc = "gone"] ELSE run[r]
    BY <1>13 DEF Crash
  <2>2. file' = file /\ lost' = lost /\ \A i \in TaskIds : live'[i] = None
    BY <1>13 DEF Crash
  <2>3. \A r \in Runs : run[r] \in RunType
    BY <1>t
  <2>l. ASSUME NEW q \in RunType
        PROVE  [q EXCEPT !.pc = "gone"].pc = "gone" /\ [q EXCEPT !.pc = "gone"].answer = q.answer
    BY ONLY <2>l DEF RunType
  <2>4. ASSUME NEW r \in Runs PROVE Tracked(r)'
    <3>1. Tracked(r) /\ run[r] \in RunType
      BY <2>3
    <3>2. CASE InFlight(r)
      <4>1. run'[r].pc = "gone" /\ run'[r].answer = run[r].answer
        BY <2>1, <2>l, <3>1, <3>2
      <4> QED
        BY <2>2, <3>1, <3>2, <4>1 DEF Tracked, InFlight, At, Calling
    <3>3. CASE ~InFlight(r)
      <4>1. run'[r] = run[r]
        BY <2>1, <3>3
      <4> QED
        BY <2>2, <3>1, <3>3, <4>1 DEF Tracked, InFlight, At, Calling
    <3> QED
      BY <3>2, <3>3
  <2> QED
    BY <2>4
<1>14. CASE UNCHANGED vars \/ \E i \in TaskIds : CreateOffer(i) \/ AnswerOffer(i)
  BY <1>14 DEF vars, CreateOffer, AnswerOffer, Tracked, InFlight, At
<1> QED
  BY <1>1, <1>2, <1>3, <1>4, <1>5, <1>6, <1>7, <1>8, <1>9, <1>10, <1>11, <1>12, <1>13, <1>14
  DEF Next, Step

\* With a task id for each request the progress endpoint says "running" while the
\* request is under way and its answer afterwards, although the agent writes and
\* deletes the tracker's file (checkpoint_tracker.py:119-139); also after a crash, if
\* the last write of the checkpoint did not fail, and if it did, a completed task is
\* never shown as running or failed again (failure_ux.py:298-311).
THEOREM ProgressIsRight ==
    ASSUME OwnIds
    PROVE  Spec => []ProgressTellsAnswer
<1> DEFINE AllTracked == \A r \in Runs : Tracked(r)
<1>1. Init => AllTracked
  <2> SUFFICES ASSUME Init, NEW r \in Runs PROVE Tracked(r)
    OBVIOUS
  <2>1. run[r].pc = "new"
    BY DEF Init
  <2> QED
    BY <2>1 DEF Tracked, InFlight, At, Calling
<1>2. RunInv /\ StoresTyped /\ AllTracked /\ [Next]_vars => AllTracked'
  BY TrackedStep, ExecutionAssumption
<1>3. RunInv /\ AllTracked => ProgressTellsAnswer
  BY ExecutionAssumption
  DEF RunInv, Answered, Tracked, ProgressTellsAnswer, Progress, At, ExecutionAssumption
<1>4. Init => StoresTyped
  BY DEF Init, StoresTyped
<1>5. StoresTyped /\ [Next]_vars => StoresTyped'
  BY StoresStep, ExecutionAssumption
<1> HIDE DEF AllTracked
<1> QED
  BY <1>1, <1>2, <1>3, <1>4, <1>5, RunsInvariant, PTL DEF Spec

--------------------------------------------------------------------------------
\* A checkpoint that says "pending" has somebody to finish it: the tracker has it
\* and a request under way will take it from there, or a run still writes its file, or
\* the write that would have finished it failed.
Followed(i) ==
    /\ live[i] = "pending" => \E q \in Runs : IdOf[q] = i /\ InFlight(q)
    /\ file[i] = "pending" =>
           \/ live[i] = "pending" \/ i \in lost
           \/ \E q \in Runs : IdOf[q] = i /\ run[q].pc \in {"working", "gone"}

\* A request that moves on while under way follows its checkpoint as before.
LEMMA FollowedInside ==
    ASSUME ExecutionAssumption, NEW r \in Runs, InFlight(r), live' = live,
           \A q \in Runs : q # r => run'[q] = run[q],
           run'[r].pc \in Calling \cup {"discuss", "ceo", "returned"},
           OthersKept(r),
           \/ file'[IdOf[r]] # "pending" \/ IdOf[r] \in lost'
           \/ run'[r].pc = "working"
           \/ file' = file /\ lost' = lost /\ run[r].pc # "working",
           \A i \in TaskIds : Followed(i)
    PROVE  \A i \in TaskIds : Followed(i)'
BY DEF Followed, InFlight, Calling, ExecutionAssumption, OthersKept

\* Without errors of the disk every step keeps it, whoever shares an id.
LEMMA FollowedStep ==
    ASSUME ExecutionAssumption, ~DiskRaises, RunInv, StoresTyped,
           \A i \in TaskIds : Followed(i), [Next]_vars
    PROVE  \A i \in TaskIds : Followed(i)'
<1> USE DEF ExecutionAssumption
<1>t. run \in [Runs -> RunType]
  BY DEF RunInv
<1>g. ASSUME NEW r \in Runs, NEW out, GoOn(r, out), InFlight(r), live' = live,
             out.pc \in Calling \cup {"discuss", "ceo", "returned"},
             OthersKept(r),
             \/ file'[IdOf[r]] # "pending" \/ IdOf[r] \in lost'
             \/ out.pc = "working"
             \/ file' = file /\ lost' = lost /\ run[r].pc # "working"
      PROVE  \A i \in TaskIds : Followed(i)'
  <2>1. run'[r].pc = out.pc /\ \A q \in Runs : q # r => run'[q] = run[q]
    BY <1>g, <1>t, GoOnMoves
  <2> QED
    BY <1>g, <2>1, FollowedInside
<1>s. ASSUME NEW r \in Runs, NEW s \in Standing \cup {None}, Save(IdOf[r], s) \/ (Delete(IdOf[r]) /\ s = None)
      PROVE  OthersKept(r) /\ (file'[IdOf[r]] = s \/ IdOf[r] \in lost')
  BY <1>s, SaveEffect DEF OthersKept
<1>d. ASSUME NEW r \in Runs, Delete(IdOf[r]) PROVE OthersKept(r) /\ file'[IdOf[r]] # "pending"
  BY <1>d DEF OthersKept, Delete, StoresTyped
<1>u. ASSUME NEW r \in Runs, UNCHANGED <<file, lost>> PROVE OthersKept(r)
  BY <1>u DEF OthersKept
<1>1. ASSUME NEW r \in Runs, Submit(r) PROVE \A i \in TaskIds : Followed(i)'
  <2>1. run'[r].pc = "started" /\ \A q \in Runs : q # r => run'[q] = run[q]
    <3>1. GoOn(r, To("started", 0, <<>>))
      BY <1>1 DEF Submit
    <3>2. /\ run'[r].pc = To("started", 0, <<>>).pc
          /\ \A q \in Runs : q # r => run'[q] = run[q]
      BY <3>1, <1>t, GoOnMoves
    <3> QED
      BY <3>2 DEF To
  <2>2. /\ run[r].pc = "new" /\ live'[IdOf[r]] = "pending"
        /\ \A i \in TaskIds : i # IdOf[r] => live'[i] = live[i]
    BY <1>1 DEF Submit, At, StoresTyped
  <2>3. OthersKept(r)
    BY <1>1, <1>s DEF Submit, Standing
  <2> QED
    BY <2>1, <2>2, <2>3 DEF Followed, InFlight, Calling, OthersKept
<1>2. ASSUME NEW r \in Runs, RefuseInput(r) PROVE \A i \in TaskIds : Followed(i)'
  BY <1>2, <1>u, <1>g DEF RefuseInput, Answer, At, InFlight
<1>3. ASSUME NEW r \in Runs, Begin(r) PROVE \A i \in TaskIds : Followed(i)'
  BY <1>3, <1>s, <1>g DEF Begin, To, At, InFlight, Calling, Standing
<1>4. ASSUME NEW r \in Runs, Retry(r) PROVE \A i \in TaskIds : Followed(i)'
  <2>1. run'[r].pc = "working" /\ \A q \in Runs : q # r => run'[q] = run[q]
    BY <1>4, <1>t DEF Retry, At, RunType
  <2> QED
    BY <1>4, <1>u, <2>1, FollowedInside DEF Retry, At, InFlight, Calling
<1>5. ASSUME NEW r \in Runs, Succeed(r) PROVE \A i \in TaskIds : Followed(i)'
  <2>1. OthersKept(r) /\ file'[IdOf[r]] # "pending"
    BY <1>5, <1>d DEF Succeed
  <2> QED
    BY <1>5, <2>1, <1>g DEF Succeed, Answer, At, InFlight, Calling
<1>6. ASSUME NEW r \in Runs, Fail(r) PROVE \A i \in TaskIds : Followed(i)'
  <2>1. GiveUp(r, <<>>, own[r])
    BY <1>6 DEF Fail, GiveUpRaises
  <2>2. PICK out : GoOn(r, out) /\ out.pc \in {"returned", "discuss", "ceo", "self"}
    <3>1. PICK out \in Sequel(r) : GoOn(r, [out EXCEPT !.events = <<>> \o <<"failed">> \o @])
      BY <2>1 DEF GiveUp
    <3>2. [out EXCEPT !.events = <<>> \o <<"failed">> \o @].pc = out.pc
      BY DEF Sequel, Resolutions, ToCeo, ToPeers, To, Answer
    <3> QED
      BY <3>1, <3>2, SequelCost
  <2>3. OthersKept(r) /\ (file'[IdOf[r]] # "pending" \/ IdOf[r] \in lost')
    <3>1. Save(IdOf[r], FailStep(own[r])) /\ FailStep(own[r]) \in (Standing \cup {None}) \ {"pending"}
      BY <2>1 DEF GiveUp, FailStep, StoresTyped, Standing
    <3> QED
      BY <3>1, <1>s
  <2>4. InFlight(r) /\ live' = live
    BY <1>6 DEF Fail, At, InFlight, Calling
  <2> QED
    BY <2>2, <2>3, <2>4, <1>g DEF Calling
<1>7. ASSUME NEW r \in Runs, Resolve(r) PROVE \A i \in TaskIds : Followed(i)'
  <2>1. OthersKept(r) /\ file'[IdOf[r]] # "pending"
    BY <1>7, <1>d DEF Resolve
  <2> QED
    BY <1>7, <2>1, <1>g DEF Resolve, Answer, InFlight, Calling
<1>8. ASSUME NEW r \in Runs, ResolveFails(r) PROVE \A i \in TaskIds : Followed(i)'
  <2>1. PICK out : GoOn(r, out) /\ out.pc \in {"ceo", "returned", "discuss"}
    BY <1>8, CeoCost DEF ResolveFails, ToPeers, To
  <2> QED
    BY <1>8, <2>1, <1>u, <1>g DEF ResolveFails, InFlight, Calling
<1>9. ASSUME NEW r \in Runs, Discuss(r) PROVE \A i \in TaskIds : Followed(i)'
  <2>1. PICK out : GoOn(r, out) /\ out.pc \in {"ceo", "returned", "peer"}
    BY <1>9, CeoCost DEF Discuss, To
  <2> QED
    BY <1>9, <2>1, <1>u, <1>g DEF Discuss, At, InFlight, Calling
<1>10. ASSUME NEW r \in Runs, CeoDecides(r) PROVE \A i \in TaskIds : Followed(i)'
  BY <1>10, <1>u, <1>g DEF CeoDecides, Answer, At, InFlight
<1>11. ASSUME NEW r \in Runs, Finish(r) \/ FailTracked(r) PROVE \A i \in TaskIds : Followed(i)'
  <2>1. /\ run[r].pc = "returned" /\ \A q \in Runs : q # r => run'[q] = run[q]
    BY <1>11, <1>t DEF Finish, FailTracked, Done, At
  <2>2. /\ live'[IdOf[r]] # "pending"
        /\ \A i \in TaskIds : i # IdOf[r] => live'[i] = live[i]
    BY <1>11 DEF Finish, FailTracked, FailStep, StoresTyped
  <2>3. \/ UNCHANGED <<file, lost>> /\ live[IdOf[r]] = None
        \/ \E s \in (Standing \cup {None}) \ {"pending"} : Save(IdOf[r], s)
    <3>1. CASE Finish(r)
      BY <3>1 DEF Finish, CompleteStep, StoresTyped, Standing
    <3>2. CASE FailTracked(r)
      BY <3>2 DEF FailTracked, FailStep, StoresTyped, Standing
    <3> QED
      BY <1>11, <3>1, <3>2
  <2>4. CASE UNCHANGED <<file, lost>> /\ live[IdOf[r]] = None
    BY <2>1, <2>2, <2>4 DEF Followed, InFlight
  <2>5. ASSUME NEW s \in (Standing \cup {None}) \ {"pending"}, Save(IdOf[r], s)
        PROVE  \A i \in TaskIds : Followed(i)'
    <3>1. OthersKept(r) /\ (file'[IdOf[r]] # "pending" \/ IdOf[r] \in lost')
      BY <2>5, <1>s
    <3> QED
      BY <2>1, <2>2, <3>1 DEF Followed, InFlight, OthersKept
  <2> QED
    BY <2>3, <2>4, <2>5
<1>12. CASE Crash
  <2>1. \A q \in Runs : InFlight(q) \/ run[q].pc = "gone" => run'[q].pc = "gone"
    BY <1>12, <1>t DEF Crash, RunType, InFlight, Calling
  <2>2. file' = file /\ lost' = lost /\ \A i \in TaskIds : live'[i] = None
    BY <1>12 DEF Crash
  <2> QED
    BY <2>1, <2>2 DEF Followed, InFlight, Calling
<1>13. CASE UNCHANGED vars \/ \E i \in TaskIds : CreateOffer(i) \/ AnswerOffer(i)
  BY <1>13 DEF vars, CreateOffer, AnswerOffer, Followed, InFlight
<1>14. ASSUME NEW r \in Runs, BeginRaises(r) \/ SucceedRaises(r) PROVE FALSE
  BY <1>14 DEF BeginRaises, SucceedRaises
<1> QED
  BY <1>1, <1>2, <1>3, <1>4, <1>5, <1>6, <1>7, <1>8, <1>9, <1>10, <1>11, <1>12, <1>13, <1>14
  DEF Next, Step

\* If nothing raises, no task whose last checkpoint was written is left saying "running"
\* once its requests are answered, however many share its id (tasks.py: tracker.finish and fail_step do
\* nothing for an id that another request has finished).
THEOREM NobodyStuck ==
    ASSUME ~DiskRaises
    PROVE  Spec => []NeverStuck
<1> DEFINE AllFollowed == \A i \in TaskIds : Followed(i)
<1>1. Init => AllFollowed
  BY ExecutionAssumption DEF Init, Followed, ExecutionAssumption
<1>2. RunInv /\ StoresTyped /\ AllFollowed /\ [Next]_vars => AllFollowed'
  BY FollowedStep, ExecutionAssumption
<1>3. AllFollowed => NeverStuck
  BY ExecutionAssumption
  DEF Followed, NeverStuck, Progress, InFlight, Calling, ExecutionAssumption
<1>4. Init => StoresTyped
  BY DEF Init, StoresTyped
<1>5. StoresTyped /\ [Next]_vars => StoresTyped'
  BY StoresStep, ExecutionAssumption
<1> HIDE DEF AllFollowed
<1> QED
  BY <1>1, <1>2, <1>3, <1>4, <1>5, RunsInvariant, PTL DEF Spec

--------------------------------------------------------------------------------
\* What a request publishes
EventType == {"started", "completed", "failed", "human", "escalated"}

\* What a request has told, by where it is, if nothing follows a failure but its answer
Verdict(r) ==
    /\ run[r].pc \in {"new", "started", "working", "returned", "done", "gone"}
    /\ run[r].pc \in {"new", "started"} => told[r] = <<>>
    /\ run[r].pc = "working" => told[r] = <<"started">>
    /\ run[r].pc \in {"returned", "done"} =>
           \/ told[r] = <<>>
           \/ told[r] = <<"started", run[r].answer>> /\ (Alone(r) => node[IdOf[r]] = run[r].answer)

Verdicts == told \in [Runs -> Seq(EventType)] /\ \A r \in Runs : Verdict(r)

\* A request that goes on leaves what the others told, and their nodes, alone.
LEMMA VerdictOfOne ==
    ASSUME ExecutionAssumption, Verdicts, NEW r \in Runs,
           \A q \in Runs : q # r => run'[q] = run[q] /\ told'[q] = told[q],
           \A i \in TaskIds : i # IdOf[r] => node'[i] = node[i],
           told' \in [Runs -> Seq(EventType)], Verdict(r)'
    PROVE  Verdicts'
<1>1. ASSUME NEW q \in Runs, q # r PROVE Verdict(q)'
  <2>1. Alone(q) => IdOf[q] # IdOf[r]
    BY <1>1 DEF Alone
  <2> QED
    BY <1>1, <2>1 DEF Verdicts, Verdict, Alone, ExecutionAssumption
<1> QED
  BY <1>1 DEF Verdicts

\* Going on adds the outcome's events to what was told.
LEMMA GoOnTold ==
    ASSUME RunInv, Verdicts, NEW r \in Runs, NEW out, out.events \in Seq(EventType), GoOn(r, out)
    PROVE  /\ told' \in [Runs -> Seq(EventType)] /\ told'[r] = told[r] \o out.events
           /\ run'[r].pc = out.pc /\ run'[r].answer = out.answer
           /\ \A q \in Runs : q # r => run'[q] = run[q] /\ told'[q] = told[q]
<1>1. told' = [told EXCEPT ![r] = told[r] \o out.events]
  BY DEF GoOn
<1>2. told[r] \o out.events \in Seq(EventType)
  BY DEF Verdicts
<1>3. /\ run'[r] = [pc |-> out.pc, attempt |-> run[r].attempt,
                    calls |-> run[r].calls + out.calls, answer |-> out.answer]
      /\ \A q \in Runs : q # r => run'[q] = run[q]
  BY GoOnRun DEF RunInv
<1> QED
  BY <1>1, <1>2, <1>3 DEF Verdicts

\* The events of a run and its end, put together
LEMMA EventsAdded ==
    ASSUME NEW a \in EventType
    PROVE  /\ <<>> \in Seq(EventType) /\ <<a>> \in Seq(EventType)
           /\ <<>> \o <<>> = <<>> /\ <<>> \o <<a>> = <<a>> /\ <<a>> \o <<>> = <<a>>
           /\ \A b \in EventType : <<b>> \o <<a>> = <<b, a>>
<1>1. <<>> \in Seq(EventType) /\ <<a>> \in Seq(EventType)
  OBVIOUS
<1>2. <<>> \o <<>> = <<>> /\ <<>> \o <<a>> = <<a>> /\ <<a>> \o <<>> = <<a>>
  BY <1>1, ConcatEmptySeq
<1>3. ASSUME NEW b \in EventType PROVE <<b>> \o <<a>> = <<b, a>>
  <2>1. <<b>> \in Seq(EventType) /\ Len(<<b>>) = 1 /\ <<b>>[1] = b
    OBVIOUS
  <2>2. <<b, a>> \in Seq(EventType) /\ Len(<<b, a>>) = 2 /\ <<b, a>>[1] = b /\ <<b, a>>[2] = a
    OBVIOUS
  <2>3. /\ <<b>> \o <<a>> \in Seq(EventType) /\ Len(<<b>> \o <<a>>) = 2
        /\ (<<b>> \o <<a>>)[1] = b /\ (<<b>> \o <<a>>)[2] = a
    BY <2>1, <1>1, AppendIsConcat, AppendProperties
  <2>4. ASSUME NEW s \in Seq(EventType), NEW t \in Seq(EventType), Len(s) = 2, Len(t) = 2,
               s[1] = t[1], s[2] = t[2]
        PROVE  s = t
    <3>1. \A i \in 1 .. Len(s) : s[i] = t[i]
      BY <2>4
    <3> QED
      BY <2>4, <3>1, SeqEqual
  <2> QED
    BY <2>2, <2>3, <2>4
<1> QED
  BY <1>1, <1>2, <1>3

\* Every step keeps it without a resolver and without errors of the disk.
LEMMA VerdictStep ==
    ASSUME ExecutionAssumption, ~DiskRaises, ~Escalating, RunInv, StoresTyped, Verdicts, [Next]_vars
    PROVE  Verdicts'
<1> USE DEF At
<1>v. \A r \in Runs : Verdict(r) /\ IdOf[r] \in TaskIds
  BY DEF Verdicts, ExecutionAssumption
<1>1. ASSUME NEW r \in Runs, Submit(r) \/ RefuseInput(r) \/ Begin(r) \/ Succeed(r)
      PROVE  Verdicts'
  <2>1. PICK out : GoOn(r, out)
                   /\ \/ /\ Submit(r) /\ out.pc = "started" /\ out.events = <<>>
                      \/ /\ RefuseInput(r) /\ out.pc = "returned" /\ out.events = <<>>
                      \/ /\ Begin(r) /\ out.pc = "working" /\ out.events = <<"started">>
                      \/ /\ Succeed(r) /\ out.pc = "returned" /\ out.answer = "completed"
                         /\ out.events = <<"completed">>
    BY <1>1 DEF Submit, RefuseInput, Begin, Succeed, To, Answer
  <2>2. /\ told' \in [Runs -> Seq(EventType)] /\ told'[r] = told[r] \o out.events
        /\ run'[r].pc = out.pc /\ run'[r].answer = out.answer
        /\ \A q \in Runs : q # r => run'[q] = run[q] /\ told'[q] = told[q]
    <3>1. out.events \in Seq(EventType)
      BY <2>1, EventsAdded DEF EventType
    <3> QED
      BY <2>1, <3>1, GoOnTold
  <2>3. /\ \A i \in TaskIds : i # IdOf[r] => node'[i] = node[i]
        /\ Succeed(r) => node'[IdOf[r]] = "completed"
    BY <1>1, <1>v DEF Submit, RefuseInput, Begin, Succeed, StoresTyped
  <2>4. Verdict(r)'
    <3>1. CASE Submit(r)
      BY <1>v, <2>1, <2>2, <3>1, EventsAdded DEF Verdict, Submit, RefuseInput, Begin, Succeed, EventType
    <3>2. CASE RefuseInput(r)
      BY <1>v, <2>1, <2>2, <3>2, EventsAdded DEF Verdict, Submit, RefuseInput, Begin, Succeed, EventType
    <3>3. CASE Begin(r)
      BY <1>v, <2>1, <2>2, <3>3, EventsAdded DEF Verdict, Submit, RefuseInput, Begin, Succeed, EventType
    <3>4. CASE Succeed(r)
      <4>1. /\ run[r].pc = "working" /\ out.pc = "returned" /\ out.answer = "completed"
            /\ out.events = <<"completed">>
        BY <2>1, <3>4 DEF Submit, RefuseInput, Begin, Succeed
      <4>2. told[r] = <<"started">>
        BY <1>v, <4>1 DEF Verdict
      <4>3. told'[r] = <<"started", "completed">>
        BY <2>2, <4>1, <4>2, EventsAdded DEF EventType
      <4> QED
        BY <2>2, <2>3, <3>4, <4>1, <4>3 DEF Verdict
    <3> QED
      BY <1>1, <3>1, <3>2, <3>3, <3>4
  <2> QED
    BY <2>2, <2>3, <2>4, VerdictOfOne
<1>2. ASSUME NEW r \in Runs, Fail(r) PROVE Verdicts'
  <2>1. GiveUp(r, <<>>, own[r]) /\ run[r].pc = "working"
    BY <1>2 DEF Fail, GiveUpRaises
  <2>2. Sequel(r) = {Answer("failed", <<>>)}
    BY DEF Sequel
  <2> DEFINE out == [Answer("failed", <<>>) EXCEPT
                       !.events = <<>> \o <<"failed">> \o Answer("failed", <<>>).events]
  <2>3. GoOn(r, out)
    BY <2>1, <2>2 DEF GiveUp
  <2>4. out.pc = "returned" /\ out.answer = "failed" /\ out.events = <<"failed">>
    BY EventsAdded DEF Answer, EventType
  <2> HIDE DEF out
  <2>5. /\ told' \in [Runs -> Seq(EventType)] /\ told'[r] = told[r] \o out.events
        /\ run'[r].pc = out.pc /\ run'[r].answer = out.answer
        /\ \A q \in Runs : q # r => run'[q] = run[q] /\ told'[q] = told[q]
    <3>1. out.events \in Seq(EventType)
      BY <2>4, EventsAdded DEF EventType
    <3> QED
      BY <2>3, <3>1, GoOnTold
  <2>6. /\ \A i \in TaskIds : i # IdOf[r] => node'[i] = node[i]
        /\ node'[IdOf[r]] = "failed"
    BY <2>1, <1>v DEF GiveUp, StoresTyped
  <2>7. Verdict(r)'
    BY <1>v, <2>1, <2>4, <2>5, <2>6, EventsAdded DEF Verdict, EventType
  <2> QED
    BY <2>5, <2>6, <2>7, VerdictOfOne
<1>3. ASSUME NEW r \in Runs, Retry(r) \/ Finish(r) \/ FailTracked(r) PROVE Verdicts'
  <2>1. /\ \/ run[r].pc = "working" /\ run'[r].pc = "working"
           \/ run[r].pc = "returned" /\ run'[r].pc = "done"
        /\ run'[r].answer = run[r].answer /\ told' = told /\ node' = node
        /\ \A q \in Runs : q # r => run'[q] = run[q]
    BY <1>3 DEF Retry, Finish, FailTracked, Done, RunInv, RunType
  <2>2. Verdict(r)'
    BY <1>v, <2>1 DEF Verdict, Alone
  <2> QED
    BY <2>1, <2>2, VerdictOfOne DEF Verdicts
<1>4. CASE Crash
  <2>1. \A r \in Runs : \/ run'[r].pc = "gone"
                         \/ run'[r] = run[r]
    BY <1>4 DEF Crash, RunInv, RunType
  <2> QED
    BY <1>4, <2>1 DEF Crash, Verdicts, Verdict, Alone
<1>5. CASE UNCHANGED vars \/ \E i \in TaskIds : CreateOffer(i) \/ AnswerOffer(i)
  BY <1>5 DEF vars, CreateOffer, AnswerOffer, Verdicts, Verdict, Alone
<1>6. ASSUME NEW r \in Runs,
             \/ BeginRaises(r) \/ SucceedRaises(r) \/ Resolve(r)
             \/ ResolveFails(r) \/ Discuss(r) \/ CeoDecides(r)
      PROVE  FALSE
  BY <1>6, <1>v DEF BeginRaises, SucceedRaises, Resolve, ResolveFails, Discuss, CeoDecides, Verdict
<1> QED
  BY <1>1, <1>2, <1>3, <1>4, <1>5, <1>6 DEF Next, Step

\* Without a resolver and without errors of the disk, subscribers and the graph are told
\* of each run's end what its client is told, once, after any number of attempts.
THEOREM VerdictIsTold ==
    ASSUME ~DiskRaises, ~Escalating
    PROVE  Spec => []VerdictTold
<1>1. Init => StoresTyped /\ Verdicts
  BY DEF Init, StoresTyped, Verdicts, Verdict
<1>2. RunInv /\ StoresTyped /\ Verdicts /\ [Next]_vars => StoresTyped' /\ Verdicts'
  BY StoresStep, VerdictStep, ExecutionAssumption
<1>3. Verdicts => VerdictTold
  BY DEF Verdicts, Verdict, VerdictTold
<1> QED
  BY <1>1, <1>2, <1>3, RunsInvariant, PTL DEF Spec
================================================================================
