----------------------------- MODULE AgentExecution -----------------------------
(***************************************************************************)
(* A task from POST /api/tasks to its answer: submit_task                  *)
(* (api/routes/tasks.py), the graph of one agent (core/graph.py),          *)
(* SmartAgent.execute with its retries and its resolver (core/agent.py,    *)
(* core/resolver.py), and what they leave behind: the progress tracker     *)
(* (core/checkpoint_tracker.py), the checkpoint files (core/failure_ux.py), *)
(* the task's node of the experience graph, the published events and the   *)
(* offers to resume (core/notify.py).                                      *)
(*                                                                         *)
(* A run is one request.  It suspends while a call of do_work, a           *)
(* discussion or the CEO agent is under way and when it hands its result   *)
(* over; the code between two suspensions is one step.                     *)
(*                                                                         *)
(* A checkpoint has one step, do_work, and is abstracted to how that       *)
(* stands.  The tracker and the agent each have a checkpoint of the task,  *)
(* and both write the same file.                                           *)
(***************************************************************************)
EXTENDS Naturals, Sequences

CONSTANTS
    Runs,          \* requests
    TaskIds,       \* task ids
    IdOf,          \* the task id of each request: clients may choose it
    MaxRetries,    \* TaskContext.max_retries
    Escalating,    \* enable_resolver was called
    DiskRaises,    \* recording in the experience graph and deleting a file may raise
    SaveFails,     \* a write of a checkpoint may fail, which raises nothing
    MayCrash,      \* the server may crash and restart
    Offered,       \* the ids resume offers are made for
    None           \* no value

ASSUME ExecutionAssumption ==
    /\ IdOf \in [Runs -> TaskIds]
    /\ MaxRetries \in Nat
    /\ Escalating \in BOOLEAN /\ DiskRaises \in BOOLEAN
    /\ SaveFails \in BOOLEAN /\ MayCrash \in BOOLEAN
    /\ Offered \subseteq TaskIds
    /\ None \notin {"pending", "completed", "failed"}

VARIABLES
    run,     \* where each request is, and its answer
    own,     \* the checkpoint object of each request's agent
    live,    \* CheckpointTracker._live: task id -> checkpoint
    file,    \* data/checkpoints/<task id>.json, as CheckpointStore.load reads it
    lost,    \* history: the ids whose last write of a checkpoint failed
    node,    \* the status of each task's graph node
    told,    \* the events each request published, TASK_RETRYING left out
    offer    \* ResumeManager._offers

vars == <<run, own, live, file, lost, node, told, offer>>

Standing == {"pending", "completed", "failed"}

\* TaskCheckpoint.complete_step and fail_step: a step that is not pending keeps
\* its status.
CompleteStep(s) == IF s = "pending" THEN "completed" ELSE s

FailStep(s) == IF s = "pending" THEN "failed" ELSE s

\* CheckpointStore.save: a write that fails is logged, and the callers do not look at
\* what it returns.  It leaves the file as it was or cut short, which load takes for
\* no checkpoint.
Save(i, s) ==
    \/ /\ file' = [file EXCEPT ![i] = s]
       /\ lost' = lost \ {i}
    \/ /\ SaveFails
       /\ \E left \in {file[i], None} : file' = [file EXCEPT ![i] = left]
       /\ lost' = lost \cup {i}

\* CheckpointStore.delete.
Delete(i) == file' = [file EXCEPT ![i] = None] /\ UNCHANGED lost

At(r, p) == run[r].pc = p

Calling == {"working", "self", "peer"}

InFlight(r) == run[r].pc \in Calling \cup {"started", "discuss", "ceo", "returned"}

--------------------------------------------------------------------------------
(* What a request goes on to: where it is next, calls of do_work begun, events *)

To(p, n, events) == [pc |-> p, calls |-> n, events |-> events, answer |-> None]

Answer(a, events) == [pc |-> "returned", calls |-> 0, events |-> events, answer |-> a]

GoOn(r, out) ==
    /\ run' = [run EXCEPT ![r] = [pc |-> out.pc, attempt |-> @.attempt,
                                  calls |-> @.calls + out.calls, answer |-> out.answer]]
    /\ told' = [told EXCEPT ![r] = @ \o out.events]

--------------------------------------------------------------------------------
(* submit_task and the agent's loop                                         *)

\* tracker.start, the started event, and the task of the graph is created.
Submit(r) ==
    /\ At(r, "new")
    /\ GoOn(r, To("started", 0, <<>>))
    /\ live' = [live EXCEPT ![IdOf[r]] = "pending"]
    /\ Save(IdOf[r], "pending")
    /\ UNCHANGED <<own, node, offer>>

\* The graph's input_validator refuses an empty input.
RefuseInput(r) ==
    /\ At(r, "started")
    /\ GoOn(r, Answer("failed", <<>>))
    /\ UNCHANGED <<own, live, file, lost, node, offer>>

\* execute: record_task_start, _setup_checkpoint, TASK_STARTED, first call.
Begin(r) ==
    /\ At(r, "started")
    /\ GoOn(r, To("working", 1, <<"started">>))
    /\ own' = [own EXCEPT ![r] = "pending"]
    /\ Save(IdOf[r], "pending")
    /\ node' = [node EXCEPT ![IdOf[r]] = "running"]
    /\ UNCHANGED <<live, offer>>

\* The first step on the graph raises and execute ends before its try.
BeginRaises(r) ==
    /\ At(r, "started") /\ DiskRaises
    /\ GoOn(r, Answer("failed", <<>>))
    /\ node' = [node EXCEPT ![IdOf[r]] = "running"]
    /\ UNCHANGED <<own, live, file, lost, offer>>

\* Mutant: one attempt too many.
RetryOnceMore(r) ==
    /\ At(r, "working") /\ run[r].attempt <= MaxRetries
    /\ run' = [run EXCEPT ![r].attempt = @ + 1, ![r].calls = @ + 1]
    /\ UNCHANGED <<own, live, file, lost, node, told, offer>>

\* An output that is not valid or an L1 error, and attempts are left.
Retry(r) ==
    /\ At(r, "working") /\ run[r].attempt < MaxRetries
    /\ run' = [run EXCEPT ![r].attempt = @ + 1, ![r].calls = @ + 1]
    /\ UNCHANGED <<own, live, file, lost, node, told, offer>>

\* A valid output: _on_validation_success, record_task_complete.
Succeed(r) ==
    /\ At(r, "working")
    /\ GoOn(r, Answer("completed", <<"completed">>))
    /\ own' = [own EXCEPT ![r] = CompleteStep(@)]
    /\ Delete(IdOf[r])
    /\ node' = [node EXCEPT ![IdOf[r]] = "completed"]
    /\ UNCHANGED <<live, offer>>

--------------------------------------------------------------------------------
(* The resolver                                                             *)

ToPeers == To("discuss", 0, <<>>)

\* The escalated event, then the CEO agent, unless recording the failure raises.
ToCeo == {To("ceo", 0, <<"escalated">>)}
         \cup (IF DiskRaises THEN {Answer("failed", <<"escalated">>)} ELSE {})

\* The path the evaluator suggests; SELF only before the third attempt.
Resolutions(r) ==
    {ToPeers, Answer("failed", <<"human">>)} \cup ToCeo
    \cup (IF run[r].attempt < 2 THEN {To("self", 1, <<>>)} ELSE {})

\* What follows a final failure: the resolver, or the exception.
Sequel(r) == IF Escalating THEN Resolutions(r) ELSE {Answer("failed", <<>>)}

\* Mutants: the failure is not recorded; the failed checkpoint is not saved.
GiveUpUnrecorded(r, before, step) ==
    \E out \in Sequel(r) :
        /\ GoOn(r, [out EXCEPT !.events = before \o <<"failed">> \o @])
        /\ own' = [own EXCEPT ![r] = FailStep(step)]
        /\ Save(IdOf[r], FailStep(step))
        /\ UNCHANGED node

GiveUpUnsaved(r, before, step) ==
    \E out \in Sequel(r) :
        /\ GoOn(r, [out EXCEPT !.events = before \o <<"failed">> \o @])
        /\ own' = [own EXCEPT ![r] = FailStep(step)]
        /\ node' = [node EXCEPT ![IdOf[r]] = "failed"]
        /\ UNCHANGED <<file, lost>>

\* The except of _execute_inner: record_task_failure, _handle_final_failure and
\* _escalate, after the events in before and with the agent's step as it stands.
GiveUp(r, before, step) ==
    /\ \E out \in Sequel(r) : GoOn(r, [out EXCEPT !.events = before \o <<"failed">> \o @])
    /\ own' = [own EXCEPT ![r] = FailStep(step)]
    /\ Save(IdOf[r], FailStep(step))
    /\ node' = [node EXCEPT ![IdOf[r]] = "failed"]

\* The same when record_task_failure raises: nothing after it is done.
GiveUpRaises(r, before, step, saved) ==
    /\ DiskRaises
    /\ GoOn(r, Answer("failed", before))
    /\ own' = [own EXCEPT ![r] = step]
    /\ file' = [file EXCEPT ![IdOf[r]] = saved]
    /\ UNCHANGED lost
    /\ node' = [node EXCEPT ![IdOf[r]] = "failed"]

\* Another error, or the last attempt's.
Fail(r) ==
    /\ At(r, "working")
    /\ \/ GiveUp(r, <<>>, own[r])
       \/ GiveUpRaises(r, <<>>, own[r], file[IdOf[r]])
    /\ UNCHANGED <<live, offer>>

\* A valid output, but after TASK_COMPLETED the file cannot be deleted or
\* record_task_complete raises.
SucceedRaises(r) ==
    /\ At(r, "working") /\ DiskRaises
    /\ \/ GiveUp(r, <<"completed">>, CompleteStep(own[r]))
       \/ \E left \in {None, file[IdOf[r]]} :
              GiveUpRaises(r, <<"completed">>, CompleteStep(own[r]), left)
    /\ UNCHANGED <<live, offer>>

\* The call of the SELF or the PEER path returns: its output is the answer, and no
\* validator has seen it until the graph's output_validator does.
Resolve(r) ==
    /\ run[r].pc \in {"self", "peer"}
    /\ \E a \in {"completed", "failed"} : GoOn(r, Answer(a, <<"completed">>))
    /\ Delete(IdOf[r])
    /\ UNCHANGED <<own, live, node, offer>>

\* It raises: peers after SELF, or the CEO.
ResolveFails(r) ==
    /\ run[r].pc \in {"self", "peer"}
    /\ \E out \in ToCeo \cup (IF At(r, "self") THEN {ToPeers} ELSE {}) : GoOn(r, out)
    /\ UNCHANGED <<own, live, file, lost, node, offer>>

\* The peers agree on a suggestion, which is tried, or not.
Discuss(r) ==
    /\ At(r, "discuss")
    /\ \E out \in ToCeo \cup {To("peer", 1, <<>>)} : GoOn(r, out)
    /\ UNCHANGED <<own, live, file, lost, node, offer>>

\* Mutant: the CEO waits for a human who has not been asked.
CeoAwaitsHuman(r) ==
    /\ At(r, "ceo") /\ \E k \in 1..Len(told[r]) : told[r][k] = "human"
    /\ GoOn(r, Answer("failed", <<>>))
    /\ UNCHANGED <<own, live, file, lost, node, offer>>

\* The CEO's decision is noted; the task fails all the same.
CeoDecides(r) ==
    /\ At(r, "ceo")
    /\ GoOn(r, Answer("failed", <<>>))
    /\ UNCHANGED <<own, live, file, lost, node, offer>>

--------------------------------------------------------------------------------
(* The answer reaches submit_task                                           *)

Done(r) == run' = [run EXCEPT ![r].pc = "done"]

\* Mutant: the hot map is cleared and the file is not written.
FinishUnsaved(r) ==
    /\ At(r, "returned") /\ run[r].answer = "completed"
    /\ Done(r)
    /\ live' = [live EXCEPT ![IdOf[r]] = None]
    /\ UNCHANGED <<own, file, lost, node, told, offer>>

\* tracker.finish, if the tracker still has the id.
Finish(r) ==
    /\ At(r, "returned") /\ run[r].answer = "completed"
    /\ Done(r)
    /\ LET i == IdOf[r]
       IN  /\ IF live[i] = None THEN UNCHANGED <<file, lost>> ELSE Save(i, CompleteStep(live[i]))
           /\ live' = [live EXCEPT ![i] = None]
    /\ UNCHANGED <<own, node, told, offer>>

\* tracker.fail_step, which keeps the id.
FailTracked(r) ==
    /\ At(r, "returned") /\ run[r].answer = "failed"
    /\ Done(r)
    /\ LET i == IdOf[r]
       IN  IF live[i] = None THEN UNCHANGED <<live, file, lost>>
           ELSE /\ live' = [live EXCEPT ![i] = FailStep(@)]
                /\ Save(i, FailStep(live[i]))
    /\ UNCHANGED <<own, node, told, offer>>

\* The server crashes and starts again: files and nodes are what is left.
Crash ==
    /\ MayCrash /\ \E r \in Runs : InFlight(r)
    /\ run' = [r \in Runs |-> IF InFlight(r) THEN [run[r] EXCEPT !.pc = "gone"] ELSE run[r]]
    /\ live' = [i \in TaskIds |-> None]
    /\ offer' = [i \in TaskIds |-> None]
    /\ UNCHANGED <<own, file, lost, node, told>>

--------------------------------------------------------------------------------
(* ResumeManager                                                            *)

\* create_offer: what is pending is what the file has pending by now.
CreateOffer(i) ==
    /\ i \in Offered /\ file[i] # None
    /\ offer' = [offer EXCEPT ![i] = [status |-> "pending", resumable |-> file[i] = "pending"]]
    /\ UNCHANGED <<run, own, live, file, lost, node, told>>

\* Mutant: a status of its own.
AnswerOfferRaw(i) ==
    /\ offer[i] # None
    /\ offer' = [offer EXCEPT ![i].status = "accepted"]
    /\ UNCHANGED <<run, own, live, file, lost, node, told>>

\* accept_offer with the offer's token, or abandon_offer, whatever its status.
AnswerOffer(i) ==
    /\ offer[i] # None
    /\ \E s \in {"resumed", "abandoned"} : offer' = [offer EXCEPT ![i].status = s]
    /\ UNCHANGED <<run, own, live, file, lost, node, told>>

--------------------------------------------------------------------------------
Init ==
    /\ run = [r \in Runs |-> [pc |-> "new", attempt |-> 0, calls |-> 0, answer |-> None]]
    /\ own = [r \in Runs |-> None]
    /\ live = [i \in TaskIds |-> None]
    /\ file = [i \in TaskIds |-> None]
    /\ lost = {}
    /\ node = [i \in TaskIds |-> None]
    /\ told = [r \in Runs |-> <<>>]
    /\ offer = [i \in TaskIds |-> None]

Step(r) ==
    \/ RefuseInput(r) \/ Begin(r) \/ BeginRaises(r)
    \/ Retry(r) \/ Succeed(r) \/ SucceedRaises(r) \/ Fail(r)
    \/ Resolve(r) \/ ResolveFails(r) \/ Discuss(r) \/ CeoDecides(r)
    \/ Finish(r) \/ FailTracked(r)

Next ==
    \/ \E r \in Runs : Submit(r) \/ Step(r)
    \/ \E i \in TaskIds : CreateOffer(i) \/ AnswerOffer(i)
    \/ Crash

Spec == Init /\ [][Next]_vars

\* Every call of a model, a peer or the CEO comes back (nothing times it out).
FairSpec == Spec /\ \A r \in Runs : WF_vars(Step(r))

--------------------------------------------------------------------------------
(* Properties                                                               *)

\* Every variable has its type.
TypeOK ==
    /\ run \in [Runs -> [pc : Calling \cup {"new", "started", "discuss", "ceo",
                                            "returned", "done", "gone"},
                         attempt : 0..MaxRetries, calls : Nat,
                         answer : {None, "completed", "failed"}]]
    /\ own \in [Runs -> Standing \cup {None}]
    /\ live \in [TaskIds -> Standing \cup {None}]
    /\ file \in [TaskIds -> Standing \cup {None}]
    /\ lost \subseteq TaskIds
    /\ node \in [TaskIds -> {None, "running", "completed", "failed"}]
    /\ offer \in [TaskIds -> [status : {"pending", "resumed", "abandoned"},
                              resumable : BOOLEAN] \cup {None}]

\* What GET /api/tasks/{id}/progress says (get_live); "pending" is shown as running.
Progress(i) == IF live[i] # None THEN live[i] ELSE file[i]

\* The calls of do_work one request may cost, with and without a resolver.
CallBudget ==
    IF ~Escalating THEN MaxRetries + 1
    ELSE IF MaxRetries < 2 THEN MaxRetries + 3 ELSE MaxRetries + 2

\* Retries and resolver together stay within that budget (the loops of
\* _run_with_retry and of the resolver's paths).
CallsBounded == \A r \in Runs : run[r].calls <= CallBudget

\* A task's progress is "running" while its only request is under way, whatever the
\* agent does to the shared file meanwhile, and the request's answer afterwards.  If
\* the last write of its checkpoint failed, finish has still dropped the tracker's
\* entry and a crash drops the one of a failure: a completed task may then have no
\* progress at all but is never "running" or "failed" again; a failed one is shown
\* as failed until the crash.
ProgressTellsAnswer ==
    \A r \in Runs :
        LET i == IdOf[r]
        IN  /\ InFlight(r) => Progress(i) = "pending"
            /\ At(r, "done") /\ run[r].answer = "completed" =>
                   Progress(i) = "completed" \/ (i \in lost /\ Progress(i) = None)
            /\ At(r, "done") /\ run[r].answer = "failed" =>
                   Progress(i) = "failed" \/ (i \in lost /\ live[i] = None)

\* No other request names the same task.
Alone(r) == \A q \in Runs : IdOf[q] = IdOf[r] => q = r

\* Subscribers are told of each run's end what its client is told: one verdict, the
\* right one, last, after however many attempts; and so is the graph, unless
\* another request has the node as well.
VerdictTold ==
    \A r \in Runs :
        run[r].pc \in {"returned", "done"} /\ told[r] # <<>> =>
            /\ told[r] = <<"started", run[r].answer>>
            /\ Alone(r) => node[IdOf[r]] = run[r].answer

\* When every request for an id has been answered its progress is not "running",
\* even if several of them shared the id, unless its last checkpoint was not written.
NeverStuck ==
    \A i \in TaskIds \ lost :
        (\A r \in Runs : IdOf[r] = i => run[r].pc \in {"new", "done"}) => Progress(i) # "pending"

\* What finish promises: "the API can return final status to the next poll".
FinalStatusPolled ==
    \A r \in Runs : At(r, "done") /\ Alone(r) => Progress(IdOf[r]) = run[r].answer

\* Every request is answered unless the server crashes.
EveryRunEnds == \A r \in Runs : At(r, "started") ~> run[r].pc \in {"done", "gone"}
================================================================================
