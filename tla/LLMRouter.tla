------------------------------ MODULE LLMRouter ------------------------------
(***************************************************************************)
(* core/llm_router.py: LLMRouter.call_llm for one asyncio task, which      *)
(* calls again and again.  Suspension points are the requests to the       *)
(* provider, the pauses between retries and the tools.  The provider may   *)
(* answer, fail, or fail after it did the work: then the request was paid  *)
(* for and nothing is known of it.                                         *)
(***************************************************************************)
EXTENDS Naturals, Sequences, SequencesExt

CONSTANTS RouterAgents,     \* agents that calls are made for
          MaxToolTurns,     \* max_tool_turns
          MaxLLMRetries,    \* default_max_retries
          SdkRetries,       \* max_retries of the OpenAI library, left at its default
          ContextLimit,     \* room for prompt and messages, in message sizes
          Conversations,    \* the messages a call is made with, as their sizes
          MaxCalls,         \* bound: calls of the task
          MaxToolsPerTurn   \* bound: tool_use blocks of an answer

ASSUME RouterAssumption ==
  /\ MaxToolTurns \in Nat /\ MaxLLMRetries \in Nat /\ SdkRetries \in Nat
  /\ Conversations \subseteq Seq(Nat)

VARIABLES
  call,       \* the call in progress and its locals
  agentContext,    \* _current_agent, a ContextVar: it outlives the call
  charged,    \* what _record_cost told the tracker, by agent
  untold,     \* history: cached tokens and failed recordings, by agent
  answered,   \* history: what the answers received cost, by agent
  calls       \* bound

routerVars == <<call, agentContext, charged, untold, answered, calls>>

\* _truncate_messages drops the oldest message until the rest fits: dropped[k]
\* is how many are gone when k were and the loop goes on.  The prompt has size 1.
Truncate(ms) ==
  LET Fits(k) == 1 + FoldSeq(+, 0, SubSeq(ms, k + 1, Len(ms))) <= ContextLimit
      dropped[k \in 0..Len(ms)] ==
        IF k = Len(ms) \/ Fits(k) THEN k ELSE dropped[k + 1]
  IN  SubSeq(ms, dropped[0] + 1, Len(ms))

NoCall == [phase |-> "none", provider |-> "none", turn |-> 0, attempt |-> 0,
           usage |-> 0, requests |-> 0, answers |-> 0, tools |-> 0, unseen |-> 0,
           given |-> <<>>, messages |-> <<>>]

RouterInit ==
  /\ call = NoCall
  /\ agentContext = "unknown"
  /\ charged = [a \in RouterAgents \cup {"unknown"} |-> 0]
  /\ untold = [a \in RouterAgents \cup {"unknown"} |-> 0]
  /\ answered = [a \in RouterAgents \cup {"unknown"} |-> 0]
  /\ calls = 0

CallAt(provider, phase) == call.provider = provider /\ call.phase = phase

\* set_llm_context: an unnamed call keeps the agent of the one before
SetAgent(agent) == agentContext' = IF agent = "unnamed" THEN agentContext ELSE agent

Idle == call.phase \in {"none", "returned", "raised"} /\ calls < MaxCalls

\* call_llm.  Only the Anthropic path truncates.
CallLlm(agent, provider, ms) ==
  /\ Idle
  /\ calls' = calls + 1
  /\ SetAgent(agent)
  /\ call' = [NoCall EXCEPT !.phase = "asking", !.provider = provider, !.given = ms,
                !.messages = IF provider = "anthropic" THEN Truncate(ms) ELSE ms]
  /\ UNCHANGED <<charged, untold, answered>>

\* _mock_response: without a key or a client the answer is made up and free
CallMock(agent) ==
  /\ Idle
  /\ calls' = calls + 1
  /\ SetAgent(agent)
  /\ call' = [NoCall EXCEPT !.phase = "returned", !.provider = "mock"]
  /\ UNCHANGED <<charged, untold, answered>>

\* An answer: tools are the tool_use blocks that will be run, none without an
\* executor.  Its price is that of its tokens and of its cached tokens, of which
\* _record_cost tells the tracker `recorded`, never the cached ones; a tracker
\* that raises before it counts is not heard of.
ReceiveAnswer(tokens, cache, tools, recorded) ==
  /\ \/ /\ charged' = [charged EXCEPT ![agentContext] = @ + recorded]
        /\ untold' = [untold EXCEPT ![agentContext] = @ + cache]
     \/ /\ untold' = [untold EXCEPT ![agentContext] = @ + (tokens + cache)]
        /\ UNCHANGED charged
  /\ answered' = [answered EXCEPT ![agentContext] = @ + (tokens + cache)]
  /\ call' = [call EXCEPT !.usage = @ + (tokens + cache), !.requests = @ + 1, !.answers = @ + 1,
                          !.tools = tools, !.unseen = 0,
                          !.phase = IF tools = 0 THEN "returned" ELSE "tooling"]
  /\ UNCHANGED <<agentContext, calls>>

\* Mutant: only the first turn of a call is recorded
AnswerRecordedOnce(tokens, cache, tools) ==
  /\ CallAt("anthropic", "asking")
  /\ ReceiveAnswer(tokens, cache, tools, IF call.turn = 0 THEN tokens ELSE 0)

\* _call_once records the tokens of its answer
Answer(tokens, cache, tools) ==
  CallAt("anthropic", "asking") /\ ReceiveAnswer(tokens, cache, tools, tokens)

\* _call_openai knows no cached tokens and records the total of the call so far,
\* on every turn; an answer without choices raises before anything is recorded
AnswerOpenAi(tokens, tools) ==
  /\ CallAt("openai", "asking")
  /\ \/ ReceiveAnswer(tokens, 0, tools, call.usage + tokens)
     \/ /\ call' = [call EXCEPT !.requests = @ + 1, !.phase = "raised"]
        /\ UNCHANGED <<agentContext, charged, untold, answered, calls>>

\* How often a turn is asked again: by _call_with_retry, whose client has no
\* retries of its own, or by the OpenAI library within one create()
RetriesOf(provider) ==
  IF provider = "anthropic" THEN MaxLLMRetries
  ELSE IF provider = "openai" THEN SdkRetries ELSE 0

\* A transient error is tried again, by the router after a pause that it can be
\* cancelled in, whether or not the provider did the work.
TransientError(paid) ==
  /\ call.phase = "asking"
  /\ call' = [call EXCEPT
       !.requests = @ + paid,
       !.attempt = @ + 1,
       !.phase = IF ~(call.attempt < RetriesOf(call.provider)) THEN "raised"
                 ELSE IF call.provider = "anthropic" THEN "pausing" ELSE "asking"]
  /\ UNCHANGED <<agentContext, charged, untold, answered, calls>>

\* _classify_and_raise: fatal and unknown errors are not tried again
FatalError(paid) ==
  /\ call.phase = "asking"
  /\ call' = [call EXCEPT !.requests = @ + paid, !.phase = "raised"]
  /\ UNCHANGED <<agentContext, charged, untold, answered, calls>>

PauseEnds ==
  /\ call.phase = "pausing"
  /\ call' = [call EXCEPT !.phase = "asking"]
  /\ UNCHANGED <<agentContext, charged, untold, answered, calls>>

\* ToolExecutor.execute turns every outcome, exceptions included, into a result.
\* After the last tool the results go to the model, unless the turns are used up:
\* then the last text is returned and the results are dropped.
ToolEnds ==
  /\ call.phase = "tooling"
  /\ call' = [call EXCEPT
       !.tools = @ - 1, !.unseen = @ + 1,
       !.turn = IF call.tools = 1 /\ call.turn < MaxToolTurns THEN @ + 1 ELSE @,
       !.attempt = IF call.tools = 1 THEN 0 ELSE @,
       !.phase = IF call.tools > 1 THEN "tooling"
                 ELSE IF call.turn < MaxToolTurns THEN "asking" ELSE "returned"]
  /\ UNCHANGED <<agentContext, charged, untold, answered, calls>>

\* the task is cancelled while it waits; a request under way may have been paid
CancelCall(paid) ==
  /\ call.phase \in {"asking", "pausing", "tooling"}
  /\ paid = 1 => call.phase = "asking"
  /\ call' = [call EXCEPT !.requests = @ + paid, !.phase = "raised"]
  /\ UNCHANGED <<agentContext, charged, untold, answered, calls>>

RouterStep ==
  \/ \E cache \in 0..1, tools \in 0..MaxToolsPerTurn :
       Answer(1, cache, tools) \/ AnswerOpenAi(1 + cache, tools)
  \/ \E paid \in 0..1 : TransientError(paid) \/ FatalError(paid)
  \/ PauseEnds \/ ToolEnds

RouterNext ==
  \/ RouterStep
  \/ \E agent \in RouterAgents \cup {"unnamed"} :
       \/ \E ms \in Conversations, provider \in {"anthropic", "openai"} :
            CallLlm(agent, provider, ms)
       \/ CallMock(agent)
  \/ \E paid \in 0..1 : CancelCall(paid)

RouterSpec == RouterInit /\ [][RouterNext]_routerVars

(* A client library lets no request wait for ever, and neither tools nor pauses *)
(* are without end.                                                           *)
RouterFairness == WF_routerVars(RouterStep)
RouterFairSpec == RouterSpec /\ RouterFairness

-------------------------------------------------------------------------------
(* What the tracker is told falls short of the answers received by their      *)
(* cached tokens and by the recordings that raised, and by nothing else,      *)
(* across retries, tool turns, failures and cancellations; and without the    *)
(* OpenAI path, which counts earlier turns again, a single call's is exact.   *)
NeverUndercharged ==
  /\ \A a \in DOMAIN charged : charged[a] + untold[a] >= answered[a]
  /\ call.provider # "openai" /\ calls = 1 =>
       \A a \in DOMAIN charged : charged[a] + untold[a] = answered[a]

(* A retried request may have been paid already.  How many payments nobody    *)
(* records is bounded by the attempts: for a call that returned, the retries  *)
(* of each turn, whether the router's or the OpenAI library's own.            *)
UnrecordedPaymentsBounded ==
  LET lost == call.requests - call.answers
      retries == RetriesOf(call.provider)
  IN  /\ lost <= retries * (call.turn + 1) + 1
      /\ call.phase = "returned" => lost <= retries * (call.turn + 1)

(* Tools run and have effects: a call returns without having shown the model  *)
(* their results only when the turns are used up.                             *)
ResultsReachTheModel ==
  call.phase = "returned" /\ call.unseen > 0 => call.turn = MaxToolTurns

(* Truncation keeps the most recent messages, as many of them as fit.         *)
KeepsWhatFits ==
  LET Size(ms) == 1 + FoldSeq(+, 0, ms)
      Newest(k) == SubSeq(call.given, Len(call.given) - k + 1, Len(call.given))
      fitting == {k \in 0..Len(call.given) : Size(Newest(k)) <= ContextLimit}
  IN  call.provider = "anthropic" =>
        call.messages = Newest(IF fitting = {} THEN 0 ELSE Max(fitting))

(* Whatever the provider answers, a call returns or raises.                   *)
CallsEnd == []<>(call.phase \in {"none", "returned", "raised"})

(* A call accounts for what it costs and for the conversation it was given.   *)
CallsSound ==
  /\ NeverUndercharged
  /\ UnrecordedPaymentsBounded
  /\ ResultsReachTheModel
  /\ KeepsWhatFits
==============================================================================
