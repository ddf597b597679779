------------------------------ MODULE Resolver ------------------------------
(***************************************************************************)
(* What follows a task's final failure: core/evaluator.py suggests a path, *)
(* core/resolver.py takes it (another try, a discussion among agents, a    *)
(* person, the CEO agent), core/mixins/discussion.py and                   *)
(* core/autogen_discussion.py hold the discussion, and the CEO agent is    *)
(* asked about what is escalated.  Several agents may be at it on one      *)
(* event loop: a step here is what runs between two awaits.                *)
(***************************************************************************)
EXTENDS Integers, FiniteSets

CONSTANTS Failing,     \* agents with a failed task
          Registered,  \* names in the AgentRegistry
          MaxTries     \* max_retries of a task, so the highest retry_count

ASSUME ResolverAssumption == Failing \subseteq Registered /\ MaxTries \in Nat

VARIABLES
  autogen,    \* _has_autogen: the package, an OpenAI key and provider are there
  shared,     \* _PeerDiscussionAdapter._peer_registry, a class attribute
  peers,      \* _instance_peers of the adapter an agent made, by agent
  phase,      \* where the agent's resolution waits
  kind,       \* action_category of the task's action and input
  tries,      \* retry_count
  asked,      \* peers whose answer is awaited
  advised,    \* a peer gave a usable answer
  reruns,     \* history: calls of do_work by the resolver, by path
  events,     \* history: events published
  consulted   \* history: every peer asked

resolverVars == <<autogen, shared, peers, phase, kind, tries, asked, advised, reruns,
                  events, consulted>>

\* "guarded": irreversible, dangerous or compliance
Kinds == {"guarded", "high_impact", "normal"}
Paths == {"self", "peer", "human", "escalate"}

\* What the evaluator reads off an error: a passing fault, words of the agent's
\* capabilities, words that call for colleagues, its severity, and the boost of
\* experiences of the same kind, in hundredths
Errors == [passing : BOOLEAN, fitting : BOOLEAN, tangled : BOOLEAN, grave : BOOLEAN,
           boost : {0, 15, 40}]

AtMost(x, bound) == IF x < bound THEN x ELSE bound

\* _assess_self_solve: may it be solved alone, and the confidence
SelfSolve(e, n) ==
  CASE n >= 2 -> [can |-> FALSE, confidence |-> 10]
    [] n < 2 /\ e.passing -> [can |-> TRUE, confidence |-> AtMost(80 + e.boost, 95)]
    [] n < 2 /\ ~e.passing /\ e.fitting ->
         [can |-> TRUE, confidence |-> AtMost(60 + e.boost, 90)]
    [] OTHER -> [can |-> FALSE, confidence |-> AtMost(30 + e.boost, 50)]

\* _assess_peer_needed
PeerNeeded(e, s) ==
  /\ ~(s.can /\ s.confidence > 70)
  /\ e.tangled \/ (e.grave /\ s.confidence < 50)

\* _decide_path
DecidePath(k, s, peer, n) ==
  CASE k = "guarded" \/ (k = "high_impact" /\ s.confidence < 80) -> "human"
    [] k # "guarded" /\ ~(k = "high_impact" /\ s.confidence < 80)
         /\ s.can /\ s.confidence > 40 ->
         IF s.confidence > 70 \/ n = 0 THEN "self" ELSE "peer"
    [] OTHER -> IF peer THEN "peer" ELSE "escalate"

\* evaluate
Suggested(k, e, n) == LET s == SelfSolve(e, n) IN DecidePath(k, s, PeerNeeded(e, s), n)

ResolverInit ==
  /\ autogen \in BOOLEAN
  /\ shared = {}
  /\ peers = [a \in Failing |-> {}]
  /\ phase = [a \in Failing |-> "working"]
  /\ kind \in [Failing -> Kinds]
  /\ tries = [a \in Failing |-> 0]
  /\ asked = [a \in Failing |-> {}]
  /\ advised = [a \in Failing |-> FALSE]
  /\ reruns = [a \in Failing |-> [self |-> 0, peer |-> 0]]
  /\ events = [a \in Failing |-> [completed |-> 0, human |-> 0, escalated |-> 0]]
  /\ consulted = [a \in Failing |-> {}]

-----------------------------------------------------------------------------
(* The discussion                                                           *)

\* The class registry once an adapter has emptied it and put its peers in
RegisterPeers(made) == made

\* _select_peers: the best two of both registries, by words in common
Selections(all) ==
  {s \in SUBSET all : Cardinality(s) = AtMost(2, Cardinality(all))}

\* _resolve_escalate: the event and the failure in the graph; _escalate goes on to
\* the CEO agent.  The adapter of a discussion is gone with it.
Escalate(a) ==
  /\ phase' = [phase EXCEPT ![a] = "with_ceo"]
  /\ events' = [events EXCEPT ![a].escalated = @ + 1]
  /\ peers' = [peers EXCEPT ![a] = {}]
  /\ asked' = [asked EXCEPT ![a] = {}]
  /\ advised' = [advised EXCEPT ![a] = FALSE]

\* discuss: ask the peers at once, or find none and escalate
AskAmong(a, own, all) ==
  \E s \in Selections(all) :
     /\ consulted' = [consulted EXCEPT ![a] = @ \cup s]
     /\ IF s = {} THEN Escalate(a)
        ELSE /\ phase' = [phase EXCEPT ![a] = "asking"]
             /\ peers' = [peers EXCEPT ![a] = own]
             /\ asked' = [asked EXCEPT ![a] = s]
             /\ UNCHANGED <<advised, events>>

\* _setup_default_peers: the registered agents but this one that can be made
DefaultPeers(a) == SUBSET (Registered \ {a})

\* AutoGenGroupChat.run, to its timeout of 90 s at the latest
StartChat(a, made) ==
  /\ phase' = [phase EXCEPT ![a] = "chatting"]
  /\ peers' = [peers EXCEPT ![a] = made]
  /\ UNCHANGED <<asked, advised, consulted, events>>

\* _resolve_peer: an adapter, then AutoGen's chat if it may be used
Discuss(a) ==
  \E made \in DefaultPeers(a) :
     /\ shared' = RegisterPeers(made)
     /\ IF autogen THEN StartChat(a, made)
        ELSE AskAmong(a, made, shared' \cup made)

\* resolve, by the path suggested
Take(a, path) ==
  CASE path = "self"  -> /\ phase' = [phase EXCEPT ![a] = "retrying"]
                         /\ UNCHANGED <<shared, peers, asked, advised, consulted, events>>
    [] path = "peer"  -> Discuss(a)
    [] path = "human" -> /\ phase' = [phase EXCEPT ![a] = "failed"]
                         /\ events' = [events EXCEPT ![a].human = @ + 1]
                         /\ UNCHANGED <<shared, peers, asked, advised, consulted>>
    [] OTHER          -> Escalate(a) /\ UNCHANGED <<shared, consulted>>

-----------------------------------------------------------------------------
(* The paths                                                                *)

\* SmartAgent._escalate: the path of a failure after n tries of the agent's own
Resolve(a, e, n) ==
  /\ phase[a] = "working"
  /\ LET path == Suggested(kind[a], e, n) IN
     /\ Take(a, path)
     /\ tries' = [tries EXCEPT ![a] = IF path = "self" THEN n ELSE 0]
  /\ UNCHANGED <<autogen, kind, reruns>>

\* Mutant: the event is out before the work is done again
RerunAnnounced(a) ==
  /\ events' = [events EXCEPT ![a].completed = @ + 1]
  /\ phase' \in {[phase EXCEPT ![a] = w] : w \in {"succeeded", "with_ceo"}}
  /\ peers' = [peers EXCEPT ![a] = {}]
  /\ asked' = [asked EXCEPT ![a] = {}]
  /\ advised' = [advised EXCEPT ![a] = FALSE]

\* do_work once more: its output and the event, or escalation
Rerun(a) ==
  \/ /\ events' = [events EXCEPT ![a].completed = @ + 1]
     /\ phase' = [phase EXCEPT ![a] = "succeeded"]
     /\ peers' = [peers EXCEPT ![a] = {}]
     /\ asked' = [asked EXCEPT ![a] = {}]
     /\ advised' = [advised EXCEPT ![a] = FALSE]
  \/ Escalate(a)

\* _resolve_self: unless peers are suggested for its failure, that is escalated,
\* whatever is suggested
RetryEnds(a, e) ==
  /\ phase[a] = "retrying"
  /\ Suggested(kind[a], e, tries[a] + 1) # "peer"
  /\ Rerun(a)
  /\ reruns' = [reruns EXCEPT ![a].self = @ + 1]
  /\ tries' = [tries EXCEPT ![a] = 0]
  /\ UNCHANGED <<autogen, shared, kind, consulted>>

\* _resolve_self whose try failed in a way that peers may help with
RetryAsks(a, e) ==
  /\ phase[a] = "retrying"
  /\ Suggested(kind[a], e, tries[a] + 1) = "peer"
  /\ Discuss(a)
  /\ reruns' = [reruns EXCEPT ![a].self = @ + 1]
  /\ tries' = [tries EXCEPT ![a] = 0]
  /\ UNCHANGED <<autogen, kind>>

\* AutoGen's chat ended in a summary, in nothing, in an error or in time: a summary
\* is converted with names the module does not import, so the mixin's discussion
\* follows in every case
ChatEnds(a) ==
  /\ phase[a] = "chatting"
  /\ AskAmong(a, peers[a], shared \cup peers[a])
  /\ UNCHANGED <<autogen, shared, kind, tries, reruns>>

\* _extract_consensus: its confidence is above 0 once a peer gave advice
Agreed(a, usable) == advised[a] \/ usable

\* ask_one: advice, or a text in brackets for an error or a late answer; the
\* last one makes a consensus, or none
PeerAnswers(a, p, usable) ==
  /\ phase[a] = "asking" /\ p \in asked[a]
  /\ IF asked[a] = {p} /\ ~Agreed(a, usable) THEN Escalate(a)
     ELSE /\ asked' = [asked EXCEPT ![a] = @ \ {p}]
          /\ advised' = [advised EXCEPT ![a] = Agreed(a, usable)]
          /\ phase' = [phase EXCEPT ![a] = IF asked[a] = {p} THEN "applying" ELSE "asking"]
          /\ UNCHANGED <<peers, events>>
  /\ UNCHANGED <<autogen, shared, kind, tries, reruns, consulted>>

\* The discussion as a whole takes longer than 20 s
DiscussionTimesOut(a) ==
  /\ phase[a] = "asking"
  /\ Escalate(a)
  /\ UNCHANGED <<autogen, shared, kind, tries, reruns, consulted>>

\* _resolve_peer after a consensus
ApplyAdvice(a) ==
  /\ phase[a] = "applying"
  /\ Rerun(a)
  /\ reruns' = [reruns EXCEPT ![a].peer = @ + 1]
  /\ UNCHANGED <<autogen, shared, kind, tries, consulted>>

\* _invoke_ceo: whatever the CEO agent decides or fails with, the task has failed
CeoDecides(a) ==
  /\ phase[a] = "with_ceo"
  /\ phase' = [phase EXCEPT ![a] = "failed"]
  /\ UNCHANGED <<autogen, shared, peers, kind, tries, asked, advised, reruns, events,
                 consulted>>

ResolverStep(a) ==
  \/ \E e \in Errors : \/ \E n \in 0..MaxTries : Resolve(a, e, n)
                       \/ RetryEnds(a, e)
                       \/ RetryAsks(a, e)
  \/ ChatEnds(a)
  \/ \E p \in Registered, usable \in BOOLEAN : PeerAnswers(a, p, usable)
  \/ DiscussionTimesOut(a)
  \/ ApplyAdvice(a)
  \/ CeoDecides(a)

ResolverNext == \E a \in Failing : ResolverStep(a)

ResolverSpec == ResolverInit /\ [][ResolverNext]_resolverVars

\* What an agent awaits ends: its calls of a model have time limits
ResolverFairSpec == ResolverSpec /\ \A a \in Failing : WF_resolverVars(ResolverStep(a))

-----------------------------------------------------------------------------
(***************************************************************************)
(* A resolution leads to one thing: an output and one TASK_COMPLETED, or a *)
(* request to a person, or one escalation, never several of them; it runs  *)
(* the work at most twice more, once by itself and once on advice.         *)
(***************************************************************************)
OneEnding ==
  \A a \in Failing :
     LET ev == events[a] IN
     /\ ev.completed + ev.human + ev.escalated <= 1
     /\ phase[a] = "succeeded" <=> ev.completed = 1
     /\ phase[a] = "failed" => ev.human + ev.escalated = 1
     /\ reruns[a].self <= 1 /\ reruns[a].peer <= 1

(***************************************************************************)
(* The resolver runs no irreversible, dangerous or compliance action       *)
(* again and asks no colleague about it; one of high impact it tries once  *)
(* by itself, and never on a colleague's advice.                           *)
(***************************************************************************)
HarmLeftToPeople ==
  \A a \in Failing :
     /\ kind[a] = "guarded" => reruns[a].self + reruns[a].peer + events[a].escalated = 0
     /\ kind[a] = "high_impact" => reruns[a].self <= 1 /\ consulted[a] = {}

(***************************************************************************)
(* "Register all ... agents as default peers, except self"                 *)
(* (resolver.py:565): no agent is asked for advice on its own failure.     *)
(* The class registry the adapters share makes this depend on nothing      *)
(* running between the making of an adapter and its discussion, so it is   *)
(* only stated without AutoGen, whose chat is such a wait.                 *)
(***************************************************************************)
AsksOthers == ~autogen => \A a \in Failing : a \notin consulted[a]

(***************************************************************************)
(* Every resolution that began comes to an end, whatever its paths run     *)
(* into.                                                                   *)
(***************************************************************************)
ResolutionsEnd ==
  []<>(\A a \in Failing : phase[a] \in {"working", "succeeded", "failed"})

(***************************************************************************)
(* Whatever fails on the way, a resolution has one ending, leaves harm to  *)
(* people and asks others than the one that failed.                        *)
(***************************************************************************)
ResolutionSound == OneEnding /\ HarmLeftToPeople /\ AsksOthers
=============================================================================
