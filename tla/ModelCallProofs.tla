-------------------------- MODULE ModelCallProofs --------------------------
(*****************************************************************************)
(* Calls of the models: how a failure is resolved (core/resolver), what a call *)
(* of the router costs and returns (core/llm_router.py), and what the client of *)
(* a stream reads.  For any agents, tools and limits.                        *)
(*****************************************************************************)
EXTENDS Resolver, LLMRouter, LLMStream, TLAPS, FiniteSetTheorems, SequenceTheorems,
        WellFoundedInduction

------------------------------------------------------------------------------
(***************************************************************************)
(* How a failure is resolved, for any agents, with any number of their     *)
(* resolutions on the event loop and any errors of their tasks.            *)
(*                                                                         *)
(* What an agent may do next depends on the kind of its action and on the  *)
(* events it already published, so the invariant says for each place where *)
(* a resolution waits what has happened before.  That a dangerous action   *)
(* gets no further than its request to a person comes from the evaluator   *)
(* and holds for all errors it reads.                                      *)
(***************************************************************************)

Waits == {"retrying", "chatting", "asking", "applying"}
Phases == Waits \cup {"working", "with_ceo", "succeeded", "failed"}

Typed ==
  /\ autogen \in BOOLEAN
  /\ shared \in SUBSET Registered
  /\ peers \in [Failing -> SUBSET Registered]
  /\ phase \in [Failing -> Phases]
  /\ kind \in [Failing -> Kinds]
  /\ tries \in [Failing -> Nat]
  /\ reruns \in [Failing -> [self : Nat, peer : Nat]]
  /\ events \in [Failing -> [completed : Nat, human : Nat, escalated : Nat]]
  /\ consulted \in [Failing -> SUBSET Registered]

Published(a, c, h, e) ==
  events[a].completed = c /\ events[a].human = h /\ events[a].escalated = e

\* What has happened where the resolution of a waits
Before(a) ==
  /\ phase[a] \in Waits \cup {"working"} => Published(a, 0, 0, 0)
  /\ phase[a] = "with_ceo" => Published(a, 0, 0, 1)
  /\ phase[a] = "succeeded" => Published(a, 1, 0, 0)
  /\ phase[a] = "failed" => Published(a, 0, 1, 0) \/ Published(a, 0, 0, 1)
  /\ phase[a] \in {"working", "retrying"} =>
       reruns[a].self = 0 /\ reruns[a].peer = 0 /\ consulted[a] = {}
  /\ phase[a] \in {"chatting", "asking", "applying"} => reruns[a].peer = 0
  /\ reruns[a].self <= 1 /\ reruns[a].peer <= 1

\* Who may be where
Harmless(a) ==
  /\ kind[a] = "guarded" =>
       /\ phase[a] \in {"working", "failed"} /\ events[a].escalated = 0
       /\ reruns[a].self = 0 /\ reruns[a].peer = 0
  /\ kind[a] = "high_impact" =>
       phase[a] \notin {"chatting", "asking", "applying"} /\ consulted[a] = {}

\* Nothing runs between the making of an adapter and its discussion without AutoGen.
NotItself(a) == ~autogen => phase[a] # "chatting" /\ a \notin consulted[a]

AgentInv(a) == Before(a) /\ Harmless(a) /\ NotItself(a)

ResolverInv == Typed /\ \A a \in Failing : AgentInv(a)

\* A step of the resolution of a
Apart(a) ==
  /\ UNCHANGED <<autogen, kind>>
  /\ \A b \in Failing \ {a} :
       /\ phase'[b] = phase[b] /\ reruns'[b] = reruns[b]
       /\ events'[b] = events[b] /\ consulted'[b] = consulted[b]

-----------------------------------------------------------------------------
\* What is known of one resolution is enough: the others' does not change.
LEMMA OneAtATime ==
  ASSUME ResolverInv, NEW a \in Failing, Typed', Apart(a), AgentInv(a)'
  PROVE  ResolverInv'
<1>1. ASSUME NEW b \in Failing, b # a PROVE AgentInv(b)'
  BY <1>1 DEF ResolverInv, Apart, AgentInv, Before, Published, Harmless, NotItself
<1> QED
  BY <1>1 DEF ResolverInv

\* The invariant gives the three properties.
LEMMA InvSound == ASSUME ResolverInv PROVE ResolutionSound
<1> USE DEF ResolverInv, AgentInv
<1>1. OneEnding
  BY DEF OneEnding, Before, Published, Typed, Phases, Waits
<1>2. HarmLeftToPeople
  BY DEF HarmLeftToPeople, Harmless, Before
<1>3. AsksOthers
  BY DEF AsksOthers, NotItself
<1> QED
  BY <1>1, <1>2, <1>3 DEF ResolutionSound

\* The evaluator leaves a guarded action to a person, and does not suggest colleagues
\* or the CEO for one of high impact, whatever the error and the experience with it.
LEMMA SuggestedFor ==
  ASSUME NEW k \in Kinds, NEW e \in Errors, NEW n \in Nat
  PROVE  /\ k = "guarded" => Suggested(k, e, n) = "human"
         /\ k = "high_impact" => Suggested(k, e, n) \in {"self", "human"}
         /\ Suggested(k, e, n) \in Paths
<1> DEFINE s == SelfSolve(e, n)
           peer == PeerNeeded(e, s)
<1>1. s.confidence \in Nat /\ (s.confidence >= 80 => s.can)
  <2>1. CASE n >= 2
    BY <2>1 DEF SelfSolve
  <2>2. CASE n < 2 /\ e.passing
    BY <2>2 DEF SelfSolve, Errors, AtMost
  <2>3. CASE n < 2 /\ ~e.passing /\ e.fitting
    BY <2>3 DEF SelfSolve, Errors, AtMost
  <2>4. CASE n < 2 /\ ~e.passing /\ ~e.fitting
    <3>1. s = [can |-> FALSE, confidence |-> AtMost(30 + e.boost, 50)]
      BY <2>4 DEF SelfSolve
    <3> QED
      BY <3>1 DEF Errors, AtMost
  <2> QED
    BY <2>1, <2>2, <2>3, <2>4
<1> HIDE DEF s, peer
<1>2. k = "guarded" => DecidePath(k, s, peer, n) = "human"
  BY DEF DecidePath
<1>3. k = "high_impact" => DecidePath(k, s, peer, n) \in {"self", "human"}
  BY <1>1 DEF DecidePath
<1>4. DecidePath(k, s, peer, n) \in Paths
  BY <1>1 DEF DecidePath, Paths
<1> QED
  BY <1>2, <1>3, <1>4 DEF Suggested, s, peer

\* An escalation publishes one event and goes on to the CEO.
LEMMA Escalated ==
  ASSUME Typed, NEW a \in Failing, Escalate(a)
  PROVE  /\ phase' \in [Failing -> Phases] /\ peers' \in [Failing -> SUBSET Registered]
         /\ events' \in [Failing -> [completed : Nat, human : Nat, escalated : Nat]]
         /\ phase'[a] = "with_ceo"
         /\ events'[a].completed = events[a].completed /\ events'[a].human = events[a].human
         /\ events'[a].escalated = events[a].escalated + 1
         /\ \A b \in Failing \ {a} : phase'[b] = phase[b] /\ events'[b] = events[b]
<1>0. events' = [events EXCEPT ![a] = [events[a] EXCEPT !.escalated = events[a].escalated + 1]]
  BY DEF Escalate
<1>a. events[a] \in [completed : Nat, human : Nat, escalated : Nat]
  BY DEF Typed
<1>b. [events[a] EXCEPT !.escalated = events[a].escalated + 1] =
        [completed |-> events[a].completed, human |-> events[a].human,
         escalated |-> events[a].escalated + 1]
  BY <1>a
<1>1. events' = [events EXCEPT ![a] = [completed |-> events[a].completed,
                   human |-> events[a].human, escalated |-> events[a].escalated + 1]]
  BY <1>0, <1>b
<1>2. events' \in [Failing -> [completed : Nat, human : Nat, escalated : Nat]]
  BY <1>1 DEF Typed
<1> QED
  BY <1>1, <1>2 DEF Escalate, Typed, Phases

\* Peers are asked, or there are none.
LEMMA Asked ==
  ASSUME Typed, NEW a \in Failing, NEW own \in SUBSET Registered, NEW all \in SUBSET Registered,
         AskAmong(a, own, all)
  PROVE  /\ phase' \in [Failing -> Phases] /\ peers' \in [Failing -> SUBSET Registered]
         /\ events' \in [Failing -> [completed : Nat, human : Nat, escalated : Nat]]
         /\ consulted' \in [Failing -> SUBSET Registered]
         /\ consulted'[a] \subseteq consulted[a] \cup all
         /\ \/ phase'[a] = "asking" /\ events' = events
            \/ /\ phase'[a] = "with_ceo"
               /\ events'[a].completed = events[a].completed /\ events'[a].human = events[a].human
               /\ events'[a].escalated = events[a].escalated + 1
         /\ \A b \in Failing \ {a} :
              phase'[b] = phase[b] /\ events'[b] = events[b] /\ consulted'[b] = consulted[b]
<1>1. PICK s \in Selections(all) :
        /\ consulted' = [consulted EXCEPT ![a] = @ \cup s]
        /\ IF s = {} THEN Escalate(a)
           ELSE /\ phase' = [phase EXCEPT ![a] = "asking"]
                /\ peers' = [peers EXCEPT ![a] = own]
                /\ asked' = [asked EXCEPT ![a] = s]
                /\ UNCHANGED <<advised, events>>
  BY DEF AskAmong
<1>2. s \subseteq all
  BY DEF Selections
<1>3. /\ consulted' \in [Failing -> SUBSET Registered]
      /\ consulted'[a] \subseteq consulted[a] \cup all
      /\ \A b \in Failing \ {a} : consulted'[b] = consulted[b]
  BY <1>1, <1>2 DEF Typed
<1>4. CASE s = {}
  BY <1>1, <1>3, <1>4, Escalated
<1>5. CASE s # {}
  <2>1. /\ phase' = [phase EXCEPT ![a] = "asking"] /\ peers' = [peers EXCEPT ![a] = own]
        /\ events' = events
    BY <1>1, <1>5
  <2>2. phase \in [Failing -> Phases] /\ peers \in [Failing -> SUBSET Registered]
    BY DEF Typed
  <2>3. "asking" \in Phases
    BY DEF Phases, Waits
  <2>4. /\ phase' \in [Failing -> Phases] /\ phase'[a] = "asking"
        /\ \A b \in Failing \ {a} : phase'[b] = phase[b]
    BY <2>1, <2>2, <2>3
  <2>5. peers' \in [Failing -> SUBSET Registered]
    BY <2>1, <2>2
  <2>6. events' \in [Failing -> [completed : Nat, human : Nat, escalated : Nat]]
    BY <2>1 DEF Typed
  <2> QED
    BY <1>3, <2>1, <2>4, <2>5, <2>6
<1> QED
  BY <1>4, <1>5

\* A discussion is among others, or waits for AutoGen's chat.
LEMMA Discussed ==
  ASSUME Typed, NEW a \in Failing, Discuss(a)
  PROVE  /\ shared' \in SUBSET Registered
         /\ phase' \in [Failing -> Phases] /\ peers' \in [Failing -> SUBSET Registered]
         /\ events' \in [Failing -> [completed : Nat, human : Nat, escalated : Nat]]
         /\ consulted' \in [Failing -> SUBSET Registered]
         /\ a \in consulted'[a] => a \in consulted[a]
         /\ \/ phase'[a] = "chatting" /\ autogen /\ events' = events
            \/ phase'[a] = "asking" /\ events' = events
            \/ /\ phase'[a] = "with_ceo"
               /\ events'[a].completed = events[a].completed /\ events'[a].human = events[a].human
               /\ events'[a].escalated = events[a].escalated + 1
         /\ \A b \in Failing \ {a} :
              phase'[b] = phase[b] /\ events'[b] = events[b] /\ consulted'[b] = consulted[b]
<1>1. PICK made \in SUBSET (Registered \ {a}) :
        /\ shared' = made
        /\ IF autogen THEN StartChat(a, made) ELSE AskAmong(a, made, shared' \cup made)
  BY DEF Discuss, DefaultPeers, RegisterPeers
<1>2. made \in SUBSET Registered /\ shared' \in SUBSET Registered
  BY <1>1
<1>3. CASE autogen
  <2>1. StartChat(a, made)
    BY <1>1, <1>3
  <2>2. events' = events /\ consulted' = consulted
    BY <2>1 DEF StartChat
  <2>3. phase' \in [Failing -> Phases] /\ phase'[a] = "chatting"
        /\ \A b \in Failing \ {a} : phase'[b] = phase[b]
    BY <2>1 DEF StartChat, Typed, Phases, Waits
  <2>4. peers' \in [Failing -> SUBSET Registered]
    BY <1>2, <2>1 DEF StartChat, Typed
  <2>5. /\ events' \in [Failing -> [completed : Nat, human : Nat, escalated : Nat]]
        /\ consulted' \in [Failing -> SUBSET Registered]
    BY <2>2 DEF Typed
  <2> QED
    BY <1>2, <1>3, <2>2, <2>3, <2>4, <2>5
<1>4. CASE ~autogen
  <2>1. /\ shared' \cup made \in SUBSET Registered
        /\ AskAmong(a, made, shared' \cup made) /\ a \notin shared' \cup made
    BY <1>1, <1>4
  <2>2. a \in consulted'[a] => a \in consulted[a]
    BY <1>2, <2>1, Asked
  <2> QED
    BY <1>2, <2>1, <2>2, Asked
<1> QED
  BY <1>3, <1>4

\* The work is done again: an output, or an escalation.
LEMMA Reran ==
  ASSUME Typed, NEW a \in Failing, Rerun(a)
  PROVE  /\ phase' \in [Failing -> Phases] /\ peers' \in [Failing -> SUBSET Registered]
         /\ events' \in [Failing -> [completed : Nat, human : Nat, escalated : Nat]]
         /\ events'[a].human = events[a].human
         /\ \/ /\ phase'[a] = "succeeded"
               /\ events'[a].completed = events[a].completed + 1
               /\ events'[a].escalated = events[a].escalated
            \/ /\ phase'[a] = "with_ceo"
               /\ events'[a].completed = events[a].completed
               /\ events'[a].escalated = events[a].escalated + 1
         /\ \A b \in Failing \ {a} : phase'[b] = phase[b] /\ events'[b] = events[b]
<1>1. CASE Escalate(a)
  BY <1>1, Escalated
<1>2. CASE ~Escalate(a)
  <2>1. events' = [events EXCEPT ![a] = [completed |-> events[a].completed + 1,
                     human |-> events[a].human, escalated |-> events[a].escalated]]
    BY <1>2 DEF Rerun, Typed
  <2>2. events' \in [Failing -> [completed : Nat, human : Nat, escalated : Nat]]
    BY <2>1 DEF Typed
  <2> QED
    BY <1>2, <2>1, <2>2 DEF Rerun, Typed, Phases
<1> QED
  BY <1>1, <1>2

\* One more call of do_work on the path, all else of the record as it was
LEMMA Counted ==
  ASSUME Typed, NEW a \in Failing,
         \/ reruns' = [reruns EXCEPT ![a].self = @ + 1]
         \/ reruns' = [reruns EXCEPT ![a].peer = @ + 1]
  PROVE  /\ reruns' \in [Failing -> [self : Nat, peer : Nat]]
         /\ reruns' = [reruns EXCEPT ![a].self = @ + 1] =>
              reruns'[a].self = reruns[a].self + 1 /\ reruns'[a].peer = reruns[a].peer
         /\ reruns' = [reruns EXCEPT ![a].peer = @ + 1] =>
              reruns'[a].peer = reruns[a].peer + 1 /\ reruns'[a].self = reruns[a].self
         /\ \A b \in Failing \ {a} : reruns'[b] = reruns[b]
<1>1. reruns[a] \in [self : Nat, peer : Nat]
  BY DEF Typed
<1>2. ASSUME reruns' = [reruns EXCEPT ![a].self = @ + 1]
      PROVE  reruns' = [reruns EXCEPT ![a] = [self |-> reruns[a].self + 1, peer |-> reruns[a].peer]]
  <2>1. reruns' = [reruns EXCEPT ![a] = [reruns[a] EXCEPT !.self = reruns[a].self + 1]]
    BY <1>2
  <2>2. [reruns[a] EXCEPT !.self = reruns[a].self + 1] =
          [self |-> reruns[a].self + 1, peer |-> reruns[a].peer]
    BY <1>1
  <2> QED
    BY <2>1, <2>2
<1>3. ASSUME reruns' = [reruns EXCEPT ![a].peer = @ + 1]
      PROVE  reruns' = [reruns EXCEPT ![a] = [self |-> reruns[a].self, peer |-> reruns[a].peer + 1]]
  <2>1. reruns' = [reruns EXCEPT ![a] = [reruns[a] EXCEPT !.peer = reruns[a].peer + 1]]
    BY <1>3
  <2>2. [reruns[a] EXCEPT !.peer = reruns[a].peer + 1] =
          [self |-> reruns[a].self, peer |-> reruns[a].peer + 1]
    BY <1>1
  <2> QED
    BY <2>1, <2>2
<1>a. ASSUME NEW k \in Nat, NEW l \in Nat, reruns' = [reruns EXCEPT ![a] = [self |-> k, peer |-> l]]
      PROVE  /\ reruns' \in [Failing -> [self : Nat, peer : Nat]]
             /\ reruns'[a].self = k /\ reruns'[a].peer = l
             /\ \A b \in Failing \ {a} : reruns'[b] = reruns[b]
  <2>1. reruns \in [Failing -> [self : Nat, peer : Nat]]
    BY DEF Typed
  <2>2. PICK c \in [self : Nat, peer : Nat] : c = [self |-> k, peer |-> l]
    OBVIOUS
  <2>3. reruns' = [reruns EXCEPT ![a] = c]
    BY <1>a, <2>2
  <2>4. /\ reruns' \in [Failing -> [self : Nat, peer : Nat]] /\ reruns'[a] = c
        /\ \A b \in Failing \ {a} : reruns'[b] = reruns[b]
    BY <2>1, <2>3
  <2> QED
    BY ONLY <2>2, <2>4
<1>b. reruns[a].self \in Nat /\ reruns[a].peer \in Nat
  BY <1>1
<1>c. reruns[a].self + 1 \in Nat /\ reruns[a].peer + 1 \in Nat
  BY <1>b
<1>4. CASE reruns' = [reruns EXCEPT ![a].self = @ + 1]
  <2>1. /\ reruns' \in [Failing -> [self : Nat, peer : Nat]]
        /\ reruns'[a].self = reruns[a].self + 1 /\ reruns'[a].peer = reruns[a].peer
        /\ \A b \in Failing \ {a} : reruns'[b] = reruns[b]
    BY <1>2, <1>4, <1>a, <1>b, <1>c
  <2>2. reruns' # [reruns EXCEPT ![a].peer = @ + 1]
    <3>1. ASSUME reruns' = [reruns EXCEPT ![a].peer = @ + 1] PROVE FALSE
      <4>1. reruns'[a].peer = reruns[a].peer + 1
        BY <1>3, <1>a, <1>b, <1>c, <3>1
      <4> QED
        BY ONLY <1>b, <2>1, <4>1
    <3> QED
      BY <3>1
  <2> QED
    BY <2>1, <2>2
<1>5. CASE reruns' = [reruns EXCEPT ![a].peer = @ + 1]
  <2>1. /\ reruns' \in [Failing -> [self : Nat, peer : Nat]]
        /\ reruns'[a].self = reruns[a].self /\ reruns'[a].peer = reruns[a].peer + 1
        /\ \A b \in Failing \ {a} : reruns'[b] = reruns[b]
    BY <1>3, <1>5, <1>a, <1>b, <1>c
  <2>2. reruns' # [reruns EXCEPT ![a].self = @ + 1]
    <3>1. ASSUME reruns' = [reruns EXCEPT ![a].self = @ + 1] PROVE FALSE
      <4>1. reruns'[a].self = reruns[a].self + 1
        BY <1>2, <1>a, <1>b, <1>c, <3>1
      <4> QED
        BY ONLY <1>b, <2>1, <4>1
    <3> QED
      BY <3>1
  <2> QED
    BY <2>1, <2>2
<1> QED
  BY <1>4, <1>5

-----------------------------------------------------------------------------
\* The path suggested for a failure, by the kind of its action
LEMMA ResolveKeeps ==
  ASSUME ResolverInv, NEW a \in Failing, NEW e \in Errors, NEW n \in 0..MaxTries,
         Resolve(a, e, n)
  PROVE  ResolverInv'
<1> DEFINE path == Suggested(kind[a], e, n)
<1>a. n \in Nat /\ kind[a] \in Kinds /\ phase[a] = "working"
  BY ResolverAssumption DEF ResolverInv, Typed, Resolve
<1>b. /\ kind[a] = "guarded" => path = "human"
      /\ kind[a] = "high_impact" => path \in {"self", "human"}
      /\ path \in Paths
  BY <1>a, SuggestedFor
<1>c. /\ Take(a, path) /\ UNCHANGED <<autogen, kind, reruns>>
      /\ tries' \in [Failing -> Nat]
  BY <1>a DEF Resolve, ResolverInv, Typed
<1> HIDE DEF path
<1>0. AgentInv(a) /\ Typed /\ Before(a) /\ Published(a, 0, 0, 0)
  BY <1>a DEF ResolverInv, AgentInv, Before
<1>1. CASE path = "self"
  <2>1. /\ phase' = [phase EXCEPT ![a] = "retrying"]
        /\ UNCHANGED <<shared, peers, asked, advised, consulted, events>>
    BY <1>c, <1>1 DEF Take
  <2>2. Typed' /\ Apart(a)
    BY <1>0, <1>c, <2>1 DEF Typed, Phases, Waits, Apart
  <2>3. AgentInv(a)'
    BY <1>0, <1>a, <1>b, <1>c, <1>1, <2>1
       DEF Typed, AgentInv, Before, Published, Harmless, NotItself, Waits
  <2> QED
    BY <2>2, <2>3, OneAtATime
<1>2. CASE path = "peer"
  <2>1. Discuss(a)
    BY <1>c, <1>2 DEF Take
  <2>2. Typed' /\ Apart(a)
    BY <1>0, <1>c, <2>1, Discussed DEF Typed, Apart
  <2>3. kind[a] = "normal"
    BY <1>a, <1>b, <1>2 DEF Kinds
  <2>4. AgentInv(a)'
    BY <1>0, <1>a, <1>c, <2>1, <2>3, Discussed
       DEF Typed, AgentInv, Before, Published, Harmless, NotItself, Waits
  <2> QED
    BY <2>2, <2>4, OneAtATime
<1>3. CASE path = "human"
  <2>1. /\ phase' = [phase EXCEPT ![a] = "failed"]
        /\ events' = [events EXCEPT ![a] = [completed |-> events[a].completed,
                        human |-> events[a].human + 1, escalated |-> events[a].escalated]]
        /\ UNCHANGED <<shared, peers, asked, advised, consulted>>
    BY <1>0, <1>c, <1>3 DEF Take, Typed
  <2>2. events' \in [Failing -> [completed : Nat, human : Nat, escalated : Nat]]
    BY <1>0, <2>1 DEF Typed
  <2>3. Typed' /\ Apart(a)
    BY <1>0, <1>c, <2>1, <2>2 DEF Typed, Phases, Apart
  <2>4. AgentInv(a)'
    BY <1>0, <1>a, <1>c, <2>1
       DEF Typed, AgentInv, Before, Published, Harmless, NotItself, Waits
  <2> QED
    BY <2>3, <2>4, OneAtATime
<1>4. CASE path = "escalate"
  <2>1. Escalate(a) /\ UNCHANGED <<shared, consulted>>
    BY <1>c, <1>4 DEF Take
  <2>2. Typed' /\ Apart(a)
    BY <1>0, <1>c, <2>1, Escalated DEF Typed, Apart
  <2>3. AgentInv(a)'
    BY <1>0, <1>a, <1>b, <1>c, <1>4, <2>1, Escalated
       DEF Typed, AgentInv, Before, Published, Harmless, NotItself, Waits
  <2> QED
    BY <2>2, <2>3, OneAtATime
<1> QED
  BY <1>b, <1>1, <1>2, <1>3, <1>4 DEF Paths

\* Another try of the agent by itself ends.
LEMMA RetryEndsKeeps ==
  ASSUME ResolverInv, NEW a \in Failing, NEW e \in Errors, RetryEnds(a, e)
  PROVE  ResolverInv'
<1>1. Typed /\ AgentInv(a) /\ Rerun(a) /\ phase[a] = "retrying"
  BY DEF ResolverInv, RetryEnds
<1>2. /\ reruns' = [reruns EXCEPT ![a].self = @ + 1] /\ tries' \in [Failing -> Nat]
      /\ UNCHANGED <<autogen, shared, kind, consulted>>
  BY <1>1 DEF RetryEnds, Typed
<1>3. Typed' /\ Apart(a)
  BY <1>1, <1>2, Reran, Counted DEF Typed, Apart
<1>4. AgentInv(a)'
  BY <1>1, <1>2, Reran, Counted
     DEF Typed, AgentInv, Before, Published, Harmless, NotItself, Waits
<1> QED
  BY <1>3, <1>4, OneAtATime

\* It failed, and peers are suggested then: its action is a normal one.
LEMMA RetryAsksKeeps ==
  ASSUME ResolverInv, NEW a \in Failing, NEW e \in Errors, RetryAsks(a, e)
  PROVE  ResolverInv'
<1>1. Typed /\ AgentInv(a) /\ Discuss(a) /\ phase[a] = "retrying"
  BY DEF ResolverInv, RetryAsks
<1>2. /\ reruns' = [reruns EXCEPT ![a].self = @ + 1] /\ tries' \in [Failing -> Nat]
      /\ UNCHANGED <<autogen, kind>>
  BY <1>1 DEF RetryAsks, Typed
<1>3. kind[a] = "normal"
  <2>1. kind[a] \in Kinds /\ tries[a] + 1 \in Nat
    BY <1>1 DEF Typed
  <2> QED
    BY <2>1, SuggestedFor DEF RetryAsks, Kinds
<1>4. Typed' /\ Apart(a)
  BY <1>1, <1>2, Discussed, Counted DEF Typed, Apart
<1>5. AgentInv(a)'
  BY <1>1, <1>2, <1>3, Discussed, Counted
     DEF Typed, AgentInv, Before, Published, Harmless, NotItself, Waits
<1> QED
  BY <1>4, <1>5, OneAtATime

\* The discussion after AutoGen's chat
LEMMA ChatKeeps ==
  ASSUME ResolverInv, NEW a \in Failing, ChatEnds(a) PROVE ResolverInv'
<1>1. Typed /\ AgentInv(a) /\ phase[a] = "chatting" /\ AskAmong(a, peers[a], shared \cup peers[a])
  BY DEF ResolverInv, ChatEnds
<1>2. UNCHANGED <<autogen, shared, kind, tries, reruns>>
  BY DEF ChatEnds
<1>3. peers[a] \in SUBSET Registered /\ shared \cup peers[a] \in SUBSET Registered
  BY <1>1 DEF Typed
<1>4. Typed' /\ Apart(a)
  BY <1>1, <1>2, <1>3, Asked DEF Typed, Apart
<1>5. kind[a] = "normal" /\ autogen
  BY <1>1 DEF Typed, AgentInv, Harmless, NotItself, Kinds
<1>6. /\ \/ phase'[a] = "asking" /\ events' = events
         \/ /\ phase'[a] = "with_ceo"
            /\ events'[a].completed = events[a].completed /\ events'[a].human = events[a].human
            /\ events'[a].escalated = events[a].escalated + 1
      /\ kind'[a] = "normal" /\ autogen' /\ reruns' = reruns
  BY <1>1, <1>2, <1>3, <1>5, Asked
<1>7. Published(a, 0, 0, 0) /\ Before(a)
  BY <1>1 DEF AgentInv, Before, Waits
<1>8. Harmless(a)' /\ NotItself(a)'
  BY <1>6 DEF Harmless, NotItself
<1>9. Before(a)'
  BY <1>1, <1>6, <1>7 DEF Before, Published, Waits
<1> QED
  BY <1>4, <1>8, <1>9, OneAtATime DEF AgentInv

\* An answer of a peer, or none in time
LEMMA AnswerKeeps ==
  ASSUME ResolverInv, NEW a \in Failing,
         DiscussionTimesOut(a) \/ \E p \in Registered, usable \in BOOLEAN : PeerAnswers(a, p, usable)
  PROVE  ResolverInv'
<1>1. Typed /\ AgentInv(a) /\ phase[a] = "asking"
  BY DEF ResolverInv, DiscussionTimesOut, PeerAnswers
<1>2. UNCHANGED <<autogen, shared, kind, tries, reruns, consulted>>
  BY DEF DiscussionTimesOut, PeerAnswers
<1>3. CASE Escalate(a)
  <2>1. Typed' /\ Apart(a)
    BY <1>1, <1>2, <1>3, Escalated DEF Typed, Apart
  <2>2. AgentInv(a)'
    BY <1>1, <1>2, <1>3, Escalated
       DEF Typed, AgentInv, Before, Published, Harmless, NotItself, Waits
  <2> QED
    BY <2>1, <2>2, OneAtATime
<1>4. CASE ~Escalate(a)
  <2>1. /\ \/ phase' = [phase EXCEPT ![a] = "applying"]
           \/ phase' = [phase EXCEPT ![a] = "asking"]
        /\ UNCHANGED <<peers, events>>
    BY <1>4 DEF DiscussionTimesOut, PeerAnswers
  <2>2. Typed' /\ Apart(a)
    BY <1>1, <1>2, <2>1 DEF Typed, Phases, Waits, Apart
  <2>3. AgentInv(a)'
    BY <1>1, <1>2, <2>1
       DEF Typed, AgentInv, Before, Published, Harmless, NotItself, Waits
  <2> QED
    BY <2>2, <2>3, OneAtATime
<1> QED
  BY <1>3, <1>4

\* The work is done on advice.
LEMMA AdviceKeeps ==
  ASSUME ResolverInv, NEW a \in Failing, ApplyAdvice(a) PROVE ResolverInv'
<1>1. Typed /\ AgentInv(a) /\ Rerun(a) /\ phase[a] = "applying"
  BY DEF ResolverInv, ApplyAdvice
<1>2. /\ reruns' = [reruns EXCEPT ![a].peer = @ + 1]
      /\ UNCHANGED <<autogen, shared, kind, tries, consulted>>
  BY DEF ApplyAdvice
<1>3. Typed' /\ Apart(a)
  BY <1>1, <1>2, Reran, Counted DEF Typed, Apart
<1>4. /\ kind[a] = "normal" /\ Published(a, 0, 0, 0)
      /\ reruns[a].self <= 1 /\ reruns[a].peer = 0 /\ (~autogen => a \notin consulted[a])
  BY <1>1 DEF Typed, AgentInv, Before, Harmless, NotItself, Kinds, Waits
<1>5. \/ phase'[a] = "succeeded" /\ Published(a, 1, 0, 0)'
      \/ phase'[a] = "with_ceo" /\ Published(a, 0, 0, 1)'
  BY <1>1, <1>4, Reran DEF Published
<1>6. reruns'[a].self <= 1 /\ reruns'[a].peer = 1
  BY <1>1, <1>2, <1>4, Counted DEF Typed
<1>7. AgentInv(a)'
  BY <1>2, <1>4, <1>5, <1>6 DEF AgentInv, Before, Harmless, NotItself, Waits
<1> QED
  BY <1>3, <1>7, OneAtATime

\* The CEO's decision ends a resolution that published its escalation.
LEMMA CeoKeeps ==
  ASSUME ResolverInv, NEW a \in Failing, CeoDecides(a) PROVE ResolverInv'
<1>1. Typed /\ AgentInv(a) /\ phase[a] = "with_ceo"
  BY DEF ResolverInv, CeoDecides
<1>2. Typed' /\ Apart(a)
  BY <1>1 DEF CeoDecides, Typed, Phases, Apart
<1>3. AgentInv(a)'
  BY <1>1 DEF CeoDecides, Typed, AgentInv, Before, Published, Harmless, NotItself, Waits
<1> QED
  BY <1>2, <1>3, OneAtATime

\* At the start nothing is published, run again or asked.
LEMMA ResolverBegins == ASSUME ResolverInit PROVE ResolverInv
<1>1. Typed
  BY DEF ResolverInit, Typed, Phases
<1>2. ASSUME NEW a \in Failing PROVE AgentInv(a)
  BY DEF ResolverInit, AgentInv, Before, Published, Harmless, NotItself, Waits
<1> QED
  BY <1>1, <1>2 DEF ResolverInv

-----------------------------------------------------------------------------
\* Every resolution has at most one ending, runs the work at most twice more, leaves
\* dangerous actions to people and asks others than the agent that failed.
THEOREM ResolverSound == ResolverSpec => []ResolutionSound
<1>1. ASSUME ResolverInv, ResolverNext PROVE ResolverInv'
  <2>1. PICK a \in Failing : ResolverStep(a)
    BY <1>1 DEF ResolverNext
  <2> QED
    BY <1>1, <2>1, ResolveKeeps, RetryEndsKeeps, RetryAsksKeeps, ChatKeeps, AnswerKeeps,
       AdviceKeeps, CeoKeeps DEF ResolverStep
<1>2. ASSUME ResolverInv, UNCHANGED resolverVars PROVE ResolverInv'
  BY <1>2 DEF resolverVars, ResolverInv, Typed, AgentInv, Before, Published, Harmless, NotItself
<1> QED
  BY <1>1, <1>2, ResolverBegins, InvSound, PTL DEF ResolverSpec

------------------------------------------------------------------------------
(*****************************************************************************)
(* LLMRouter, for any limits on retries, turns and the context.              *)
(*                                                                           *)
(* Truncate is a recursion over the positions of the messages.  It is resolved *)
(* by two facts about numbers: where the loop stops is the least position from *)
(* which everything fits, and the messages from there on are the longest run of *)
(* the newest that fits.  The invariant counts requests without an answer by *)
(* turn and attempt.                                                         *)
(*****************************************************************************)

\* A set of numbers has a least one.
LEMMA LeastOf == ASSUME NEW S \in SUBSET Nat, S # {} PROVE \E m \in S : \A k \in S : m <= k
<1> DEFINE R == OpToRel(<, Nat)
<1>1. IsWellFoundedOn(R, Nat)
  BY NatLessThanWellFounded
<1>2. PICK m \in S : \A y \in S : ~ (<<y, m>> \in R)
  BY <1>1, WFMin
<1>3. \A y \in S : ~ (y < m)
  BY <1>2 DEF OpToRel
<1> QED
  BY <1>3

\* A set with zero and every next number has all of them.
LEMMA StepByStep == ASSUME NEW S \in SUBSET Nat, 0 \in S, \A n \in S : n + 1 \in S PROVE S = Nat
<1> SUFFICES ASSUME S # Nat PROVE FALSE
  OBVIOUS
<1>2. PICK m \in Nat \ S : \A k \in Nat \ S : m <= k
  BY LeastOf
<1>3. m # 0 /\ m - 1 \in Nat
  BY <1>2
<1>4. m - 1 \in S
  BY <1>2, <1>3
<1> QED
  BY <1>4, <1>2, <1>3

\* dropped[k] is the first place from k on where the loop stops
LEMMA LoopStops ==
  ASSUME NEW n \in Nat, NEW F \in SUBSET (0..n), n \in F,
         NEW d, d = CHOOSE e : e = [k \in 0..n |-> IF k \in F THEN k ELSE e[k + 1]]
  PROVE  \A k \in 0..n : d[k] \in k..n /\ d[k] \in F /\ \A j \in k..(d[k] - 1) : j \notin F
<1> DEFINE First(k, m) == m \in k..n /\ m \in F /\ \A j \in k..(m - 1) : j \notin F
           g == [k \in 0..n |-> CHOOSE m \in k..n : First(k, m)]
<1>1. ASSUME NEW k \in 0..n PROVE \E m \in k..n : First(k, m)
  <2>1. PICK m \in {j \in F : j >= k} : \A j \in {j \in F : j >= k} : m <= j
    <3> DEFINE T == {j \in F : j >= k}
    <3>1. n \in T
      OBVIOUS
    <3>2. T \in SUBSET Nat
      <4>1. \A x \in F : x \in Nat
        OBVIOUS
      <4>2. \A x \in T : x \in Nat
        BY <4>1
      <4> HIDE DEF T
      <4> QED BY <4>2
    <3> HIDE DEF T
    <3>3. \E m \in T : \A j \in T : m <= j
      BY <3>1, <3>2, LeastOf
    <3> QED
      BY <3>3 DEF T
  <2>2. m \in k..n /\ First(k, m)
    BY <2>1
  <2> QED
    BY <2>2
<1>2. ASSUME NEW k \in 0..n, NEW m, NEW l, First(k, m), First(k, l) PROVE m = l
  <2>1. m \in Int /\ l \in Int /\ m >= k /\ l >= k
    BY <1>2
  <2>2. ~ (m < l)
    BY <1>2, <2>1
  <2>3. ~ (l < m)
    BY <1>2, <2>1
  <2> QED
    BY <2>1, <2>2, <2>3
<1>3. \A k \in 0..n : First(k, g[k])
  BY <1>1
<1>4. ASSUME NEW k \in 0..n PROVE g[k] = IF k \in F THEN k ELSE g[k + 1]
  <2>1. CASE k \in F
    <3>1. First(k, k)
      BY <2>1
    <3> QED
      BY <1>2, <1>3, <2>1, <3>1
  <2>2. CASE k \notin F
    <3>1. k + 1 \in 0..n
      BY <2>2
    <3>2. First(k + 1, g[k + 1])
      BY <1>3, <3>1
    <3> HIDE DEF g
    <3>3. First(k, g[k + 1])
      BY <2>2, <3>1, <3>2
    <3> QED
      BY <1>2, <1>3, <2>2, <3>3
  <2> QED BY <2>1, <2>2
<1>5. g = [k \in 0..n |-> IF k \in F THEN k ELSE g[k + 1]]
  <2>1. g = [k \in 0..n |-> g[k]]
    OBVIOUS
  <2> HIDE DEF g
  <2> QED
    BY <1>4, <2>1
<1> HIDE DEF g
<1>6. d = [k \in 0..n |-> IF k \in F THEN k ELSE d[k + 1]]
  BY <1>5
<1>7. \A k \in 0..n : d[k] = IF k \in F THEN k ELSE d[k + 1]
  BY <1>6
<1> DEFINE S == {i \in Nat : i <= n => First(n - i, d[n - i])}
<1>8. 0 \in S
  <2>1. d[n] = n
    BY <1>7
  <2>2. First(n, n)
    OBVIOUS
  <2>3. n - 0 = n
    OBVIOUS
  <2>4. First(n - 0, d[n - 0])
    BY <2>1, <2>2, <2>3
  <2> QED
    BY <2>4
<1>9. ASSUME NEW i \in S PROVE i + 1 \in S
  <2> SUFFICES ASSUME i + 1 <= n PROVE First(n - (i + 1), d[n - (i + 1)])
    OBVIOUS
  <2> DEFINE k == n - (i + 1)
  <2>1. k \in 0..n /\ k + 1 \in 0..n /\ k + 1 = n - i /\ i <= n
    OBVIOUS
  <2>2. First(k + 1, d[k + 1])
    BY <2>1
  <2>3. CASE k \in F
    <3>1. d[k] = k
      BY <1>7, <2>1, <2>3
    <3>2. First(k, k)
      BY <2>1, <2>3
    <3> QED
      BY <3>1, <3>2
  <2>4. CASE k \notin F
    <3>1. d[k] = d[k + 1]
      BY <1>7, <2>1, <2>4
    <3>2. First(k, d[k + 1])
      <4> HIDE DEF k
      <4> QED
        BY <2>1, <2>2, <2>4
    <3> QED
      BY <3>1, <3>2
  <2> QED
    BY <2>3, <2>4
<1>10. S = Nat
  <2> HIDE DEF S
  <2>1. S \in SUBSET Nat
    BY DEF S
  <2> QED
    BY <1>8, <1>9, <2>1, StepByStep
<1> SUFFICES ASSUME NEW k \in 0..n PROVE First(k, d[k])
  OBVIOUS
<1>11. n - k \in Nat /\ n - k <= n /\ n - (n - k) = k
  OBVIOUS
<1>12. n - k \in S
  <2> HIDE DEF S
  <2> QED
    BY <1>10, <1>11
<1>13. First(n - (n - k), d[n - (n - k)])
  BY <1>11, <1>12
<1> QED
  BY <1>11, <1>13

\* The newest k messages, and the numbers of messages that fit
NewestOf(ms, k) == SubSeq(ms, Len(ms) - k + 1, Len(ms))
FittingOf(ms) == {k \in 0..Len(ms) : 1 + FoldSeq(+, 0, NewestOf(ms, k)) <= ContextLimit}

\* What the truncation leaves is the longest run of the newest that fits.
LEMMA TruncateKeeps ==
  ASSUME NEW ms \in Seq(Nat)
  PROVE  /\ Truncate(ms) = NewestOf(ms, IF FittingOf(ms) = {} THEN 0 ELSE Max(FittingOf(ms)))
         /\ Truncate(ms) \in Seq(Nat)
<1> DEFINE n == Len(ms)
           Fits(k) == 1 + FoldSeq(+, 0, SubSeq(ms, k + 1, Len(ms))) <= ContextLimit
           dropped[k \in 0..Len(ms)] == IF k = Len(ms) \/ Fits(k) THEN k ELSE dropped[k + 1]
           Room(k) == 1 + FoldSeq(+, 0, NewestOf(ms, k)) <= ContextLimit
           F == {k \in 0..n : k = n \/ Fits(k)}
<1>1. Truncate(ms) = SubSeq(ms, dropped[0] + 1, Len(ms))
  BY DEF Truncate
<1>2. dropped = CHOOSE e : e = [k \in 0..Len(ms) |-> IF k = Len(ms) \/ Fits(k) THEN k ELSE e[k + 1]]
  OBVIOUS
<1>3. n \in Nat
  OBVIOUS
<1>4. \A k \in 0..n : Fits(k) <=> Room(n - k)
  <2> SUFFICES ASSUME NEW k \in 0..n PROVE SubSeq(ms, k + 1, Len(ms)) = NewestOf(ms, n - k)
    OBVIOUS
  <2>1. Len(ms) - (n - k) + 1 = k + 1
    BY <1>3
  <2> QED
    BY <2>1 DEF NewestOf
<1>5. FittingOf(ms) = {k \in 0..n : Room(k)}
  BY DEF FittingOf
<1>6. dropped = CHOOSE e : e = [k \in 0..n |-> IF k \in F THEN k ELSE e[k + 1]]
  <2>1. \A e : [k \in 0..n |-> IF k \in F THEN k ELSE e[k + 1]]
                 = [k \in 0..Len(ms) |-> IF k = Len(ms) \/ Fits(k) THEN k ELSE e[k + 1]]
    <3> HIDE DEF Fits
    <3> QED
      OBVIOUS
  <2> QED
    BY <1>2, <2>1, Zenon
<1> HIDE DEF Fits, Room, dropped
<1>7. n \in F /\ F \in SUBSET (0..n)
  BY <1>3
<1> DEFINE k == dropped[0]
<1>8. k \in 0..n /\ k \in F /\ \A j \in 0..(k - 1) : j \notin F
  <2> HIDE DEF F, n
  <2>1. 0 \in 0..n
    BY <1>3
  <2> QED
    BY <1>3, <1>6, <1>7, <2>1, LoopStops
<1> HIDE DEF k
<1>9. Truncate(ms) = NewestOf(ms, n - k)
  <2>1. Len(ms) - (n - k) + 1 = k + 1
    BY <1>3, <1>8
  <2> QED
    BY <1>1, <2>1 DEF NewestOf, k
<1>10. n - k = IF FittingOf(ms) = {} THEN 0 ELSE Max(FittingOf(ms))
  <2> DEFINE R == FittingOf(ms)
  <2>1. \A j \in R : j \in 0..n /\ Room(j) /\ n - j \in 0..n /\ Fits(n - j) /\ n - (n - j) = j
    <3>1. \A j \in 0..n : n - j \in 0..n /\ n - (n - j) = j
      BY <1>3
    <3> HIDE DEF n
    <3> QED
      BY <1>4, <1>5, <3>1
  <2>2. \A j \in R : n - j \in F
    BY <2>1
  <2>3. \A j \in R : j \in 0..n /\ j <= n - k
    <3> SUFFICES ASSUME NEW j \in R PROVE j \in 0..n /\ j <= n - k
      OBVIOUS
    <3>1. j \in 0..n /\ n - j \in 0..n /\ n - j \in F
      BY <2>1, <2>2
    <3>2. ~(n - j <= k - 1)
      BY <1>8, <3>1
    <3> QED
      BY <1>3, <1>8, <3>1, <3>2
  <2>4. CASE R = {}
    <3>1. ~Fits(k)
      <4>1. n - k \notin R /\ n - k \in 0..n
        BY <1>3, <1>8, <2>4
      <4> QED
        BY <1>4, <1>5, <1>8, <4>1
    <3>2. k = n
      BY <1>8, <3>1
    <3> QED
      BY <1>3, <2>4, <3>2
  <2>5. CASE R # {}
    <3>1. n - k \in R
      <4>1. CASE Fits(k)
        BY <1>3, <1>4, <1>5, <1>8, <4>1
      <4>2. CASE k = n
        <5>1. PICK j \in R : TRUE
          BY <2>5
        <5>2. j = 0 /\ n - k = 0
          BY <1>3, <2>3, <4>2
        <5> QED
          BY <5>1, <5>2
      <4> QED
        BY <1>8, <4>1, <4>2
    <3>2. \A x \in R : (\A y \in R : x >= y) => x = n - k
      BY <1>3, <1>8, <2>3, <3>1
    <3>3. Max(R) \in R /\ \A y \in R : Max(R) >= y
      <4>1. \E x \in R : \A y \in R : x >= y
        BY <1>3, <1>8, <2>3, <3>1
      <4> QED
        BY <4>1 DEF Max
    <3>4. Max(R) = n - k
      BY <3>2, <3>3
    <3> QED
      BY <2>5, <3>4
  <2> QED
    BY <2>4, <2>5
<1>11. Truncate(ms) \in Seq(Nat)
  <2>1. k + 1 \in 1..n+1 /\ n \in 0..n
    BY <1>3, <1>8
  <2> QED
    BY <1>1, <2>1, SubSeqProperties DEF k
<1> QED
  BY <1>9, <1>10, <1>11

\* The values of the variables
CallPhases == {"none", "asking", "pausing", "tooling", "returned", "raised"}
Providers == {"none", "mock", "anthropic", "openai"}
CallSet == [phase : CallPhases, provider : Providers,
            turn : Nat, attempt : Nat, usage : Nat, requests : Nat, answers : Nat, tools : Nat,
            unseen : Nat, given : Seq(Nat), messages : Seq(Nat)]
Charged == RouterAgents \cup {"unknown"}

\* The typing
RouterTyped ==
  /\ call \in CallSet /\ agentContext \in Charged /\ calls \in Nat
  /\ charged \in [Charged -> Nat] /\ untold \in [Charged -> Nat] /\ answered \in [Charged -> Nat]

\* What an answer costs is charged at once or never, and more than that only by OpenAI
ChargedOnce ==
  /\ \A a \in Charged : charged[a] + untold[a] >= answered[a]
  /\ calls = 0 => call.provider = "none"
  /\ calls <= 1 /\ call.provider # "openai" =>
       \A a \in Charged : charged[a] + untold[a] = answered[a]

\* Requests that got no answer: at most the retries of each turn
Retries(c) == RetriesOf(c.provider)
Lost(c) == c.requests - c.answers
LostBounded(c) ==
  /\ c.phase \in {"none", "asking", "pausing"} =>
       c.attempt <= Retries(c) /\ Lost(c) <= Retries(c) * c.turn + c.attempt
  /\ c.phase \in {"tooling", "returned"} => Lost(c) <= Retries(c) * (c.turn + 1)
  /\ Lost(c) <= Retries(c) * (c.turn + 1) + 1

\* The results of the tools were seen, except those of the last turn.
ToolsSeen(c) ==
  /\ c.turn <= MaxToolTurns
  /\ c.phase = "tooling" => c.tools > 0
  /\ c.phase = "returned" /\ c.unseen > 0 => c.turn = MaxToolTurns

\* The messages of a call are what the truncation left of the given ones.
Cut(c) == c.provider = "anthropic" => c.messages = Truncate(c.given)

\* The invariant
RouterInv == RouterTyped /\ ChargedOnce /\ LostBounded(call) /\ ToolsSeen(call) /\ Cut(call)

\* The numbers of a call
LEMMA FieldsOf ==
  ASSUME NEW c \in CallSet
  PROVE  /\ c.turn \in Nat /\ c.attempt \in Nat /\ c.usage \in Nat /\ c.requests \in Nat
         /\ c.answers \in Nat /\ c.tools \in Nat /\ c.unseen \in Nat
         /\ Retries(c) \in Nat /\ Lost(c) \in Int
BY RouterAssumption DEF CallSet, Retries, RetriesOf, Lost

\* The retries of all turns, for the provers
LEMMA Products ==
  ASSUME NEW r \in Nat, NEW t \in Nat
  PROVE  r * t \in Nat /\ r * (t + 1) \in Nat /\ r * (t + 1) = r * t + r
OBVIOUS

\* A call at its start
Begun(c, ph, p, g, m) ==
  c = [NoCall EXCEPT !.phase = ph, !.provider = p, !.given = g, !.messages = m]

\* A call at its start is typed and has sent nothing.
LEMMA NoCallKept ==
  /\ NoCall \in CallSet
  /\ \A ph \in CallPhases, p \in Providers, g, m \in Seq(Nat) : \A c :
       Begun(c, ph, p, g, m) =>
         /\ c \in CallSet /\ c.phase = ph /\ c.provider = p /\ c.given = g /\ c.messages = m
         /\ LostBounded(c)
         /\ c.turn = 0 /\ c.unseen = 0
<1>1. <<>> \in Seq(Nat)
  OBVIOUS
<1>2. NoCall \in CallSet
  BY <1>1 DEF NoCall, CallSet, CallPhases, Providers
<1>3. ASSUME NEW ph \in CallPhases, NEW p \in Providers,
             NEW g \in Seq(Nat), NEW m \in Seq(Nat), NEW c, Begun(c, ph, p, g, m)
      PROVE  /\ c \in CallSet /\ c.phase = ph /\ c.provider = p /\ c.given = g /\ c.messages = m
             /\ LostBounded(c)
             /\ c.turn = 0 /\ c.unseen = 0
  <2>1. /\ c \in CallSet /\ c.phase = ph /\ c.provider = p /\ c.given = g /\ c.messages = m
        /\ c.turn = 0 /\ c.unseen = 0 /\ c.requests = 0 /\ c.answers = 0 /\ c.attempt = 0
    BY <1>2, <1>3 DEF NoCall, CallSet, Begun
  <2>2. Lost(c) = 0 /\ Retries(c) \in Nat
    BY <2>1, RouterAssumption DEF Lost, Retries, RetriesOf
  <2>3. Retries(c) * 0 \in Nat /\ Retries(c) * (0 + 1) \in Nat
    BY <2>2, Products
  <2>4. LostBounded(c)
    BY <2>1, <2>2, <2>3 DEF LostBounded
  <2> QED
    BY <2>1, <2>4
<1> QED
  BY <1>2, <1>3

\* LLMRouter() has made no call.
LEMMA RouterInitial == RouterInit => RouterInv
<1> SUFFICES ASSUME RouterInit PROVE RouterInv
  OBVIOUS
<1>1. /\ call = NoCall /\ agentContext = "unknown" /\ calls = 0
      /\ charged = [a \in Charged |-> 0] /\ answered = [a \in Charged |-> 0]
      /\ untold = [a \in Charged |-> 0]
  BY DEF RouterInit, Charged
<1>2. RouterTyped
  BY <1>1, NoCallKept DEF RouterTyped, Charged
<1>3. ChargedOnce
  BY <1>1 DEF ChargedOnce, NoCall
<1>4. /\ call.requests = 0 /\ call.answers = 0 /\ call.attempt = 0 /\ call.turn = 0
      /\ call.phase = "none" /\ call.provider = "none" /\ call.unseen = 0
  BY <1>1 DEF NoCall
<1>5. LostBounded(call)
  <2>1. Lost(call) = 0 /\ Retries(call) = 0
    BY <1>4 DEF Lost, Retries, RetriesOf
  <2> QED
    BY <1>4, <2>1 DEF LostBounded
<1>6. ToolsSeen(call) /\ Cut(call)
  BY <1>4, RouterAssumption DEF ToolsSeen, Cut
<1> QED
  BY <1>2, <1>3, <1>5, <1>6 DEF RouterInv

\* call_llm() truncates, names the agent and starts asking.
LEMMA CallLlmStep ==
  ASSUME RouterInv, NEW agent \in RouterAgents \cup {"unnamed"},
         NEW provider \in {"anthropic", "openai"}, NEW ms \in Conversations,
         CallLlm(agent, provider, ms)
  PROVE  RouterInv'
<1>1. ms \in Seq(Nat) /\ Truncate(ms) \in Seq(Nat)
  BY RouterAssumption, TruncateKeeps
<1>2. /\ calls' = calls + 1 /\ UNCHANGED <<charged, untold, answered>>
      /\ agentContext' \in {agentContext, agent} /\ (agent = "unnamed" => agentContext' = agentContext)
  BY DEF CallLlm, SetAgent
<1> DEFINE m == IF provider = "anthropic" THEN Truncate(ms) ELSE ms
<1>3. Begun(call', "asking", provider, ms, m)
  BY DEF CallLlm, Begun
<1>4. m \in Seq(Nat) /\ (provider = "anthropic" => m = Truncate(ms))
  BY <1>1
<1> HIDE DEF m
<1>5. /\ call' \in CallSet /\ call'.phase = "asking" /\ call'.provider = provider
      /\ call'.given = ms /\ call'.messages = m /\ LostBounded(call')
      /\ call'.turn = 0 /\ call'.unseen = 0
  BY <1>1, <1>3, <1>4, NoCallKept DEF CallPhases, Providers
<1>6. RouterTyped'
  BY <1>2, <1>5 DEF RouterInv, RouterTyped, Charged
<1>7. ChargedOnce'
  BY <1>2, <1>5 DEF RouterInv, RouterTyped, ChargedOnce
<1>8. ToolsSeen(call') /\ Cut(call')
  BY <1>4, <1>5, RouterAssumption DEF ToolsSeen, Cut
<1> QED
  BY <1>5, <1>6, <1>7, <1>8 DEF RouterInv

\* The mock answers at once and charges what it answers.
LEMMA CallMockStep ==
  ASSUME RouterInv, NEW agent \in RouterAgents \cup {"unnamed"}, CallMock(agent)
  PROVE  RouterInv'
<1>2. /\ calls' = calls + 1 /\ UNCHANGED <<charged, untold, answered>>
      /\ agentContext' \in {agentContext, agent} /\ (agent = "unnamed" => agentContext' = agentContext)
  BY DEF CallMock, SetAgent
<1>3. call' = [NoCall EXCEPT !.phase = "returned", !.provider = "mock"]
  BY DEF CallMock
<1>4. /\ call' \in CallSet /\ call'.phase = "returned" /\ call'.provider = "mock"
      /\ call'.turn = 0 /\ call'.unseen = 0 /\ call'.requests = 0 /\ call'.answers = 0
  <2>1. NoCall \in CallSet
    BY NoCallKept
  <2>2. /\ NoCall.turn = 0 /\ NoCall.unseen = 0 /\ NoCall.requests = 0 /\ NoCall.answers = 0
    BY DEF NoCall
  <2>3. PICK ph \in CallPhases, p \in Providers : ph = "returned" /\ p = "mock"
    BY DEF CallPhases, Providers
  <2>4. call' = [NoCall EXCEPT !.phase = ph, !.provider = p]
    BY <1>3, <2>3
  <2> QED
    BY <2>1, <2>2, <2>3, <2>4 DEF CallSet
<1>5. LostBounded(call')
  <2>1. Lost(call') = 0 /\ Retries(call') = 0
    BY <1>4 DEF Lost, Retries, RetriesOf
  <2> QED
    BY <1>4, <2>1 DEF LostBounded
<1>6. RouterTyped'
  BY <1>2, <1>4 DEF RouterInv, RouterTyped, Charged
<1>7. ChargedOnce'
  BY <1>2, <1>4 DEF RouterInv, RouterTyped, ChargedOnce
<1>8. ToolsSeen(call') /\ Cut(call')
  BY <1>4, RouterAssumption DEF ToolsSeen, Cut
<1> QED
  BY <1>5, <1>6, <1>7, <1>8 DEF RouterInv

\* An answer is recorded before its tools run or it is returned.
LEMMA ReceiveStep ==
  ASSUME RouterInv, NEW tokens \in Nat, NEW cache \in Nat, NEW tools \in Nat, NEW recorded \in Nat,
         recorded >= tokens, call.provider # "openai" => recorded = tokens,
         call.provider \in {"anthropic", "openai"}, call.phase = "asking",
         ReceiveAnswer(tokens, cache, tools, recorded)
  PROVE  RouterInv'
<1> DEFINE cost == tokens + cache
<1>0. cost \in Nat
  OBVIOUS
<1>1. /\ answered' = [answered EXCEPT ![agentContext] = @ + cost]
      /\ call' = [call EXCEPT !.usage = @ + cost, !.requests = @ + 1, !.answers = @ + 1,
                          !.tools = tools, !.unseen = 0,
                          !.phase = IF tools = 0 THEN "returned" ELSE "tooling"]
      /\ UNCHANGED <<agentContext, calls>>
  BY DEF ReceiveAnswer
<1>11. PICK told \in Nat, left \in Nat :
          /\ charged' = [charged EXCEPT ![agentContext] = @ + told]
          /\ untold' = [untold EXCEPT ![agentContext] = @ + left]
          /\ told + left >= cost
          /\ call.provider # "openai" => told + left = cost
  <2>1. agentContext \in Charged /\ charged \in [Charged -> Nat]
    BY DEF RouterInv, RouterTyped
  <2>2. CASE /\ charged' = [charged EXCEPT ![agentContext] = @ + recorded]
             /\ untold' = [untold EXCEPT ![agentContext] = @ + cache]
    <3>1. recorded + cache >= cost /\ (call.provider # "openai" => recorded + cache = cost)
      OBVIOUS
    <3> QED
      BY ONLY <2>2, <3>1, recorded \in Nat, cache \in Nat, Zenon
  <2>3. CASE /\ untold' = [untold EXCEPT ![agentContext] = @ + cost]
             /\ UNCHANGED charged
    <3>1. charged' = [charged EXCEPT ![agentContext] = @ + 0]
      BY <2>1, <2>3
    <3>2. 0 \in Nat /\ 0 + cost >= cost /\ (call.provider # "openai" => 0 + cost = cost)
      BY <1>0
    <3> QED
      BY ONLY <1>0, <2>3, <3>1, <3>2, Zenon
  <2>4. \/ /\ charged' = [charged EXCEPT ![agentContext] = @ + recorded]
           /\ untold' = [untold EXCEPT ![agentContext] = @ + cache]
        \/ /\ untold' = [untold EXCEPT ![agentContext] = @ + cost]
           /\ UNCHANGED charged
    BY DEF ReceiveAnswer
  <2> QED
    BY ONLY <2>2, <2>3, <2>4, Zenon
<1> HIDE DEF cost
<1>2. call \in CallSet
  BY DEF RouterInv, RouterTyped
<1>3. /\ call' \in CallSet /\ call'.phase = IF tools = 0 THEN "returned" ELSE "tooling"
      /\ call'.requests = call.requests + 1 /\ call'.answers = call.answers + 1
      /\ call'.tools = tools /\ call'.unseen = 0 /\ call'.turn = call.turn
      /\ call'.provider = call.provider /\ call'.given = call.given /\ call'.messages = call.messages
  <2>1. PICK u \in Nat, q \in Nat, n \in Nat :
           u = call.usage + cost /\ q = call.requests + 1 /\ n = call.answers + 1
    BY <1>0, <1>2, FieldsOf
  <2>2. PICK ph \in CallPhases : ph = IF tools = 0 THEN "returned" ELSE "tooling"
    BY DEF CallPhases
  <2>3. call' = [call EXCEPT !.usage = u, !.requests = q, !.answers = n, !.tools = tools,
                             !.unseen = 0, !.phase = ph]
    BY <1>1, <2>1, <2>2
  <2> QED
    BY <1>2, <2>1, <2>2, <2>3 DEF CallSet
<1>4. /\ agentContext \in Charged /\ charged \in [Charged -> Nat] /\ answered \in [Charged -> Nat]
      /\ untold \in [Charged -> Nat]
  BY DEF RouterInv, RouterTyped
<1>5. /\ charged' \in [Charged -> Nat] /\ untold' \in [Charged -> Nat]
      /\ answered' \in [Charged -> Nat]
      /\ \A a \in Charged \ {agentContext} :
           charged'[a] = charged[a] /\ untold'[a] = untold[a] /\ answered'[a] = answered[a]
      /\ charged'[agentContext] = charged[agentContext] + told
      /\ untold'[agentContext] = untold[agentContext] + left
      /\ answered'[agentContext] = answered[agentContext] + cost
  BY <1>0, <1>1, <1>4, <1>11
<1>6. \A a \in Charged : charged'[a] + untold'[a] >= answered'[a]
  <2>1. \A a \in Charged : charged[a] + untold[a] >= answered[a]
    BY DEF RouterInv, ChargedOnce
  <2>2. told + left >= cost /\ told \in Nat /\ left \in Nat
    BY <1>11
  <2>3. ASSUME NEW a \in Charged PROVE charged'[a] + untold'[a] >= answered'[a]
    <3>1. /\ charged[a] \in Nat /\ untold[a] \in Nat /\ answered[a] \in Nat
          /\ charged[a] + untold[a] >= answered[a]
      BY ONLY <1>4, <2>1, <2>3
    <3>2. CASE a = agentContext
      BY ONLY <1>0, <1>5, <2>2, <3>1, <3>2
    <3>3. CASE a # agentContext
      <4>1. charged'[a] = charged[a] /\ untold'[a] = untold[a] /\ answered'[a] = answered[a]
        BY ONLY <1>5, <2>3, <3>3
      <4> QED
        BY ONLY <3>1, <4>1
    <3> QED
      BY <3>2, <3>3
  <2> QED
    BY <2>3
<1>12. ASSUME call.provider # "openai", \A a \in Charged : charged[a] + untold[a] = answered[a]
       PROVE  \A a \in Charged : charged'[a] + untold'[a] = answered'[a]
  <2>1. told + left = cost
    BY <1>11, <1>12
  <2>2. told \in Nat /\ left \in Nat
    BY <1>11
  <2>3. ASSUME NEW a \in Charged PROVE charged'[a] + untold'[a] = answered'[a]
    <3>1. /\ charged[a] \in Nat /\ untold[a] \in Nat /\ answered[a] \in Nat
          /\ charged[a] + untold[a] = answered[a]
      BY ONLY <1>4, <1>12, <2>3
    <3>2. CASE a = agentContext
      BY ONLY <1>0, <1>5, <2>1, <2>2, <3>1, <3>2
    <3>3. CASE a # agentContext
      <4>1. charged'[a] = charged[a] /\ untold'[a] = untold[a] /\ answered'[a] = answered[a]
        BY ONLY <1>5, <2>3, <3>3
      <4> QED
        BY ONLY <3>1, <4>1
    <3> QED
      BY <3>2, <3>3
  <2> QED
    BY <2>3
<1>7. RouterTyped'
  BY <1>1, <1>3, <1>5 DEF RouterInv, RouterTyped
<1>8. ChargedOnce'
  BY <1>1, <1>3, <1>6, <1>12 DEF RouterInv, ChargedOnce
<1>9. LostBounded(call')
  <2> DEFINE r == Retries(call)  l == Lost(call)
  <2>1. /\ r \in Nat /\ l \in Int /\ call.turn \in Nat /\ call.attempt \in Nat
        /\ Retries(call') = r /\ Lost(call') = l
    <3>1. Retries(call') = r
      BY <1>3 DEF Retries
    <3>2. Lost(call') = l
      BY <1>2, <1>3, FieldsOf DEF Lost
    <3> QED
      BY <1>2, <3>1, <3>2, FieldsOf
  <2>2. call.attempt <= r /\ l <= r * call.turn + call.attempt
    BY DEF RouterInv, LostBounded
  <2> HIDE DEF r, l
  <2>3. l <= r * (call.turn + 1)
    <3>1. r * call.turn \in Nat /\ r * (call.turn + 1) = r * call.turn + r
      BY <2>1, Products
    <3> QED
      BY <2>1, <2>2, <3>1
  <2>4. l <= r * (call.turn + 1) + 1
    <3>1. r * (call.turn + 1) \in Nat
      BY <2>1, Products
    <3> QED
      BY <2>1, <2>3, <3>1
  <2>5. call'.phase \in {"returned", "tooling"}
    BY <1>3
  <2> QED
    BY <1>3, <2>1, <2>3, <2>4, <2>5 DEF LostBounded
<1>10. ToolsSeen(call') /\ Cut(call')
  BY <1>3 DEF RouterInv, ToolsSeen, Cut
<1> QED
  BY <1>7, <1>8, <1>9, <1>10 DEF RouterInv

\* What the steps that touch no money leave to show
LEMMA MoneyKept ==
  ASSUME RouterInv, UNCHANGED <<agentContext, charged, untold, answered, calls>>, call' \in CallSet,
         call'.provider = call.provider, call'.given = call.given, call'.messages = call.messages,
         LostBounded(call'), ToolsSeen(call')
  PROVE  RouterInv'
BY DEF RouterInv, RouterTyped, ChargedOnce, Cut

\* A call that raises has one payment more to answer for than one that goes on
LEMMA Raising ==
  ASSUME RouterInv, call.phase \in {"asking", "pausing", "tooling"}, NEW paid \in 0..1,
         paid = 1 => call.phase = "asking",
         call' \in CallSet, call'.phase = "raised", call'.requests = call.requests + paid,
         call'.answers = call.answers, call'.turn = call.turn, call'.provider = call.provider,
         call'.given = call.given, call'.messages = call.messages,
         UNCHANGED <<agentContext, charged, untold, answered, calls>>
  PROVE  RouterInv'
<1> DEFINE r == Retries(call)  l == Lost(call)
<1>1. /\ r \in Nat /\ l \in Int /\ call.turn \in Nat /\ call.attempt \in Nat
      /\ Retries(call') = r /\ Lost(call') = l + paid
  <2>1. call \in CallSet
    BY DEF RouterInv, RouterTyped
  <2>2. Retries(call') = r
    BY DEF Retries
  <2>3. Lost(call') = l + paid
    BY <2>1, FieldsOf DEF Lost
  <2> QED
    BY <2>1, <2>2, <2>3, FieldsOf
<1>2. /\ call.phase = "asking" => call.attempt <= r /\ l <= r * call.turn + call.attempt
      /\ l <= r * (call.turn + 1) + 1
  BY DEF RouterInv, LostBounded
<1> HIDE DEF r, l
<1>3. r * call.turn \in Nat /\ r * (call.turn + 1) = r * call.turn + r
  BY <1>1, Products
<1>4. l + paid <= r * (call.turn + 1) + 1
  BY <1>1, <1>2, <1>3
<1>5. LostBounded(call')
  BY <1>1, <1>4 DEF LostBounded
<1>6. ToolsSeen(call')
  BY DEF RouterInv, ToolsSeen
<1> QED
  BY <1>5, <1>6, MoneyKept

\* A request that fails, is cancelled or is retried
LEMMA FailureStep ==
  ASSUME RouterInv,
         \/ \E paid \in 0..1 : TransientError(paid) \/ FatalError(paid) \/ CancelCall(paid)
         \/ /\ CallAt("openai", "asking")
            /\ call' = [call EXCEPT !.requests = @ + 1, !.phase = "raised"]
            /\ UNCHANGED <<agentContext, charged, untold, answered, calls>>
  PROVE  RouterInv'
<1>1. call \in CallSet
  BY DEF RouterInv, RouterTyped
<1>2. ASSUME NEW paid \in 0..1, TransientError(paid) PROVE RouterInv'
  <2>1. /\ call.phase = "asking" /\ UNCHANGED <<agentContext, charged, untold, answered, calls>>
        /\ call' = [call EXCEPT !.requests = @ + paid, !.attempt = @ + 1,
             !.phase = IF ~(call.attempt < RetriesOf(call.provider)) THEN "raised"
                       ELSE IF call.provider = "anthropic" THEN "pausing" ELSE "asking"]
    BY <1>2 DEF TransientError
  <2>2. /\ call' \in CallSet /\ call'.requests = call.requests + paid
        /\ call'.answers = call.answers /\ call'.turn = call.turn
        /\ call'.provider = call.provider /\ call'.given = call.given
        /\ call'.messages = call.messages /\ call'.attempt = call.attempt + 1
        /\ call'.phase \in {"raised", "pausing", "asking"}
        /\ call'.phase # "raised" => call.attempt < Retries(call)
    <3>1. PICK q \in Nat, a \in Nat : q = call.requests + paid /\ a = call.attempt + 1
      BY <1>1, FieldsOf
    <3>2. PICK ph \in CallPhases :
             /\ ph = IF ~(call.attempt < RetriesOf(call.provider)) THEN "raised"
                     ELSE IF call.provider = "anthropic" THEN "pausing" ELSE "asking"
             /\ ph \in {"raised", "pausing", "asking"}
             /\ ph # "raised" => call.attempt < Retries(call)
      BY DEF CallPhases, Retries
    <3>3. call' = [call EXCEPT !.requests = q, !.attempt = a, !.phase = ph]
      BY <2>1, <3>1, <3>2
    <3> QED
      BY <1>1, <3>1, <3>2, <3>3 DEF CallSet
  <2>3. CASE call'.phase # "raised"
    <3> DEFINE r == Retries(call)  l == Lost(call)
    <3>1. /\ r \in Nat /\ l \in Int /\ call.turn \in Nat /\ call.attempt \in Nat
          /\ Retries(call') = r /\ Lost(call') = l + paid /\ call.attempt < r
      <4>1. Retries(call') = r /\ call.attempt < r
        BY <2>2, <2>3 DEF Retries
      <4>2. Lost(call') = l + paid
        BY <1>1, <2>2, FieldsOf DEF Lost
      <4> QED
        BY <1>1, <4>1, <4>2, FieldsOf
    <3>2. l <= r * call.turn + call.attempt
      BY <2>1, <3>1 DEF RouterInv, LostBounded
    <3> HIDE DEF l, r
    <3>3. r * call.turn \in Nat /\ r * (call.turn + 1) = r * call.turn + r
      BY <3>1, Products
    <3>4. /\ l + paid <= r * call.turn + (call.attempt + 1) /\ call.attempt + 1 <= r
          /\ l + paid <= r * (call.turn + 1) + 1
      BY <3>1, <3>2, <3>3
    <3>5. LostBounded(call')
      BY <2>2, <2>3, <3>1, <3>4 DEF LostBounded
    <3>6. ToolsSeen(call')
      BY <2>2, <2>3 DEF RouterInv, ToolsSeen
    <3> QED
      BY <2>1, <2>2, <3>5, <3>6, MoneyKept
  <2>4. CASE call'.phase = "raised"
    BY <2>1, <2>2, <2>4, Raising
  <2> QED BY <2>3, <2>4
<1>3. ASSUME NEW paid \in 0..1, CancelCall(paid) PROVE RouterInv'
  <2>1. /\ call.phase \in {"asking", "pausing", "tooling"} /\ (paid = 1 => call.phase = "asking")
        /\ call' = [call EXCEPT !.requests = @ + paid, !.phase = "raised"]
        /\ UNCHANGED <<agentContext, charged, untold, answered, calls>>
    BY <1>3 DEF CancelCall
  <2>2. /\ call' \in CallSet /\ call'.requests = call.requests + paid
        /\ call'.answers = call.answers /\ call'.turn = call.turn
        /\ call'.provider = call.provider /\ call'.given = call.given
        /\ call'.messages = call.messages /\ call'.phase = "raised"
    <3>1. PICK q \in Nat : q = call.requests + paid
      BY <1>1, FieldsOf
    <3>2. PICK ph \in CallPhases : ph = "raised"
      BY DEF CallPhases
    <3>3. call' = [call EXCEPT !.requests = q, !.phase = ph]
      BY <2>1, <3>1, <3>2
    <3> QED
      BY <1>1, <3>1, <3>2, <3>3 DEF CallSet
  <2> QED
    BY <2>1, <2>2, Raising
<1>4. ASSUME call.phase = "asking", NEW paid \in 0..1,
             call' = [call EXCEPT !.requests = @ + paid, !.phase = "raised"],
             UNCHANGED <<agentContext, charged, untold, answered, calls>>
      PROVE  RouterInv'
  <2>2. /\ call' \in CallSet /\ call'.requests = call.requests + paid
        /\ call'.answers = call.answers /\ call'.turn = call.turn
        /\ call'.provider = call.provider /\ call'.given = call.given
        /\ call'.messages = call.messages /\ call'.phase = "raised"
    <3>1. PICK q \in Nat : q = call.requests + paid
      BY <1>1, FieldsOf
    <3>2. PICK ph \in CallPhases : ph = "raised"
      BY DEF CallPhases
    <3>3. call' = [call EXCEPT !.requests = q, !.phase = ph]
      BY <1>4, <3>1, <3>2
    <3> QED
      BY <1>1, <3>1, <3>2, <3>3 DEF CallSet
  <2> QED
    BY <1>4, <2>2, Raising
<1>5. ASSUME NEW paid \in 0..1, FatalError(paid) PROVE RouterInv'
  BY <1>4, <1>5 DEF FatalError
<1>6. ASSUME CallAt("openai", "asking"), call' = [call EXCEPT !.requests = @ + 1, !.phase = "raised"],
             UNCHANGED <<agentContext, charged, untold, answered, calls>>
      PROVE  RouterInv'
  BY <1>4, <1>6 DEF CallAt
<1> QED
  BY <1>2, <1>3, <1>5, <1>6

\* The next attempt after the pause
LEMMA PauseStep ==
  ASSUME RouterInv, PauseEnds
  PROVE  RouterInv'
<1>1. /\ call.phase = "pausing" /\ call' = [call EXCEPT !.phase = "asking"]
      /\ UNCHANGED <<agentContext, charged, untold, answered, calls>>
  BY DEF PauseEnds
<1>2. /\ call' \in CallSet /\ call'.requests = call.requests /\ call'.attempt = call.attempt
      /\ call'.answers = call.answers /\ call'.turn = call.turn
      /\ call'.provider = call.provider /\ call'.given = call.given
      /\ call'.messages = call.messages /\ call'.phase = "asking"
  BY <1>1 DEF RouterInv, RouterTyped, CallSet, CallPhases
<1>3. Lost(call') = Lost(call) /\ Retries(call') = Retries(call)
  BY <1>2 DEF Lost, Retries
<1>4. LostBounded(call')
  BY <1>1, <1>2, <1>3 DEF RouterInv, LostBounded
<1>5. ToolsSeen(call')
  BY <1>1, <1>2 DEF RouterInv, ToolsSeen
<1> QED
  BY <1>1, <1>2, <1>4, <1>5, MoneyKept

\* The last tool of a turn starts the next one.
LEMMA ToolEndsStep ==
  ASSUME RouterInv, ToolEnds
  PROVE  RouterInv'
<1>1. /\ call.phase = "tooling" /\ UNCHANGED <<agentContext, charged, untold, answered, calls>>
      /\ call' = [call EXCEPT
          !.tools = @ - 1, !.unseen = @ + 1,
          !.turn = IF call.tools = 1 /\ call.turn < MaxToolTurns THEN @ + 1 ELSE @,
          !.attempt = IF call.tools = 1 THEN 0 ELSE @,
          !.phase = IF call.tools > 1 THEN "tooling"
                    ELSE IF call.turn < MaxToolTurns THEN "asking" ELSE "returned"]
  BY DEF ToolEnds
<1>2. /\ call \in CallSet /\ call.tools > 0 /\ call.turn <= MaxToolTurns /\ MaxToolTurns \in Nat
      /\ call.tools \in Nat /\ call.turn \in Nat /\ call.tools - 1 \in Nat
  <2>1. call \in CallSet /\ ToolsSeen(call) /\ MaxToolTurns \in Nat
    BY RouterAssumption DEF RouterInv, RouterTyped
  <2>2. call.tools \in Nat /\ call.turn \in Nat
    BY <2>1, FieldsOf
  <2>3. call.tools > 0 /\ call.turn <= MaxToolTurns
    BY <1>1, <2>1 DEF ToolsSeen
  <2> QED
    BY <2>1, <2>2, <2>3
<1>3. /\ call' \in CallSet /\ call'.requests = call.requests
      /\ call'.answers = call.answers
      /\ call'.provider = call.provider /\ call'.given = call.given
      /\ call'.messages = call.messages /\ call'.tools = call.tools - 1
      /\ call'.turn = (IF call.tools = 1 /\ call.turn < MaxToolTurns THEN call.turn + 1 ELSE call.turn)
      /\ call'.attempt = (IF call.tools = 1 THEN 0 ELSE call.attempt)
      /\ call'.phase = (IF call.tools > 1 THEN "tooling"
                    ELSE IF call.turn < MaxToolTurns THEN "asking" ELSE "returned")
  <2>1. PICK k \in Nat, u \in Nat : k = call.tools - 1 /\ u = call.unseen + 1
    BY <1>2, FieldsOf
  <2>2. PICK t \in Nat, a \in Nat :
           /\ t = IF call.tools = 1 /\ call.turn < MaxToolTurns THEN call.turn + 1 ELSE call.turn
           /\ a = IF call.tools = 1 THEN 0 ELSE call.attempt
    BY <1>2, FieldsOf
  <2>3. PICK ph \in CallPhases :
           ph = IF call.tools > 1 THEN "tooling"
                ELSE IF call.turn < MaxToolTurns THEN "asking" ELSE "returned"
    BY DEF CallPhases
  <2>4. call' = [call EXCEPT !.tools = k, !.unseen = u, !.turn = t, !.attempt = a, !.phase = ph]
    BY <1>1, <2>1, <2>2, <2>3
  <2>5. /\ call' \in CallSet /\ call'.requests = call.requests
        /\ call'.answers = call.answers
        /\ call'.provider = call.provider /\ call'.given = call.given
        /\ call'.messages = call.messages /\ call'.tools = k
        /\ call'.turn = t /\ call'.attempt = a /\ call'.phase = ph
    <3>1. /\ call \in CallSet /\ k \in Nat /\ u \in Nat /\ t \in Nat /\ a \in Nat
          /\ ph \in CallPhases
      BY <1>2
    <3>2. call' \in CallSet
      BY ONLY <2>4, <3>1 DEF CallSet
    <3> QED
      BY ONLY <2>4, <3>1, <3>2 DEF CallSet
  <2> QED
    BY ONLY <2>1, <2>2, <2>3, <2>5
<1> DEFINE r == Retries(call)  l == Lost(call)
<1>4. r \in Nat /\ l \in Int /\ Retries(call') = r /\ Lost(call') = l
  <2>1. r \in Nat /\ l \in Int
    BY <1>2, FieldsOf
  <2>2. Retries(call') = r /\ Lost(call') = l
    BY <1>3 DEF Retries, Lost
  <2> QED
    BY <2>1, <2>2
<1>5. l <= r * (call.turn + 1)
  BY <1>1 DEF RouterInv, LostBounded
<1> HIDE DEF r, l
<1>6. CASE call.tools > 1
  <2>1. call'.phase = "tooling" /\ call'.turn = call.turn /\ call'.tools > 0
    BY <1>2, <1>3, <1>6
  <2>2. r * (call.turn + 1) \in Nat
    BY <1>2, <1>4, Products
  <2>3. l <= r * (call.turn + 1) + 1
    BY <1>4, <1>5, <2>2
  <2>4. LostBounded(call')
    BY <1>4, <1>5, <2>1, <2>3 DEF LostBounded
  <2>5. ToolsSeen(call')
    BY <1>2, <2>1 DEF ToolsSeen
  <2> QED
    BY <1>1, <1>3, <2>4, <2>5, MoneyKept
<1>7. CASE call.tools = 1 /\ call.turn < MaxToolTurns
  <2>1. call'.phase = "asking" /\ call'.turn = call.turn + 1 /\ call'.attempt = 0
    BY <1>2, <1>3, <1>7
  <2>2. r * (call.turn + 1) \in Nat /\ r * ((call.turn + 1) + 1) = r * (call.turn + 1) + r
    <3>1. call.turn + 1 \in Nat
      BY <1>2
    <3> QED
      BY <1>4, <3>1, Products
  <2>3. l <= r * (call.turn + 1) + 0 /\ l <= r * ((call.turn + 1) + 1) + 1 /\ 0 <= r
    BY <1>4, <1>5, <2>2
  <2>4. LostBounded(call')
    BY <1>4, <2>1, <2>3 DEF LostBounded
  <2>5. ToolsSeen(call')
    BY <1>2, <1>7, <2>1 DEF ToolsSeen
  <2> QED
    BY <1>1, <1>3, <2>4, <2>5, MoneyKept
<1>8. CASE call.tools = 1 /\ ~(call.turn < MaxToolTurns)
  <2>1. call'.phase = "returned" /\ call'.turn = call.turn /\ call.turn = MaxToolTurns
    BY <1>2, <1>3, <1>8
  <2>2. r * (call.turn + 1) \in Nat
    BY <1>2, <1>4, Products
  <2>3. l <= r * (call.turn + 1) + 1
    BY <1>4, <1>5, <2>2
  <2>4. LostBounded(call')
    BY <1>4, <1>5, <2>1, <2>3 DEF LostBounded
  <2>5. ToolsSeen(call')
    BY <1>2, <2>1 DEF ToolsSeen
  <2> QED
    BY <1>1, <1>3, <2>4, <2>5, MoneyKept
<1> QED
  BY <1>2, <1>6, <1>7, <1>8

\* Every step keeps the invariant.
LEMMA RouterStepKeeps == RouterInv /\ [RouterNext]_routerVars => RouterInv'
<1> SUFFICES ASSUME RouterInv, [RouterNext]_routerVars PROVE RouterInv'
  OBVIOUS
<1>1. ASSUME NEW cache \in 0..1, NEW tools \in 0..MaxToolsPerTurn, Answer(1, cache, tools)
      PROVE  RouterInv'
  <2>1. tools \in Nat /\ cache \in Nat /\ 1 \in Nat /\ 1 >= 1
    OBVIOUS
  <2>2. CallAt("anthropic", "asking") /\ ReceiveAnswer(1, cache, tools, 1)
    BY <1>1 DEF Answer
  <2> QED
    BY <2>1, <2>2, ReceiveStep DEF CallAt
<1>2. ASSUME NEW cache \in 0..1, NEW tools \in 0..MaxToolsPerTurn, AnswerOpenAi(1 + cache, tools)
      PROVE  RouterInv'
  <2>1. PICK tokens \in Nat : tokens = 1 + cache
    OBVIOUS
  <2>5. tools \in Nat /\ 0 \in Nat
    OBVIOUS
  <2>2. CallAt("openai", "asking") /\ AnswerOpenAi(tokens, tools)
    BY <1>2, <2>1 DEF AnswerOpenAi
  <2>3. CASE ReceiveAnswer(tokens, 0, tools, call.usage + tokens)
    <3>1. call.usage + tokens \in Nat /\ call.usage + tokens >= tokens
      <4>1. call.usage \in Nat
        BY FieldsOf DEF RouterInv, RouterTyped
      <4> QED
        BY ONLY <2>1, <4>1
    <3> QED
      BY <2>2, <2>3, <2>5, <3>1, ReceiveStep DEF CallAt
  <2>4. CASE /\ call' = [call EXCEPT !.requests = @ + 1, !.phase = "raised"]
             /\ UNCHANGED <<agentContext, charged, untold, answered, calls>>
    BY <2>2, <2>4, FailureStep
  <2> QED
    BY <2>2, <2>3, <2>4 DEF AnswerOpenAi
<1>3. ASSUME UNCHANGED routerVars PROVE RouterInv'
  BY <1>3 DEF routerVars, RouterInv, RouterTyped, ChargedOnce
<1>4. ASSUME RouterStep PROVE RouterInv'
  BY <1>1, <1>2, <1>4, FailureStep, PauseStep, ToolEndsStep DEF RouterStep
<1> QED
  BY <1>3, <1>4, CallLlmStep, CallMockStep, FailureStep DEF RouterNext

\* The invariant gives the property.
LEMMA RouterInvSays == RouterInv => CallsSound
<1> SUFFICES ASSUME RouterInv PROVE CallsSound
  OBVIOUS
<1>1. NeverUndercharged
  BY DEF RouterInv, RouterTyped, ChargedOnce, NeverUndercharged
<1>2. UnrecordedPaymentsBounded
  BY DEF RouterInv, LostBounded, Lost, Retries, UnrecordedPaymentsBounded
<1>3. ResultsReachTheModel
  BY DEF RouterInv, ToolsSeen, ResultsReachTheModel
<1>4. KeepsWhatFits
  <2> SUFFICES ASSUME call.provider = "anthropic"
               PROVE  call.messages = NewestOf(call.given,
                        IF FittingOf(call.given) = {} THEN 0 ELSE Max(FittingOf(call.given)))
    BY Zenon DEF KeepsWhatFits, NewestOf, FittingOf
  <2>1. call.given \in Seq(Nat) /\ call.messages = Truncate(call.given)
    BY DEF RouterInv, RouterTyped, CallSet, Cut
  <2> QED
    BY <2>1, TruncateKeeps
<1> QED
  BY <1>1, <1>2, <1>3, <1>4 DEF CallsSound

\* core/llm_router.py: what the tracker is told falls short of the answers an
\* agent got by their cached tokens and the recordings that raised and by nothing
\* else, payments nobody records are bounded by the retries of the turns,
\* the model sees the results of the tools unless the turns are used up, and what
\* is sent is the newest part of the conversation that fits.
THEOREM CallsSoundHolds == RouterSpec => []CallsSound
<1> QED
  BY RouterInitial, RouterStepKeeps, RouterInvSays, PTL DEF RouterSpec

------------------------------------------------------------------------------
(*****************************************************************************)
(* LLMStream, for any tools.                                                 *)
(*                                                                           *)
(* The frames only grow, so that what held of the positions there were is kept *)
(* by every step but the one that adds a frame about a tool.  The invariant  *)
(* says which tools are open: those started, not ended, and to be ended when *)
(* the provider ends.                                                        *)
(*****************************************************************************)

\* The kinds and the shape of the frames
ToldKinds == {"chunk", "text", "tool_start", "tool_input", "tool_end", "error", "done", "ping"}
FrameNames == ToolIds \cup {""}
FrameSet == [kind : ToldKinds, id : FrameNames]
OtherKinds == {"error", "done", "ping"}
ToolKinds == {"tool_start", "tool_input", "tool_end"}

\* The list of a finite set has every member once.
LEMMA Listed ==
  ASSUME NEW S, IsFiniteSet(S)
  PROVE  /\ SetToSeq(S) \in [1..Cardinality(S) -> S]
         /\ Cardinality(S) \in Nat
         /\ \A i, j \in 1..Cardinality(S) : SetToSeq(S)[i] = SetToSeq(S)[j] => i = j
         /\ \A x \in S : \E i \in 1..Cardinality(S) : SetToSeq(S)[i] = x
<1> DEFINE n == Cardinality(S)  f == SetToSeq(S)
<1>1. n \in Nat /\ ExistsBijection(1..n, S)
  BY FS_CardinalityType
<1>2. PICK g \in Bijection(1..n, S) : TRUE
  BY <1>1 DEF ExistsBijection
<1>3. g \in [1..n -> S] /\ IsInjective(g)
  BY <1>2 DEF Bijection, Injection
<1>4. f \in [1..n -> S] /\ IsInjective(f)
  BY <1>3 DEF SetToSeq
<1> HIDE DEF f
<1>5. f \in Injection(1..n, S)
  BY <1>4 DEF Injection
<1>6. IsFiniteSet(1..n) /\ Cardinality(1..n) = n
  BY <1>1, FS_Interval
<1>7. f \in Surjection(1..n, S)
  BY <1>5, <1>6, FS_Injection
<1>8. \A x \in S : \E i \in 1..n : f[i] = x
  BY <1>7 DEF Surjection
<1>9. \A i, j \in 1..n : f[i] = f[j] => i = j
  BY <1>4 DEF IsInjective
<1> QED
  BY <1>1, <1>4, <1>8, <1>9 DEF f

\* A frame of a kind, or of a kind and a tool, was sent.
Told(f, sort) == \E i \in 1..Len(f) : f[i].kind = sort
Marked(f, sort, id) == \E i \in 1..Len(f) : f[i].kind = sort /\ f[i].id = id

\* Input and end of a tool come between its start and its end, and the open
\* tools are those started and not ended.
Brackets(f, o) ==
  /\ \A i \in 1..Len(f) : f[i].kind \in {"tool_input", "tool_end"} =>
       /\ \E j \in 1..Len(f) : j < i /\ f[j].kind = "tool_start" /\ f[j].id = f[i].id
       /\ \A j \in 1..Len(f) : f[j].kind = "tool_end" /\ f[j].id = f[i].id => j >= i
  /\ \A id \in o : Marked(f, "tool_start", id) /\ ~Marked(f, "tool_end", id)
  /\ ~Told(f, "error") => \A id \in ToolIds \ o : Marked(f, "tool_start", id) =>
       \E e \in 1..Len(f) : /\ f[e].kind = "tool_end" /\ f[e].id = id
                            /\ \A i \in 1..Len(f) :
                                 f[i].kind = "tool_input" /\ f[i].id = id => i < e

\* A list that goes on where another ends, and the positions it adds
Longer(f, g) == /\ f \in Seq(FrameSet) /\ g \in Seq(FrameSet) /\ Len(f) <= Len(g)
                /\ \A i \in 1..Len(f) : i \in 1..Len(g) /\ g[i] = f[i]
                /\ \A i \in 1..Len(g) : i \notin 1..Len(f) => i > Len(f)
New(f, g) == {i \in 1..Len(g) : i \notin 1..Len(f)}

\* Frames that are not about tools leave the brackets alone.
LEMMA PlainKept ==
  ASSUME NEW f, NEW g, NEW o \in SUBSET ToolIds, Brackets(f, o), Longer(f, g),
         \A i \in New(f, g) : g[i].kind \notin ToolKinds
  PROVE  Brackets(g, o)
<1>1. \A i \in 1..Len(g) : g[i].kind \in ToolKinds => i \in 1..Len(f) /\ g[i] = f[i]
  BY DEF New, Longer
<1>2. \A k \in ToolKinds : \A id : Marked(g, k, id) <=> Marked(f, k, id)
  BY <1>1 DEF Marked, Longer
<1>3. Told(f, "error") => Told(g, "error")
  BY DEF Told, Longer
<1>4. ASSUME NEW i \in 1..Len(g), g[i].kind \in {"tool_input", "tool_end"}
      PROVE  /\ \E j \in 1..Len(g) : j < i /\ g[j].kind = "tool_start" /\ g[j].id = g[i].id
             /\ \A j \in 1..Len(g) : g[j].kind = "tool_end" /\ g[j].id = g[i].id => j >= i
  <2>1. i \in 1..Len(f) /\ g[i] = f[i] /\ f[i].kind \in {"tool_input", "tool_end"}
    BY <1>1, <1>4 DEF ToolKinds
  <2>2. /\ \E j \in 1..Len(f) : j < i /\ f[j].kind = "tool_start" /\ f[j].id = f[i].id
        /\ \A j \in 1..Len(f) : f[j].kind = "tool_end" /\ f[j].id = f[i].id => j >= i
    BY <2>1 DEF Brackets
  <2>3. \A j \in 1..Len(f) : j \in 1..Len(g) /\ g[j] = f[j]
    BY DEF Longer
  <2>4. \E j \in 1..Len(g) : j < i /\ g[j].kind = "tool_start" /\ g[j].id = g[i].id
    BY ONLY <2>1, <2>2, <2>3
  <2>5. ASSUME NEW j \in 1..Len(g), g[j].kind = "tool_end", g[j].id = g[i].id PROVE j >= i
    <3>1. j \in 1..Len(f) /\ g[j] = f[j]
      BY <1>1, <2>5 DEF ToolKinds
    <3> QED
      BY ONLY <2>1, <2>2, <2>5, <3>1
  <2> QED
    BY <2>4, <2>5
<1>5. ASSUME ~Told(g, "error"), NEW id \in ToolIds \ o, Marked(g, "tool_start", id)
      PROVE  \E e \in 1..Len(g) : /\ g[e].kind = "tool_end" /\ g[e].id = id
                                  /\ \A i \in 1..Len(g) :
                                       g[i].kind = "tool_input" /\ g[i].id = id => i < e
  <2>1. PICK e \in 1..Len(f) : /\ f[e].kind = "tool_end" /\ f[e].id = id
                                  /\ \A i \in 1..Len(f) :
                                       f[i].kind = "tool_input" /\ f[i].id = id => i < e
    BY <1>2, <1>3, <1>5 DEF Brackets, ToolKinds
  <2> QED
    BY <1>1, <2>1 DEF Longer, ToolKinds
<1> QED
  BY <1>2, <1>4, <1>5 DEF Brackets, ToolKinds

\* A tool that was not heard of is started.
LEMMA StartKept ==
  ASSUME NEW f, NEW o \in SUBSET ToolIds, Brackets(f, o), f \in Seq(FrameSet),
         NEW id \in ToolIds, \A i \in 1..Len(f) : f[i].id # id
  PROVE  Brackets(Append(f, Frame("tool_start", id)), o \cup {id})
<1> DEFINE g == Append(f, Frame("tool_start", id))  n == Len(f) + 1
<1>0. Frame("tool_start", id) \in FrameSet
  BY DEF Frame, FrameSet, ToldKinds, FrameNames
<1>1. /\ g \in Seq(FrameSet) /\ Len(g) = n /\ n \in 1..Len(g) /\ Len(f) \in Nat
      /\ g[n].kind = "tool_start" /\ g[n].id = id
      /\ \A i \in 1..Len(f) : i \in 1..Len(g) /\ g[i] = f[i]
      /\ \A i \in 1..Len(g) : i \in 1..Len(f) \/ i = n
  BY <1>0 DEF Frame
<1> HIDE DEF g, n
<1>2. \A k, x : Marked(g, k, x) <=> Marked(f, k, x) \/ (k = "tool_start" /\ x = id)
  BY <1>1 DEF Marked
<1>3. Told(f, "error") => Told(g, "error")
  BY <1>1 DEF Told
<1>4. ASSUME NEW i \in 1..Len(g), g[i].kind \in {"tool_input", "tool_end"}
      PROVE  /\ \E j \in 1..Len(g) : j < i /\ g[j].kind = "tool_start" /\ g[j].id = g[i].id
             /\ \A j \in 1..Len(g) : g[j].kind = "tool_end" /\ g[j].id = g[i].id => j >= i
  BY <1>1, <1>4 DEF Brackets
<1>5. ~Marked(f, "tool_end", id)
  BY DEF Marked
<1>6. ASSUME ~Told(g, "error"), NEW x \in ToolIds \ (o \cup {id}), Marked(g, "tool_start", x)
      PROVE  \E e \in 1..Len(g) : /\ g[e].kind = "tool_end" /\ g[e].id = x
                                  /\ \A i \in 1..Len(g) :
                                       g[i].kind = "tool_input" /\ g[i].id = x => i < e
  <2>1. PICK e \in 1..Len(f) : /\ f[e].kind = "tool_end" /\ f[e].id = x
                                  /\ \A i \in 1..Len(f) :
                                       f[i].kind = "tool_input" /\ f[i].id = x => i < e
    BY <1>2, <1>3, <1>6 DEF Brackets
  <2> QED
    BY <1>1, <2>1
<1> QED
  BY <1>2, <1>4, <1>5, <1>6 DEF Brackets, g

\* An open tool gets more input.
LEMMA InputKept ==
  ASSUME NEW f, NEW o \in SUBSET ToolIds, Brackets(f, o), f \in Seq(FrameSet), NEW id \in o
  PROVE  Brackets(Append(f, Frame("tool_input", id)), o)
<1> DEFINE g == Append(f, Frame("tool_input", id))  n == Len(f) + 1
<1>0. Frame("tool_input", id) \in FrameSet
  BY DEF Frame, FrameSet, ToldKinds, FrameNames
<1>1. /\ g \in Seq(FrameSet) /\ Len(g) = n /\ n \in 1..Len(g) /\ Len(f) \in Nat
      /\ g[n].kind = "tool_input" /\ g[n].id = id
      /\ \A i \in 1..Len(f) : i \in 1..Len(g) /\ g[i] = f[i] /\ i < n
      /\ \A i \in 1..Len(g) : i \in 1..Len(f) \/ i = n
  BY <1>0 DEF Frame
<1> HIDE DEF g, n
<1>2. \A k, x : k # "tool_input" => (Marked(g, k, x) <=> Marked(f, k, x))
  BY <1>1 DEF Marked
<1>3. Told(f, "error") => Told(g, "error")
  BY <1>1 DEF Told
<1>4. ASSUME NEW i \in 1..Len(g), g[i].kind \in {"tool_input", "tool_end"}
      PROVE  /\ \E j \in 1..Len(g) : j < i /\ g[j].kind = "tool_start" /\ g[j].id = g[i].id
             /\ \A j \in 1..Len(g) : g[j].kind = "tool_end" /\ g[j].id = g[i].id => j >= i
  <2>1. CASE i \in 1..Len(f)
    BY <1>1, <1>4, <2>1 DEF Brackets
  <2>2. CASE i = n
    BY <1>1, <1>4, <2>2 DEF Brackets, Marked
  <2> QED BY <1>1, <2>1, <2>2
<1>6. ASSUME ~Told(g, "error"), NEW x \in ToolIds \ o, Marked(g, "tool_start", x)
      PROVE  \E e \in 1..Len(g) : /\ g[e].kind = "tool_end" /\ g[e].id = x
                                  /\ \A i \in 1..Len(g) :
                                       g[i].kind = "tool_input" /\ g[i].id = x => i < e
  <2>1. PICK e \in 1..Len(f) : /\ f[e].kind = "tool_end" /\ f[e].id = x
                                  /\ \A i \in 1..Len(f) :
                                       f[i].kind = "tool_input" /\ f[i].id = x => i < e
    BY <1>2, <1>3, <1>6 DEF Brackets
  <2> QED
    BY <1>1, <1>6, <2>1
<1> QED
  BY <1>2, <1>4, <1>6 DEF Brackets, g

\* Ending some of the open calls, each once, closes them
LEMMA EndsKept ==
  ASSUME NEW f, NEW g, NEW o \in SUBSET ToolIds, NEW c \in SUBSET o, Brackets(f, o), Longer(f, g),
         \A i \in New(f, g) : g[i].kind = "tool_end" /\ g[i].id \in c,
         \A i, j \in New(f, g) : g[i].id = g[j].id => i = j,
         \A id \in c : \E i \in New(f, g) : g[i].id = id
  PROVE  Brackets(g, o \ c)
<1>1. /\ \A i \in 1..Len(f) : i \in 1..Len(g) /\ g[i] = f[i]
      /\ \A i \in 1..Len(g) : i \in 1..Len(f) \/ i \in New(f, g)
      /\ \A i \in New(f, g), j \in 1..Len(f) : i \in 1..Len(g) /\ j < i
  BY DEF Longer, New
<1>2. \A k, x : k # "tool_end" => (Marked(g, k, x) <=> Marked(f, k, x))
  BY <1>1 DEF Marked
<1>3. Told(f, "error") => Told(g, "error")
  BY <1>1 DEF Told
<1>4. ASSUME NEW i \in 1..Len(g), g[i].kind \in {"tool_input", "tool_end"}
      PROVE  /\ \E j \in 1..Len(g) : j < i /\ g[j].kind = "tool_start" /\ g[j].id = g[i].id
             /\ \A j \in 1..Len(g) : g[j].kind = "tool_end" /\ g[j].id = g[i].id => j >= i
  <2>1. CASE i \in 1..Len(f)
    BY <1>1, <1>4, <2>1, SMTT(30) DEF Brackets
  <2>2. CASE i \in New(f, g)
    BY <1>1, <1>4, <2>2 DEF Brackets, Marked
  <2> QED BY <1>1, <2>1, <2>2
<1>5. \A x \in o \ c : ~Marked(g, "tool_end", x)
  BY <1>1 DEF Marked, Brackets
<1>6. ASSUME ~Told(g, "error"), NEW x \in ToolIds \ (o \ c), Marked(g, "tool_start", x)
      PROVE  \E e \in 1..Len(g) : /\ g[e].kind = "tool_end" /\ g[e].id = x
                                  /\ \A i \in 1..Len(g) :
                                       g[i].kind = "tool_input" /\ g[i].id = x => i < e
  <2>1. CASE x \in c
    <3>1. PICK e \in New(f, g) : g[e].id = x
      BY <2>1
    <3>2. e \in 1..Len(g) /\ g[e].kind = "tool_end"
      BY <3>1 DEF New
    <3>3. \A i \in 1..Len(g) : g[i].kind = "tool_input" => i < e
      BY <1>1
    <3> QED
      BY <3>1, <3>2, <3>3
  <2>2. CASE x \notin c
    <3>1. PICK e \in 1..Len(f) : /\ f[e].kind = "tool_end" /\ f[e].id = x
                                  /\ \A i \in 1..Len(f) :
                                       f[i].kind = "tool_input" /\ f[i].id = x => i < e
      BY <1>2, <1>3, <1>6, <2>2 DEF Brackets
    <3> QED
      BY <1>1, <3>1
  <2> QED BY <2>1, <2>2
<1> QED
  BY <1>2, <1>4, <1>5, <1>6 DEF Brackets

\* The typing
StreamTyped ==
  /\ stream \in [provider : {"none", "mock", "anthropic", "openai"},
                 phase : {"new", "streaming", "drained", "broken", "over", "aborted"}, chunks : Nat]
  /\ open \in SUBSET ToolIds /\ IsFiniteSet(open)
  /\ frames \in Seq(FrameSet)
  /\ client \in {"none", "ws", "grpc", "gone"}

\* How far the stream is, and what was said so far.  A WebSocket only ever
\* carries the mock, so its error is the one of a stream that never began.
StreamPhases ==
  /\ stream.phase = "new" => frames = <<>> /\ open = {}
  /\ stream.phase = "new" <=> client = "none"
  /\ stream.phase # "over" => ~Told(frames, "done") /\ client # "gone"
  /\ stream.phase \in {"streaming", "drained"} /\ client = "ws" =>
       ~Told(frames, "error") /\ stream.provider = "mock"
  /\ stream.phase = "broken" => client = "grpc" /\ Told(frames, "error")
  /\ stream.phase = "drained" => open = {}
  /\ stream.phase = "aborted" => frames = <<>>
  /\ Told(frames, "done") /\ ~Told(frames, "error") => open = {}
  /\ stream.provider = "anthropic" => \A a, b \in open : a = b

\* A frame after which the client hears nothing more
IsEnd(c, sort) == sort = "done" \/ (c = "ws" /\ sort = "error")

\* Such a frame is the last one, and a stream that is over has one.
EndLast ==
  /\ \A i \in 1..Len(frames) : IsEnd(client, frames[i].kind) => i = Len(frames)
  /\ stream.phase = "over" /\ client # "gone" =>
       Len(frames) > 0 /\ IsEnd(client, frames[Len(frames)].kind)

\* The invariant
StreamInv == StreamTyped /\ StreamPhases /\ EndLast /\ Brackets(frames, open)

\* No stream is open at first.
LEMMA StreamInitial == StreamInit => StreamInv
<1> SUFFICES ASSUME StreamInit PROVE StreamInv
  OBVIOUS
<1>1. /\ frames = <<>> /\ Len(frames) = 0 /\ open = {} /\ client = "none"
      /\ stream = [provider |-> "none", phase |-> "new", chunks |-> 0]
  BY DEF StreamInit
<1>2. StreamTyped
  BY <1>1, FS_EmptySet DEF StreamTyped
<1>3. StreamPhases
  BY <1>1 DEF StreamPhases, Told
<1>4. EndLast
  BY <1>1 DEF EndLast
<1>5. Brackets(frames, open)
  BY <1>1 DEF Brackets, Marked
<1> QED
  BY <1>2, <1>3, <1>4, <1>5 DEF StreamInv

\* One frame more
Followed(f, x, g) == g = Append(f, x)

\* The kinds of frames the steps send
LEMMA Names ==
  /\ \A k \in ToolKinds \cup OtherKinds : k \in ToldKinds
  /\ "" \in FrameNames /\ \A id \in ToolIds : id \in FrameNames
BY DEF ToldKinds, ToolKinds, OtherKinds, FrameNames

\* What one frame more changes
LEMMA Appended ==
  ASSUME NEW f \in Seq(FrameSet), NEW sort \in ToolKinds \cup OtherKinds,
         NEW id \in FrameNames, NEW g, Followed(f, Frame(sort, id), g)
  PROVE  /\ g \in Seq(FrameSet) /\ Longer(f, g) /\ Len(g) = Len(f) + 1
         /\ New(f, g) = {Len(g)} /\ g[Len(g)].kind = sort /\ g[Len(g)].id = id
         /\ \A k : Told(g, k) <=> Told(f, k) \/ k = sort
<1> DEFINE n == Len(f) + 1  x == Frame(sort, id)
<1>1. x.kind = sort /\ x.id = id
  BY DEF Frame
<1>2. x \in FrameSet /\ g = Append(f, x)
  BY Names DEF Frame, FrameSet, Followed
<1> HIDE DEF x
<1>3. /\ g \in Seq(FrameSet) /\ Len(g) = n /\ Len(f) \in Nat /\ g[n] = x
      /\ \A i \in 1..Len(f) : g[i] = f[i]
  BY <1>2
<1>4. Len(g) = n /\ Len(f) \in Nat
  BY <1>3
<1>5. /\ n \in 1..Len(g) /\ n \notin 1..Len(f) /\ n > Len(f) /\ Len(f) <= Len(g)
      /\ \A i \in 1..Len(f) : i \in 1..Len(g)
      /\ \A i \in 1..Len(g) : i \in 1..Len(f) \/ i = n
  BY <1>4
<1>6. \A k : Told(g, k) <=> Told(f, k) \/ k = sort
  BY <1>1, <1>3, <1>5 DEF Told
<1>7. Longer(f, g)
  BY <1>3, <1>5 DEF Longer
<1>8. New(f, g) = {Len(g)}
  BY <1>3, <1>5 DEF New
<1> QED
  BY <1>1, <1>3, <1>6, <1>7, <1>8

\* The same of a frame that names no tool
LEMMA PlainAppended ==
  ASSUME NEW f \in Seq(FrameSet), NEW sort \in ToolKinds \cup OtherKinds,
         NEW g, Followed(f, Plain(sort), g)
  PROVE  /\ g \in Seq(FrameSet) /\ Longer(f, g) /\ Len(g) = Len(f) + 1
         /\ New(f, g) = {Len(g)} /\ g[Len(g)].kind = sort
         /\ \A k : Told(g, k) <=> Told(f, k) \/ k = sort
<1>1. \E id \in FrameNames : Plain(sort) = Frame(sort, id)
  BY Names, Zenon DEF Plain
<1>2. PICK id \in FrameNames : Plain(sort) = Frame(sort, id)
  BY <1>1
<1>3. Followed(f, Frame(sort, id), g)
  BY <1>2
<1> QED
  BY <1>3, Appended

\* A client opens a stream on the WebSocket or over gRPC.
LEMMA OpenStreamStep ==
  ASSUME StreamInv, NEW t \in {"ws", "grpc"}, NEW p \in {"mock", "anthropic", "openai"},
         NEW m \in BOOLEAN, OpenStream(t, p, m)
  PROVE  StreamInv'
<1>1. /\ stream.phase = "new" /\ client' = t /\ open' = open
      /\ frames = <<>> /\ open = {} /\ ~Told(frames, "done")
  BY DEF OpenStream, StreamInv, StreamPhases
<1>2. CASE t = "ws" /\ p # "mock"
  <2>1. /\ stream' = [stream EXCEPT !.provider = p, !.phase = "over"]
        /\ frames' = <<Plain("error")>>
    BY <1>2 DEF OpenStream
  <2>2. Plain("error") \in FrameSet /\ Plain("error").kind = "error"
    BY DEF Plain, Frame, FrameSet, ToldKinds, FrameNames
  <2>3. frames' \in Seq(FrameSet) /\ Len(frames') = 1 /\ frames'[1] = Plain("error")
    BY <2>1, <2>2
  <2>4. /\ stream'.phase = "over" /\ stream'.provider = p
        /\ stream' \in [provider : {"none", "mock", "anthropic", "openai"},
                 phase : {"new", "streaming", "drained", "broken", "over", "aborted"}, chunks : Nat]
    BY <2>1 DEF StreamInv, StreamTyped
  <2>5. StreamTyped'
    BY <1>1, <2>3, <2>4 DEF StreamInv, StreamTyped
  <2>6. \A i \in 1..Len(frames') : i = 1
    BY <2>3
  <2>7. StreamPhases'
    BY <1>1, <2>2, <2>3, <2>4, <2>6 DEF StreamPhases, Told
  <2>8. EndLast'
    BY <1>1, <1>2, <2>2, <2>3, <2>4, <2>6 DEF EndLast, IsEnd
  <2>9. Brackets(frames, open)'
    BY <1>1, <2>2, <2>3, <2>6 DEF Brackets, Marked
  <2> QED
    BY <2>5, <2>7, <2>8, <2>9 DEF StreamInv
<1>3. CASE ~(t = "ws" /\ p # "mock")
  <2>0. PICK ph \in {"streaming", "aborted"} :
           /\ stream' = [stream EXCEPT !.provider = p, !.phase = ph]
           /\ ph = "aborted" => t = "grpc"
    BY <1>3, Zenon DEF OpenStream
  <2>1. frames' = <<>>
    BY <1>3 DEF OpenStream
  <2>2. /\ stream'.phase = ph /\ stream'.provider = p
        /\ stream' \in [provider : {"none", "mock", "anthropic", "openai"},
                 phase : {"new", "streaming", "drained", "broken", "over", "aborted"}, chunks : Nat]
    BY <2>0 DEF StreamInv, StreamTyped
  <2>3. frames' = frames /\ open' = open /\ open = {} /\ Len(frames) = 0
    BY <1>1, <2>1
  <2>4. StreamTyped'
    BY <1>1, <2>2, <2>3 DEF StreamInv, StreamTyped
  <2>5. StreamPhases'
    BY <1>1, <1>3, <2>1, <2>2, <2>3 DEF StreamPhases, Told
  <2>6. EndLast'
    BY <2>2, <2>3 DEF EndLast
  <2>7. Brackets(frames, open)'
    BY <2>3 DEF StreamInv, Brackets, Marked
  <2> QED
    BY <2>4, <2>5, <2>6, <2>7 DEF StreamInv
<1> QED
  BY <1>2, <1>3

\* What every step of the generator leaves to show: the phase it goes to, and
\* that what it adds to the frames ends nothing
LEMMA Going ==
  ASSUME StreamInv, stream.phase = "streaming", client' = client, stream'.phase = "streaming",
         stream'.provider = stream.provider, open' \in SUBSET ToolIds, IsFiniteSet(open'),
         stream' \in [provider : {"none", "mock", "anthropic", "openai"},
                 phase : {"new", "streaming", "drained", "broken", "over", "aborted"}, chunks : Nat],
         Longer(frames, frames'), Brackets(frames', open'),
         \A i \in New(frames, frames') : frames'[i].kind \notin {"done", "error"},
         stream.provider = "anthropic" => \A a, b \in open' : a = b
  PROVE  StreamInv'
<1>1. \A k \in {"done", "error"} : Told(frames', k) <=> Told(frames, k)
  BY DEF Told, Longer, New
<1>2. StreamTyped'
  BY DEF StreamInv, StreamTyped, Longer
<1>3. StreamPhases'
  BY <1>1 DEF StreamInv, StreamPhases
<1>4. EndLast'
  <2>1. ~Told(frames, "done") /\ (client = "ws" => ~Told(frames, "error"))
    BY DEF StreamInv, StreamPhases
  <2> QED
    BY <1>1, <2>1 DEF EndLast, IsEnd, Told
<1> QED
  BY <1>2, <1>3, <1>4 DEF StreamInv

\* A chunk of the provider finds an open stream and leaves it open.
LEMMA Chunk ==
  ASSUME StreamInv, NEW p, Streaming(p)
  PROVE  /\ stream.phase = "streaming" /\ client' = client /\ stream'.phase = "streaming"
         /\ stream.provider = p /\ stream'.provider = stream.provider
         /\ stream' \in [provider : {"none", "mock", "anthropic", "openai"},
                 phase : {"new", "streaming", "drained", "broken", "over", "aborted"}, chunks : Nat]
BY DEF Streaming, StreamInv, StreamTyped

\* A chunk of text
LEMMA TextStep ==
  ASSUME StreamInv, NEW p, TextDelta(p)
  PROVE  StreamInv'
<1>1. Streaming(p) /\ open' = open /\ frames' = frames \o Text
  BY DEF TextDelta
<1>2. Text \in Seq(FrameSet) /\ \A i \in 1..Len(Text) : Text[i].kind \in {"chunk", "text"}
  <2>1. \A k \in {"chunk", "text"} : Plain(k) \in FrameSet /\ Plain(k).kind = k
    BY DEF Plain, Frame, FrameSet, ToldKinds, FrameNames
  <2>2. CASE client = "ws"
    <3>1. Text = <<Plain("chunk"), Plain("text")>>
      BY <2>2 DEF Text
    <3> QED BY <2>1, <3>1
  <2>3. CASE client # "ws"
    <3>1. Text = <<Plain("text")>>
      BY <2>3 DEF Text
    <3> QED BY <2>1, <3>1
  <2> QED BY <2>2, <2>3
<1> DEFINE t == Text
<1> HIDE DEF t
<1>3. t \in Seq(FrameSet) /\ frames \in Seq(FrameSet) /\ frames' = frames \o t
  BY <1>1, <1>2 DEF t, StreamInv, StreamTyped
<1>4. /\ frames \o t \in Seq(FrameSet)
      /\ Len(frames \o t) = Len(frames) + Len(t)
      /\ \A j \in 1..Len(frames) + Len(t) :
           (frames \o t)[j] = IF j <= Len(frames) THEN frames[j] ELSE t[j - Len(frames)]
  BY <1>3, ConcatProperties, Zenon
<1>5. Len(frames) \in Nat /\ Len(t) \in Nat
  BY <1>3
<1>6. Longer(frames, frames')
  BY <1>3, <1>4, <1>5 DEF Longer
<1>7. \A i \in New(frames, frames') : frames'[i].kind \in {"chunk", "text"}
  <2> SUFFICES ASSUME NEW i \in New(frames, frames') PROVE frames'[i].kind \in {"chunk", "text"}
    OBVIOUS
  <2>1. i \in 1..Len(frames) + Len(t) /\ ~(i <= Len(frames)) /\ i - Len(frames) \in 1..Len(t)
    BY <1>3, <1>4, <1>5 DEF New
  <2>2. frames'[i] = t[i - Len(frames)]
    BY <1>3, <1>4, <2>1
  <2> QED
    BY <1>2, <2>1, <2>2 DEF t
<1>8. open \in SUBSET ToolIds /\ IsFiniteSet(open) /\ Brackets(frames, open)
      /\ (stream.provider = "anthropic" => \A a, b \in open : a = b)
  BY DEF StreamInv, StreamTyped, StreamPhases
<1>9. Brackets(frames', open')
  BY <1>1, <1>6, <1>7, <1>8, PlainKept DEF ToolKinds
<1> QED
  BY <1>1, <1>6, <1>7, <1>8, <1>9, Chunk, Going

\* A chunk that starts a tool or goes on with one
LEMMA ToolStep ==
  ASSUME StreamInv, NEW id \in ToolIds, AnthropicTool(id) \/ OpenAiTool(id)
  PROVE  StreamInv'
<1>1. PICK p \in {"anthropic", "openai"} : Streaming(p)
  BY DEF AnthropicTool, OpenAiTool
<1>2. open \in SUBSET ToolIds /\ IsFiniteSet(open) /\ Brackets(frames, open)
      /\ (stream.provider = "anthropic" => \A a, b \in open : a = b)
      /\ frames \in Seq(FrameSet)
  BY DEF StreamInv, StreamTyped, StreamPhases
<1>3. ASSUME NEW k \in ToolKinds, frames' = Append(frames, Frame(k, id))
      PROVE  /\ Longer(frames, frames') /\ New(frames, frames') = {Len(frames')}
             /\ frames'[Len(frames')].kind = k /\ frames'[Len(frames')].id = id
             /\ \A i \in New(frames, frames') : frames'[i].kind \notin {"done", "error"}
  <2>1. k \in ToolKinds \cup OtherKinds /\ id \in FrameNames
    BY <1>3, Names
  <2>2. frames \in Seq(FrameSet)
    BY <1>2
  <2>3. /\ Longer(frames, frames') /\ New(frames, frames') = {Len(frames')}
        /\ frames'[Len(frames')].kind = k /\ frames'[Len(frames')].id = id
    <3>1. Followed(frames, Frame(k, id), frames')
      BY <1>3 DEF Followed
    <3> QED
      BY <2>1, <2>2, <3>1, Appended
  <2> QED
    BY <1>3, <2>3 DEF ToolKinds
<1>4. CASE /\ Unused(id) /\ open' = open \cup {id}
           /\ stream.provider = "anthropic" => open = {}
           /\ frames' = Append(frames, Frame("tool_start", id))
  <2>1. \A i \in 1..Len(frames) : frames[i].id # id
    <3>1. DOMAIN frames = 1..Len(frames)
      BY <1>2, LenProperties
    <3> QED
      BY <1>4, <3>1 DEF Unused
  <2>2. Brackets(frames', open')
    BY <1>2, <1>4, <2>1, StartKept
  <2>3. open' \in SUBSET ToolIds /\ IsFiniteSet(open')
    BY <1>2, <1>4, FS_AddElement
  <2>4. stream.provider = "anthropic" => \A a, b \in open' : a = b
    BY <1>4
  <2>5. /\ Longer(frames, frames')
        /\ \A i \in New(frames, frames') : frames'[i].kind \notin {"done", "error"}
    BY <1>3, <1>4 DEF ToolKinds
  <2> QED
    BY <1>1, <2>2, <2>3, <2>4, <2>5, Chunk, Going
<1>5. CASE /\ id \in open /\ UNCHANGED open
           /\ frames' = Append(frames, Frame("tool_input", id))
  <2>1. Brackets(frames', open')
    BY <1>2, <1>5, InputKept
  <2>2. /\ Longer(frames, frames')
        /\ \A i \in New(frames, frames') : frames'[i].kind \notin {"done", "error"}
    BY <1>3, <1>5 DEF ToolKinds
  <2> QED
    BY <1>1, <1>2, <1>5, <2>1, <2>2, Chunk, Going
<1>6. CASE /\ id \in open /\ open' = {} /\ stream.provider = "anthropic"
           /\ frames' = Append(frames, Frame("tool_end", id))
  <2>1. open = {id}
    BY <1>2, <1>6
  <2>2. /\ Longer(frames, frames') /\ New(frames, frames') = {Len(frames')}
        /\ frames'[Len(frames')].kind = "tool_end" /\ frames'[Len(frames')].id = id
        /\ \A i \in New(frames, frames') : frames'[i].kind \notin {"done", "error"}
    BY <1>3, <1>6 DEF ToolKinds
  <2>3. Brackets(frames', open \ {id})
    BY <1>2, <2>1, <2>2, EndsKept
  <2>4. open' = open \ {id} /\ open' \in SUBSET ToolIds /\ IsFiniteSet(open')
    BY <1>6, <2>1, FS_EmptySet
  <2>5. Brackets(frames', open')
    BY <2>3, <2>4
  <2> QED
    BY <1>1, <1>6, <2>2, <2>4, <2>5, Chunk, Going
<1>7. CASE AnthropicTool(id)
  <2>1. stream.provider = "anthropic"
    BY <1>7 DEF AnthropicTool, Streaming
  <2>2. open = {} => {id} = open \cup {id}
    OBVIOUS
  <2> QED
    BY <1>4, <1>5, <1>6, <1>7, <2>1, <2>2 DEF AnthropicTool
<1>8. CASE OpenAiTool(id)
  <2>1. stream.provider = "openai"
    BY <1>8 DEF OpenAiTool, Streaming
  <2> QED
    BY <1>4, <1>5, <1>8, <2>1 DEF OpenAiTool
<1> QED
  BY <1>7, <1>8

\* The provider ends: the tools still open are ended, each once.
LEMMA ProviderEndsStep ==
  ASSUME StreamInv, ProviderEnds
  PROVE  StreamInv'
<1> DEFINE empty == stream.provider = "openai" /\ stream.chunks = 0
           s == SetToSeq(open)
           flushed == [i \in DOMAIN s |-> Frame("tool_end", s[i])]
<1>1. /\ stream.phase = "streaming" /\ client' = client /\ open' = {}
      /\ stream' = [stream EXCEPT !.phase = IF empty THEN "broken" ELSE "drained"]
      /\ frames' = frames \o (IF empty THEN <<Plain("error")>> ELSE flushed)
  BY DEF ProviderEnds
<1>2. /\ open \in SUBSET ToolIds /\ IsFiniteSet(open) /\ Brackets(frames, open)
      /\ frames \in Seq(FrameSet) /\ ~Told(frames, "done")
      /\ client = "ws" => ~Told(frames, "error") /\ stream.provider = "mock"
      /\ client # "none" /\ client # "gone"
  BY <1>1 DEF StreamInv, StreamTyped, StreamPhases
<1>3. CASE empty
  <2>1. frames' = Append(frames, Plain("error"))
    <3>1. frames' = frames \o <<Plain("error")>>
      BY <1>1, <1>3
    <3>2. Plain("error") \in FrameSet
      BY DEF Plain, Frame, FrameSet, ToldKinds, FrameNames
    <3> QED
      BY <1>2, <3>1, <3>2, AppendIsConcat
  <2>2. /\ frames' \in Seq(FrameSet) /\ Longer(frames, frames')
        /\ New(frames, frames') = {Len(frames')} /\ frames'[Len(frames')].kind = "error"
        /\ \A k : Told(frames', k) <=> Told(frames, k) \/ k = "error"
    <3>1. Followed(frames, Plain("error"), frames')
      BY <2>1 DEF Followed
    <3> QED
      BY <1>2, <3>1, PlainAppended DEF OtherKinds
  <2>3. Brackets(frames', {})
    <3>1. Brackets(frames', open)
      BY <1>2, <2>2, PlainKept DEF ToolKinds
    <3> QED
      BY <2>2, <3>1 DEF Brackets
  <2>4. /\ stream'.phase = "broken" /\ stream'.provider = stream.provider
        /\ stream' \in [provider : {"none", "mock", "anthropic", "openai"},
                 phase : {"new", "streaming", "drained", "broken", "over", "aborted"}, chunks : Nat]
    BY <1>1, <1>3 DEF StreamInv, StreamTyped
  <2>5. client = "grpc"
    BY <1>2, <1>3 DEF StreamInv, StreamTyped
  <2>6. StreamTyped'
    BY <1>1, <2>2, <2>4, FS_EmptySet DEF StreamInv, StreamTyped
  <2>7. StreamPhases'
    BY <1>1, <1>2, <2>2, <2>4, <2>5 DEF StreamPhases
  <2>8. EndLast'
    BY <1>1, <1>2, <2>2, <2>4, <2>5 DEF EndLast, IsEnd, Told
  <2> QED
    BY <1>1, <2>3, <2>6, <2>7, <2>8 DEF StreamInv
<1>4. CASE ~empty
  <2> DEFINE n == Cardinality(open)
  <2>1. /\ s \in [1..n -> open] /\ n \in Nat
        /\ \A i, j \in 1..n : s[i] = s[j] => i = j
        /\ \A x \in open : \E i \in 1..n : s[i] = x
    BY <1>2, Listed
  <2> HIDE DEF s, n
  <2>2. /\ flushed \in [1..n -> FrameSet]
        /\ \A i \in 1..n : flushed[i].kind = "tool_end" /\ flushed[i].id = s[i]
    BY <1>2, <2>1 DEF Frame, FrameSet, ToldKinds, FrameNames
  <2> HIDE DEF flushed
  <2>3. flushed \in Seq(FrameSet) /\ Len(flushed) = n
    BY <2>1, <2>2
  <2>4. /\ frames \o flushed \in Seq(FrameSet)
        /\ Len(frames \o flushed) = Len(frames) + Len(flushed)
        /\ \A j \in 1..Len(frames) + Len(flushed) :
             (frames \o flushed)[j] = IF j <= Len(frames) THEN frames[j] ELSE flushed[j - Len(frames)]
    BY <1>2, <2>3, ConcatProperties, Zenon
  <2>5. frames' = frames \o flushed
    BY <1>1, <1>4
  <2>6. Len(frames) \in Nat
    BY <1>2
  <2>7. Longer(frames, frames')
    BY <1>2, <2>1, <2>3, <2>4, <2>5, <2>6 DEF Longer
  <2>8. ASSUME NEW i \in New(frames, frames')
        PROVE  /\ i - Len(frames) \in 1..n /\ frames'[i].kind = "tool_end"
               /\ frames'[i].id = s[i - Len(frames)] /\ i \in Int
    <3>1. i \in 1..Len(frames) + n /\ ~(i <= Len(frames)) /\ i - Len(frames) \in 1..n
      BY <2>1, <2>3, <2>4, <2>5, <2>6 DEF New
    <3>2. frames'[i] = flushed[i - Len(frames)]
      BY <2>3, <2>4, <2>5, <3>1
    <3> QED
      BY <2>2, <3>1, <3>2
  <2>9. \A i, j \in New(frames, frames') : frames'[i].id = frames'[j].id => i = j
    <3> SUFFICES ASSUME NEW i \in New(frames, frames'), NEW j \in New(frames, frames'),
                        frames'[i].id = frames'[j].id
                 PROVE  i = j
      OBVIOUS
    <3>1. i - Len(frames) = j - Len(frames)
      BY <2>1, <2>8
    <3> QED
      BY <2>6, <2>8, <3>1
  <2>10. \A id \in open : \E i \in New(frames, frames') : frames'[i].id = id
    <3> SUFFICES ASSUME NEW id \in open PROVE \E i \in New(frames, frames') : frames'[i].id = id
      OBVIOUS
    <3>1. PICK k \in 1..n : s[k] = id
      BY <2>1
    <3> DEFINE i == Len(frames) + k
    <3>2. i \in New(frames, frames') /\ i - Len(frames) = k
      BY <2>1, <2>3, <2>4, <2>5, <2>6 DEF New
    <3> QED
      BY <2>8, <3>1, <3>2
  <2>11. Brackets(frames', open \ open)
    <3>1. \A i \in New(frames, frames') : frames'[i].kind = "tool_end" /\ frames'[i].id \in open
      BY <2>1, <2>8
    <3> QED
      BY <1>2, <2>7, <2>9, <2>10, <3>1, EndsKept
  <2>12. Brackets(frames', {})
    <3>1. open \ open = {}
      OBVIOUS
    <3> QED BY <2>11, <3>1
  <2>13. \A k \in {"done", "error"} : Told(frames', k) <=> Told(frames, k)
    BY <2>7, <2>8 DEF Told, Longer, New
  <2>14. /\ stream'.phase = "drained" /\ stream'.provider = stream.provider
         /\ stream' \in [provider : {"none", "mock", "anthropic", "openai"},
                 phase : {"new", "streaming", "drained", "broken", "over", "aborted"}, chunks : Nat]
    BY <1>1, <1>4 DEF StreamInv, StreamTyped
  <2>15. StreamTyped'
    BY <1>1, <2>7, <2>14, FS_EmptySet DEF StreamInv, StreamTyped, Longer
  <2>16. StreamPhases'
    BY <1>1, <1>2, <2>13, <2>14 DEF StreamPhases
  <2>17. EndLast'
    BY <1>1, <1>2, <2>13, <2>14 DEF EndLast, IsEnd, Told
  <2> QED
    BY <1>1, <2>12, <2>15, <2>16, <2>17 DEF StreamInv
<1> QED
  BY <1>3, <1>4

\* The provider raises.
LEMMA RaisesStep ==
  ASSUME StreamInv, ProviderRaises
  PROVE  StreamInv'
<1>1. /\ stream.phase = "streaming" /\ stream.provider # "mock"
      /\ stream' = [stream EXCEPT !.phase = "broken"]
      /\ frames' = Append(frames, Plain("error")) /\ UNCHANGED <<open, client>>
  BY DEF ProviderRaises
<1>2. /\ frames \in Seq(FrameSet) /\ ~Told(frames, "done") /\ client = "grpc"
      /\ open \in SUBSET ToolIds /\ Brackets(frames, open)
  BY <1>1 DEF StreamInv, StreamTyped, StreamPhases
<1>3. /\ frames' \in Seq(FrameSet) /\ Longer(frames, frames')
      /\ New(frames, frames') = {Len(frames')} /\ frames'[Len(frames')].kind = "error"
      /\ \A k : Told(frames', k) <=> Told(frames, k) \/ k = "error"
  <2>1. Followed(frames, Plain("error"), frames')
    BY <1>1 DEF Followed
  <2> QED
    BY <1>2, <2>1, PlainAppended DEF OtherKinds
<1>4. Brackets(frames', open)
  BY <1>2, <1>3, PlainKept DEF ToolKinds
<1>5. /\ stream'.phase = "broken" /\ stream'.provider = stream.provider
      /\ stream' \in [provider : {"none", "mock", "anthropic", "openai"},
                 phase : {"new", "streaming", "drained", "broken", "over", "aborted"}, chunks : Nat]
  BY <1>1 DEF StreamInv, StreamTyped
<1>6. StreamTyped'
  BY <1>1, <1>3, <1>5 DEF StreamInv, StreamTyped
<1>7. StreamPhases'
  BY <1>1, <1>2, <1>3, <1>5 DEF StreamInv, StreamPhases
<1>8. EndLast'
  <2>1. ~Told(frames', "done")
    BY <1>2, <1>3
  <2> QED
    BY <1>1, <1>2, <1>5, <2>1 DEF EndLast, IsEnd, Told
<1> QED
  BY <1>1, <1>4, <1>6, <1>7, <1>8 DEF StreamInv

\* The last frame of the transport
LEMMA DoneStep ==
  ASSUME StreamInv, Done
  PROVE  StreamInv'
<1>1. /\ stream.phase \in {"drained", "broken"} /\ stream' = [stream EXCEPT !.phase = "over"]
      /\ frames' = Append(frames, Plain("done")) /\ UNCHANGED <<open, client>>
  BY DEF Done
<1>2. /\ frames \in Seq(FrameSet) /\ ~Told(frames, "done") /\ client \in {"grpc", "ws"}
      /\ open \in SUBSET ToolIds /\ Brackets(frames, open)
      /\ client = "ws" => ~Told(frames, "error")
      /\ stream.phase = "broken" => Told(frames, "error")
      /\ stream.phase = "drained" => open = {}
  BY <1>1 DEF StreamInv, StreamTyped, StreamPhases
<1>3. /\ frames' \in Seq(FrameSet) /\ Longer(frames, frames') /\ Len(frames') = Len(frames) + 1
      /\ New(frames, frames') = {Len(frames')} /\ frames'[Len(frames')].kind = "done"
      /\ \A k : Told(frames', k) <=> Told(frames, k) \/ k = "done"
  <2>1. Followed(frames, Plain("done"), frames')
    BY <1>1 DEF Followed
  <2> QED
    BY <1>2, <2>1, PlainAppended DEF OtherKinds
<1>4. Brackets(frames', open)
  BY <1>2, <1>3, PlainKept DEF ToolKinds
<1>5. /\ stream'.phase = "over" /\ stream'.provider = stream.provider
      /\ stream' \in [provider : {"none", "mock", "anthropic", "openai"},
                 phase : {"new", "streaming", "drained", "broken", "over", "aborted"}, chunks : Nat]
  BY <1>1 DEF StreamInv, StreamTyped
<1>6. StreamTyped'
  BY <1>1, <1>3, <1>5 DEF StreamInv, StreamTyped
<1>7. StreamPhases'
  BY <1>1, <1>2, <1>3, <1>5 DEF StreamInv, StreamPhases
<1>8. EndLast'
  <2>1. \A i \in 1..Len(frames) : ~IsEnd(client, frames[i].kind)
    BY <1>2 DEF IsEnd, Told
  <2>2. \A i \in 1..Len(frames') : i \in 1..Len(frames) \/ i = Len(frames')
    BY <1>3 DEF New
  <2>3. Len(frames') > 0
    BY <1>2, <1>3
  <2> QED
    BY <1>1, <1>3, <1>5, <2>1, <2>2, <2>3 DEF EndLast, IsEnd, Longer
<1> QED
  BY <1>1, <1>4, <1>6, <1>7, <1>8 DEF StreamInv

\* The keep-alive of the WebSocket
LEMMA PingStep ==
  ASSUME StreamInv, Ping
  PROVE  StreamInv'
<1>1. /\ client = "ws" /\ stream.phase \in {"streaming", "drained"}
      /\ frames' = Append(frames, Plain("ping")) /\ UNCHANGED <<stream, open, client>>
  BY DEF Ping
<1>2. /\ frames \in Seq(FrameSet) /\ open \in SUBSET ToolIds /\ Brackets(frames, open)
      /\ ~Told(frames, "done") /\ ~Told(frames, "error")
  BY <1>1 DEF StreamInv, StreamTyped, StreamPhases
<1>3. /\ frames' \in Seq(FrameSet) /\ Longer(frames, frames')
      /\ New(frames, frames') = {Len(frames')} /\ frames'[Len(frames')].kind = "ping"
      /\ \A k : Told(frames', k) <=> Told(frames, k) \/ k = "ping"
  <2>1. Followed(frames, Plain("ping"), frames')
    BY <1>1 DEF Followed
  <2> QED
    BY <1>2, <2>1, PlainAppended DEF OtherKinds
<1>4. Brackets(frames', open)
  BY <1>2, <1>3, PlainKept DEF ToolKinds
<1>5. ~Told(frames', "done") /\ ~Told(frames', "error")
  BY <1>2, <1>3
<1>6. StreamTyped'
  BY <1>1, <1>3 DEF StreamInv, StreamTyped
<1>7. StreamPhases'
  BY <1>1, <1>2, <1>5 DEF StreamInv, StreamPhases
<1>8. EndLast'
  BY <1>1, <1>5 DEF EndLast, IsEnd, Told
<1> QED
  BY <1>1, <1>4, <1>6, <1>7, <1>8 DEF StreamInv

\* The client leaves.
LEMMA LeaveStep ==
  ASSUME StreamInv, LeaveStream
  PROVE  StreamInv'
<1>1. /\ client = "ws" /\ stream.phase # "over" /\ client' = "gone"
      /\ stream' = [stream EXCEPT !.phase = "over"] /\ UNCHANGED <<open, frames>>
  BY DEF LeaveStream
<1>2. /\ stream'.phase = "over" /\ stream'.provider = stream.provider
      /\ stream' \in [provider : {"none", "mock", "anthropic", "openai"},
                 phase : {"new", "streaming", "drained", "broken", "over", "aborted"}, chunks : Nat]
  BY <1>1 DEF StreamInv, StreamTyped
<1>3. StreamTyped'
  BY <1>1, <1>2 DEF StreamInv, StreamTyped
<1>4. StreamPhases'
  BY <1>1, <1>2 DEF StreamInv, StreamPhases
<1>5. EndLast'
  BY <1>1, <1>2 DEF StreamInv, StreamPhases, EndLast, IsEnd, Told
<1> QED
  BY <1>1, <1>3, <1>4, <1>5 DEF StreamInv

\* Every step keeps the invariant.
LEMMA StreamInvStep == StreamInv /\ [StreamNext]_streamVars => StreamInv'
<1>1. ASSUME StreamInv, UNCHANGED streamVars PROVE StreamInv'
  BY <1>1 DEF streamVars, StreamInv, StreamTyped, StreamPhases, EndLast
<1> QED
  BY <1>1, OpenStreamStep, TextStep, ToolStep, ProviderEndsStep, RaisesStep, DoneStep, PingStep,
     LeaveStep DEF StreamNext, StreamStep

\* The invariant gives the property.
LEMMA StreamInvSays == StreamInv => StreamWellFormed
<1> SUFFICES ASSUME StreamInv PROVE EndsOnce /\ ToolsBracketed
  BY DEF StreamWellFormed
<1>1. /\ frames \in Seq(FrameSet) /\ DOMAIN frames = 1..Len(frames) /\ Len(frames) \in Nat
  BY LenProperties DEF StreamInv, StreamTyped
<1>2. \A i \in 1..Len(frames) : \A k, id :
         frames[i] = Frame(k, id) <=> frames[i].kind = k /\ frames[i].id = id
  <2>1. \A r \in FrameSet : r = Frame(r.kind, r.id)
    BY DEF FrameSet, Frame
  <2>2. \A k, id : Frame(k, id).kind = k /\ Frame(k, id).id = id
    BY DEF Frame
  <2>3. \A i \in 1..Len(frames) : frames[i] \in FrameSet
    BY <1>1
  <2> QED
    BY <2>1, <2>2, <2>3
<1>4. EndsOnce
  <2> DEFINE terminal == IF client = "ws" THEN {"done", "error"} ELSE {"done"}
             ends == {i \in DOMAIN frames : frames[i].kind \in terminal}
  <2>1. \A sort : sort \in terminal <=> IsEnd(client, sort)
    BY DEF IsEnd
  <2> HIDE DEF terminal
  <2>2. ends = {i \in 1..Len(frames) : IsEnd(client, frames[i].kind)}
    BY <1>1, <2>1
  <2> HIDE DEF ends
  <2>3. ends \subseteq {Len(frames)}
    BY <2>2 DEF StreamInv, EndLast
  <2>4. stream.phase = "over" /\ client # "gone" => ends = {Len(frames)}
    <3> HAVE stream.phase = "over" /\ client # "gone"
    <3>1. Len(frames) > 0 /\ IsEnd(client, frames[Len(frames)].kind)
      BY DEF StreamInv, EndLast
    <3>2. Len(frames) \in 1..Len(frames)
      BY <1>1, <3>1
    <3>3. Len(frames) \in ends
      BY <2>2, <3>1, <3>2
    <3> QED
      BY <2>3, <3>3
  <2>5. stream.phase = "aborted" => frames = <<>>
    BY DEF StreamInv, StreamPhases
  <2> QED
    BY <2>3, <2>4, <2>5 DEF EndsOnce, ends, terminal
<1>5. \A k, id : Places(k, id) = {i \in 1..Len(frames) : frames[i].kind = k /\ frames[i].id = id}
  BY <1>1, <1>2 DEF Places
<1>6. \A i \in DOMAIN frames : frames[i].kind \in {"tool_input", "tool_end"} =>
       /\ \E j \in Places("tool_start", frames[i].id) : j < i
       /\ \A j \in Places("tool_end", frames[i].id) : j >= i
  BY <1>1, <1>5 DEF StreamInv, Brackets
<1>7. \A k : k \in FrameKinds(frames) <=> Told(frames, k)
  BY <1>1 DEF FrameKinds, Told
<1>8. ASSUME "done" \in FrameKinds(frames), "error" \notin FrameKinds(frames),
             NEW id \in ToolIds, Places("tool_start", id) # {}
      PROVE  \E e \in Places("tool_end", id) : \A i \in Places("tool_input", id) : i < e
  <2>1. Marked(frames, "tool_start", id) /\ open = {}
    BY <1>5, <1>7, <1>8 DEF Marked, StreamInv, StreamPhases
  <2>2. PICK e \in 1..Len(frames) : /\ frames[e].kind = "tool_end" /\ frames[e].id = id
                            /\ \A i \in 1..Len(frames) :
                                 frames[i].kind = "tool_input" /\ frames[i].id = id => i < e
    BY <1>7, <1>8, <2>1 DEF StreamInv, Brackets
  <2> QED
    BY <1>5, <2>2
<1> QED
  BY <1>4, <1>6, <1>8 DEF ToolsBracketed

\* The two streams of core/llm_router.py: the input of a tool comes between its
\* start and its end, a stream that ends well leaves no tool open, and a client
\* learns of the end once, after everything else.
THEOREM StreamWellFormedHolds == StreamSpec => []StreamWellFormed
<1> QED
  BY StreamInitial, StreamInvStep, StreamInvSays, PTL DEF StreamSpec

==============================================================================
