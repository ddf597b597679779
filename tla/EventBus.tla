------------------------------ MODULE EventBus ------------------------------
(***************************************************************************)
(* The two event buses: core/event_bus.py's EventBus and the EventHandler  *)
(* of core/agent.py.  publish walks the list of subscribers itself, not a  *)
(* copy, and gives way at every handler that is awaited: handlers come and *)
(* go under it, and other publications walk the same list.                 *)
(***************************************************************************)
EXTENDS Integers, Sequences, SequencesExt, FiniteSets

CONSTANTS Subscribers,  \* subscriptions: an id is given out once
          Publications, \* the events published, each once
          WantedBy,     \* the subscribers whose filters an event passes
          MaxClears     \* bound on calls of clear

ASSUME BusAssumption ==
  WantedBy \in [Publications -> SUBSET Subscribers] /\ MaxClears \in Nat

VARIABLES
  bus,       \* which one: "EventBus" or "EventHandler"
  lists,     \* the list objects there have been; the last is the current one
  standing,  \* a subscription: "new", "in", "left"
  walking,   \* a publication: the list it walks (0 before, -1 after) and its index
  heard,     \* history: how often a subscriber's handler was called for an event
  steady,    \* history: the subscribers there from before the publication on
  leavers,   \* history: somebody left while a publication was under way
  clears

busVars == <<bus, lists, standing, walking, heard, steady, leavers, clears>>

BusInit ==
  /\ bus \in {"EventBus", "EventHandler"}
  /\ lists = << <<>> >>
  /\ standing = [s \in Subscribers |-> "new"]
  /\ walking = [p \in Publications |-> [list |-> 0, index |-> 0]]
  /\ heard = [p \in Publications |-> [s \in Subscribers |-> 0]]
  /\ steady = [p \in Publications |-> {}]
  /\ leavers = FALSE /\ clears = 0

CurrentList == Len(lists)
Ended(p) == walking[p].list = -1
UnderWay(p) == walking[p].list > 0

\* subscribe appends to the list: a publication that walks it comes to it yet
Enlist(s) == lists' = [lists EXCEPT ![CurrentList] = Append(@, s)]

Subscribe(s) ==
  /\ standing[s] = "new"
  /\ Enlist(s)
  /\ standing' = [standing EXCEPT ![s] = "in"]
  /\ UNCHANGED <<bus, walking, heard, steady, leavers, clears>>

\* a list without a subscription, which is in it once
Without(l, s) == RemoveAt(l, CHOOSE i \in 1..Len(l) : l[i] = s)

\* Mutant: EventBus removes from the list itself, as EventHandler does
WithdrawInPlace(s) == lists' = [lists EXCEPT ![CurrentList] = Without(@, s)]

\* EventBus.unsubscribe makes a new list, EventHandler.unsubscribe removes
Withdraw(s) ==
  lists' = IF bus = "EventBus" THEN Append(lists, Without(lists[CurrentList], s))
           ELSE [lists EXCEPT ![CurrentList] = Without(@, s)]

Leaves(s) ==
  /\ standing' = [standing EXCEPT ![s] = "left"]
  /\ steady' = [p \in Publications |-> steady[p] \ {s}]

Unsubscribe(s) ==
  /\ standing[s] = "in"
  /\ Withdraw(s)
  /\ Leaves(s)
  /\ leavers' = (leavers \/ \E p \in Publications : UnderWay(p))
  /\ UNCHANGED <<bus, walking, heard, clears>>

\* EventBus.clear empties the list in place.
Clear ==
  /\ bus = "EventBus" /\ clears < MaxClears /\ clears' = clears + 1
  /\ lists' = [lists EXCEPT ![CurrentList] = <<>>]
  /\ standing' = [s \in Subscribers |-> IF standing[s] = "in" THEN "left" ELSE standing[s]]
  /\ steady' = [p \in Publications |-> {}]
  /\ UNCHANGED <<bus, walking, heard, leavers>>

\* publish is called; the loop takes hold of the list.
Publish(p) ==
  /\ walking[p].list = 0
  /\ walking' = [walking EXCEPT ![p] = [list |-> CurrentList, index |-> 0]]
  /\ steady' = [steady EXCEPT ![p] = {s \in Subscribers : standing[s] = "in"}]
  /\ UNCHANGED <<bus, lists, standing, heard, leavers, clears>>

\* _matches, _wildcard_match
Matches(p, s) == s \in WantedBy[p]

\* Mutant: a handler that fails is called again
Again(p) == walking[p]

\* a handler that fails is logged and the loop goes on
Onwards(p) == [walking[p] EXCEPT !.index = @ + 1]

\* The next round of the loop: the handler is called if its filters let the event
\* pass, and awaited; at the list's end publish returns.
Dispatch(p) ==
  /\ UnderWay(p)
  /\ LET l == lists[walking[p].list]
         i == walking[p].index + 1
     IN  IF i > Len(l)
         THEN /\ walking' = [walking EXCEPT ![p].list = -1]
              /\ UNCHANGED heard
         ELSE /\ walking' = [walking EXCEPT ![p] = Onwards(p)]
              /\ heard' = IF Matches(p, l[i])
                          THEN [heard EXCEPT ![p][l[i]] = IF @ < 2 THEN @ + 1 ELSE @]
                          ELSE heard
  /\ UNCHANGED <<bus, lists, standing, steady, leavers, clears>>

BusNext ==
  \/ \E s \in Subscribers : Subscribe(s) \/ Unsubscribe(s)
  \/ Clear
  \/ \E p \in Publications : Publish(p) \/ Dispatch(p)

BusSpec == BusInit /\ [][BusNext]_busVars

\* Handlers return.
BusFairSpec == BusSpec /\ \A p \in Publications : WF_busVars(Dispatch(p))

(***************************************************************************)
(* Properties                                                              *)
(***************************************************************************)
\* A handler is called for an event once at most, whoever subscribes or leaves while
\* the publication waits for another handler.
HeardOnce == \A p \in Publications, s \in Subscribers : heard[p][s] <= 1

\* Who was subscribed before an event was published and still is when publish
\* returns has been called for it: on EventBus always; on EventHandler, whose list
\* shifts under the loop, unless somebody left meanwhile.
SteadyHeard == \A p \in Publications :
  Ended(p) /\ (bus = "EventBus" \/ ~leavers) =>
    \A s \in steady[p] \cap WantedBy[p] : heard[p][s] = 1

\* A publication returns, although subscribers may be added under it.
PublicationsEnd == []<>(\A p \in Publications : ~UnderWay(p))

\* Whatever comes and goes during a publication, those who stay hear of it once.
EachHeardOnce == HeardOnce /\ SteadyHeard
=============================================================================
