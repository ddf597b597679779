--------------------------- MODULE RequestProofs ---------------------------
(*****************************************************************************)
(* What comes in from outside and what is told inside: requests on their way *)
(* through the layers of the server, deliveries of GitHub, publications of the *)
(* event bus, and the lock that processes share through Redis.  For any      *)
(* requests, deliveries, publications, subscribers, clients and processes.   *)
(*****************************************************************************)
EXTENDS RequestPipeline, Webhook, EventBus, RedisLock, TLAPS,
        FiniteSetTheorems, SequenceTheorems

------------------------------------------------------------------------------
(*****************************************************************************)
(* RequestPipeline.                                                          *)
(*                                                                           *)
(* The context of a request is set for the route alone, so the invariant says *)
(* where a request may be and what it carries there.  For the bucket: in every *)
(* span of the past, what was admitted and what the bucket holds now are no  *)
(* more than a full bucket and what the span refilled.                       *)
(*****************************************************************************)

\* Where a request may be in the pipeline
Places == {"out", "limit", "secrets", "scan", "route", "done"}

\* What the layers that answer have around them.
LEMMA LayersAround ==
  /\ CountedFrom("route") = 1 /\ "id" \in IdMark("route", 200)
  /\ \A layer \in {"redirect", "limit", "size", "secrets"} :
       CountedFrom(layer) = 0 /\ \A status : IdMark(layer, status) = {}
  /\ \A status : IdMark("route", status) = {"id"}
  /\ \A layer : "id" \notin SecurityMark(layer) \cup HstsMark(layer)
  /\ \A layer : CountedFrom(layer) \in Nat
<1>1. "metrics" \in Outside("route") /\ "request_id" \in Outside("route")
  BY DEF Outside, Layers, Guards, Added
<1>2. ASSUME NEW layer \in {"redirect", "limit", "size", "secrets"}
      PROVE  "metrics" \notin Outside(layer) /\ "request_id" \notin Outside(layer)
  BY DEF Outside, Layers, Guards, Added
<1>3. \A layer : "id" \notin SecurityMark(layer) \cup HstsMark(layer)
  BY DEF SecurityMark, HstsMark
<1> QED
  BY <1>1, <1>2, <1>3 DEF CountedFrom, IdMark

\* The headers a layer may have left on an answer
Marks == {"security", "hsts", "id"}

\* The typing of what a request carries
FlightTyped ==
  /\ place \in [Requests -> Places]
  /\ coming \in [Requests -> Nat] /\ held \in [Requests -> Nat]
  /\ gone \in [Requests -> BOOLEAN]
  /\ DOMAIN requested = Requests /\ DOMAIN context = Requests
  /\ answer \in [Requests -> [status : Nat, marks : SUBSET Marks]]
  /\ counted \in [Requests -> Nat]

\* Before its answer a request has no status, no mark and no count; until the
\* limiter has let it pass no part of its body was taken.
Unanswered == \A r \in Requests :
  /\ place[r] # "done" => answer[r] = [status |-> 0, marks |-> {}] /\ counted[r] = 0
  /\ place[r] \in {"out", "limit"} => held[r] = 0

\* The parts of a body are with the client or held.
PartsKept == \A r \in Requests :
  place[r] # "out" => coming[r] + held[r] = requested[r].parts

\* What is replayed was drained to its end, or the client is gone.
DrainedFirst == \A r \in Requests :
  place[r] \in {"scan", "route"} /\ Replayed(r) => coming[r] = 0 \/ gone[r]

\* The invariant of the requests
FlightInv == FlightTyped /\ Unanswered /\ PartsKept /\ DrainedFirst /\ RequestsApart

\* The server starts with no request under way.
LEMMA FlightInitial == ASSUME PipelineInit PROVE FlightInv
<1>1. FlightTyped
  BY DEF PipelineInit, FlightTyped, Places, Marks
<1> QED
  BY <1>1 DEF PipelineInit, FlightInv, Unanswered, PartsKept, DrainedFirst, RequestsApart, OwnContext, Blank,
              CountsFollowIds, RefusedEarly, BodyWhole, Replayed, Exempt

\* What an answer of a layer does to the request it answers.
LEMMA AnswersStep ==
  ASSUME FlightInv, NEW r \in Requests, NEW layer \in {"redirect", "limit", "size", "secrets", "route"},
         NEW status \in Nat, Answers(r, layer, status), place[r] # "done"
  PROVE  /\ place' = [place EXCEPT ![r] = "done"] /\ context' = [context EXCEPT ![r] = Blank]
         /\ counted' \in [Requests -> Nat]
         /\ answer' \in [Requests -> [status : Nat, marks : SUBSET Marks]]
         /\ answer'[r].status = status
         /\ "id" \in answer'[r].marks <=> counted'[r] = 1
         /\ layer # "route" => counted'[r] = 0
         /\ \A q \in Requests : q # r => answer'[q] = answer[q] /\ counted'[q] = counted[q]
<1> DEFINE m == SecurityMark(layer) \cup HstsMark(layer) \cup IdMark(layer, status)
<1>1. answer[r].marks = {}
  BY DEF FlightInv, Unanswered
<1>2. /\ answer' = [answer EXCEPT ![r] = [status |-> status, marks |-> answer[r].marks \cup m]]
      /\ counted' = [counted EXCEPT ![r] = CountedFrom(layer)]
  BY DEF Answers
<1>3. m \in SUBSET Marks
  BY DEF Marks, SecurityMark, HstsMark, IdMark
<1>4. CountedFrom(layer) \in {0, 1} /\ (CountedFrom(layer) = 1 <=> layer = "route")
  BY LayersAround
<1>5. "id" \in m <=> layer = "route"
  BY LayersAround
<1> HIDE DEF m
<1>6. answer' = [answer EXCEPT ![r] = [status |-> status, marks |-> m]]
  BY <1>1, <1>2
<1>7. answer'[r] = [status |-> status, marks |-> m] /\ counted'[r] = CountedFrom(layer)
  BY <1>2, <1>6 DEF FlightInv, FlightTyped
<1>8. [status |-> status, marks |-> m] \in [status : Nat, marks : SUBSET Marks]
  BY <1>3
<1>9. answer' \in [Requests -> [status : Nat, marks : SUBSET Marks]] /\ counted' \in [Requests -> Nat]
  BY <1>2, <1>4, <1>6, <1>8 DEF FlightInv, FlightTyped
<1>10. \A q \in Requests : q # r => answer'[q] = answer[q] /\ counted'[q] = counted[q]
  BY <1>2, <1>6 DEF FlightInv, FlightTyped
<1> QED
  BY <1>4, <1>5, <1>7, <1>9, <1>10 DEF Answers

\* A request that is answered, the rest of its state being what it was: the
\* invariant holds of it and of the others.
LEMMA AnsweredKeeps ==
  ASSUME FlightInv, NEW r \in Requests, NEW layer \in {"redirect", "limit", "size", "secrets", "route"},
         NEW status \in Nat, Answers(r, layer, status), place[r] \notin {"out", "done"},
         UNCHANGED <<setting, requested, coming, held, gone>>,
         status \in {301, 429} => held[r] = 0 /\ layer # "route",
         status = 200 => held[r] = requested[r].parts \/ (gone[r] /\ Replayed(r))
  PROVE  FlightInv'
<1>1. /\ place' = [place EXCEPT ![r] = "done"] /\ context' = [context EXCEPT ![r] = Blank]
      /\ counted' \in [Requests -> Nat]
      /\ answer' \in [Requests -> [status : Nat, marks : SUBSET Marks]]
      /\ answer'[r].status = status
      /\ "id" \in answer'[r].marks <=> counted'[r] = 1
      /\ layer # "route" => counted'[r] = 0
      /\ \A q \in Requests : q # r => answer'[q] = answer[q] /\ counted'[q] = counted[q]
  BY AnswersStep
<1>2. FlightTyped'
  BY <1>1 DEF FlightInv, FlightTyped, Places
<1>3. place'[r] = "done" /\ context'[r] = Blank
      /\ \A q \in Requests : q # r => place'[q] = place[q] /\ context'[q] = context[q]
  BY <1>1 DEF FlightInv, FlightTyped
<1>4. Unanswered' /\ PartsKept' /\ DrainedFirst'
  BY <1>1, <1>3 DEF FlightInv, Unanswered, PartsKept, DrainedFirst, Replayed, Exempt
<1>5. OwnContext'
  BY <1>3 DEF FlightInv, RequestsApart, OwnContext, Blank
<1>6. CountsFollowIds'
  BY <1>1, <1>3 DEF FlightInv, RequestsApart, CountsFollowIds
<1>7. RefusedEarly' /\ BodyWhole'
  BY <1>1, <1>3 DEF FlightInv, RequestsApart, RefusedEarly, BodyWhole, Replayed, Exempt
<1> QED
  BY <1>2, <1>4, <1>5, <1>6, <1>7 DEF FlightInv, RequestsApart

\* A request that goes on to wait for its body, for the scan or in the route.
LEMMA WaitingKeeps ==
  ASSUME FlightInv, NEW r \in Requests, NEW where \in {"secrets", "scan", "route"},
         place[r] \in {"limit", "secrets", "scan"},
         where \in {"scan", "route"} /\ Replayed(r) => coming[r] = 0 \/ gone[r],
         place' = [place EXCEPT ![r] = where],
         IF where = "route" THEN SetContext(r) ELSE UNCHANGED context,
         UNCHANGED <<setting, requested, coming, held, gone, answer, counted>>
  PROVE  FlightInv'
<1>1. place'[r] = where /\ \A q \in Requests : q # r => place'[q] = place[q]
  BY DEF FlightInv, FlightTyped
<1>2. DOMAIN context' = Requests /\ \A q \in Requests : q # r => context'[q] = context[q]
  BY DEF FlightInv, FlightTyped, SetContext
<1>3. FlightTyped'
  BY <1>2 DEF FlightInv, FlightTyped, Places
<1>4. Unanswered' /\ PartsKept' /\ DrainedFirst'
  BY <1>1 DEF FlightInv, Unanswered, PartsKept, DrainedFirst, Replayed, Exempt
<1>5. OwnContext'
  <2>1. ASSUME NEW q \in Requests, q # r
        PROVE  context'[q] = IF place'[q] = "route" THEN [id |-> q, user |-> requested'[q].user] ELSE Blank
    <3>1. OwnContext
      BY DEF FlightInv, RequestsApart
    <3>2. context[q] = IF place[q] = "route" THEN [id |-> q, user |-> requested[q].user] ELSE Blank
      BY <3>1 DEF OwnContext
    <3>3. place'[q] = place[q] /\ context'[q] = context[q] /\ requested' = requested
      BY <1>1, <1>2, <2>1
    <3> QED
      BY ONLY <3>2, <3>3
  <2>2. CASE where = "route"
    <3>1. context'[r] = [id |-> r, user |-> requested[r].user]
      BY <2>2 DEF FlightInv, FlightTyped, SetContext
    <3> QED
      BY <1>1, <2>1, <2>2, <3>1 DEF OwnContext
  <2>3. CASE where # "route"
    <3>1. context'[r] = Blank
      BY <2>3 DEF FlightInv, RequestsApart, OwnContext
    <3> QED
      BY <1>1, <2>1, <2>3, <3>1 DEF OwnContext
  <2> QED BY <2>2, <2>3
<1>6. CountsFollowIds' /\ RefusedEarly' /\ BodyWhole'
  BY <1>1 DEF FlightInv, RequestsApart, CountsFollowIds, RefusedEarly, BodyWhole, Replayed, Exempt
<1> QED
  BY <1>3, <1>4, <1>5, <1>6 DEF FlightInv, RequestsApart

\* A request goes on behind the rate limiter.
LEMMA PassInnerKeeps ==
  ASSUME FlightInv, NEW r \in Requests, place[r] \in {"limit", "secrets", "scan"}, PassInner(r),
         Replayed(r) => coming[r] = 0 \/ gone[r],
         UNCHANGED <<setting, requested, coming, held, gone>>
  PROVE  FlightInv'
<1>1. CASE setting.security /\ requested[r].large
  BY <1>1, AnsweredKeeps DEF PassInner
<1>2. CASE ~(setting.security /\ requested[r].large)
  BY <1>2, WaitingKeeps DEF PassInner
<1> QED
  BY <1>1, <1>2

\* A request is let through or refused by the rate limiter.
LEMMA PassLimiterKeeps ==
  ASSUME FlightInv, NEW r \in Requests, place[r] = "limit", PassLimiter(r),
         UNCHANGED <<setting, requested, coming, held, gone>>
  PROVE  FlightInv'
<1>1. CASE Exempt(r) \/ requested[r].method = "GET"
  BY <1>1, PassInnerKeeps DEF PassLimiter, Replayed
<1>2. CASE ~(Exempt(r) \/ requested[r].method = "GET")
  BY <1>2, WaitingKeeps DEF PassLimiter, Waits
<1> QED
  BY <1>1, <1>2

\* A request arrives and passes the layers before the limiter.
LEMMA ArriveKeeps ==
  ASSUME FlightInv, NEW r \in Requests, Arrive(r)
  PROVE  FlightInv'
<1>1. PICK k \in RequestKinds :
        /\ requested' = [requested EXCEPT ![r] = k]
        /\ coming' = [coming EXCEPT ![r] = k.parts]
        /\ IF setting.redirect /\ ~k.https /\ k.path # "health"
           THEN Answers(r, "redirect", 301)
           ELSE Waits(r, "limit")
  BY DEF Arrive
<1>2. place[r] = "out" /\ UNCHANGED <<setting, held, gone>>
  BY DEF Arrive
<1>3. k.parts \in Nat
  BY PipelineAssumption
<1>4. /\ requested'[r] = k /\ coming'[r] = k.parts /\ held[r] = 0 /\ DOMAIN requested' = Requests
      /\ \A q \in Requests : q # r => requested'[q] = requested[q] /\ coming'[q] = coming[q]
      /\ coming' \in [Requests -> Nat]
  BY <1>1, <1>2, <1>3 DEF FlightInv, FlightTyped, Unanswered
<1>5. CASE Answers(r, "redirect", 301)
  <2>1. /\ place' = [place EXCEPT ![r] = "done"] /\ context' = [context EXCEPT ![r] = Blank]
        /\ counted' \in [Requests -> Nat]
        /\ answer' \in [Requests -> [status : Nat, marks : SUBSET Marks]]
        /\ answer'[r].status = 301
        /\ ("id" \in answer'[r].marks <=> counted'[r] = 1)
        /\ counted'[r] = 0
        /\ \A q \in Requests : q # r => answer'[q] = answer[q] /\ counted'[q] = counted[q]
    BY <1>2, <1>5, AnswersStep
  <2>2. FlightTyped'
    BY <1>2, <1>4, <2>1 DEF FlightInv, FlightTyped, Places
  <2>3. place'[r] = "done" /\ context'[r] = Blank
        /\ \A q \in Requests : q # r => place'[q] = place[q] /\ context'[q] = context[q]
    BY <2>1 DEF FlightInv, FlightTyped
  <2>a. Unanswered /\ PartsKept
    BY DEF FlightInv
  <2>b. Unanswered'
    BY <1>2, <1>4, <2>1, <2>3, <2>a DEF Unanswered
  <2>c. PartsKept'
    BY <1>2, <1>3, <1>4, <2>3, <2>a DEF PartsKept
  <2>d. DrainedFirst'
    BY <1>2, <1>4, <2>3 DEF FlightInv, DrainedFirst, Replayed, Exempt
  <2>4. Unanswered' /\ PartsKept' /\ DrainedFirst'
    BY <2>b, <2>c, <2>d
  <2>5. OwnContext'
    BY <1>4, <2>3 DEF FlightInv, RequestsApart, OwnContext
  <2>6. CountsFollowIds' /\ RefusedEarly' /\ BodyWhole'
    BY <1>2, <1>4, <2>1, <2>3 DEF FlightInv, RequestsApart, CountsFollowIds, RefusedEarly, BodyWhole, Replayed, Exempt
  <2> QED
    BY <2>2, <2>4, <2>5, <2>6 DEF FlightInv, RequestsApart
<1>6. CASE Waits(r, "limit")
  <2>1. place' = [place EXCEPT ![r] = "limit"] /\ UNCHANGED <<context, answer, counted>>
    BY <1>6 DEF Waits
  <2>2. FlightTyped'
    BY <1>2, <1>4, <2>1 DEF FlightInv, FlightTyped, Places
  <2>3. place'[r] = "limit" /\ \A q \in Requests : q # r => place'[q] = place[q]
    BY <2>1 DEF FlightInv, FlightTyped
  <2>a. Unanswered /\ PartsKept /\ OwnContext
    BY DEF FlightInv, RequestsApart
  <2>b. Unanswered'
    BY <1>2, <1>4, <2>1, <2>3, <2>a DEF Unanswered
  <2>c. PartsKept'
    BY <1>2, <1>3, <1>4, <2>3, <2>a DEF PartsKept
  <2>d. DrainedFirst'
    BY <1>2, <1>4, <2>3 DEF FlightInv, DrainedFirst, Replayed, Exempt
  <2>4. Unanswered' /\ PartsKept' /\ DrainedFirst'
    BY <2>b, <2>c, <2>d
  <2>5. OwnContext'
    <3>1. SUFFICES ASSUME NEW q \in Requests
                   PROVE  context'[q] = IF place'[q] = "route"
                                        THEN [id |-> q, user |-> requested'[q].user] ELSE Blank
      BY DEF OwnContext
    <3>2. context[q] = IF place[q] = "route" THEN [id |-> q, user |-> requested[q].user] ELSE Blank
      BY <2>a DEF OwnContext
    <3>3. context'[q] = context[q]
      BY <2>1
    <3>4. CASE q = r
      BY ONLY <3>2, <3>3, <3>4, <1>2, <2>3
    <3>5. CASE q # r
      <4>1. place'[q] = place[q] /\ requested'[q] = requested[q]
        BY <1>4, <2>3, <3>5
      <4> QED
        BY ONLY <3>2, <3>3, <4>1
    <3> QED
      BY <3>4, <3>5
  <2>6. answer[r] = [status |-> 0, marks |-> {}]
    BY <1>2 DEF FlightInv, Unanswered
  <2>7. CountsFollowIds' /\ RefusedEarly' /\ BodyWhole'
    BY <1>2, <1>4, <2>1, <2>3, <2>6 DEF FlightInv, RequestsApart, CountsFollowIds, RefusedEarly, BodyWhole, Replayed, Exempt
  <2> QED
    BY <2>2, <2>4, <2>5, <2>7 DEF FlightInv, RequestsApart
<1> QED
  BY <1>1, <1>5, <1>6

\* The drain loop, or the route, takes a part of the body.
LEMMA TakePartKeeps ==
  ASSUME FlightInv, NEW r \in Requests, place[r] \in {"secrets", "route"}, coming[r] > 0,
         TakePart(r), UNCHANGED <<setting, requested, place, gone, context, answer, counted>>,
         place[r] = "route" => ~Replayed(r)
  PROVE  FlightInv'
<1>1. /\ held'[r] = held[r] + 1 /\ coming'[r] = coming[r] - 1
      /\ \A q \in Requests : q # r => held'[q] = held[q] /\ coming'[q] = coming[q]
  BY DEF FlightInv, FlightTyped, TakePart
<1>2. FlightTyped'
  BY DEF FlightInv, FlightTyped, TakePart
<1>3. Unanswered'
  BY <1>1 DEF FlightInv, Unanswered
<1>4. PartsKept'
  <2>1. coming'[r] + held'[r] = coming[r] + held[r]
    BY <1>1 DEF FlightInv, FlightTyped
  <2> QED
    BY <1>1, <2>1 DEF FlightInv, PartsKept
<1>8. DrainedFirst'
  BY <1>1 DEF FlightInv, DrainedFirst, Replayed, Exempt
<1>5. answer[r].status = 0
  BY DEF FlightInv, Unanswered
<1>6. OwnContext' /\ CountsFollowIds'
  BY DEF FlightInv, RequestsApart, OwnContext, CountsFollowIds
<1>7. RefusedEarly' /\ BodyWhole'
  BY <1>1, <1>5 DEF FlightInv, RequestsApart, RefusedEarly, BodyWhole, Replayed, Exempt
<1> QED
  BY <1>2, <1>3, <1>4, <1>6, <1>7, <1>8 DEF FlightInv, RequestsApart

\* Any step of one request
LEMMA RequestKeeps ==
  ASSUME FlightInv, NEW r \in Requests, RequestStep(r) \/ Disconnect(r)
  PROVE  FlightInv'
<1>1. CASE PassSlidingWindow(r)
  <2>1. CASE PassLimiter(r)
    BY <1>1, <2>1, PassLimiterKeeps DEF PassSlidingWindow
  <2>2. CASE Answers(r, "limit", 429)
    BY <1>1, <2>2, AnsweredKeeps DEF PassSlidingWindow, FlightInv, Unanswered
  <2> QED
    BY <1>1, <2>1, <2>2 DEF PassSlidingWindow
<1>2. CASE PassTokenBucket(r)
  <2>1. CASE PassLimiter(r)
    BY <1>2, <2>1, PassLimiterKeeps DEF PassTokenBucket
  <2>2. CASE Answers(r, "limit", 429)
    BY <1>2, <2>2, AnsweredKeeps DEF PassTokenBucket, FlightInv, Unanswered
  <2> QED
    BY <1>2, <2>1, <2>2 DEF PassTokenBucket
<1>3. CASE PassUnguarded(r)
  BY <1>3, PassInnerKeeps DEF PassUnguarded, Replayed
<1>4. CASE DrainBody(r)
  <2>1. place[r] = "secrets" /\ UNCHANGED <<setting, requested, gone>>
    BY <1>4 DEF DrainBody
  <2>2. CASE /\ Drained(r)
             /\ IF held[r] = 0 THEN PassInner(r) ELSE Waits(r, "scan")
             /\ UNCHANGED <<coming, held>>
    <3>1. CASE held[r] = 0
      BY <2>1, <2>2, <3>1, PassInnerKeeps DEF Drained
    <3>2. CASE held[r] # 0
      BY <2>1, <2>2, <3>2, WaitingKeeps DEF Waits, Drained
    <3> QED BY <3>1, <3>2
  <2>3. CASE /\ coming[r] > 0 /\ ~gone[r]
             /\ TakePart(r)
             /\ UNCHANGED <<place, context, answer, counted>>
    BY <2>1, <2>3, TakePartKeeps
  <2> QED
    BY <1>4, <2>2, <2>3 DEF DrainBody
<1>5. CASE Scan(r)
  <2>1. CASE PassInner(r)
    BY <1>5, <2>1, PassInnerKeeps DEF Scan, FlightInv, DrainedFirst
  <2>2. CASE Answers(r, "secrets", 400)
    BY <1>5, <2>2, AnsweredKeeps DEF Scan
  <2> QED
    BY <1>5, <2>1, <2>2 DEF Scan
<1>6. CASE ReadInRoute(r)
  BY <1>6, TakePartKeeps DEF ReadInRoute
<1>7. CASE Handle(r)
  <2>1. place[r] = "route" /\ UNCHANGED <<setting, requested, coming, held, gone>>
    BY <1>7 DEF Handle
  <2>2. CASE \E status \in {400, 401, 422} : Answers(r, "route", status)
    BY <2>1, <2>2, AnsweredKeeps
  <2>3. CASE BodyRead(r) /\ Answers(r, "route", 200)
    <3>1. coming[r] = 0 => held[r] = requested[r].parts
      BY <2>1 DEF FlightInv, FlightTyped, PartsKept
    <3>2. held[r] = requested[r].parts \/ (gone[r] /\ Replayed(r))
      BY <2>1, <2>3, <3>1 DEF FlightInv, DrainedFirst, BodyRead
    <3> QED
      BY <2>1, <2>3, <3>2, AnsweredKeeps
  <2>4. \/ \E status \in {400, 401, 422} : Answers(r, "route", status)
        \/ BodyRead(r) /\ Answers(r, "route", 200)
    BY <1>7, Zenon DEF Handle
  <2> QED
    BY <2>2, <2>3, <2>4
<1>8. CASE Raise(r)
  <2>1. /\ place[r] = "route" /\ UNCHANGED <<setting, requested, coming, held, gone>>
        /\ answer' = [answer EXCEPT ![r] = [status |-> 500, marks |-> {}]]
        /\ counted' = [counted EXCEPT ![r] = 2]
        /\ context' = [context EXCEPT ![r] = Blank]
        /\ place' = [place EXCEPT ![r] = "done"]
    <3>1. CountedTwiceFrom("route") = 2
      <4>1. CountedFrom("route") = 1
        BY LayersAround
      <4> QED
        BY <4>1 DEF CountedTwiceFrom
    <3> QED
      BY <1>8, <3>1 DEF Raise
  <2>2. FlightTyped'
    BY <2>1 DEF FlightInv, FlightTyped, Places, Marks
  <2>3. /\ place'[r] = "done" /\ context'[r] = Blank /\ counted'[r] = 2
        /\ answer'[r] = [status |-> 500, marks |-> {}]
        /\ \A q \in Requests : q # r =>
             /\ place'[q] = place[q] /\ context'[q] = context[q]
             /\ answer'[q] = answer[q] /\ counted'[q] = counted[q]
    BY <2>1 DEF FlightInv, FlightTyped
  <2>4. Unanswered' /\ PartsKept' /\ DrainedFirst'
    BY <2>1, <2>3 DEF FlightInv, Unanswered, PartsKept, DrainedFirst, Replayed, Exempt
  <2>5. OwnContext' /\ CountsFollowIds' /\ RefusedEarly' /\ BodyWhole'
    BY <2>1, <2>3
    DEF FlightInv, RequestsApart, OwnContext, CountsFollowIds, RefusedEarly, BodyWhole, Replayed, Exempt
  <2> QED
    BY <2>2, <2>4, <2>5 DEF FlightInv, RequestsApart
<1>9. CASE Disconnect(r)
  <2>1. gone' = [gone EXCEPT ![r] = TRUE]
        /\ UNCHANGED <<setting, requested, place, coming, held, context, answer, counted>>
    BY <1>9 DEF Disconnect
  <2>2. FlightTyped' /\ \A q \in Requests : gone[q] => gone'[q]
    BY <2>1 DEF FlightInv, FlightTyped
  <2>3. Unanswered' /\ PartsKept' /\ DrainedFirst'
    BY <2>1 DEF FlightInv, Unanswered, PartsKept, DrainedFirst, Replayed, Exempt
  <2>4. OwnContext' /\ CountsFollowIds' /\ RefusedEarly' /\ BodyWhole'
    BY <2>1, <2>2
    DEF FlightInv, RequestsApart, OwnContext, CountsFollowIds, RefusedEarly, BodyWhole, Replayed, Exempt
  <2> QED
    BY <2>2, <2>3, <2>4 DEF FlightInv, RequestsApart
<1> QED
  BY <1>1, <1>2, <1>3, <1>4, <1>5, <1>6, <1>7, <1>8, <1>9 DEF RequestStep

\* Every step keeps the invariant of the requests.
LEMMA FlightStep == ASSUME FlightInv, [PipelineNext]_pipelineVars PROVE FlightInv'
<1>1. CASE UNCHANGED <<setting, flight>>
  BY <1>1
  DEF flight, FlightInv, FlightTyped, Unanswered, PartsKept, DrainedFirst, RequestsApart, OwnContext,
      CountsFollowIds, RefusedEarly, BodyWhole, Replayed, Exempt
<1> QED
  BY <1>1, ArriveKeeps, RequestKeeps DEF PipelineNext, PipelineTick, pipelineVars, flight

\* api/server.py and api/security_middleware.py: however requests cross the layers
\* together, a route sees the context of its own request, an answer has an id
\* exactly when the metrics count it, a refused request has cost nothing, and a
\* route answers 200 to a part of a body only where the scan's drain was cut short.
THEOREM RequestsApartHolds == PipelineSpec => []RequestsApart
<1>1. FlightInv => RequestsApart
  BY DEF FlightInv
<1> QED
  BY <1>1, FlightInitial, FlightStep, PTL DEF PipelineSpec

(***************************************************************************)
(* The token bucket                                                        *)
(***************************************************************************)
\* What the bucket would hold if it were refilled now
Available == Refilled(bucket)

\* The requests admitted at most k ticks ago
AdmittedWithin(k) == {r \in Requests : admitted[r] \in 0..k}

\* The typing of the bucket
BucketTyped ==
  /\ bucket \in [tokens : Int, idle : Nat]
  /\ bucket # NoBucket => bucket.tokens \in Nat
  /\ sinceCleanup \in Nat /\ ticks \in Nat
  /\ admitted \in [Requests -> Nat \cup {-1}]
  /\ IsFiniteSet({r \in Requests : admitted[r] # -1})
  /\ \A r \in Requests : place[r] \in {"out", "limit"} => admitted[r] = -1

\* What was let in within a stretch of time, and what is left to be let in at once, is
\* what the bucket holds and what flowed back meanwhile
Flows == \A k \in Nat :
  Cardinality(AdmittedWithin(k)) * Window + Available <= Full + k * Burst

\* The invariant of the bucket
BucketInv == FlightTyped /\ BucketTyped /\ Flows

\* There are finitely many of them.
LEMMA AdmittedFinite ==
  ASSUME BucketTyped, NEW k \in Nat
  PROVE  IsFiniteSet(AdmittedWithin(k)) /\ Cardinality(AdmittedWithin(k)) \in Nat
<1>1. AdmittedWithin(k) \subseteq {r \in Requests : admitted[r] # -1}
  BY DEF AdmittedWithin
<1> QED
  BY <1>1, FS_Subset, FS_CardinalityType DEF BucketTyped

\* A bucket never has more tokens than it can hold.
LEMMA AvailableType ==
  ASSUME BucketTyped PROVE Available \in Nat /\ Available <= Full /\ Full \in Nat
<1>1. Burst \in Nat /\ Window \in Nat
  BY PipelineAssumption
<1>2. Full \in Nat
  BY <1>1 DEF Full
<1>3. CASE bucket = NoBucket
  BY <1>2, <1>3 DEF Available, Refilled
<1>4. CASE bucket # NoBucket
  <2>1. bucket.tokens \in Nat /\ bucket.idle \in Nat
    BY <1>4 DEF BucketTyped
  <2>2. bucket.tokens + bucket.idle * Burst \in Nat
    BY <1>1, <2>1
  <2> QED
    BY <1>2, <1>4, <2>2 DEF Available, Refilled
<1> QED
  BY <1>3, <1>4

\* The cleanup drops a bucket that would be full anyway.
LEMMA CleanedSame ==
  ASSUME BucketTyped
  PROVE  Refilled(Cleaned) = Available
<1>1. CASE Cleaned = bucket
  BY <1>1 DEF Available
<1>2. CASE Cleaned # bucket
  <2>1. bucket # NoBucket /\ bucket.idle > 2 * Window /\ Cleaned = NoBucket
    BY <1>2 DEF Cleaned
  <2>2. bucket.tokens \in Nat /\ bucket.idle \in Nat /\ Burst \in Nat /\ Window \in Nat
    BY <2>1, PipelineAssumption DEF BucketTyped
  <2>3. bucket.idle * Burst >= Window * Burst
    BY <2>1, <2>2
  <2>4. Window * Burst = Full /\ Full \in Nat
    BY <2>2 DEF Full
  <2>5. bucket.idle * Burst \in Nat
    BY <2>2
  <2>6. Refilled(bucket) = Full
    BY <2>1, <2>2, <2>3, <2>4, <2>5 DEF Refilled
  <2> QED
    BY <2>1, <2>6 DEF Available, Refilled
<1> QED
  BY <1>1, <1>2

\* A client has no bucket before its first request.
LEMMA BucketInitial == ASSUME PipelineInit PROVE BucketInv
<1>1. FlightTyped
  BY FlightInitial DEF FlightInv
<1>2. {r \in Requests : admitted[r] # -1} = {}
  BY DEF PipelineInit
<1>3. BucketTyped
  <2>1. NoBucket \in [tokens : Int, idle : Nat]
    BY DEF NoBucket
  <2> QED
    BY <1>2, <2>1, FS_EmptySet DEF PipelineInit, BucketTyped
<1>4. \A k \in Nat : AdmittedWithin(k) = {}
  BY DEF PipelineInit, AdmittedWithin
<1>5. Flows
  <2> SUFFICES ASSUME NEW k \in Nat
               PROVE  Cardinality(AdmittedWithin(k)) * Window + Available <= Full + k * Burst
    BY DEF Flows
  <2>1. Cardinality(AdmittedWithin(k)) = 0
    BY <1>4, FS_EmptySet
  <2>2. Available \in Nat /\ Available <= Full /\ Full \in Nat
    BY <1>3, AvailableType
  <2>3. k * Burst \in Nat /\ 0 * Window = 0
    BY PipelineAssumption
  <2> QED
    BY <2>1, <2>2, <2>3
<1> QED
  BY <1>1, <1>3, <1>5 DEF BucketInv

\* Nobody comes back to the limiter
LEMMA NobodyComesBack ==
  ASSUME FlightTyped, [PipelineNext]_pipelineVars, NEW q \in Requests, place'[q] \in {"out", "limit"}
  PROVE  place[q] \in {"out", "limit"}
<1>1. ASSUME NEW r \in Requests, place[r] = "out" \/ place'[r] \notin {"out", "limit"},
             \A p \in Requests : p # r => place'[p] = place[p]
      PROVE  place[q] \in {"out", "limit"}
  BY <1>1
<1>2. ASSUME NEW r \in Requests, NEW w \in Places, place' = [place EXCEPT ![r] = w]
      PROVE  place'[r] = w /\ \A p \in Requests : p # r => place'[p] = place[p]
  BY <1>2 DEF FlightTyped
<1>3. ASSUME NEW r \in Requests, Arrive(r) PROVE place[q] \in {"out", "limit"}
  <2>1. place[r] = "out" /\ \E w \in Places : place' = [place EXCEPT ![r] = w]
    BY <1>3 DEF Arrive, Answers, Waits, Places
  <2> QED
    BY <1>1, <1>2, <2>1
<1>4. ASSUME NEW r \in Requests, RequestStep(r) PROVE place[q] \in {"out", "limit"}
  <2> DEFINE Onward == \E w \in {"secrets", "scan", "route", "done"} : place' = [place EXCEPT ![r] = w]
  <2>a. ASSUME NEW layer, NEW status, Answers(r, layer, status) PROVE Onward
    BY ONLY <2>a DEF Answers
  <2>b. ASSUME Waits(r, "secrets") \/ Waits(r, "scan") PROVE Onward
    BY ONLY <2>b DEF Waits
  <2>c. ASSUME PassInner(r) PROVE Onward
    <3>1. CASE setting.security /\ requested[r].large
      BY ONLY <2>a, <2>c, <3>1 DEF PassInner
    <3>2. CASE ~ (setting.security /\ requested[r].large)
      BY ONLY <2>c, <3>2 DEF PassInner
    <3> QED
      BY <3>1, <3>2
  <2>d. ASSUME PassLimiter(r) PROVE Onward
    BY ONLY <2>b, <2>c, <2>d DEF PassLimiter
  <2>e. Raise(r) => Onward
    BY ONLY DEF Raise
  <2> HIDE DEF Onward
  <2>f. PassSlidingWindow(r) \/ PassTokenBucket(r) \/ PassUnguarded(r) => Onward
    BY ONLY <2>a, <2>c, <2>d DEF PassSlidingWindow, PassTokenBucket, PassUnguarded
  <2>g. DrainBody(r) => Onward \/ place' = place
    BY ONLY <2>b, <2>c DEF DrainBody
  <2>h. Scan(r) \/ Handle(r) => Onward
    BY ONLY <2>a, <2>c DEF Scan, Handle
  <2>i. ReadInRoute(r) => place' = place
    BY ONLY DEF ReadInRoute
  <2>j. Onward \/ place' = place
    BY ONLY <1>4, <2>e, <2>f, <2>g, <2>h, <2>i DEF RequestStep
  <2>1. \/ place' = place
        \/ \E w \in Places \ {"out", "limit"} : place' = [place EXCEPT ![r] = w]
    BY ONLY <2>j DEF Onward, Places
  <2> QED
    BY <1>1, <1>2, <2>1
<1>5. ASSUME UNCHANGED place PROVE place[q] \in {"out", "limit"}
  BY <1>5
<1> QED
  BY <1>3, <1>4, <1>5 DEF PipelineNext, Disconnect, PipelineTick, pipelineVars, flight

\* A request is checked against the bucket.
LEMMA CheckKeeps ==
  ASSUME BucketInv, FlightTyped', NEW r \in Requests, NEW allowed \in BOOLEAN, CheckBucket(r, allowed),
         place[r] = "limit", place'[r] \notin {"out", "limit"}, ticks' = ticks,
         \A q \in Requests : place'[q] \in {"out", "limit"} => place[q] \in {"out", "limit"}
  PROVE  BucketInv'
<1> DEFINE T == Available
<1>1. /\ T \in Nat /\ T <= Full /\ Full \in Nat /\ Burst \in Nat /\ Window \in Nat
      /\ allowed = (T >= Window)
      /\ bucket' = [tokens |-> IF allowed THEN T - Window ELSE T, idle |-> 0]
      /\ sinceCleanup' = IF sinceCleanup < CleanupInterval THEN sinceCleanup ELSE 0
      /\ admitted' = [admitted EXCEPT ![r] = IF allowed THEN 0 ELSE @]
  BY CleanedSame, AvailableType, PipelineAssumption DEF BucketInv, CheckBucket
<1> HIDE DEF T
<1> DEFINE left == IF allowed THEN T - Window ELSE T
<1>2. left \in Nat /\ left <= Full
  <2>1. CASE allowed
    <3>1. T >= Window
      BY <1>1, <2>1
    <3> QED
      BY <1>1, <2>1, <3>1
  <2>2. CASE ~allowed
    BY <1>1, <2>2
  <2> QED BY <2>1, <2>2
<1>3. bucket' = [tokens |-> left, idle |-> 0]
  BY <1>1
<1> HIDE DEF left
<1>4. bucket'.tokens = left /\ bucket'.idle = 0 /\ bucket' \in [tokens : Int, idle : Nat] /\ bucket' # NoBucket
  BY <1>2, <1>3 DEF NoBucket
<1>5. Available' = left
  <2>1. left + 0 * Burst = left
    BY <1>1, <1>2
  <2>2. Available' = IF left + 0 * Burst > Full THEN Full ELSE left + 0 * Burst
    BY <1>4 DEF Available, Refilled, Full
  <2> QED
    BY <1>1, <1>2, <2>1, <2>2
<1>6. admitted[r] = -1 /\ admitted \in [Requests -> Nat \cup {-1}]
  BY DEF BucketInv, BucketTyped
<1>7. /\ admitted'[r] = IF allowed THEN 0 ELSE -1
      /\ \A q \in Requests : q # r => admitted'[q] = admitted[q]
      /\ admitted' \in [Requests -> Nat \cup {-1}]
  BY <1>1, <1>6
<1>8. IsFiniteSet({q \in Requests : admitted'[q] # -1})
  <2>1. {q \in Requests : admitted'[q] # -1} \subseteq {q \in Requests : admitted[q] # -1} \cup {r}
    BY <1>7
  <2>2. IsFiniteSet({q \in Requests : admitted[q] # -1} \cup {r})
    BY FS_AddElement DEF BucketInv, BucketTyped
  <2> QED
    BY <2>1, <2>2, FS_Subset
<1>9. BucketTyped'
  <2>1. sinceCleanup' \in Nat
    BY <1>1 DEF BucketInv, BucketTyped
  <2>2. \A q \in Requests : place'[q] \in {"out", "limit"} => admitted'[q] = -1
    BY <1>7 DEF BucketInv, BucketTyped
  <2> QED
    BY <1>2, <1>4, <1>7, <1>8, <2>1, <2>2 DEF BucketInv, BucketTyped
<1>10. Flows'
  <2> SUFFICES ASSUME NEW k \in Nat
               PROVE  Cardinality(AdmittedWithin(k)') * Window + left <= Full + k * Burst
    BY <1>5 DEF Flows, Full
  <2> DEFINE n == Cardinality(AdmittedWithin(k))
  <2>1. n * Window + T <= Full + k * Burst /\ n \in Nat /\ IsFiniteSet(AdmittedWithin(k))
    BY AdmittedFinite DEF BucketInv, Flows, T
  <2>2. CASE allowed
    <3>1. AdmittedWithin(k)' = AdmittedWithin(k) \cup {r} /\ r \notin AdmittedWithin(k)
      BY <1>6, <1>7, <2>2 DEF AdmittedWithin
    <3>2. Cardinality(AdmittedWithin(k)') = n + 1
      BY <2>1, <3>1, FS_AddElement
    <3>3. (n + 1) * Window = n * Window + Window /\ n * Window \in Nat
      BY <1>1, <2>1
    <3>4. left = T - Window
      BY <2>2 DEF left
    <3> HIDE DEF n
    <3> QED
      BY <1>1, <2>1, <3>2, <3>3, <3>4
  <2>3. CASE ~allowed
    <3>1. AdmittedWithin(k)' = AdmittedWithin(k)
      BY <1>6, <1>7, <2>3 DEF AdmittedWithin
    <3> QED
      BY <2>1, <2>3, <3>1 DEF left
  <2> QED
    BY <2>2, <2>3
<1> QED
  BY <1>9, <1>10 DEF BucketInv

\* Time passes: what flows back comes to be available, as far as there is room.
LEMMA TickKeeps ==
  ASSUME BucketInv, PipelineTick
  PROVE  BucketInv'
<1>1. /\ ticks' = ticks + 1 /\ sinceCleanup' = sinceCleanup + 1 /\ place' = place
      /\ bucket' = IF bucket = NoBucket THEN bucket ELSE [bucket EXCEPT !.idle = @ + 1]
      /\ admitted' = [r \in Requests |-> IF admitted[r] = -1 THEN -1 ELSE admitted[r] + 1]
      /\ FlightTyped'
  BY DEF PipelineTick, flight, BucketInv, FlightTyped
<1>2. Burst \in Nat /\ Window \in Nat /\ Available \in Nat /\ Available <= Full /\ Full \in Nat
  BY AvailableType, PipelineAssumption DEF BucketInv
<1>3. /\ bucket' \in [tokens : Int, idle : Nat] /\ (bucket' # NoBucket => bucket'.tokens \in Nat)
      /\ Available' \in Nat /\ Available' <= Full /\ Available' <= Available + Burst
  <2>1. CASE bucket = NoBucket
    BY <1>1, <1>2, <2>1 DEF BucketInv, BucketTyped, Available, Refilled, Full
  <2>2. CASE bucket # NoBucket
    <3>1. bucket.tokens \in Nat /\ bucket.idle \in Nat /\ bucket \in [tokens : Int, idle : Nat]
      BY <2>2 DEF BucketInv, BucketTyped
    <3>2. /\ bucket' \in [tokens : Int, idle : Nat]
          /\ bucket'.tokens = bucket.tokens /\ bucket'.idle = bucket.idle + 1
      BY <1>1, <2>2, <3>1
    <3>3. bucket' # NoBucket
      BY <3>1, <3>2 DEF NoBucket
    <3> DEFINE f == bucket.idle * Burst
    <3>4. (bucket.idle + 1) * Burst = f + Burst /\ f \in Nat
      BY <1>2, <3>1
    <3>5. Available' = IF bucket.tokens + (f + Burst) > Full THEN Full ELSE bucket.tokens + (f + Burst)
      BY <3>2, <3>3, <3>4 DEF Available, Refilled, Full
    <3>6. Available = IF bucket.tokens + f > Full THEN Full ELSE bucket.tokens + f
      BY <2>2 DEF Available, Refilled
    <3> HIDE DEF f
    <3> QED
      BY <1>2, <3>1, <3>2, <3>4, <3>5, <3>6
  <2> QED
    BY <2>1, <2>2
<1>4. /\ admitted' \in [Requests -> Nat \cup {-1}]
      /\ \A r \in Requests : admitted'[r] = IF admitted[r] = -1 THEN -1 ELSE admitted[r] + 1
      /\ \A r \in Requests : admitted[r] \in Nat \/ admitted[r] = -1
      /\ \A r \in Requests : admitted'[r] = -1 <=> admitted[r] = -1
  BY <1>1 DEF BucketInv, BucketTyped
<1>5. BucketTyped'
  <2>1. {r \in Requests : admitted'[r] # -1} = {r \in Requests : admitted[r] # -1}
    BY <1>4
  <2>2. IsFiniteSet({r \in Requests : admitted'[r] # -1})
    BY <2>1 DEF BucketInv, BucketTyped
  <2>3. sinceCleanup' \in Nat /\ ticks' \in Nat
    BY <1>1 DEF BucketInv, BucketTyped
  <2>4. \A r \in Requests : place'[r] \in {"out", "limit"} => admitted'[r] = -1
    BY <1>1, <1>4 DEF BucketInv, BucketTyped
  <2> QED
    BY <1>3, <1>4, <2>2, <2>3, <2>4 DEF BucketTyped
<1>6. Flows'
  <2> SUFFICES ASSUME NEW k \in Nat
               PROVE  Cardinality(AdmittedWithin(k)') * Window + Available' <= Full + k * Burst
    BY DEF Flows, Full
  <2>1. CASE k = 0
    <3>1. AdmittedWithin(k)' = {}
      BY <1>4, <2>1 DEF AdmittedWithin
    <3>2. Cardinality(AdmittedWithin(k)') = 0
      BY <3>1, FS_EmptySet
    <3>3. 0 * Window = 0 /\ k * Burst = 0
      BY <1>2, <2>1
    <3>4. Cardinality(AdmittedWithin(k)') * Window = 0
      BY <3>2, <3>3
    <3> QED
      BY <1>2, <1>3, <3>3, <3>4
  <2>2. CASE k # 0
    <3> DEFINE n == Cardinality(AdmittedWithin(k-1))
    <3>1. k - 1 \in Nat
      BY <2>2
    <3>2. n * Window + Available <= Full + (k-1) * Burst /\ n \in Nat
      BY <3>1, AdmittedFinite DEF BucketInv, Flows
    <3>3. AdmittedWithin(k)' = AdmittedWithin(k-1)
      <4>1. \A r \in Requests : admitted'[r] \in 0..k <=> admitted[r] \in 0..(k-1)
        BY <1>4, <3>1
      <4> QED
        BY <4>1 DEF AdmittedWithin
    <3>4. Cardinality(AdmittedWithin(k)') = n
      BY <3>3
    <3> DEFINE cost == n * Window  back == (k-1) * Burst
    <3>5. k * Burst = back + Burst /\ cost \in Nat /\ back \in Nat
      BY <1>2, <3>1, <3>2
    <3>6. Cardinality(AdmittedWithin(k)') * Window = cost /\ cost + Available <= Full + back
      BY <3>2, <3>4
    <3> HIDE DEF n, cost, back
    <3> QED
      BY <1>2, <1>3, <3>5, <3>6
  <2> QED
    BY <2>1, <2>2
<1> QED
  BY <1>1, <1>5, <1>6 DEF BucketInv

\* Every step keeps the invariant of the bucket.
LEMMA BucketStep == ASSUME FlightInv, BucketInv, [PipelineNext]_pipelineVars PROVE BucketInv'
<1>0. FlightTyped'
  BY FlightStep DEF FlightInv
<1>1. \A q \in Requests : place'[q] \in {"out", "limit"} => place[q] \in {"out", "limit"}
  BY NobodyComesBack DEF BucketInv
<1>2. CASE UNCHANGED limits
  <2>1. UNCHANGED <<bucket, sinceCleanup, admitted, ticks>>
    BY <1>2 DEF limits
  <2>2. BucketTyped'
    BY <1>1, <2>1 DEF BucketInv, BucketTyped
  <2>3. Flows'
    BY <2>1 DEF BucketInv, Flows, AdmittedWithin, Available, Refilled, Full
  <2> QED
    BY <1>0, <2>2, <2>3 DEF BucketInv
<1>3. ASSUME NEW r \in Requests, PassTokenBucket(r), ~UNCHANGED limits PROVE BucketInv'
  <2>1. PICK allowed \in BOOLEAN :
          /\ CheckBucket(r, allowed)
          /\ IF allowed THEN PassLimiter(r) ELSE Answers(r, "limit", 429)
    BY <1>3 DEF PassTokenBucket
  <2>2. place[r] = "limit" /\ ticks' = ticks
    BY <1>3 DEF PassTokenBucket
  <2>3. \E w \in {"secrets", "route", "done"} : place' = [place EXCEPT ![r] = w]
    BY <2>1 DEF PassLimiter, PassInner, Answers, Waits
  <2>4. place'[r] \notin {"out", "limit"}
    BY <2>3 DEF BucketInv, FlightTyped
  <2> QED
    BY <1>0, <1>1, <2>1, <2>2, <2>4, CheckKeeps
<1> QED
  BY <1>2, <1>3, TickKeeps
  DEF PipelineNext, pipelineVars, limits, RequestStep, Arrive, Disconnect, PassSlidingWindow,
      PassUnguarded, DrainBody, Scan, ReadInRoute, Handle, Raise

\* api/security_middleware.py: in any span of time a client gets no more requests
\* through than a full bucket and what that span refills, also when its bucket is
\* thrown away by the cleanup and built again.
THEOREM BucketBoundedHolds == PipelineSpec => []BucketBounded
<1>1. FlightInv /\ BucketInv => BucketBounded
  <2> SUFFICES ASSUME BucketInv, NEW k \in 0..ticks
               PROVE  Cardinality(AdmittedWithin(k)) * Window <= Full + k * Burst
    BY DEF BucketBounded, AdmittedWithin
  <2>1. k \in Nat
    BY DEF BucketInv, BucketTyped
  <2>2. Cardinality(AdmittedWithin(k)) * Window + Available <= Full + k * Burst
    BY <2>1 DEF BucketInv, Flows
  <2>3. Available \in Nat /\ Full \in Nat /\ Cardinality(AdmittedWithin(k)) \in Nat /\ Window \in Nat /\ Burst \in Nat
    BY <2>1, AvailableType, AdmittedFinite, PipelineAssumption DEF BucketInv
  <2>4. Cardinality(AdmittedWithin(k)) * Window \in Nat /\ k * Burst \in Nat
    BY <2>1, <2>3
  <2> QED
    BY <2>2, <2>3, <2>4
<1>2. PipelineInit => FlightInv /\ BucketInv
  BY FlightInitial, BucketInitial
<1>3. FlightInv /\ BucketInv /\ [PipelineNext]_pipelineVars => FlightInv' /\ BucketInv'
  BY FlightStep, BucketStep
<1> QED
  BY <1>1, <1>2, <1>3, PTL DEF PipelineSpec

------------------------------------------------------------------------------
(*****************************************************************************)
(* EventBus.                                                                 *)
(*                                                                           *)
(* A publication walks a list by its index while others change it.  What a   *)
(* subscriber still can hear is what stands ahead of the index; leaving moves *)
(* others forwards only, so nobody is heard twice, and on a list that is     *)
(* replaced nobody who stays is passed over.                                 *)
(*****************************************************************************)

\* No element occurs twice.
NoneTwice(s) == \A i, j \in 1..Len(s) : s[i] = s[j] => i = j

\* Taking one position away closes the gap.
LEMMA RemovedAt ==
  ASSUME NEW S, NEW s \in Seq(S), NEW i \in 1..Len(s)
  PROVE  /\ RemoveAt(s, i) \in Seq(S)
         /\ Len(RemoveAt(s, i)) = Len(s) - 1
         /\ \A j \in 1..(Len(s)-1) : RemoveAt(s, i)[j] = IF j < i THEN s[j] ELSE s[j+1]
<1> DEFINE a == SubSeq(s, 1, i-1)  b == SubSeq(s, i+1, Len(s))
<1>1. /\ a \in Seq(S) /\ Len(a) = i - 1 /\ \A j \in 1..(i-1) : a[j] = s[j]
  BY SubSeqProperties
<1>2. /\ b \in Seq(S) /\ Len(b) = Len(s) - i /\ \A j \in 1..(Len(s)-i) : b[j] = s[i+j]
  BY SubSeqProperties
<1> HIDE DEF a, b
<1>3. a \in Seq(S) /\ b \in Seq(S)
  BY <1>1, <1>2
<1>4. /\ a \o b \in Seq(S)
      /\ Len(a \o b) = Len(a) + Len(b)
      /\ \A j \in 1..Len(a) + Len(b) : (a \o b)[j] = IF j <= Len(a) THEN a[j] ELSE b[j - Len(a)]
  BY <1>3, ConcatProperties, Zenon
<1>5. ASSUME NEW j \in 1..(Len(s)-1)
      PROVE  (a \o b)[j] = IF j < i THEN s[j] ELSE s[j+1]
  <2>1. j \in 1..Len(a) + Len(b)
    BY <1>1, <1>2
  <2>2. (a \o b)[j] = IF j <= Len(a) THEN a[j] ELSE b[j - Len(a)]
    BY <1>4, <2>1
  <2>3. CASE j < i
    BY <1>1, <2>2, <2>3
  <2>4. CASE ~(j < i)
    <3>1. j - Len(a) \in 1..(Len(s)-i) /\ i + (j - Len(a)) = j + 1 /\ ~(j <= Len(a))
      BY <1>1, <2>4
    <3> QED
      BY <1>2, <2>2, <2>4, <3>1
  <2> QED
    BY <2>3, <2>4
<1>6. RemoveAt(s, i) = a \o b
  BY DEF RemoveAt, a, b
<1>7. Len(a) + Len(b) = Len(s) - 1
  BY <1>1, <1>2
<1> QED
  BY <1>4, <1>5, <1>6, <1>7

\* Appending adds the one element, at the end.
LEMMA AppendedOnce ==
  ASSUME NEW S, NEW s \in Seq(S), NEW d \in S
  PROVE  /\ NoneTwice(s) /\ ~Contains(s, d) => NoneTwice(Append(s, d))
         /\ \A x : Contains(Append(s, d), x) <=> Contains(s, x) \/ x = d
         /\ \A k \in 1..Len(s) : Append(s, d)[k] = s[k]
         /\ \A k \in 1..Len(Append(s, d)) : k \in 1..Len(s) \/ Append(s, d)[k] = d
<1> DEFINE t == Append(s, d)
<1>1. /\ t \in Seq(S) /\ Len(t) = Len(s) + 1 /\ t[Len(s) + 1] = d
      /\ \A k \in 1..Len(s) : t[k] = s[k]
  OBVIOUS
<1> HIDE DEF t
<1>2. ASSUME NoneTwice(s), ~Contains(s, d), NEW i \in 1..Len(t), NEW j \in 1..Len(t), t[i] = t[j]
      PROVE  i = j
  <2>1. \A k \in 1..Len(s) : s[k] # d
    BY <1>2 DEF Contains
  <2>2. CASE i \in 1..Len(s) /\ j \in 1..Len(s)
    BY <1>1, <1>2, <2>2 DEF NoneTwice
  <2>3. CASE ~(i \in 1..Len(s) /\ j \in 1..Len(s))
    BY <1>1, <1>2, <2>1, <2>3
  <2> QED
    BY <2>2, <2>3
<1>3. ASSUME NEW x, Contains(s, x) \/ x = d PROVE Contains(t, x)
  <2>1. ASSUME NEW k \in 1..Len(s), s[k] = x PROVE k \in 1..Len(t) /\ t[k] = x
    BY <1>1, <2>1
  <2>2. Len(s) + 1 \in 1..Len(t)
    BY <1>1
  <2> QED
    BY <1>1, <1>3, <2>1, <2>2 DEF Contains
<1>4. \A k \in 1..Len(t) : k \in 1..Len(s) \/ t[k] = d
  BY <1>1
<1>5. \A x : Contains(t, x) => Contains(s, x) \/ x = d
  BY <1>1, <1>4 DEF Contains
<1> QED
  BY <1>1, <1>2, <1>3, <1>4, <1>5 DEF t, NoneTwice

\* Taking the first occurrence away takes the element away, and what stays
\* moves forwards only.
LEMMA WithoutOne ==
  ASSUME NEW S, NEW l \in Seq(S), NEW s \in S, Contains(l, s), NoneTwice(l)
  PROVE  /\ Without(l, s) \in Seq(S) /\ NoneTwice(Without(l, s))
         /\ \A x : Contains(Without(l, s), x) <=> Contains(l, x) /\ x # s
         /\ \A j \in 1..Len(Without(l, s)) :
              \E k \in 1..Len(l) : k >= j /\ l[k] = Without(l, s)[j]
<1> DEFINE i == CHOOSE i \in 1..Len(l) : l[i] = s
           w == Without(l, s)
<1>1. i \in 1..Len(l) /\ l[i] = s
  BY DEF Contains
<1> HIDE DEF i
<1>2. w = RemoveAt(l, i)
  BY DEF Without, i
<1> HIDE DEF w
<1>3. /\ w \in Seq(S) /\ Len(w) = Len(l) - 1
      /\ \A j \in 1..(Len(l)-1) : w[j] = IF j < i THEN l[j] ELSE l[j+1]
  BY <1>1, <1>2, RemovedAt
<1>4. \A j \in 1..Len(w) : \/ j < i /\ j \in 1..Len(l) /\ w[j] = l[j]
                           \/ j >= i /\ j + 1 \in 1..Len(l) /\ w[j] = l[j+1]
  BY <1>1, <1>3
<1>5. NoneTwice(w)
  BY <1>1, <1>4, <1>3 DEF NoneTwice
<1>6. ASSUME NEW x, Contains(w, x) PROVE Contains(l, x) /\ x # s
  <2>1. PICK j \in 1..Len(w) : w[j] = x
    BY <1>6 DEF Contains
  <2>2. PICK k \in 1..Len(l) : l[k] = x /\ k # i
    BY <1>1, <1>3, <1>4, <2>1
  <2> QED
    BY <1>1, <2>2 DEF Contains, NoneTwice
<1>7. ASSUME NEW x, Contains(l, x), x # s PROVE Contains(w, x)
  <2>1. PICK k \in 1..Len(l) : l[k] = x
    BY <1>7 DEF Contains
  <2>2. CASE k < i
    <3>1. k \in 1..Len(w) /\ w[k] = x
      BY <1>1, <1>3, <2>1, <2>2
    <3> QED BY <3>1 DEF Contains
  <2>3. CASE k > i
    <3>1. k - 1 \in 1..Len(w) /\ w[k-1] = x
      BY <1>1, <1>3, <2>1, <2>3
    <3> QED BY <3>1 DEF Contains
  <2> QED
    BY <1>1, <1>7, <2>1, <2>2, <2>3
<1>8. ASSUME NEW j \in 1..Len(w)
      PROVE  \E k \in 1..Len(l) : k >= j /\ l[k] = w[j]
  BY <1>1, <1>4
<1> QED
  BY <1>3, <1>5, <1>6, <1>7, <1>8 DEF w

\* The typing
BusTyped ==
  /\ lists \in Seq(Seq(Subscribers)) /\ Len(lists) > 0
  /\ standing \in [Subscribers -> {"new", "in", "left"}]
  /\ walking \in [Publications -> [list : Int, index : Nat]]
  /\ \A p \in Publications : walking[p].list <= Len(lists)
  /\ heard \in [Publications -> [Subscribers -> Nat]]
  /\ steady \in [Publications -> SUBSET Subscribers]

\* What a list holds: nobody twice, nobody who has not subscribed yet, and the
\* current one those who are in
ListsKept ==
  /\ \A n \in 1..Len(lists) : NoneTwice(lists[n])
  /\ \A n \in 1..Len(lists), s \in Subscribers : Contains(lists[n], s) => standing[s] # "new"
  /\ \A s \in Subscribers : Contains(lists[Len(lists)], s) <=> standing[s] = "in"

\* s comes after the place p has reached in its list
Ahead(p, s) == \E k \in 1..Len(lists[walking[p].list]) :
                 k > walking[p].index /\ lists[walking[p].list][k] = s

\* Who has heard of an event is not ahead of the loop any more, and cannot come
\* to be, as an id is given out once
HeardBehind == \A p \in Publications, s \in Subscribers :
  /\ heard[p][s] <= 1
  /\ walking[p].list = 0 => heard[p][s] = 0
  /\ heard[p][s] = 1 => standing[s] # "new"
  /\ heard[p][s] = 1 /\ walking[p].list > 0 => ~Ahead(p, s)

\* Who was there from the start is ahead of the loop or has heard
SteadyAhead == \A p \in Publications, s \in Subscribers :
  s \in steady[p] =>
    /\ standing[s] = "in"
    /\ (bus = "EventBus" \/ ~leavers) /\ s \in WantedBy[p] =>
         /\ walking[p].list # 0
         /\ heard[p][s] = 1 \/ (walking[p].list > 0 /\ Ahead(p, s))

\* The invariant
BusInv == BusTyped /\ ListsKept /\ HeardBehind /\ SteadyAhead

\* A bus has no subscribers at first.
LEMMA BusInitial == BusInit => BusInv
<1> SUFFICES ASSUME BusInit PROVE BusInv
  OBVIOUS
<1>1. lists = << <<>> >> /\ Len(lists) = 1 /\ lists[1] = <<>> /\ Len(lists[1]) = 0
  BY DEF BusInit
<1>2. BusTyped
  <2>1. <<>> \in Seq(Subscribers)
    OBVIOUS
  <2>2. lists \in Seq(Seq(Subscribers))
    BY <1>1, <2>1
  <2> QED
    BY <1>1, <2>2 DEF BusInit, BusTyped
<1>3. ListsKept
  BY <1>1 DEF BusInit, ListsKept, NoneTwice, Contains
<1>4. HeardBehind
  BY DEF BusInit, HeardBehind
<1>5. SteadyAhead
  BY DEF BusInit, SteadyAhead
<1> QED
  BY <1>2, <1>3, <1>4, <1>5 DEF BusInv

\* subscribe() appends a subscriber to the list.
LEMMA SubscribeStep ==
  ASSUME BusInv, NEW s \in Subscribers, Subscribe(s)
  PROVE  BusInv'
<1> DEFINE c == Len(lists)
<1>1. /\ standing[s] = "new" /\ lists' = [lists EXCEPT ![c] = Append(@, s)]
      /\ standing' = [standing EXCEPT ![s] = "in"]
      /\ UNCHANGED <<bus, walking, heard, steady, leavers>>
  BY DEF Subscribe, Enlist, CurrentList
<1>2. c \in Nat /\ c \in 1..Len(lists) /\ lists[c] \in Seq(Subscribers)
  BY DEF BusInv, BusTyped
<1>3. Append(lists[c], s) \in Seq(Subscribers)
  BY <1>2
<1>4. /\ lists' \in Seq(Seq(Subscribers)) /\ Len(lists') = Len(lists)
      /\ \A n \in 1..Len(lists) : lists'[n] = IF n = c THEN Append(lists[c], s) ELSE lists[n]
  BY <1>1, <1>2, <1>3, ExceptSeq DEF BusInv, BusTyped
<1>5. ~Contains(lists[c], s) /\ NoneTwice(lists[c])
  BY <1>1, <1>2 DEF BusInv, ListsKept
<1>6. BusTyped'
  BY <1>1, <1>4 DEF BusInv, BusTyped
<1>7. /\ NoneTwice(Append(lists[c], s))
      /\ \A x : Contains(Append(lists[c], s), x) <=> Contains(lists[c], x) \/ x = s
      /\ \A k \in 1..Len(lists[c]) : Append(lists[c], s)[k] = lists[c][k]
      /\ \A k \in 1..Len(Append(lists[c], s)) :
           k \in 1..Len(lists[c]) \/ Append(lists[c], s)[k] = s
  BY <1>2, <1>5, AppendedOnce
<1>8. ListsKept'
  <2>1. \A n \in 1..Len(lists') : NoneTwice(lists'[n])
    BY <1>2, <1>4, <1>7 DEF BusInv, ListsKept
  <2>2. \A n \in 1..Len(lists'), x \in Subscribers :
          Contains(lists'[n], x) => x = s \/ Contains(lists[n], x)
    BY <1>2, <1>4, <1>7
  <2>3. \A x \in Subscribers : Contains(lists'[Len(lists')], x) <=> Contains(lists[c], x) \/ x = s
    BY <1>2, <1>4, <1>7
  <2>4. \A x \in Subscribers : standing'[x] = IF x = s THEN "in" ELSE standing[x]
    BY <1>1 DEF BusInv, BusTyped
  <2>5. \A n \in 1..Len(lists'), x \in Subscribers : Contains(lists'[n], x) => standing'[x] # "new"
    BY <1>4, <2>2, <2>4 DEF BusInv, ListsKept
  <2>6. \A x \in Subscribers : Contains(lists'[Len(lists')], x) <=> standing'[x] = "in"
    BY <2>3, <2>4 DEF BusInv, ListsKept
  <2> QED
    BY <2>1, <2>5, <2>6 DEF ListsKept
<1>9. ASSUME NEW p \in Publications, NEW x \in Subscribers, walking[p].list > 0
      PROVE  /\ Ahead(p, x)' => Ahead(p, x) \/ x = s
             /\ Ahead(p, x) => Ahead(p, x)'
  <2>1. walking[p].list \in 1..Len(lists)
    BY <1>9 DEF BusInv, BusTyped
  <2>2. CASE walking[p].list # c
    BY <1>1, <1>4, <2>1, <2>2 DEF Ahead
  <2>3. CASE walking[p].list = c
    <3>1. lists'[walking'[p].list] = Append(lists[c], s) /\ walking' = walking
      BY <1>1, <1>2, <1>4, <2>3
    <3>2. Len(Append(lists[c], s)) = Len(lists[c]) + 1 /\ Len(lists[c]) \in Nat
      BY <1>2
    <3> QED
      BY <1>7, <2>3, <3>1, <3>2 DEF Ahead
  <2> QED
    BY <2>2, <2>3
<1>10. HeardBehind'
  BY <1>1, <1>9 DEF BusInv, BusTyped, HeardBehind
<1>11. SteadyAhead'
  BY <1>1, <1>9 DEF BusInv, BusTyped, SteadyAhead
<1> QED
  BY <1>6, <1>8, <1>10, <1>11 DEF BusInv

\* What leaving does, on either bus, to the lists and to who is ahead
LEMMA WithdrawStep ==
  ASSUME BusInv, NEW s \in Subscribers, standing[s] = "in", Withdraw(s), walking' = walking
  PROVE  /\ lists' \in Seq(Seq(Subscribers)) /\ Len(lists') >= Len(lists)
         /\ \A n \in 1..Len(lists') : NoneTwice(lists'[n])
         /\ \A n \in 1..Len(lists'), x \in Subscribers : Contains(lists'[n], x) =>
              \E m \in 1..Len(lists) : Contains(lists[m], x)
         /\ \A x \in Subscribers :
              Contains(lists'[Len(lists')], x) <=> Contains(lists[Len(lists)], x) /\ x # s
         /\ \A p \in Publications, x \in Subscribers :
              walking[p].list > 0 /\ Ahead(p, x)' => Ahead(p, x)
         /\ bus = "EventBus" => \A p \in Publications, x \in Subscribers :
              walking[p].list > 0 /\ Ahead(p, x) => Ahead(p, x)'
<1> DEFINE c == Len(lists)  w == Without(lists[c], s)
<1>1. c \in Nat /\ c \in 1..Len(lists) /\ lists[c] \in Seq(Subscribers) /\ lists \in Seq(Seq(Subscribers))
  BY DEF BusInv, BusTyped
<1>2. Contains(lists[c], s) /\ NoneTwice(lists[c])
  BY <1>1 DEF BusInv, ListsKept
<1>3. /\ w \in Seq(Subscribers) /\ NoneTwice(w)
      /\ \A x : Contains(w, x) <=> Contains(lists[c], x) /\ x # s
      /\ \A j \in 1..Len(w) : \E k \in 1..Len(lists[c]) : k >= j /\ lists[c][k] = w[j]
  <2>1. w \in Seq(Subscribers) /\ NoneTwice(w)
    BY <1>1, <1>2, WithoutOne
  <2>2. \A x : Contains(w, x) <=> Contains(lists[c], x) /\ x # s
    BY <1>1, <1>2, WithoutOne
  <2>3. \A j \in 1..Len(w) : \E k \in 1..Len(lists[c]) : k >= j /\ lists[c][k] = w[j]
    <3>1. PICK l \in Seq(Subscribers) : l = lists[c]
      BY <1>1
    <3>2. \A j \in 1..Len(Without(l, s)) :
            \E k \in 1..Len(l) : k >= j /\ l[k] = Without(l, s)[j]
      BY <1>2, <3>1, WithoutOne
    <3> QED
      BY <3>1, <3>2
  <2> QED
    BY <2>1, <2>2, <2>3
<1> HIDE DEF w
<1>4. \A p \in Publications : walking[p].list > 0 => walking[p].list \in 1..Len(lists)
  BY DEF BusInv, BusTyped
<1>5. CASE bus = "EventBus"
  <2>1. lists' = Append(lists, w)
    BY <1>5 DEF Withdraw, CurrentList, w
  <2>2. /\ lists' \in Seq(Seq(Subscribers)) /\ Len(lists') = c + 1 /\ lists'[c+1] = w
        /\ \A n \in 1..c : lists'[n] = lists[n]
    BY <1>1, <1>3, <2>1
  <2>3. \A n \in 1..Len(lists') : n \in 1..c \/ n = c + 1
    BY <1>1, <2>2
  <2>4. \A n \in 1..Len(lists') : NoneTwice(lists'[n])
    BY <1>3, <2>2, <2>3 DEF BusInv, ListsKept
  <2>5. \A n \in 1..Len(lists'), x \in Subscribers : Contains(lists'[n], x) =>
              \E m \in 1..Len(lists) : Contains(lists[m], x)
    BY <1>1, <1>3, <2>2, <2>3
  <2>6. \A p \in Publications, x \in Subscribers :
              walking[p].list > 0 => (Ahead(p, x)' <=> Ahead(p, x))
    BY <1>4, <2>2 DEF Ahead
  <2>7. \A x \in Subscribers :
              Contains(lists'[Len(lists')], x) <=> Contains(lists[Len(lists)], x) /\ x # s
    BY <1>3, <2>2
  <2>8. Len(lists') >= Len(lists)
    BY <1>1, <2>2
  <2> QED
    BY <2>2, <2>4, <2>5, <2>6, <2>7, <2>8
<1>6. CASE bus # "EventBus"
  <2>1. lists' = [lists EXCEPT ![c] = w]
    BY <1>6 DEF Withdraw, CurrentList, w
  <2>2. /\ lists' \in Seq(Seq(Subscribers)) /\ Len(lists') = c
        /\ \A n \in 1..c : lists'[n] = IF n = c THEN w ELSE lists[n]
    BY <1>1, <1>3, <2>1, ExceptSeq
  <2>3. lists'[c] = w /\ \A n \in 1..c : n # c => lists'[n] = lists[n]
    BY <1>1, <2>2
  <2>4. \A n \in 1..Len(lists') : NoneTwice(lists'[n])
    BY <1>3, <2>2 DEF BusInv, ListsKept
  <2>5. \A n \in 1..Len(lists'), x \in Subscribers : Contains(lists'[n], x) =>
              \E m \in 1..Len(lists) : Contains(lists[m], x)
    BY <1>3, <2>2
  <2>6. ASSUME NEW p \in Publications, NEW x \in Subscribers, walking[p].list > 0, Ahead(p, x)'
        PROVE  Ahead(p, x)
    <3>1. CASE walking[p].list # c
      BY <1>4, <2>2, <2>6, <3>1 DEF Ahead
    <3>2. CASE walking[p].list = c
      <4>1. PICK j \in 1..Len(w) : j > walking[p].index /\ w[j] = x
        BY <2>3, <2>6, <3>2 DEF Ahead
      <4>2. walking[p].index \in Nat
        BY DEF BusInv, BusTyped
      <4>3. PICK k \in 1..Len(lists[c]) : k >= j /\ lists[c][k] = w[j]
        BY <1>3, <4>1
      <4>4. k > walking[p].index
        BY <4>1, <4>2, <4>3
      <4> QED
        BY <3>2, <4>1, <4>3, <4>4 DEF Ahead
    <3> QED BY <3>1, <3>2
  <2> QED
    BY <1>1, <1>3, <1>6, <2>2, <2>3, <2>4, <2>5, <2>6
<1> QED
  BY <1>5, <1>6

\* unsubscribe() takes it from the list or builds a list without it.
LEMMA UnsubscribeStep ==
  ASSUME BusInv, NEW s \in Subscribers, Unsubscribe(s)
  PROVE  BusInv'
<1>1. /\ standing[s] = "in" /\ Withdraw(s) /\ UNCHANGED <<bus, walking, heard>>
      /\ standing' = [standing EXCEPT ![s] = "left"]
      /\ steady' = [p \in Publications |-> steady[p] \ {s}]
      /\ leavers' = (leavers \/ \E p \in Publications : walking[p].list > 0)
  BY DEF Unsubscribe, Leaves, UnderWay
<1>2. /\ lists' \in Seq(Seq(Subscribers)) /\ Len(lists') >= Len(lists)
      /\ \A n \in 1..Len(lists') : NoneTwice(lists'[n])
      /\ \A n \in 1..Len(lists'), x \in Subscribers : Contains(lists'[n], x) =>
              \E m \in 1..Len(lists) : Contains(lists[m], x)
      /\ \A x \in Subscribers :
              Contains(lists'[Len(lists')], x) <=> Contains(lists[Len(lists)], x) /\ x # s
      /\ \A p \in Publications, x \in Subscribers :
              walking[p].list > 0 /\ Ahead(p, x)' => Ahead(p, x)
      /\ bus = "EventBus" => \A p \in Publications, x \in Subscribers :
              walking[p].list > 0 /\ Ahead(p, x) => Ahead(p, x)'
  BY <1>1, WithdrawStep
<1>3. \A x \in Subscribers : standing'[x] = IF x = s THEN "left" ELSE standing[x]
  BY <1>1 DEF BusInv, BusTyped
<1>4. BusTyped'
  <2>1. \A p \in Publications : walking'[p].list <= Len(lists')
    BY <1>1, <1>2 DEF BusInv, BusTyped
  <2>2. Len(lists') > 0
    BY <1>2 DEF BusInv, BusTyped
  <2> QED
    BY <1>1, <1>2, <2>1, <2>2 DEF BusInv, BusTyped
<1>5. ListsKept'
  <2>1. \A n \in 1..Len(lists'), x \in Subscribers : Contains(lists'[n], x) => standing'[x] # "new"
    BY <1>2, <1>3 DEF BusInv, ListsKept
  <2>2. \A x \in Subscribers : Contains(lists'[Len(lists')], x) <=> standing'[x] = "in"
    BY <1>2, <1>3 DEF BusInv, ListsKept
  <2> QED
    BY <1>2, <2>1, <2>2 DEF ListsKept
<1>6. HeardBehind'
  BY <1>1, <1>2, <1>3 DEF BusInv, HeardBehind
<1>7. SteadyAhead'
  BY <1>1, <1>2, <1>3 DEF BusInv, BusTyped, SteadyAhead
<1> QED
  BY <1>4, <1>5, <1>6, <1>7 DEF BusInv

\* clear() forgets all subscribers.
LEMMA ClearStep ==
  ASSUME BusInv, Clear
  PROVE  BusInv'
<1> DEFINE c == Len(lists)
<1>1. /\ lists' = [lists EXCEPT ![c] = <<>>]
      /\ standing' = [s \in Subscribers |-> IF standing[s] = "in" THEN "left" ELSE standing[s]]
      /\ steady' = [p \in Publications |-> {}]
      /\ UNCHANGED <<bus, walking, heard, leavers>>
  BY DEF Clear, CurrentList
<1>2. c \in Nat /\ c \in 1..Len(lists) /\ lists \in Seq(Seq(Subscribers)) /\ <<>> \in Seq(Subscribers)
  BY DEF BusInv, BusTyped
<1>3. /\ lists' \in Seq(Seq(Subscribers)) /\ Len(lists') = c
      /\ \A n \in 1..c : lists'[n] = IF n = c THEN <<>> ELSE lists[n]
  BY <1>1, <1>2, ExceptSeq
<1>4. NoneTwice(<<>>) /\ \A x : ~Contains(<<>>, x)
  BY DEF NoneTwice, Contains
<1>5. \A n \in 1..Len(lists'), x \in Subscribers :
         Contains(lists'[n], x) => Contains(lists[n], x) /\ n # c
  BY <1>3, <1>4
<1>6. BusTyped'
  BY <1>1, <1>3 DEF BusInv, BusTyped
<1>7. ListsKept'
  <2>1. \A n \in 1..Len(lists') : NoneTwice(lists'[n])
    BY <1>3, <1>4 DEF BusInv, ListsKept
  <2>2. \A x \in Subscribers : standing'[x] # "in" /\ (standing[x] # "new" => standing'[x] # "new")
    BY <1>1 DEF BusInv, BusTyped
  <2> QED
    BY <1>2, <1>3, <1>5, <2>1, <2>2 DEF BusInv, ListsKept
<1>8. \A p \in Publications, x \in Subscribers : walking[p].list > 0 /\ Ahead(p, x)' => Ahead(p, x)
  <2>1. \A p \in Publications : walking[p].list > 0 => walking[p].list \in 1..c
    BY DEF BusInv, BusTyped
  <2>2. Len(<<>>) = 0
    OBVIOUS
  <2> QED
    BY <1>1, <1>3, <2>1, <2>2 DEF Ahead
<1>9. HeardBehind'
  BY <1>1, <1>8 DEF BusInv, BusTyped, HeardBehind
<1>10. SteadyAhead'
  BY <1>1 DEF SteadyAhead
<1> QED
  BY <1>6, <1>7, <1>9, <1>10 DEF BusInv

\* publish() starts at the head of the list.
LEMMA PublishStep ==
  ASSUME BusInv, NEW p \in Publications, Publish(p)
  PROVE  BusInv'
<1>1. /\ walking[p].list = 0
      /\ walking' = [walking EXCEPT ![p] = [list |-> Len(lists), index |-> 0]]
      /\ steady' = [steady EXCEPT ![p] = {s \in Subscribers : standing[s] = "in"}]
      /\ UNCHANGED <<bus, lists, standing, heard, leavers>>
  BY DEF Publish, CurrentList
<1>2. walking'[p].list = Len(lists) /\ walking'[p].index = 0 /\ Len(lists) \in Nat \ {0}
      /\ \A q \in Publications : q # p => walking'[q] = walking[q]
  BY <1>1 DEF BusInv, BusTyped
<1>3. BusTyped'
  BY <1>1, <1>2 DEF BusInv, BusTyped
<1>4. ListsKept'
  BY <1>1 DEF BusInv, ListsKept
<1>5. \A q \in Publications, x \in Subscribers : q # p => (Ahead(q, x)' <=> Ahead(q, x))
  BY <1>1, <1>2 DEF Ahead
<1>6. \A x \in Subscribers : heard[p][x] = 0
  BY <1>1 DEF BusInv, HeardBehind
<1>7. HeardBehind'
  <2> SUFFICES ASSUME NEW q \in Publications, NEW x \in Subscribers
               PROVE  /\ heard'[q][x] <= 1
                      /\ walking'[q].list = 0 => heard'[q][x] = 0
                      /\ heard'[q][x] = 1 => standing'[x] # "new"
                      /\ heard'[q][x] = 1 /\ walking'[q].list > 0 => ~Ahead(q, x)'
    BY DEF HeardBehind
  <2>1. CASE q = p
    BY <1>1, <1>6, <2>1 DEF BusInv, HeardBehind
  <2>2. CASE q # p
    BY <1>1, <1>2, <1>5, <2>2 DEF BusInv, HeardBehind
  <2> QED BY <2>1, <2>2
<1>8. \A x \in Subscribers : standing[x] = "in" => Ahead(p, x)'
  <2> SUFFICES ASSUME NEW x \in Subscribers, standing[x] = "in" PROVE Ahead(p, x)'
    OBVIOUS
  <2>1. PICK k \in 1..Len(lists[Len(lists)]) : lists[Len(lists)][k] = x
    BY DEF BusInv, ListsKept, Contains
  <2>2. k > 0
    OBVIOUS
  <2> QED
    BY <1>1, <1>2, <2>1, <2>2 DEF Ahead
<1>9. SteadyAhead'
  <2> SUFFICES ASSUME NEW q \in Publications, NEW x \in Subscribers, x \in steady'[q]
               PROVE  /\ standing'[x] = "in"
                      /\ (bus' = "EventBus" \/ ~leavers') /\ x \in WantedBy[q] =>
                           /\ walking'[q].list # 0
                           /\ heard'[q][x] = 1 \/ (walking'[q].list > 0 /\ Ahead(q, x)')
    BY DEF SteadyAhead
  <2>1. CASE q = p
    <3>1. standing[x] = "in"
      BY <1>1, <2>1 DEF BusInv, BusTyped
    <3> QED
      BY <1>1, <1>2, <1>8, <2>1, <3>1
  <2>2. CASE q # p
    <3>1. x \in steady[q]
      BY <1>1, <2>2 DEF BusInv, BusTyped
    <3> QED
      BY <1>1, <1>2, <1>5, <2>2, <3>1 DEF BusInv, SteadyAhead
  <2> QED BY <2>1, <2>2
<1> QED
  BY <1>3, <1>4, <1>7, <1>9 DEF BusInv

\* The dispatch calls the next handler.
LEMMA DispatchStep ==
  ASSUME BusInv, NEW p \in Publications, Dispatch(p)
  PROVE  BusInv'
<1> DEFINE l == lists[walking[p].list]  i == walking[p].index + 1
<1>0. walking[p].list > 0 /\ UNCHANGED <<bus, lists, standing, steady, leavers>>
  BY DEF Dispatch, UnderWay
<1>1. /\ walking[p].list \in 1..Len(lists) /\ Len(lists) \in Nat /\ l \in Seq(Subscribers)
      /\ Len(l) \in Nat /\ walking[p].index \in Nat /\ i \in Nat \ {0}
  BY <1>0 DEF BusInv, BusTyped
<1>2. ListsKept'
  BY <1>0 DEF BusInv, ListsKept
<1>3. CASE i > Len(l)
  <2>1. walking' = [walking EXCEPT ![p].list = -1] /\ heard' = heard
    BY <1>3 DEF Dispatch
  <2>2. walking'[p].list = -1 /\ \A q \in Publications : q # p => walking'[q] = walking[q]
    BY <2>1 DEF BusInv, BusTyped
  <2>3. \A x \in Subscribers : ~Ahead(p, x)
    BY <1>1, <1>3 DEF Ahead
  <2>4. \A q \in Publications, x \in Subscribers : q # p => (Ahead(q, x)' <=> Ahead(q, x))
    BY <1>0, <2>2 DEF Ahead
  <2>5. BusTyped'
    <3>0. [walking[p] EXCEPT !.list = -1] \in [list : Int, index : Nat]
      <4>1. walking[p] \in [list : Int, index : Nat]
        BY DEF BusInv, BusTyped
      <4>2. \A x \in [list : Int, index : Nat] : [x EXCEPT !.list = -1] \in [list : Int, index : Nat]
        OBVIOUS
      <4> QED BY <4>1, <4>2
    <3>1. walking' \in [Publications -> [list : Int, index : Nat]]
      BY <2>1, <3>0 DEF BusInv, BusTyped
    <3>2. ASSUME NEW q \in Publications PROVE walking'[q].list <= Len(lists)
      <4>1. CASE q = p
        BY <1>1, <2>2, <4>1
      <4>2. CASE q # p
        BY <2>2, <4>2 DEF BusInv, BusTyped
      <4> QED BY <4>1, <4>2
    <3> QED
      BY <1>0, <2>1, <3>1, <3>2 DEF BusInv, BusTyped
  <2>6. HeardBehind'
    BY <1>0, <2>1, <2>2, <2>4 DEF BusInv, HeardBehind
  <2>7. SteadyAhead'
    BY <1>0, <2>1, <2>2, <2>3, <2>4 DEF BusInv, SteadyAhead
  <2> QED
    BY <1>2, <2>5, <2>6, <2>7 DEF BusInv
<1>4. CASE i <= Len(l)
  <2>1. /\ walking' = [walking EXCEPT ![p] = [walking[p] EXCEPT !.index = @ + 1]]
        /\ heard' = IF l[i] \in WantedBy[p]
                    THEN [heard EXCEPT ![p][l[i]] = IF @ < 2 THEN @ + 1 ELSE @]
                    ELSE heard
    <3>1. ~ (i > Len(l))
      BY <1>1, <1>4
    <3> QED
      BY <3>1 DEF Dispatch, Onwards, Matches
  <2>2. i \in 1..Len(l)
    BY <1>1, <1>4
  <2>y. PICK y \in Subscribers : y = l[i]
    BY <1>1, <2>2
  <2>3. /\ walking'[p].list = walking[p].list /\ walking'[p].index = i
        /\ \A q \in Publications : q # p => walking'[q] = walking[q]
    BY <2>1 DEF BusInv, BusTyped
  <2>4. \A q \in Publications, x \in Subscribers : q # p => (Ahead(q, x)' <=> Ahead(q, x))
    BY <1>0, <2>3 DEF Ahead
  <2>5. Ahead(p, y)
    BY <1>1, <2>2, <2>y DEF Ahead
  <2>6. ~Ahead(p, y)'
    <3>1. NoneTwice(l)
      BY <1>1 DEF BusInv, ListsKept
    <3>2. \A k \in 1..Len(l) : l[k] = y => k = i
      BY <2>2, <2>y, <3>1 DEF NoneTwice
    <3>3. \A k \in 1..Len(l) : l[k] = y => ~(k > i)
      BY <1>1, <3>2
    <3> QED
      BY <1>0, <2>3, <3>3 DEF Ahead
  <2>7. ASSUME NEW x \in Subscribers, x # y PROVE Ahead(p, x)' <=> Ahead(p, x)
    <3>1. \A k \in 1..Len(l) : l[k] = x => (k > walking[p].index <=> k > i)
      BY <1>1, <2>2, <2>y, <2>7
    <3> QED
      BY <1>0, <2>3, <3>1 DEF Ahead
  <2>8. heard[p][y] = 0 /\ heard \in [Publications -> [Subscribers -> Nat]]
    <3>1. heard[p][y] \in Nat /\ heard \in [Publications -> [Subscribers -> Nat]]
      BY DEF BusInv, BusTyped
    <3>2. heard[p][y] <= 1 /\ (heard[p][y] = 1 /\ walking[p].list > 0 => ~Ahead(p, y))
      BY DEF BusInv, HeardBehind
    <3> QED
      BY <1>1, <2>5, <3>1, <3>2
  <2>9. /\ \A q \in Publications, x \in Subscribers : q # p \/ x # y => heard'[q][x] = heard[q][x]
        /\ heard'[p][y] = IF y \in WantedBy[p] THEN 1 ELSE 0
        /\ heard' \in [Publications -> [Subscribers -> Nat]]
    <3>1. heard' = IF y \in WantedBy[p] THEN [heard EXCEPT ![p][y] = 1] ELSE heard
      BY <2>1, <2>y, <2>8
    <3> QED
      BY ONLY <2>8, <3>1, p \in Publications, y \in Subscribers
  <2>10. BusTyped'
    <3>1. walking' \in [Publications -> [list : Int, index : Nat]]
      <4>1. walking \in [Publications -> [list : Int, index : Nat]]
        BY DEF BusInv, BusTyped
      <4>2. [walking[p] EXCEPT !.index = @ + 1] \in [list : Int, index : Nat]
        BY <4>1
      <4> QED
        BY <2>1, <4>1, <4>2
    <3>2. \A q \in Publications : walking'[q].list <= Len(lists)
      BY <1>1, <2>3 DEF BusInv, BusTyped
    <3> QED
      BY <1>0, <2>9, <3>1, <3>2 DEF BusInv, BusTyped
  <2>11. standing[y] # "new"
    BY <1>1, <2>2, <2>y DEF BusInv, ListsKept, Contains
  <2>12. HeardBehind'
    <3> SUFFICES ASSUME NEW q \in Publications, NEW x \in Subscribers
                 PROVE  /\ heard'[q][x] <= 1
                        /\ walking'[q].list = 0 => heard'[q][x] = 0
                        /\ heard'[q][x] = 1 => standing'[x] # "new"
                        /\ heard'[q][x] = 1 /\ walking'[q].list > 0 => ~Ahead(q, x)'
      BY DEF HeardBehind
    <3>1. CASE q # p
      BY <1>0, <2>3, <2>4, <2>9, <3>1 DEF BusInv, HeardBehind
    <3>2. CASE q = p /\ x # y
      BY <1>0, <2>3, <2>7, <2>9, <3>2 DEF BusInv, HeardBehind
    <3>3. CASE q = p /\ x = y
      <4>1. walking'[q].list > 0 /\ walking'[q].list # 0
        BY <1>1, <2>3, <3>3
      <4>2. heard'[q][x] <= 1 /\ ~Ahead(q, x)' /\ standing'[x] # "new"
        BY <1>0, <2>6, <2>9, <2>11, <3>3
      <4> QED BY <4>1, <4>2
    <3> QED BY <3>1, <3>2, <3>3
  <2>13. SteadyAhead'
    <3> SUFFICES ASSUME NEW q \in Publications, NEW x \in Subscribers, x \in steady[q]
                 PROVE  /\ standing[x] = "in"
                        /\ (bus = "EventBus" \/ ~leavers) /\ x \in WantedBy[q] =>
                             /\ walking'[q].list # 0
                             /\ heard'[q][x] = 1 \/ (walking'[q].list > 0 /\ Ahead(q, x)')
      BY <1>0 DEF SteadyAhead
    <3>1. CASE q # p
      BY <2>3, <2>4, <2>9, <3>1 DEF BusInv, SteadyAhead
    <3>2. CASE q = p /\ x # y
      BY <2>3, <2>7, <2>9, <3>2 DEF BusInv, SteadyAhead
    <3>3. CASE q = p /\ x = y
      BY <1>0, <2>3, <2>9, <3>3 DEF BusInv, SteadyAhead
    <3> QED BY <3>1, <3>2, <3>3
  <2> QED
    BY <1>2, <2>10, <2>12, <2>13 DEF BusInv
<1> QED
  BY <1>1, <1>3, <1>4

\* Every step keeps the invariant.
LEMMA BusStep == BusInv /\ [BusNext]_busVars => BusInv'
<1>1. ASSUME BusInv, UNCHANGED busVars PROVE BusInv'
  <2>1. UNCHANGED <<bus, lists, standing, walking, heard, steady, leavers>>
    BY <1>1 DEF busVars
  <2>2. \A p \in Publications, s \in Subscribers : Ahead(p, s)' <=> Ahead(p, s)
    BY <2>1 DEF Ahead
  <2>3. BusTyped' /\ ListsKept'
    BY <2>1, <1>1 DEF BusInv, BusTyped, ListsKept
  <2>4. HeardBehind'
    BY <2>1, <2>2, <1>1 DEF BusInv, HeardBehind
  <2>5. SteadyAhead'
    BY <2>1, <2>2, <1>1 DEF BusInv, SteadyAhead
  <2> QED
    BY <2>3, <2>4, <2>5 DEF BusInv
<1> QED
  BY <1>1, SubscribeStep, UnsubscribeStep, ClearStep, PublishStep, DispatchStep DEF BusNext

\* core/event_bus.py: a handler is called once at most for a publication, and who
\* was subscribed before publish() and stayed has been called when it returns, on
\* EventHandler unless somebody left meanwhile.
THEOREM EachHeardOnceHolds == BusSpec => []EachHeardOnce
<1>1. BusInv => EachHeardOnce
  BY DEF BusInv, BusTyped, HeardBehind, SteadyAhead, EachHeardOnce, HeardOnce, SteadyHeard, Ended
<1> QED
  BY <1>1, BusInitial, BusStep, PTL DEF BusSpec

------------------------------------------------------------------------------
(*****************************************************************************)
(* Webhook.                                                                  *)
(*                                                                           *)
(* Every review that was started or is about to be started, after both checks, *)
(* is paid for by one time the delivery was put into the memory: it is either *)
(* there still or was forgotten.                                             *)
(*****************************************************************************)

\* The typing
HookTyped ==
  /\ remembered \in Seq(Deliveries)
  /\ reading \in [Deliveries -> Nat] /\ reviewing \in [Deliveries -> Nat]
  /\ started \in [Deliveries -> Nat] /\ forgotten \in [Deliveries -> Nat]

\* An id is in the cache once
RememberedOnce == NoneTwice(remembered)

\* The reviews started for an id, and the copies of it whose body is awaited, are
\* paid for by the times the id was dropped, and by its place in the cache
PaidByMemory == \A d \in Deliveries :
  /\ started[d] + reading[d] <= forgotten[d] + 1
  /\ ~Contains(remembered, d) => started[d] + reading[d] <= forgotten[d]

\* The invariant
HookInv == HookTyped /\ RememberedOnce /\ PaidByMemory

\* An id brought to the end of the cache: the ids in it are the same
LEMMA MovedToEnd ==
  ASSUME NEW S, NEW s \in Seq(S), NEW i \in 1..Len(s), NoneTwice(s)
  PROVE  LET t == Append(RemoveAt(s, i), s[i])
         IN  t \in Seq(S) /\ NoneTwice(t) /\ \A x : Contains(t, x) <=> Contains(s, x)
<1> DEFINE r == RemoveAt(s, i)  t == Append(r, s[i])
<1>1. /\ r \in Seq(S) /\ Len(r) = Len(s) - 1
      /\ \A j \in 1..(Len(s)-1) : r[j] = IF j < i THEN s[j] ELSE s[j+1]
  BY RemovedAt
<1> HIDE DEF r
<1>2. /\ t \in Seq(S) /\ Len(t) = Len(s)
      /\ \A j \in 1..Len(s) : t[j] = IF j < i THEN s[j] ELSE IF j < Len(s) THEN s[j+1] ELSE s[i]
  BY <1>1
<1> HIDE DEF t
<1>3. NoneTwice(t)
  <2> DEFINE from(j) == IF j < i THEN j ELSE IF j < Len(s) THEN j + 1 ELSE i
  <2>1. ASSUME NEW j \in 1..Len(s) PROVE from(j) \in 1..Len(s) /\ t[j] = s[from(j)]
    BY <1>2
  <2>2. ASSUME NEW j \in 1..Len(s), NEW k \in 1..Len(s), from(j) = from(k) PROVE j = k
    BY <2>2
  <2> HIDE DEF from
  <2>3. Len(t) = Len(s)
    BY <1>2
  <2>4. \A j, k \in 1..Len(s) : s[j] = s[k] => j = k
    BY DEF NoneTwice
  <2>5. ASSUME NEW j \in 1..Len(s), NEW k \in 1..Len(s), t[j] = t[k] PROVE j = k
    BY ONLY <2>1, <2>2, <2>4, <2>5
  <2> QED
    BY ONLY <2>3, <2>5 DEF NoneTwice
<1>4. ASSUME NEW x PROVE Contains(t, x) <=> Contains(s, x)
  <2>1. ASSUME NEW j \in 1..Len(t), t[j] = x PROVE \E k \in 1..Len(s) : s[k] = x
    <3>1. CASE j < i
      BY <1>2, <2>1, <3>1
    <3>2. CASE j >= i /\ j < Len(s)
      <4>1. s[j+1] = x /\ j + 1 \in 1..Len(s)
        BY <1>2, <2>1, <3>2
      <4> QED BY <4>1
    <3>3. CASE j = Len(s)
      BY <1>2, <2>1, <3>3
    <3> QED BY <1>2, <2>1, <3>1, <3>2, <3>3
  <2>2. ASSUME NEW j \in 1..Len(s), s[j] = x PROVE \E k \in 1..Len(t) : t[k] = x
    <3>1. CASE j < i
      BY <1>2, <2>2, <3>1
    <3>2. CASE j = i
      BY <1>2, <2>2, <3>2
    <3>3. CASE j > i
      <4>1. t[j-1] = x /\ j - 1 \in 1..Len(t)
        BY <1>2, <2>2, <3>3
      <4> QED BY <4>1
    <3> QED BY <3>1, <3>2, <3>3
  <2> QED BY <2>1, <2>2 DEF Contains
<1> QED
  BY <1>2, <1>3, <1>4 DEF t, r

\* Forgetting the oldest takes that one delivery.
LEMMA WithoutTheFirst ==
  ASSUME NEW S, NEW s \in Seq(S), s # <<>>
  PROVE  /\ Head(s) \in S /\ Tail(s) \in Seq(S)
         /\ Contains(s, Head(s))
         /\ \A x : Contains(Tail(s), x) => Contains(s, x)
         /\ \A x : Contains(s, x) /\ x # Head(s) => Contains(Tail(s), x)
         /\ NoneTwice(s) => NoneTwice(Tail(s))
<1> DEFINE t == Tail(s)
<1>1. /\ Head(s) \in S /\ Head(s) = s[1] /\ Len(s) \in Nat \ {0}
      /\ t \in Seq(S) /\ Len(t) = Len(s) - 1
      /\ \A k \in 1..Len(t) : t[k] = s[k+1]
  BY EmptySeq, HeadTailProperties
<1> HIDE DEF t
<1>2. \A k \in 1..Len(t) : k + 1 \in 1..Len(s)
  BY <1>1
<1>3. ASSUME NEW k \in 1..Len(s), s[k] # Head(s) PROVE k - 1 \in 1..Len(t) /\ t[k-1] = s[k]
  BY <1>1, <1>3
<1>4. Contains(s, Head(s))
  BY <1>1 DEF Contains
<1>5. \A x : Contains(t, x) => Contains(s, x)
  BY <1>1, <1>2 DEF Contains
<1>6. \A x : Contains(s, x) /\ x # Head(s) => Contains(t, x)
  BY <1>3 DEF Contains
<1>7. NoneTwice(s) => NoneTwice(t)
  BY <1>1, <1>2 DEF NoneTwice
<1> QED
  BY <1>1, <1>4, <1>5, <1>6, <1>7 DEF t

\* The receiver starts with no delivery.
LEMMA HookInitial == HookInit => HookInv
<1> SUFFICES ASSUME HookInit PROVE HookInv
  OBVIOUS
<1>1. HookTyped
  BY DEF HookInit, HookTyped, NoneOf
<1>2. remembered = <<>> /\ Len(remembered) = 0
  BY DEF HookInit
<1>3. RememberedOnce
  BY <1>2 DEF RememberedOnce, NoneTwice
<1>4. PaidByMemory
  BY DEF HookInit, PaidByMemory, NoneOf
<1> QED BY <1>1, <1>3, <1>4 DEF HookInv

\* Every step keeps the invariant: it spends a delivery of the memory at most once.
LEMMA HookStep == ASSUME WebhookAssumption, HookInv, [HookNext]_hookVars PROVE HookInv'
<1> USE DEF HookInv
<1>1. CASE AlignSecret
  BY <1>1 DEF AlignSecret, HookTyped, RememberedOnce, PaidByMemory
<1>2. ASSUME NEW d \in Deliveries, Receive(d) PROVE HookInv'
  <2>1. CASE secret = "unset"
    BY <1>2, <2>1 DEF Receive, HookTyped, RememberedOnce, PaidByMemory
  <2>2. CASE secret # "unset" /\ Contains(remembered, d)
    <3>1. PICK i \in 1..Len(remembered) :
             remembered[i] = d /\ remembered' = Append(RemoveAt(remembered, i), d)
      BY <1>2, <2>2 DEF Receive
    <3>2. UNCHANGED <<reading, reviewing, started, forgotten>>
      BY <1>2, <2>2 DEF Receive
    <3>3. /\ remembered' \in Seq(Deliveries) /\ NoneTwice(remembered')
          /\ \A x : Contains(remembered', x) <=> Contains(remembered, x)
      BY <3>1, MovedToEnd DEF HookTyped, RememberedOnce
    <3> QED
      BY <3>2, <3>3 DEF HookTyped, RememberedOnce, PaidByMemory
  <2>3. CASE secret # "unset" /\ ~Contains(remembered, d)
    <3>1. Remember(d) /\ reading' = [reading EXCEPT ![d] = @ + 1]
          /\ UNCHANGED <<reviewing, started>>
      BY <1>2, <2>3 DEF Receive
    <3>2. CASE Len(remembered) < MaxRemembered
      <4>1. remembered' = Append(remembered, d) /\ forgotten' = forgotten
        BY <3>1, <3>2 DEF Remember
      <4>2. /\ remembered' \in Seq(Deliveries) /\ Len(remembered') = Len(remembered) + 1
            /\ remembered'[Len(remembered) + 1] = d
            /\ \A k \in 1..Len(remembered) : remembered'[k] = remembered[k]
        BY <4>1 DEF HookTyped
      <4>3. NoneTwice(remembered')
        BY <2>3, <4>1, AppendedOnce DEF HookTyped, RememberedOnce
      <4>4. ASSUME NEW x, Contains(remembered, x) \/ x = d PROVE Contains(remembered', x)
        BY <4>1, <4>4, AppendedOnce DEF HookTyped
      <4>5. HookTyped'
        BY <3>1, <4>1, <4>2 DEF HookTyped
      <4>6. ASSUME NEW x \in Deliveries
            PROVE  /\ started'[x] + reading'[x] <= forgotten'[x] + 1
                   /\ ~Contains(remembered', x) => started'[x] + reading'[x] <= forgotten'[x]
        <5>1. CASE x = d
          BY <2>3, <3>1, <4>1, <4>4, <5>1 DEF HookTyped, PaidByMemory
        <5>2. CASE x # d
          BY <3>1, <4>1, <4>4, <5>2 DEF HookTyped, PaidByMemory
        <5> QED BY <5>1, <5>2
      <4> QED
        BY <4>3, <4>5, <4>6 DEF RememberedOnce, PaidByMemory
    <3>3. CASE ~(Len(remembered) < MaxRemembered)
      <4> DEFINE h == Head(remembered)  t == Tail(remembered)
      <4>0. remembered # <<>> /\ Len(remembered) \in Nat \ {0}
        BY <3>3 DEF HookTyped, WebhookAssumption
      <4>1. remembered' = Append(t, d) /\ forgotten' = [forgotten EXCEPT ![h] = @ + 1]
        BY <3>1, <3>3 DEF Remember
      <4>2. /\ h \in Deliveries /\ t \in Seq(Deliveries)
            /\ Contains(remembered, h)
            /\ \A x : Contains(t, x) => Contains(remembered, x)
            /\ \A x : Contains(remembered, x) /\ x # h => Contains(t, x)
            /\ NoneTwice(t)
        BY <4>0, WithoutTheFirst DEF HookTyped, RememberedOnce
      <4> HIDE DEF h, t
      <4>3. remembered' \in Seq(Deliveries)
        BY <4>1, <4>2
      <4>4. NoneTwice(remembered')
        BY <2>3, <4>1, <4>2, AppendedOnce
      <4>5. \A x : Contains(remembered, x) /\ x # h => Contains(remembered', x)
        BY <4>1, <4>2, AppendedOnce
      <4>6. Contains(remembered', d)
        BY <4>1, <4>2, AppendedOnce
      <4>7. h # d
        BY <2>3, <4>2
      <4>8. HookTyped'
        <5>1. reading' \in [Deliveries -> Nat]
          BY <3>1 DEF HookTyped
        <5>2. forgotten' \in [Deliveries -> Nat]
          BY <4>1, <4>2 DEF HookTyped
        <5> QED
          BY <3>1, <4>3, <5>1, <5>2 DEF HookTyped
      <4>9. ASSUME NEW x \in Deliveries
            PROVE  /\ started'[x] + reading'[x] <= forgotten'[x] + 1
                   /\ ~Contains(remembered', x) => started'[x] + reading'[x] <= forgotten'[x]
        <5>a. /\ reading[x] \in Nat /\ started[x] \in Nat /\ forgotten[x] \in Nat
              /\ started[x] + reading[x] <= forgotten[x] + 1
              /\ ~Contains(remembered, x) => started[x] + reading[x] <= forgotten[x]
          BY DEF HookTyped, PaidByMemory
        <5>b. /\ started'[x] = started[x]
              /\ reading'[x] = IF x = d THEN reading[x] + 1 ELSE reading[x]
              /\ forgotten'[x] = IF x = h THEN forgotten[x] + 1 ELSE forgotten[x]
          BY <3>1, <4>1 DEF HookTyped
        <5>1. CASE x = d
          BY ONLY <2>3, <4>6, <4>7, <5>a, <5>b, <5>1
        <5>2. CASE x = h
          BY ONLY <4>7, <5>a, <5>b, <5>2
        <5>3. CASE x # d /\ x # h
          BY ONLY <4>5, <5>a, <5>b, <5>3
        <5> QED BY <5>1, <5>2, <5>3
      <4> QED
        BY <4>4, <4>8, <4>9 DEF RememberedOnce, PaidByMemory
    <3> QED BY <3>2, <3>3
  <2> QED BY <2>1, <2>2, <2>3
<1>3. ASSUME NEW d \in Deliveries, StartReview(d) PROVE HookInv'
  <2>1. /\ reading[d] > 0 /\ reading' = [reading EXCEPT ![d] = @ - 1]
        /\ remembered' = remembered /\ forgotten' = forgotten
    BY <1>3 DEF StartReview
  <2>2. reading' \in [Deliveries -> Nat]
    BY <2>1 DEF HookTyped
  <2>3. CASE secret = "right"
    <3>1. started' = [started EXCEPT ![d] = @ + 1] /\ reviewing' = [reviewing EXCEPT ![d] = @ + 1]
      BY <1>3, <2>3 DEF StartReview
    <3>2. HookTyped'
      BY <2>1, <2>2, <3>1 DEF HookTyped
    <3>3. \A x \in Deliveries : started'[x] + reading'[x] = started[x] + reading[x]
      BY <2>1, <3>1 DEF HookTyped
    <3> QED
      BY <2>1, <3>2, <3>3 DEF RememberedOnce, PaidByMemory
  <2>4. CASE secret # "right"
    <3>1. UNCHANGED <<started, reviewing>>
      BY <1>3, <2>4 DEF StartReview
    <3>2. HookTyped'
      BY <2>1, <2>2, <3>1 DEF HookTyped
    <3>3. \A x \in Deliveries : started'[x] + reading'[x] <= started[x] + reading[x]
      BY <2>1, <3>1 DEF HookTyped
    <3>4. \A x \in Deliveries :
            {started'[x], reading'[x], started[x], reading[x], forgotten[x]} \subseteq Nat
      BY <2>2, <3>1 DEF HookTyped
    <3>5. PaidByMemory'
      <4> SUFFICES ASSUME NEW x \in Deliveries
                   PROVE  /\ started'[x] + reading'[x] <= forgotten[x] + 1
                          /\ ~Contains(remembered, x) =>
                               started'[x] + reading'[x] <= forgotten[x]
        BY <2>1 DEF PaidByMemory
      <4>1. /\ started[x] + reading[x] <= forgotten[x] + 1
            /\ ~Contains(remembered, x) => started[x] + reading[x] <= forgotten[x]
        BY DEF PaidByMemory
      <4> QED
        BY ONLY <3>3, <3>4, <4>1, x \in Deliveries
    <3> QED
      BY <2>1, <3>2, <3>5 DEF RememberedOnce
  <2> QED
    BY <2>3, <2>4
<1>4. ASSUME NEW d \in Deliveries, RunReview(d) PROVE HookInv'
  BY <1>4 DEF RunReview, HookTyped, RememberedOnce, PaidByMemory
<1>5. ASSUME NEW s \in {"unset", "stale", "right"}, HookRestart(s) PROVE HookInv'
  <2>1. /\ remembered' = <<>> /\ reading' = NoneOf /\ reviewing' = NoneOf /\ started' = started
        /\ forgotten' = [d \in Deliveries |-> forgotten[d] + IF Contains(remembered, d) THEN 1 ELSE 0]
    BY <1>5 DEF HookRestart
  <2>2. HookTyped'
    BY <2>1 DEF HookTyped, NoneOf
  <2>3. RememberedOnce'
    BY <2>1 DEF RememberedOnce, NoneTwice
  <2>4. PaidByMemory'
    <3>1. ASSUME NEW x \in Deliveries PROVE started[x] <= forgotten'[x]
      <4>1. CASE Contains(remembered, x)
        BY <2>1, <4>1 DEF HookTyped, PaidByMemory
      <4>2. CASE ~Contains(remembered, x)
        BY <2>1, <4>2 DEF HookTyped, PaidByMemory
      <4> QED BY <4>1, <4>2
    <3> QED
      BY <2>1, <2>2, <3>1 DEF HookTyped, PaidByMemory, NoneOf
  <2> QED BY <2>2, <2>3, <2>4
<1>6. CASE UNCHANGED hookVars
  BY <1>6 DEF hookVars, HookTyped, RememberedOnce, PaidByMemory
<1> QED
  BY <1>1, <1>2, <1>3, <1>4, <1>5, <1>6 DEF HookNext

\* The GitHub webhook starts no second review of a delivery it still remembers,
\* however often and however closely together GitHub delivers it: more than one
\* takes that the bounded memory forgot the delivery in between.
THEOREM OneReviewPerMemoryHolds == HookSpec => []OneReviewPerMemory
<1>1. HookInv => OneReviewPerMemory
  BY DEF HookInv, HookTyped, PaidByMemory, OneReviewPerMemory
<1> QED
  BY <1>1, HookInitial, HookStep, WebhookAssumption, PTL DEF HookSpec

------------------------------------------------------------------------------
(***************************************************************************)
(* RedisLock.                                                              *)
(*                                                                         *)
(* Exclusion needs Redis to answer and every body to end within the time   *)
(* to live; that an acquire never overwrites a lock needs neither.         *)
(***************************************************************************)

\* Where a client that acquired the lock can be.
Using == {"body", "beat", "prolong", "release", "delete"}

UserKnown == \A c \in Clients : c \in acquired <=> pc[c] \in Using

KeyOfUser == \A c \in acquired : key = c

\* Between GET and EXPIRE the key cannot go, with Prompt.
KeyOfExtender == \A c \in Clients : pc[c] = "extend" => key = c

IInv == TypeOK /\ UserKnown /\ KeyOfUser /\ KeyOfExtender

\* The invariant holds at first.
LEMMA InitIInv == Init => IInv
BY RedisAssumption DEF Init, IInv, TypeOK, UserKnown, KeyOfUser, KeyOfExtender, Using, Points

\* The clients' steps on Redis keep it.
LEMMA ClientStep ==
    ASSUME IInv, Prompt, Reachable, NEW c \in Clients,
           \/ LocalAcquire(c) \/ LocalRelease(c)
           \/ Acquire(c) \/ Heartbeat(c) \/ Release(c) \/ Command(c)
    PROVE  IInv'
<1> USE RedisAssumption DEF IInv, TypeOK, UserKnown, KeyOfUser, KeyOfExtender, Using,
                            Points, Goto, Leave
<1>1. CASE LocalAcquire(c) \/ LocalRelease(c)
  BY <1>1 DEF LocalAcquire, LocalRelease
<1>2. CASE Acquire(c)
  BY <1>2 DEF Acquire
<1>3. CASE Heartbeat(c)
  BY <1>3 DEF Heartbeat
<1>4. CASE Release(c)
  BY <1>4 DEF Release
<1>5. CASE SetNx(c)
  BY <1>5 DEF SetNx
<1>6. CASE GetBusy(c)
  BY <1>6 DEF GetBusy
<1>7. CASE Extend(c)
  BY <1>7 DEF Extend
<1>8. CASE GetBeat(c)
  BY <1>8 DEF GetBeat
<1>9. CASE Prolong(c)
  BY <1>9 DEF Prolong
<1>10. CASE GetHolder(c)
  BY <1>10 DEF GetHolder
<1>11. CASE Delete(c)
  BY <1>11 DEF Delete
<1>12. QED
  BY <1>1, <1>2, <1>3, <1>4, <1>5, <1>6, <1>7, <1>8, <1>9, <1>10, <1>11 DEF Command

\* So do expiry and crashes.
LEMMA OtherStep ==
    ASSUME IInv, Prompt, KeyExpires \/ \E p \in Processes : LocalExpires(p) \/ Crash(p)
    PROVE  IInv'
<1> USE RedisAssumption DEF IInv, TypeOK, UserKnown, KeyOfUser, KeyOfExtender, Using, Points
<1>1. CASE KeyExpires
  BY <1>1 DEF KeyExpires
<1>2. ASSUME NEW p \in Processes, LocalExpires(p) PROVE IInv'
  BY <1>2 DEF LocalExpires
<1>3. ASSUME NEW p \in Processes, Crash(p) PROVE IInv'
  BY <1>3 DEF Crash
<1>4. QED
  BY <1>1, <1>2, <1>3

\* As long as Redis answers and bodies end in time, with_lock excludes: no two
\* clients, of any processes, are under the lock (redis_backend.py:120-134).
THEOREM Exclusion ==
    ASSUME Prompt, Reachable
    PROVE  Spec => []MutualExclusion
<1>1. IInv /\ [Next]_vars => IInv'
  <2>1. ASSUME IInv, UNCHANGED vars PROVE IInv'
    BY <2>1 DEF IInv, TypeOK, UserKnown, KeyOfUser, KeyOfExtender, vars
  <2>2. QED
    BY <2>1, ClientStep, OtherStep DEF Next
<1>2. IInv => MutualExclusion
  BY DEF IInv, KeyOfUser, MutualExclusion
<1>3. QED
  BY InitIInv, <1>1, <1>2, PTL DEF Spec

--------------------------------------------------------------------------------
\* Whatever the servers, the clocks and the crashes do, the key is taken only when
\* it is absent: SET NX is the one command that writes a holder.
THEOREM KeyImplementsLock == Spec => ImplementsLock
<1>1. Init => Lock!Init
  BY DEF Init, Lock!Init, Owner
<1>2. [Next]_vars => [Lock!Next]_Owner
  <2> SUFFICES ASSUME Next, key' # key
               PROVE  Lock!Next
    BY DEF vars, Owner
  <2>1. ASSUME NEW c \in Clients, SetNx(c) PROVE Lock!Take("resource")
    BY <2>1 DEF SetNx, Lock!Take, Owner
  <2>2. ASSUME key' = None PROVE Lock!Free
    <3>1. Owner' # Owner
      BY DEF Owner
    <3>2. Owner' = [r \in {"resource"} |-> IF r \in {"resource"} THEN None ELSE Owner[r]]
      BY <2>2 DEF Owner
    <3>3. QED
      BY <3>1, <3>2 DEF Lock!Free
  <2>3. (\E c \in Clients : SetNx(c)) \/ key' = None
    BY DEF Next, Command, LocalAcquire, LocalRelease, Acquire, GetBusy, Extend, Heartbeat,
           GetBeat, Prolong, Release, GetHolder, Delete, LocalExpires, Crash, KeyExpires
  <2>4. QED
    BY <2>1, <2>2, <2>3 DEF Lock!Next
<1>3. QED
  BY <1>1, <1>2, PTL DEF Spec, ImplementsLock, Lock!Spec
==============================================================================
