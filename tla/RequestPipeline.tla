-------------------------- MODULE RequestPipeline --------------------------
(***************************************************************************)
(* What a request of the HTTP API passes through, as api/server.py stacks  *)
(* it: Starlette puts the layer added last outermost.  A request goes in   *)
(* until a layer answers it; the answer comes out through the layers it    *)
(* went in by, each putting its mark on it.  Requests are tasks of one     *)
(* event loop and give way to each other where a layer waits: at the       *)
(* limiter, for the body, for the scan, and in the route.                  *)
(***************************************************************************)
EXTENDS Integers, FiniteSets

CONSTANTS Requests,         \* the requests of a behaviour
          RequestKinds,     \* what may be requested
          PipelineSettings, \* what the environment variables may say
          Burst, Window,    \* RateLimiter.burst and .window
          CleanupInterval,  \* RateLimiter._cleanup_interval
          MaxTicks          \* bound on the passing of time

ASSUME PipelineAssumption ==
  /\ RequestKinds \subseteq [path : {"health", "api"}, method : {"GET", "POST"},
       https : BOOLEAN, user : {"ann", "bob", "nobody"}, parts : 0..2,
       secret : BOOLEAN, large : BOOLEAN]
  /\ PipelineSettings \subseteq [redirect : BOOLEAN, hsts : BOOLEAN,
                                 security : BOOLEAN, sliding : BOOLEAN]
  /\ Burst \in Nat \ {0} /\ Window \in Nat \ {0}
  /\ CleanupInterval \in Nat /\ MaxTicks \in Nat

VARIABLES
  setting,      \* the settings of this process
  requested,        \* the request
  place,        \* where it waits: "out", "limit", "secrets", "scan", "route", "done"
  coming,       \* parts of its body the client has yet to send
  held,         \* parts of its body the route will be given
  gone,         \* its client has disconnected
  context,      \* its context variables: request id and user
  answer,       \* its answer: status and marks
  counted,      \* agent_http_requests_total on its account
  bucket,       \* the address's _Bucket: tokens (in 1/Window) and idle time, or NoBucket
  sinceCleanup, \* time since RateLimiter._last_cleanup
  admitted,     \* history: how long ago the token bucket let it in, -1 if it did not
  ticks         \* history: time passed

flight == <<requested, place, coming, held, gone, context, answer, counted>>
limits == <<bucket, sinceCleanup, admitted, ticks>>
pipelineVars == <<setting, requested, place, coming, held, gone, context, answer,
                  counted, bucket, sinceCleanup, admitted, ticks>>

NoBucket == [tokens |-> -1, idle |-> 0]

Blank == [id |-> "none", user |-> "nobody"]

PipelineInit ==
  /\ setting \in PipelineSettings
  /\ requested = [r \in Requests |-> [path |-> "none"]] /\ place = [r \in Requests |-> "out"]
  /\ coming = [r \in Requests |-> 0] /\ held = [r \in Requests |-> 0]
  /\ gone = [r \in Requests |-> FALSE] /\ context = [r \in Requests |-> Blank]
  /\ answer = [r \in Requests |-> [status |-> 0, marks |-> {}]]
  /\ counted = [r \in Requests |-> 0]
  /\ bucket = NoBucket /\ sinceCleanup = 0
  /\ admitted = [r \in Requests |-> -1] /\ ticks = 0

(***************************************************************************)
(* The layers                                                              *)
(***************************************************************************)
\* The route, and the place in which server.py adds a layer.  CORS, added last,
\* answers preflight requests; the marks it puts on the others are those of every
\* answer.
Added == [route |-> 0, auth |-> 1, request_id |-> 2, metrics |-> 3, headers |-> 4, size |-> 5,
          secrets |-> 6, limit |-> 7, cookies |-> 8, hsts |-> 9, redirect |-> 10]

Guards == {"headers", "size", "secrets", "limit"}

Layers == IF setting.security THEN DOMAIN Added ELSE DOMAIN Added \ Guards

\* Mutant: the layers lie as server.py's comment has it, the first added outermost
OutsideAsAdded(layer) ==
  {l \in Layers \ {"route"} : layer = "route" \/ Added[l] < Added[layer]}

\* The layer added last is outermost.
Outside(layer) == {l \in Layers : Added[l] > Added[layer]}

\* MetricsMiddleware.dispatch: an answer is counted as it goes out
CountedFrom(layer) == IF "metrics" \in Outside(layer) THEN 1 ELSE 0

\* An exception is counted where it is caught and again in the finally.
CountedTwiceFrom(layer) == 2 * CountedFrom(layer)

\* SecurityHeadersMiddleware.dispatch: the headers of the answers from inside
SecurityMark(layer) == IF "headers" \in Outside(layer) THEN {"security"} ELSE {}

\* HSTSHeaderMiddleware
HstsMark(layer) == IF setting.hsts /\ "hsts" \in Outside(layer) THEN {"hsts"} ELSE {}

\* RequestIDMiddleware.dispatch, after call_next
IdMark(layer, status) == IF "request_id" \in Outside(layer) THEN {"id"} ELSE {}

\* The answer of layer goes out; what the contexts were given is taken back.
Answers(r, layer, status) ==
  /\ answer' = [answer EXCEPT ![r] =
       [status |-> status,
        marks |-> @.marks \cup SecurityMark(layer) \cup HstsMark(layer)
                    \cup IdMark(layer, status)]]
  /\ counted' = [counted EXCEPT ![r] = CountedFrom(layer)]
  /\ context' = [context EXCEPT ![r] = Blank]
  /\ place' = [place EXCEPT ![r] = "done"]

Waits(r, where) ==
  /\ place' = [place EXCEPT ![r] = where]
  /\ UNCHANGED <<context, answer, counted>>

\* RequestIDMiddleware and AuthMiddleware on the way in: the id sent, or a new one
SetContext(r) ==
  context' = [context EXCEPT ![r] = [id |-> r, user |-> requested[r].user]]

\* RequestSizeLimitMiddleware, and the layers between it and the route
PassInner(r) ==
  IF setting.security /\ requested[r].large THEN Answers(r, "size", 413)
  ELSE /\ SetContext(r)
       /\ place' = [place EXCEPT ![r] = "route"]
       /\ UNCHANGED <<answer, counted>>

Exempt(r) == requested[r].path = "health"

\* SecretsInRequestMiddleware: only the bodies of POST, PUT and PATCH are looked at
PassLimiter(r) ==
  IF Exempt(r) \/ requested[r].method = "GET" THEN PassInner(r) ELSE Waits(r, "secrets")

(***************************************************************************)
(* The address's token bucket                                              *)
(***************************************************************************)
Full == Burst * Window

\* Mutant: at a cleanup every bucket is dropped, in use or not
CleanedOfAll == IF sinceCleanup < CleanupInterval THEN bucket ELSE NoBucket

\* RateLimiter._maybe_cleanup
Cleaned ==
  IF sinceCleanup < CleanupInterval \/ bucket = NoBucket THEN bucket
  ELSE IF bucket.idle > 2 * Window THEN NoBucket ELSE bucket

\* RateLimiter._refill
Refilled(b) ==
  IF b = NoBucket THEN Full
  ELSE LET sum == b.tokens + b.idle * Burst IN IF sum > Full THEN Full ELSE sum

\* RateLimiter.check
CheckBucket(r, allowed) ==
  LET tokens == Refilled(Cleaned)
  IN  /\ allowed = (tokens >= Window)
      /\ bucket' = [tokens |-> IF allowed THEN tokens - Window ELSE tokens, idle |-> 0]
      /\ sinceCleanup' = IF sinceCleanup < CleanupInterval THEN sinceCleanup ELSE 0
      /\ admitted' = [admitted EXCEPT ![r] = IF allowed THEN 0 ELSE @]

(***************************************************************************)
(* The way in                                                              *)
(***************************************************************************)
\* A request comes.  HTTPSRedirectMiddleware: 301 unless https or a health check
Arrive(r) == \E k \in RequestKinds :
  /\ place[r] = "out"
  /\ requested' = [requested EXCEPT ![r] = k]
  /\ coming' = [coming EXCEPT ![r] = k.parts]
  /\ IF setting.redirect /\ ~k.https /\ k.path # "health"
     THEN Answers(r, "redirect", 301)
     ELSE Waits(r, "limit")
  /\ UNCHANGED <<setting, held, gone, limits>>

\* SlidingWindowRateLimitMiddleware.dispatch, its registry's verdict any: it lets
\* requests in when the registry fails.  RateLimit models the registry.
PassSlidingWindow(r) ==
  /\ place[r] = "limit" /\ setting.security /\ setting.sliding
  /\ \/ PassLimiter(r)
     \/ ~Exempt(r) /\ Answers(r, "limit", 429)
  /\ UNCHANGED <<setting, requested, coming, held, gone, limits>>

\* RateLimitMiddleware.dispatch, AGENT_RATE_LIMIT_ENABLED=false
PassTokenBucket(r) ==
  /\ place[r] = "limit" /\ setting.security /\ ~setting.sliding
  /\ \/ Exempt(r) /\ PassLimiter(r) /\ UNCHANGED limits
     \/ /\ ~Exempt(r)
        /\ \E allowed \in BOOLEAN :
             /\ CheckBucket(r, allowed)
             /\ IF allowed THEN PassLimiter(r) ELSE Answers(r, "limit", 429)
        /\ UNCHANGED ticks
  /\ UNCHANGED <<setting, requested, coming, held, gone>>

\* DISABLE_SECURITY_MIDDLEWARE=1
PassUnguarded(r) ==
  /\ place[r] = "limit" /\ ~setting.security
  /\ PassInner(r)
  /\ UNCHANGED <<setting, requested, coming, held, gone, limits>>

\* The client goes away while parts of the body are to come.
Disconnect(r) ==
  /\ place[r] \in {"secrets", "route"} /\ coming[r] > 0 /\ ~gone[r]
  /\ gone' = [gone EXCEPT ![r] = TRUE]
  /\ UNCHANGED <<setting, requested, place, coming, held, context, answer, counted, limits>>

TakePart(r) ==
  /\ held' = [held EXCEPT ![r] = @ + 1]
  /\ coming' = [coming EXCEPT ![r] = @ - 1]

\* the loop that drains the body ends: with the last part, or the client gone
Drained(r) == coming[r] = 0 \/ gone[r]

\* SecretsInRequestMiddleware: the body is drained, then scanned if there is one
DrainBody(r) ==
  /\ place[r] = "secrets"
  /\ \/ /\ Drained(r)
        /\ IF held[r] = 0 THEN PassInner(r) ELSE Waits(r, "scan")
        /\ UNCHANGED <<coming, held>>
     \/ /\ coming[r] > 0 /\ ~gone[r]
        /\ TakePart(r)
        /\ UNCHANGED <<place, context, answer, counted>>
  /\ UNCHANGED <<setting, requested, gone, limits>>

\* The scan finds the secret the last part holds, unless it takes longer than
\* SECRETS_CHECK_TIMEOUT.
Scan(r) ==
  /\ place[r] = "scan"
  /\ \/ PassInner(r)
     \/ requested[r].secret /\ held[r] = requested[r].parts /\ Answers(r, "secrets", 400)
  /\ UNCHANGED <<setting, requested, coming, held, gone, limits>>

\* _passthrough_receive: the layers inside are given what was drained, with more_body
\* False, as if it were all there is
Replayed(r) == setting.security /\ ~Exempt(r) /\ requested[r].method # "GET"

\* The route reads the rest of the body, if no layer drained it.
ReadInRoute(r) ==
  /\ place[r] = "route" /\ coming[r] > 0 /\ ~gone[r] /\ ~Replayed(r)
  /\ TakePart(r)
  /\ UNCHANGED <<setting, requested, place, gone, context, answer, counted, limits>>

\* to the framework the body has come to its end
BodyRead(r) == coming[r] = 0 \/ Replayed(r)

\* The framework reads the body and then the route answers: 400 if the client goes
\* away while it reads, 422 if what it read does not parse, 401 without a valid token.
Handle(r) ==
  /\ place[r] = "route"
  /\ \/ ~BodyRead(r) /\ gone[r] /\ Answers(r, "route", 400)
     \/ BodyRead(r) /\ requested[r].parts > 0 /\ Answers(r, "route", 422)
     \/ /\ BodyRead(r)
        /\ Answers(r, "route",
                   IF requested[r].user = "nobody" /\ requested[r].path = "api" THEN 401 ELSE 200)
  /\ UNCHANGED <<setting, requested, coming, held, gone, limits>>

\* An exception leaves the route: it passes every layer, MetricsMiddleware counts it
\* where it is caught and again in its finally, and Starlette answers outside.
Raise(r) ==
  /\ place[r] = "route" /\ BodyRead(r)
  /\ requested[r].user # "nobody" \/ requested[r].path = "health"
  /\ answer' = [answer EXCEPT ![r] = [status |-> 500, marks |-> {}]]
  /\ counted' = [counted EXCEPT ![r] = CountedTwiceFrom("route")]
  /\ context' = [context EXCEPT ![r] = Blank]
  /\ place' = [place EXCEPT ![r] = "done"]
  /\ UNCHANGED <<setting, requested, coming, held, gone, limits>>

\* time passes
PipelineTick ==
  /\ ~setting.sliding /\ ticks < MaxTicks
  /\ ticks' = ticks + 1
  /\ bucket' = IF bucket = NoBucket THEN bucket ELSE [bucket EXCEPT !.idle = @ + 1]
  /\ sinceCleanup' = sinceCleanup + 1
  /\ admitted' = [r \in Requests |-> IF admitted[r] = -1 THEN -1 ELSE admitted[r] + 1]
  /\ UNCHANGED <<setting, flight>>

RequestStep(r) ==
  \/ PassSlidingWindow(r) \/ PassTokenBucket(r) \/ PassUnguarded(r)
  \/ DrainBody(r) \/ Scan(r) \/ ReadInRoute(r) \/ Handle(r) \/ Raise(r)

PipelineNext ==
  \/ \E r \in Requests : RequestStep(r) \/ Arrive(r) \/ Disconnect(r)
  \/ PipelineTick

PipelineSpec == PipelineInit /\ [][PipelineNext]_pipelineVars

\* The event loop runs every task that can run, and a client goes on sending or is
\* found to be gone.
PipelineFairSpec ==
  PipelineSpec /\ \A r \in Requests : WF_pipelineVars(RequestStep(r))

(***************************************************************************)
(* Properties                                                              *)
(***************************************************************************)
\* While a route runs, its context variables are its own request's (agents take the
\* tenant from them, logs the id), whatever requests run between its steps; when it
\* has ended, also by an exception, nothing is left in them.
OwnContext == \A r \in Requests :
  context[r] = IF place[r] = "route" THEN [id |-> r, user |-> requested[r].user] ELSE Blank

\* The answers that can be found again by their X-Request-ID are those the metrics
\* count once: no answer of the limiter, the scan or the size limit, and no
\* exception, has an id a log line could be matched with.
CountsFollowIds == \A r \in Requests :
  place[r] = "done" => ("id" \in answer[r].marks <=> counted[r] = 1)

\* A request the limiter refuses has cost nothing: no part of its body was taken and
\* it is in no count.
RefusedEarly == \A r \in Requests :
  answer[r].status \in {301, 429} => held[r] = 0 /\ counted[r] = 0

\* A route answers 200 to a part of a body only where the scan buffered it and the
\* client went away during the drain: then the part is replayed as if it were whole.
\* A body the framework reads for itself is never taken for another.
BodyWhole == \A r \in Requests :
  answer[r].status = 200 => held[r] = requested[r].parts \/ (gone[r] /\ Replayed(r))

\* In no stretch of time does the token bucket let more in than it holds plus what
\* flows back, buckets dropped by the cleanup included.
BucketBounded == \A k \in 0..ticks :
  Cardinality({r \in Requests : admitted[r] \in 0..k}) * Window <= Full + k * Burst

\* Every request that comes is answered: each comes once, and none stays on its way.
RequestsEnd == []<>(\A r \in Requests : place[r] \in {"out", "done"})

\* Requests that cross the layers together are answered, marked and counted each for
\* itself, in the order the layers really have.
RequestsApart == OwnContext /\ CountsFollowIds /\ RefusedEarly /\ BodyWhole
=============================================================================
