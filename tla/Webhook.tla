------------------------------ MODULE Webhook ------------------------------
(***************************************************************************)
(* api/routes/github_webhook.py: deliveries of GitHub, remembered by id in *)
(* an LRU cache before their signature is looked at, and the reviews they  *)
(* start in the background.  GitHub may deliver again whatever it was      *)
(* answered, by hand or because no answer came; both copies may be under   *)
(* way at once, as the handler waits for the body between the two checks.  *)
(***************************************************************************)
EXTENDS Integers, Sequences, SequencesExt, FiniteSets

CONSTANTS Deliveries,     \* pull_request deliveries that call for a review
          MaxRemembered,  \* _REPLAY_CACHE_MAX
          MaxSends,       \* bound on deliveries and redeliveries of one id
          MaxHookRestarts \* bound on restarts of the process

ASSUME WebhookAssumption ==
  MaxRemembered \in Nat \ {0} /\ MaxSends \in Nat /\ MaxHookRestarts \in Nat

VARIABLES
  secret,      \* GITHUB_WEBHOOK_SECRET of the process: "unset", "stale" (GitHub
               \* signs with another), "right"
  remembered,  \* _replay_cache: ids, the least recent first
  reading,     \* handlers waiting for a body, by delivery
  reviewing,   \* background reviews, by delivery
  sends,       \* history: deliveries sent
  started,     \* history: reviews started
  forgotten,   \* history: times the id was dropped from the cache
  ended,       \* history: reviews whose end was posted or logged
  lost,        \* history: reviews a restart ended
  hookRestarts

hookVars == <<secret, remembered, reading, reviewing, sends, started, forgotten,
              ended, lost, hookRestarts>>

NoneOf == [d \in Deliveries |-> 0]

HookInit ==
  /\ secret = "unset"
  /\ remembered = <<>>
  /\ reading = NoneOf /\ reviewing = NoneOf
  /\ sends = NoneOf /\ started = NoneOf /\ forgotten = NoneOf /\ ended = NoneOf
  /\ lost = NoneOf
  /\ hookRestarts = 0

\* the secret on GitHub's side is brought in line with the process's
AlignSecret ==
  /\ secret = "stale"
  /\ secret' = "right"
  /\ UNCHANGED <<remembered, reading, reviewing, sends, started, forgotten, ended,
                 lost, hookRestarts>>

\* Mutant: the id is remembered, the first comes to be the last
RememberWithout(d) ==
  /\ remembered' = remembered
  /\ UNCHANGED forgotten

\* _is_replay of an id not seen: remembered, and the oldest dropped
Remember(d) ==
  /\ remembered' = IF Len(remembered) < MaxRemembered THEN Append(remembered, d)
                   ELSE Append(Tail(remembered), d)
  /\ forgotten' = IF Len(remembered) < MaxRemembered THEN forgotten
                  ELSE [forgotten EXCEPT ![Head(remembered)] = @ + 1]

\* No secret: 503 before anything is remembered
Receive(d) ==
  /\ sends[d] < MaxSends
  /\ sends' = [sends EXCEPT ![d] = @ + 1]
  /\ CASE secret = "unset" -> UNCHANGED <<remembered, reading, forgotten>>
       [] secret # "unset" /\ Contains(remembered, d) ->   \* "duplicate"; moved to the end
            /\ \E i \in 1..Len(remembered) :
                  remembered[i] = d /\ remembered' = Append(RemoveAt(remembered, i), d)
            /\ UNCHANGED <<reading, forgotten>>
       [] OTHER -> Remember(d) /\ reading' = [reading EXCEPT ![d] = @ + 1]
  /\ UNCHANGED <<secret, reviewing, started, ended, lost, hookRestarts>>

\* The body is there: 401, or a review is queued
StartReview(d) ==
  /\ reading[d] > 0
  /\ reading' = [reading EXCEPT ![d] = @ - 1]
  /\ IF secret = "right"
     THEN /\ reviewing' = [reviewing EXCEPT ![d] = @ + 1]
          /\ started' = [started EXCEPT ![d] = @ + 1]
     ELSE UNCHANGED <<reviewing, started>>
  /\ UNCHANGED <<secret, remembered, sends, forgotten, ended, lost, hookRestarts>>

\* _run_review, to its comment, its log line or its logged exception
RunReview(d) ==
  /\ reviewing[d] > 0
  /\ reviewing' = [reviewing EXCEPT ![d] = @ - 1]
  /\ ended' = [ended EXCEPT ![d] = @ + 1]
  /\ UNCHANGED <<secret, remembered, reading, sends, started, forgotten, lost, hookRestarts>>

\* The process stops and starts, perhaps with a secret that was missing: the
\* cache and the reviews under way are lost
HookRestart(s) ==
  /\ hookRestarts < MaxHookRestarts
  /\ secret # "unset" => s = secret
  /\ secret' = s
  /\ hookRestarts' = hookRestarts + 1
  /\ remembered' = <<>>
  /\ forgotten' = [d \in Deliveries |-> forgotten[d] + IF Contains(remembered, d) THEN 1 ELSE 0]
  /\ reading' = NoneOf /\ reviewing' = NoneOf
  /\ lost' = [d \in Deliveries |-> lost[d] + reviewing[d]]
  /\ UNCHANGED <<sends, started, ended>>

HookNext ==
  \/ AlignSecret
  \/ \E d \in Deliveries : Receive(d) \/ StartReview(d) \/ RunReview(d)
  \/ \E s \in {"unset", "stale", "right"} : HookRestart(s)

HookSpec == HookInit /\ [][HookNext]_hookVars

\* The event loop runs its tasks
HookFairSpec ==
  HookSpec /\ \A d \in Deliveries : WF_hookVars(StartReview(d)) /\ WF_hookVars(RunReview(d))

-----------------------------------------------------------------------------
(***************************************************************************)
(* "deduplicates the delivery" (github_webhook.py:100): an id starts at    *)
(* most one review each time it is remembered, two copies under way at     *)
(* once included.                                                          *)
(***************************************************************************)
OneReviewPerMemory == \A d \in Deliveries : started[d] <= 1 + forgotten[d]

(***************************************************************************)
(* A review that was answered "queued" ends in a comment or in the log,    *)
(* unless the process stopped in between.                                  *)
(***************************************************************************)
QueuedReviewsEnd == []<>(\A d \in Deliveries : ended[d] + lost[d] = started[d])
=============================================================================
