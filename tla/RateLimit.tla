------------------------------ MODULE RateLimit ------------------------------
(***************************************************************************)
(* core/rate_limit/: the sliding-window log behind LimiterRegistry, with   *)
(* its three backends: in memory (one log per replica), a Redis sorted set *)
(* under a Lua script, and the same set under WATCH/MULTI/EXEC where the   *)
(* server has no scripts, which counts and admits in two transactions.     *)
(*                                                                         *)
(* A request is checked for its user, then for its address.  The keys do   *)
(* not name the scope, so scopes with different limits share a window.     *)
(* The time of a check is taken when it starts; here it is also the time   *)
(* of its commands, so `RateTick` waits for checks under way.  A log tells *)
(* how many times of each age it holds, which makes the model finite; what *)
(* is older than the window and not evicted yet has the age Window + 1.    *)
(***************************************************************************)
EXTENDS Amounts

CONSTANTS Callers,        \* requests in flight at a time
          Replicas,
          RateUsers, Scopes,
          UserLimit, IpLimit,   \* ScopeConfig.user_limit and ip_limit, by scope
          Window,         \* user_window_seconds = ip_window_seconds
          WatchRetries    \* rounds before the WATCH fallback gives up

ASSUME RateAssumption ==
  /\ UserLimit \in [Scopes -> Nat \ {0}] /\ IpLimit \in [Scopes -> Nat \ {0}]
  /\ Window \in Nat \ {0}
  /\ IsFiniteSet(Scopes) /\ Scopes # {}
  /\ IsFiniteSet(Callers) /\ IsFiniteSet(Replicas)

VARIABLES
  backend,   \* "none" before create_backend_from_env, "memory", "lua", "watch"
  log,       \* the times kept: by store (a replica, or "redis"), key and age
  check,     \* the requests in flight
  admitted   \* history: recorded admissions of one window, the same way

rateVars == <<backend, log, check, admitted>>

Keys == {<<"user", u>> : u \in RateUsers} \cup {<<"ip", "a">>}
Stores == Replicas \cup {"redis"}
Ages == 0..Window
Unused == [s \in Stores |-> [k \in Keys |-> [age \in 0..(Window + 1) |-> 0]]]
NoneAdmitted == [s \in Stores |-> [k \in Keys |-> [age \in Ages |-> 0]]]
NoCheck == [phase |-> "idle", user |-> "none", scope |-> "none",
            replica |-> "none", tries |-> 0]

RateInit ==
  /\ backend = "none"
  /\ log = Unused
  /\ check = [c \in Callers |-> NoCheck]
  /\ admitted = NoneAdmitted

\* create_backend_from_env: Redis if it answers, with or without scripts
ChooseBackend(b) ==
  /\ backend = "none"
  /\ backend' = b
  /\ UNCHANGED <<log, check, admitted>>

StoreOf(c) == IF backend = "memory" THEN check[c].replica ELSE "redis"
Dimension(c) == IF check[c].phase \in {"user", "user admit"} THEN "user" ELSE "ip"
KeyOf(c) == IF Dimension(c) = "user" THEN <<"user", check[c].user>> ELSE <<"ip", "a">>
LimitOf(c) == IF Dimension(c) = "user" THEN UserLimit[check[c].scope]
                                       ELSE IpLimit[check[c].scope]

\* _evict_old, ZREMRANGEBYSCORE: what is older than the window
Evict(times) == [times EXCEPT ![Window + 1] = 0]
Size(times) == Sum(times, 0..(Window + 1))
Kept(c) == Evict(log[StoreOf(c)][KeyOf(c)])

\* check_request: user first, if there is one
Request(c, user, scope, replica) ==
  /\ backend # "none" /\ check[c].phase = "idle"
  /\ backend # "memory" => replica = CHOOSE r \in Replicas : TRUE  \* makes no difference
  /\ check' = [check EXCEPT ![c] =
       [phase |-> IF user = "none" THEN "ip" ELSE "user", user |-> user,
        scope |-> scope, replica |-> replica, tries |-> 0]]
  /\ UNCHANGED <<backend, log, admitted>>

\* what follows a check that passed or not: the address, or the answer
Proceed(c, passed) ==
  check' = [check EXCEPT ![c] =
    IF passed /\ Dimension(c) = "user" THEN [@ EXCEPT !.phase = "ip", !.tries = 0]
    ELSE [@ EXCEPT !.phase = IF passed THEN "served" ELSE "refused"]]

Admit(c, kept) ==
  /\ log' = [log EXCEPT ![StoreOf(c)][KeyOf(c)] = [kept EXCEPT ![0] = @ + 1]]
  /\ admitted' = [admitted EXCEPT ![StoreOf(c)][KeyOf(c)][0] = @ + 1]
  /\ Proceed(c, TRUE)

\* InMemoryBackend.check under its lock, and the Lua script: one atomic step
CheckAtomic(c) ==
  /\ backend \in {"memory", "lua"} /\ check[c].phase \in {"user", "ip"}
  /\ \/ Size(Kept(c)) < LimitOf(c) /\ Admit(c, Kept(c))
     \/ /\ Size(Kept(c)) >= LimitOf(c)
        /\ log' = [log EXCEPT ![StoreOf(c)][KeyOf(c)] = Kept(c)]
        /\ Proceed(c, FALSE)
        /\ UNCHANGED admitted
  /\ UNCHANGED backend

\* _do_watch_round: trim and count, decide in Python
WatchRound(c) ==
  /\ backend = "watch" /\ check[c].phase \in {"user", "ip"}
  /\ log' = [log EXCEPT !["redis"][KeyOf(c)] = Kept(c)]
  /\ IF Size(Kept(c)) < LimitOf(c)
     THEN check' = [check EXCEPT ![c].phase =
                      IF @ = "user" THEN "user admit" ELSE "ip admit"]
     ELSE Proceed(c, FALSE)
  /\ UNCHANGED <<backend, admitted>>

\* Mutant: the reply of a round stands for the admission
WatchAdmitUnrecorded(c) ==
  /\ check[c].phase \in {"user admit", "ip admit"}
  /\ Proceed(c, TRUE)
  /\ admitted' = [admitted EXCEPT ![StoreOf(c)][KeyOf(c)][0] = @ + 1]
  /\ UNCHANGED <<backend, log>>

\* _do_admit: the second transaction
WatchAdmit(c) ==
  /\ check[c].phase \in {"user admit", "ip admit"}
  /\ Admit(c, log["redis"][KeyOf(c)])
  /\ UNCHANGED backend

\* Nothing is recorded, and the request passes
AdmitFree(c) ==
  /\ Proceed(c, TRUE)
  /\ UNCHANGED <<backend, log, admitted>>

\* WatchError: another request on the key came between; given up after a few
WatchConflict(c) ==
  /\ backend = "watch" /\ check[c].phase \in {"user", "ip"}
  /\ \E d \in Callers \ {c} :
       check[d].phase \in {"user", "user admit", "ip", "ip admit"} /\ KeyOf(d) = KeyOf(c)
  /\ IF check[c].tries + 1 = WatchRetries THEN AdmitFree(c)
     ELSE /\ check' = [check EXCEPT ![c].tries = @ + 1]
          /\ UNCHANGED <<backend, log, admitted>>

\* RedisBackend.check: any error of Redis admits
RedisFails(c) ==
  /\ backend \in {"lua", "watch"}
  /\ check[c].phase \in {"user", "user admit", "ip", "ip admit"}
  /\ AdmitFree(c)

Answered(c) ==
  /\ check[c].phase \in {"served", "refused"}
  /\ check' = [check EXCEPT ![c] = NoCheck]
  /\ UNCHANGED <<backend, log, admitted>>

\* reset_all
ResetAll ==
  /\ backend # "none" /\ \A c \in Callers : check[c].phase = "idle"
  /\ log' = Unused /\ admitted' = NoneAdmitted
  /\ UNCHANGED <<backend, check>>

RateTick ==
  /\ \A c \in Callers : check[c].phase = "idle"
  /\ log' = [s \in Stores |-> [k \in Keys |-> [age \in 0..(Window + 1) |->
       CASE age = 0 -> 0
         [] age \in 1..Window -> log[s][k][age - 1]
         [] OTHER -> log[s][k][Window] + log[s][k][Window + 1]]]]
  /\ admitted' = [s \in Stores |-> [k \in Keys |-> [age \in Ages |->
       IF age = 0 THEN 0 ELSE admitted[s][k][age - 1]]]]
  /\ UNCHANGED <<backend, check>>

RateNext ==
  \/ \E b \in {"memory", "lua", "watch"} : ChooseBackend(b)
  \/ \E c \in Callers :
       \/ \E u \in RateUsers \cup {"none"}, s \in Scopes, r \in Replicas : Request(c, u, s, r)
       \/ CheckAtomic(c) \/ WatchRound(c) \/ WatchAdmit(c) \/ WatchConflict(c)
       \/ RedisFails(c) \/ Answered(c)
  \/ ResetAll \/ RateTick

RateSpec == RateInit /\ [][RateNext]_rateVars

-------------------------------------------------------------------------------
CeilingOf(k, s) == IF k[1] = "user" THEN UserLimit[s] ELSE IpLimit[s]
Highest(k) == CHOOSE m \in {CeilingOf(k, s) : s \in Scopes} :
                \A s \in Scopes : CeilingOf(k, s) <= m
InWindow(k) == Sum([s \in Stores |-> Sum(admitted[s][k], Ages)], Stores)

(* No window holds more admissions of a key than the largest limit that       *)
(* applies to it: exactly with the script, once per replica in memory, and    *)
(* with WATCH at most one more for every other check between its two          *)
(* transactions.  Requests that an error admitted are not counted, for them   *)
(* the limiter promises nothing.                                              *)
WindowsBounded ==
  \A k \in Keys :
    InWindow(k) <=
      CASE backend = "memory" -> Highest(k) * Cardinality(Replicas)
        [] backend = "watch" -> Highest(k) + Cardinality(Callers) - 1
        [] OTHER -> Highest(k)

==============================================================================
