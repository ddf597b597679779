-------------------------------- MODULE RedisLock --------------------------------
(***************************************************************************)
(* RedisResourceLock (storage/redis_backend.py) on one resource: processes *)
(* share a key of a Redis server and each has an in-memory ResourceLock to *)
(* fall back on.  A client is a coroutine of a process under with_lock; its *)
(* holder id is its own.                                                   *)
(*                                                                         *)
(* Every operation begins with a ping: it goes on with Redis if the answer *)
(* comes and with the fallback if not, so one client can begin with one    *)
(* and end with the other.  With Redis, an operation is several commands   *)
(* with awaits between them.  Expiry is an event that may happen whenever  *)
(* the lock is held; its length is left out.                               *)
(***************************************************************************)
CONSTANTS
    Processes,    \* processes, each with a fallback of its own
    Clients,      \* coroutines that use the lock
    ProcessOf,    \* the process of each client
    None,         \* no holder
    Reachable,    \* Redis answers every ping
    Prompt,       \* a lock outlives the body and the commands that use it
    MayCrash      \* processes may crash and restart

ASSUME RedisAssumption ==
    /\ ProcessOf \in [Clients -> Processes]
    /\ None \notin Clients
    /\ Reachable \in BOOLEAN /\ Prompt \in BOOLEAN /\ MayCrash \in BOOLEAN

VARIABLES
    key,        \* the value of lock:<resource> in Redis, None where absent
    fallback,   \* the holder in each process's in-memory lock
    pc,         \* where each client is
    acquired    \* the clients whose last acquire returned True, until they release

vars == <<key, fallback, pc, acquired>>

\* "idle" and "body" are outside the operations, the others await a command.
Points == {"idle", "acquire", "busy", "extend", "body",
           "beat", "prolong", "release", "delete"}

Goto(c, p) == pc' = [pc EXCEPT ![c] = p]

Leave(c) == Goto(c, "idle") /\ acquired' = acquired \ {c}

\* The lock as client c reaches it when Redis does not answer.
Local(c) == fallback[ProcessOf[c]]

SetLocal(c, h) == fallback' = [fallback EXCEPT ![ProcessOf[c]] = h]

--------------------------------------------------------------------------------
(* with_lock on the fallback: each operation of ResourceLock is one step; a *)
(* heartbeat only moves the expiry, which is left out                       *)

LocalAcquire(c) ==
    /\ pc[c] = "idle" /\ ~Reachable
    /\ \/ /\ Local(c) \in {None, c}
          /\ SetLocal(c, c) /\ Goto(c, "body") /\ acquired' = acquired \cup {c}
       \/ /\ Local(c) \notin {None, c}
          /\ UNCHANGED <<fallback, pc, acquired>>
    /\ UNCHANGED key

LocalRelease(c) ==
    /\ pc[c] = "body" /\ ~Reachable
    /\ IF Local(c) = c THEN SetLocal(c, None) ELSE UNCHANGED fallback
    /\ Leave(c)
    /\ UNCHANGED key

--------------------------------------------------------------------------------
(* with_lock on Redis, command by command                                   *)

\* The ping was answered; SET NX EX is next.
Acquire(c) ==
    /\ pc[c] = "idle"
    /\ Goto(c, "acquire")
    /\ UNCHANGED <<key, fallback, acquired>>

\* Mutant: SET without NX.
SetAlways(c) ==
    /\ pc[c] = "acquire"
    /\ key' = c /\ Goto(c, "body") /\ acquired' = acquired \cup {c}
    /\ UNCHANGED fallback

\* Mutant: SETNX of a flag instead of the holder.
SetFlag(c) ==
    /\ pc[c] = "acquire" /\ key = None
    /\ key' = TRUE /\ Goto(c, "body") /\ acquired' = acquired \cup {c}
    /\ UNCHANGED fallback

\* SET NX EX.
SetNx(c) ==
    /\ pc[c] = "acquire"
    /\ \/ /\ key = None
          /\ key' = c /\ Goto(c, "body") /\ acquired' = acquired \cup {c}
       \/ /\ key # None
          /\ Goto(c, "busy") /\ UNCHANGED <<key, acquired>>
    /\ UNCHANGED fallback

\* GET: the holder itself may acquire again, anybody else is refused.
GetBusy(c) ==
    /\ pc[c] = "busy"
    /\ Goto(c, IF key = c THEN "extend" ELSE "idle")
    /\ UNCHANGED <<key, fallback, acquired>>

\* EXPIRE, whose answer is not looked at: acquire returns True.
Extend(c) ==
    /\ pc[c] = "extend"
    /\ Goto(c, "body") /\ acquired' = acquired \cup {c}
    /\ UNCHANGED <<key, fallback>>

\* GET of heartbeat.
Heartbeat(c) ==
    /\ pc[c] = "body"
    /\ Goto(c, "beat")
    /\ UNCHANGED <<key, fallback, acquired>>

GetBeat(c) ==
    /\ pc[c] = "beat"
    /\ Goto(c, IF key = c THEN "prolong" ELSE "body")
    /\ UNCHANGED <<key, fallback, acquired>>

\* EXPIRE prolongs whatever lock is there by now.
Prolong(c) ==
    /\ pc[c] = "prolong"
    /\ Goto(c, "body")
    /\ UNCHANGED <<key, fallback, acquired>>

\* The body is over; the ping was answered and GET is next.
Release(c) ==
    /\ pc[c] = "body"
    /\ Goto(c, "release")
    /\ UNCHANGED <<key, fallback, acquired>>

\* GET of release.
GetHolder(c) ==
    /\ pc[c] = "release"
    /\ IF key = c THEN Goto(c, "delete") /\ UNCHANGED acquired
                  ELSE Leave(c)
    /\ UNCHANGED <<key, fallback>>

\* DELETE removes whatever lock is there by now.
Delete(c) ==
    /\ pc[c] = "delete"
    /\ key' = None
    /\ Leave(c)
    /\ UNCHANGED fallback

--------------------------------------------------------------------------------
\* Mutant: the key is set without EX.
KeyNeverExpires == FALSE /\ UNCHANGED vars

\* The time to live is over, for the key or for a fallback.
KeyExpires ==
    /\ key # None
    /\ Prompt => key \notin acquired /\ pc[key] # "extend"
    /\ key' = None
    /\ UNCHANGED <<fallback, pc, acquired>>

LocalExpires(p) ==
    /\ fallback[p] # None
    /\ Prompt => fallback[p] \notin acquired
    /\ fallback' = [fallback EXCEPT ![p] = None]
    /\ UNCHANGED <<key, pc, acquired>>

\* A process crashes: its clients and its fallback are gone, its key stays.
Crash(p) ==
    /\ MayCrash
    /\ LET gone == {c \in Clients : ProcessOf[c] = p}
       IN  /\ pc' = [c \in Clients |-> IF c \in gone THEN "idle" ELSE pc[c]]
           /\ acquired' = acquired \ gone
    /\ fallback' = [fallback EXCEPT ![p] = None]
    /\ UNCHANGED key

--------------------------------------------------------------------------------
Init ==
    /\ key = None
    /\ fallback = [p \in Processes |-> None]
    /\ pc = [c \in Clients |-> "idle"]
    /\ acquired = {}

Command(c) ==
    \/ SetNx(c) \/ GetBusy(c) \/ Extend(c) \/ GetBeat(c) \/ Prolong(c)
    \/ GetHolder(c) \/ Delete(c)

Next ==
    \/ \E c \in Clients :
          \/ LocalAcquire(c) \/ LocalRelease(c)
          \/ Acquire(c) \/ Heartbeat(c) \/ Release(c) \/ Command(c)
    \/ \E p \in Processes : LocalExpires(p) \/ Crash(p)
    \/ KeyExpires

Spec == Init /\ [][Next]_vars

\* Redis answers every command, a body comes to its end, and time passes: attempts
\* to acquire, and crashes in the middle of them, do not stop the time to live.
FairSpec ==
    /\ Spec
    /\ SF_vars(KeyExpires)
    /\ \A c \in Clients : WF_vars(Command(c)) /\ SF_vars(Release(c))

--------------------------------------------------------------------------------
(* Properties                                                               *)

\* Every variable has its type.
TypeOK ==
    /\ key \in Clients \cup {None}
    /\ fallback \in [Processes -> Clients \cup {None}]
    /\ pc \in [Clients -> Points]
    /\ acquired \subseteq Clients

\* No two clients are between a successful acquire and the end of their release,
\* in one process or in several ("multiple processes / containers share it").
MutualExclusion == \A c, d \in acquired : c = d

\* "Holder identity is stored as a string so release/heartbeat can verify ownership"
\* (the docstring of RedisResourceLock, storage/redis_backend.py:33): no release
\* deletes the lock of somebody else, and no heartbeat prolongs it.
OwnershipVerified ==
    [][\A c \in Clients : Delete(c) \/ Prolong(c) => key \in {c, None}]_vars

\* "for atomic acquire" (redis_backend.py:32): whoever is told that it has the lock
\* has it at that moment.
AcquireAtomic ==
    [][\A c \in Clients :
           (SetNx(c) \/ Extend(c)) /\ c \in acquired' \ acquired => key' = c]_vars

\* The owner of the one resource there is.
Owner == [r \in {"resource"} |-> key]

Lock == INSTANCE ExclusiveLock
        WITH Resources <- {"resource"}, Holders <- Clients, owner <- Owner

\* Unreachable servers, crashes and late commands included, the key passes from
\* one holder to another only by becoming free: no acquire overwrites a lock.
ImplementsLock == Lock!Spec

\* A lock whose client crashed, or released it on the other side, does not stay:
\* it is freed, unless the same holder acquires it again.
AbandonedLockEnds ==
    \A c \in Clients :
        (key = c /\ c \notin acquired) ~> (key # c \/ c \in acquired)
================================================================================
