------------------------------ MODULE ResourceLock ------------------------------
(***************************************************************************)
(* The in-memory ResourceLock (concurrency/lock.py): locks with a holder   *)
(* and an expiry time, and coroutines that run a body under with_lock.     *)
(*                                                                         *)
(* Every operation runs under one asyncio.Lock and does not suspend inside *)
(* it, so it is one step.  A body does suspend: other coroutines run, and  *)
(* time passes, while it is under way.                                     *)
(***************************************************************************)
EXTENDS Naturals

CONSTANTS
    Coroutines,   \* coroutines that use with_lock
    Holders,      \* holder ids
    HolderOf,     \* the holder id each coroutine passes
    Resources,    \* resource names
    Ttls,         \* times to live that are asked for
    None,         \* no lock
    MaxClock      \* BOUND: the time

ASSUME LockAssumption ==
    /\ HolderOf \in [Coroutines -> Holders]
    /\ Ttls \subseteq Nat \ {0}
    /\ MaxClock \in Nat
    /\ None \notin Holders
    /\ None \notin [holder : Holders, expires : Nat]

VARIABLES
    clock,   \* time.time()
    locks,   \* _locks: resource -> record, None where absent
    body     \* the bodies under way: what each holds and until when it was told it does

leaseVars == <<clock, locks, body>>

LockRecord == [holder : Holders, expires : Nat]

Outside == [in |-> FALSE, resource |-> None, lease |-> 0]

Inside(r, t) == [in |-> TRUE, resource |-> r, lease |-> t]

--------------------------------------------------------------------------------
Expired(r) == locks[r] # None /\ locks[r].expires <= clock

\* Mutant: an expired record is emptied instead of deleted.
CollectedEmpty ==
    [r \in Resources |-> IF Expired(r) THEN [locks[r] EXCEPT !.holder = None] ELSE locks[r]]

\* _gc: expired records are deleted.
Collected == [r \in Resources |-> IF Expired(r) THEN None ELSE locks[r]]

\* Mutant: a lock that is there is overwritten.
BusyNever(c, r) == FALSE

\* Somebody else has the lock.
Busy(c, r) == Collected[r] # None /\ Collected[r].holder # HolderOf[c]

\* acquire, then the body begins.  The holder of a lock may acquire it again.
Acquire(c, r, ttl) ==
    /\ ~body[c].in
    /\ ~Busy(c, r)
    /\ locks' = [Collected EXCEPT ![r] = [holder |-> HolderOf[c], expires |-> clock + ttl]]
    /\ body' = [body EXCEPT ![c] = Inside(r, clock + ttl)]
    /\ UNCHANGED clock

\* acquire fails, get_holder names the holder, LockBusyError is raised.
Contend(c, r) ==
    /\ ~body[c].in
    /\ Busy(c, r)
    /\ locks' = Collected
    /\ UNCHANGED <<clock, body>>

\* is_locked, get_holder and stats collect as well.
Inspect == locks' = Collected /\ UNCHANGED <<clock, body>>

Holds(c, r) == locks[r] # None /\ locks[r].holder = HolderOf[c]

\* heartbeat does not collect: a record that expired but is still there lives again.
Heartbeat(c, ttl) ==
    /\ body[c].in
    /\ Holds(c, body[c].resource)
    /\ locks' = [locks EXCEPT ![body[c].resource].expires = clock + ttl]
    /\ body' = [body EXCEPT ![c].lease = clock + ttl]
    /\ UNCHANGED clock

\* Mutant: release does not look at the holder.
ReleaseAny(c) ==
    /\ body[c].in
    /\ locks' = [locks EXCEPT ![body[c].resource] = None]
    /\ body' = [body EXCEPT ![c] = Outside]
    /\ UNCHANGED clock

\* The body is over, by return, exception or cancellation; the lock is deleted if
\* it is still the holder's.
Release(c) ==
    /\ body[c].in
    /\ LET r == body[c].resource
       IN  locks' = IF Holds(c, r) THEN [locks EXCEPT ![r] = None] ELSE locks
    /\ body' = [body EXCEPT ![c] = Outside]
    /\ UNCHANGED clock

Tick == clock < MaxClock /\ clock' = clock + 1 /\ UNCHANGED <<locks, body>>

--------------------------------------------------------------------------------
LeaseInit ==
    /\ clock = 0
    /\ locks = [r \in Resources |-> None]
    /\ body = [c \in Coroutines |-> Outside]

LeaseNext ==
    \/ Tick \/ Inspect
    \/ \E c \in Coroutines :
          \/ Release(c)
          \/ \E ttl \in Ttls : Heartbeat(c, ttl) \/ \E r \in Resources : Acquire(c, r, ttl)
          \/ \E r \in Resources : Contend(c, r)

LeaseSpec == LeaseInit /\ [][LeaseNext]_leaseVars

--------------------------------------------------------------------------------
(* Properties                                                               *)

\* Every variable has its type.
LeaseTypeOK ==
    /\ clock \in Nat
    /\ locks \in [Resources -> LockRecord \cup {None}]
    /\ body \in [Coroutines ->
                    [in : BOOLEAN, resource : Resources \cup {None}, lease : Nat]]
    /\ \A c \in Coroutines : body[c].in => body[c].resource \in Resources

\* The lease of a body: it runs and its time is not over.
Leased(c, r) == body[c].in /\ body[c].resource = r /\ clock < body[c].lease

\* Two bodies under the same lock are never both within their time, whatever
\* bodies outlive theirs, heartbeats revive and late releases do.
LeaseExclusive ==
    \A c, d \in Coroutines, r \in Resources : Leased(c, r) /\ Leased(d, r) => c = d

Live(r) == locks[r] # None /\ ~Expired(r)

\* Who has each lock.
Owner == [r \in Resources |-> IF Live(r) THEN locks[r].holder ELSE None]

Lock == INSTANCE ExclusiveLock WITH owner <- Owner

\* The unexpired locks behave like an exclusive lock on every resource.
ImplementsLock == Lock!Spec
================================================================================
