---------------------------- MODULE LimitProofs ----------------------------
(*****************************************************************************)
(* What the system rations: locks with a lease, quotas and the rates of      *)
(* requests.  For any coroutines, resources, users, departments, tasks, keys, *)
(* limits and times.                                                         *)
(*****************************************************************************)
EXTENDS ResourceLock, Quota, RateLimit, Amounts, TLAPS, FiniteSetTheorems,
        WellFoundedInduction

------------------------------------------------------------------------------
(*****************************************************************************)
(* Totals.  A total is the number of its units, so that what is known of finite *)
(* sets settles it without an induction over the summands.                   *)
(*****************************************************************************)

\* A total over a finite set is a natural number.
LEMMA UnitsFinite ==
  ASSUME NEW D, NEW f \in [D -> Nat], NEW S \in SUBSET D, IsFiniteSet(S)
  PROVE  IsFiniteSet(Units(f, S)) /\ Sum(f, S) \in Nat
<1> DEFINE T == {{x} \X (1..f[x]) : x \in S}
           g == [x \in S |-> {x} \X (1..f[x])]
<1>1. g \in Surjection(S, T)
  BY DEF Surjection
<1>2. IsFiniteSet(T)
  <2> HIDE DEF T, g
  <2> QED
    BY <1>1, FS_Surjection
<1>3. ASSUME NEW x \in S PROVE IsFiniteSet({x} \X (1..f[x]))
  <2>1. IsFiniteSet(1..f[x])
    <3>1. f[x] \in Int
      OBVIOUS
    <3> QED
      BY <3>1, FS_Interval
  <2> QED
    BY <2>1, FS_Singleton, FS_Product
<1>4. \A U \in T : IsFiniteSet(U)
  BY <1>3
<1>5. IsFiniteSet(UNION T)
  <2> HIDE DEF T
  <2> QED
    BY <1>2, <1>4, FS_UNION
<1> QED
  BY <1>5, FS_CardinalityType DEF Units, Sum

\* The total of nothing is nothing.
LEMMA SumZero ==
  ASSUME NEW f, NEW S, \A x \in S : f[x] = 0
  PROVE  Sum(f, S) = 0
<1>1. Units(f, S) = {}
  BY DEF Units
<1> QED
  BY <1>1, FS_EmptySet DEF Sum

\* A total depends on the amounts of its own set only.
LEMMA SumSame ==
  ASSUME NEW f, NEW g, NEW S, \A x \in S : g[x] = f[x]
  PROVE  Sum(g, S) = Sum(f, S)
<1>1. Units(g, S) = Units(f, S)
  BY DEF Units
<1> QED
  BY <1>1 DEF Sum

\* What one member gets more, the total gets more.
LEMMA SumAdded ==
  ASSUME NEW D, NEW f \in [D -> Nat], NEW g \in [D -> Nat], NEW S \in SUBSET D, IsFiniteSet(S),
         NEW x \in S, NEW c \in Nat, g[x] = f[x] + c, \A y \in D \ {x} : g[y] = f[y]
  PROVE  Sum(g, S) = Sum(f, S) + c
<1> DEFINE a == f[x] + 1
           b == f[x] + c
           More == {x} \X (a..b)
<1>1. f[x] \in Nat /\ g[x] \in Nat /\ a \in Int /\ b \in Int
  OBVIOUS
<1>2. 1..g[x] = (1..f[x]) \cup (a..b)
  BY <1>1
<1>3. Units(g, S) = Units(f, S) \cup More
  <2>1. \A p : p \in Units(g, S) <=> \E y \in S : p \in {y} \X (1..g[y])
    BY DEF Units
  <2>2. \A p : p \in Units(f, S) <=> \E y \in S : p \in {y} \X (1..f[y])
    BY DEF Units
  <2>3. {x} \X (1..g[x]) = ({x} \X (1..f[x])) \cup More
    BY <1>2
  <2>4. \A y \in S : y # x => {y} \X (1..g[y]) = {y} \X (1..f[y])
    OBVIOUS
  <2> HIDE DEF More
  <2> QED
    BY <2>1, <2>2, <2>3, <2>4
<1>4. Units(f, S) \cap More = {}
  <2> SUFFICES ASSUME NEW y \in S, NEW p \in {y} \X (1..f[y]), p \in More PROVE FALSE
    BY DEF Units
  <2>1. p[1] = x /\ p[2] \in a..b /\ p[2] \in 1..f[x]
    OBVIOUS
  <2> QED
    BY <1>1, <2>1
<1>5. IsFiniteSet(More) /\ Cardinality(More) = c
  <2> HIDE DEF a, b
  <2>1. IsFiniteSet(a..b) /\ Cardinality(a..b) = IF a > b THEN 0 ELSE b-a+1
    BY <1>1, FS_Interval
  <2>2. Cardinality(a..b) = c
    BY <1>1, <2>1 DEF a, b
  <2>3. IsFiniteSet({x}) /\ Cardinality({x}) = 1
    BY FS_Singleton
  <2>4. IsFiniteSet(More) /\ Cardinality(More) = 1 * Cardinality(a..b)
    BY <2>1, <2>3, FS_Product
  <2> QED
    BY <2>2, <2>4
<1> HIDE DEF More
<1>6. IsFiniteSet(Units(f, S)) /\ Cardinality(Units(f, S)) \in Nat
  BY UnitsFinite DEF Sum
<1>7. Cardinality(Units(f, S) \cap More) = 0
  BY <1>4, FS_EmptySet
<1> QED
  BY <1>3, <1>5, <1>6, <1>7, FS_Union DEF Sum

\* A total is at most the largest amount times the number of members.
LEMMA UnitsOver ==
  ASSUME NEW D, NEW f \in [D -> Nat], NEW S \in SUBSET D, IsFiniteSet(S),
         NEW n \in Nat, \A x \in S : f[x] <= n
  PROVE  Sum(f, S) <= n * Cardinality(S)
<1>1. IsFiniteSet(1..n) /\ Cardinality(1..n) = n
  <2>1. 1 \in Int /\ n \in Int
    OBVIOUS
  <2>2. IsFiniteSet(1..n) /\ Cardinality(1..n) = IF 1 > n THEN 0 ELSE n - 1 + 1
    BY <2>1, FS_Interval
  <2> QED
    BY <2>2
<1>2. IsFiniteSet(S \X (1..n)) /\ Cardinality(S \X (1..n)) = Cardinality(S) * Cardinality(1..n)
  BY <1>1, FS_Product
<1>3. Units(f, S) \in SUBSET (S \X (1..n))
  BY DEF Units
<1>4. Sum(f, S) <= Cardinality(S) * n
  BY <1>1, <1>2, <1>3, FS_Subset DEF Sum
<1>5. Cardinality(S) \in Nat
  BY FS_CardinalityType
<1>6. Cardinality(S) * n = n * Cardinality(S)
  BY <1>5
<1> QED
  BY <1>4, <1>6

\* Members with nothing can be left out of a total.
LEMMA SumOfPart ==
  ASSUME NEW f, NEW S, NEW T \in SUBSET S, \A x \in S \ T : f[x] = 0
  PROVE  Sum(f, S) = Sum(f, T)
<1>1. Units(f, S) = Units(f, T)
  <2>1. \A x \in S \ T : 1..f[x] = {}
    OBVIOUS
  <2>2. \A p : p \in Units(f, S) <=> \E y \in S : p \in {y} \X (1..f[y])
    BY DEF Units
  <2>3. \A p : p \in Units(f, T) <=> \E y \in T : p \in {y} \X (1..f[y])
    BY DEF Units
  <2> QED
    BY <2>1, <2>2, <2>3
<1> QED
  BY <1>1 DEF Sum

\* Moved by one, with nothing new, the amounts of an interval do not grow
LEMMA SumShifted ==
  ASSUME NEW w \in Nat, NEW f \in [0..w -> Nat], NEW g \in [0..w -> Nat],
         g[0] = 0, \A a \in 1..w : g[a] = f[a - 1]
  PROVE  Sum(g, 0..w) <= Sum(f, 0..w)
<1> DEFINE down == [p \in Units(g, 0..w) |-> <<p[1] - 1, p[2]>>]
<1>1. ASSUME NEW p \in Units(g, 0..w)
      PROVE  /\ p = <<p[1], p[2]>> /\ p[1] \in 1..w /\ p[2] \in 1..f[p[1] - 1]
  <2>1. PICK a \in 0..w : p \in {a} \X (1..g[a])
    BY DEF Units
  <2>2. a # 0
    BY <2>1
  <2>3. p = <<p[1], p[2]>> /\ p[1] = a /\ p[2] \in 1..g[a]
    BY ONLY <2>1
  <2>4. a \in 1..w /\ g[a] = f[a - 1]
    BY <2>2
  <2> QED
    BY ONLY <2>3, <2>4
<1>2. \A p \in Units(g, 0..w) : <<p[1] - 1, p[2]>> \in Units(f, 0..w)
  <2> SUFFICES ASSUME NEW p \in Units(g, 0..w)
               PROVE  \E a \in 0..w : <<p[1] - 1, p[2]>> \in {a} \X (1..f[a])
    BY DEF Units
  <2>1. PICK a \in Nat : a = p[1] - 1 /\ a \in 0..w
    BY <1>1
  <2>2. <<a, p[2]>> \in {a} \X (1..f[a])
    BY <1>1, <2>1
  <2> QED
    BY ONLY <2>1, <2>2
<1>3. down \in [Units(g, 0..w) -> Units(f, 0..w)]
  BY <1>2
<1>4. ASSUME NEW p \in Units(g, 0..w), NEW q \in Units(g, 0..w), down[p] = down[q]
      PROVE  p = q
  <2>1. p[1] - 1 = q[1] - 1 /\ p[2] = q[2]
    BY <1>4
  <2>2. p[1] \in Int /\ q[1] \in Int /\ p = <<p[1], p[2]>> /\ q = <<q[1], q[2]>>
    BY <1>1
  <2> QED
    BY ONLY <2>1, <2>2
<1> HIDE DEF down
<1>5. down \in Injection(Units(g, 0..w), Units(f, 0..w))
  BY <1>3, <1>4 DEF Injection, IsInjective
<1>6. IsFiniteSet(0..w)
  BY FS_Interval
<1>7. IsFiniteSet(Units(f, 0..w))
  BY <1>6, UnitsFinite
<1> QED
  BY <1>5, <1>7, FS_Injection DEF Sum

------------------------------------------------------------------------------
(***************************************************************************)
(* What ResourceLock guarantees for any coroutines, resources and times.   *)
(* The lock is exclusive between holder ids; that it is between bodies     *)
(* needs every coroutine to pass an id of its own.                         *)
(***************************************************************************)

OwnHolders == \A c, d \in Coroutines : HolderOf[c] = HolderOf[d] => c = d

--------------------------------------------------------------------------------
\* Collecting keeps the records' type and takes the expired ones only.
LEMMA CollectedTyped ==
    ASSUME LeaseTypeOK
    PROVE  /\ Collected \in [Resources -> LockRecord \cup {None}]
           /\ \A r \in Resources :
                 Collected[r] = IF Live(r) THEN locks[r] ELSE None
BY LockAssumption DEF LeaseTypeOK, Collected, Expired, Live, LockRecord

\* The type invariant is inductive.
LEMMA TypedNext == ASSUME LeaseTypeOK, [LeaseNext]_leaseVars PROVE LeaseTypeOK'
<1> USE LockAssumption DEF LeaseTypeOK, LockRecord
<1>1. CASE Tick
  BY <1>1 DEF Tick
<1>2. CASE Inspect
  BY <1>2, CollectedTyped DEF Inspect
<1>3. ASSUME NEW c \in Coroutines, Release(c) PROVE LeaseTypeOK'
  BY <1>3 DEF Release, Outside
<1>4. ASSUME NEW c \in Coroutines, NEW ttl \in Ttls, Heartbeat(c, ttl) PROVE LeaseTypeOK'
  <2> DEFINE r == body[c].resource
  <2>1. r \in Resources
    BY <1>4 DEF Heartbeat
  <2>2. locks[r] \in LockRecord
    BY <1>4, <2>1 DEF Heartbeat, Holds
  <2>3. locks' = [locks EXCEPT ![r] = [locks[r] EXCEPT !.expires = clock + ttl]]
    BY <1>4 DEF Heartbeat
  <2>4. [locks[r] EXCEPT !.expires = clock + ttl] \in LockRecord
    BY <2>2
  <2>5. locks' \in [Resources -> LockRecord \cup {None}]
    BY <2>3, <2>4
  <2>6. /\ body' \in [Coroutines -> [in : BOOLEAN, resource : Resources \cup {None}, lease : Nat]]
        /\ \A d \in Coroutines : body'[d].in => body'[d].resource \in Resources
    BY <1>4 DEF Heartbeat
  <2> QED
    BY <1>4, <2>5, <2>6 DEF Heartbeat
<1>5. ASSUME NEW c \in Coroutines, NEW ttl \in Ttls, NEW r \in Resources, Acquire(c, r, ttl)
      PROVE  LeaseTypeOK'
  BY <1>5, CollectedTyped DEF Acquire, Inside
<1>6. ASSUME NEW c \in Coroutines, NEW r \in Resources, Contend(c, r) PROVE LeaseTypeOK'
  BY <1>6, CollectedTyped DEF Contend
<1>7. CASE UNCHANGED leaseVars
  BY <1>7 DEF leaseVars
<1> QED
  BY <1>1, <1>2, <1>3, <1>4, <1>5, <1>6, <1>7 DEF LeaseNext

\* Every variable has its type, for all values of the constants.
THEOREM Typing == LeaseSpec => []LeaseTypeOK
<1>1. LeaseInit => LeaseTypeOK
  BY LockAssumption DEF LeaseInit, LeaseTypeOK, Outside
<1> QED
  BY <1>1, TypedNext, PTL DEF LeaseSpec

--------------------------------------------------------------------------------
\* A body within its lease has the lock, for at least as long.
LeaseCovered ==
    \A c \in Coroutines, r \in Resources :
        Leased(c, r) => /\ locks[r] \in LockRecord
                        /\ locks[r].holder = HolderOf[c]
                        /\ body[c].lease <= locks[r].expires

\* With a holder id for each coroutine no step takes the lock of a body within
\* its lease.
LEMMA LeaseCoveredNext ==
    ASSUME OwnHolders, LeaseTypeOK, LeaseCovered, [LeaseNext]_leaseVars
    PROVE  LeaseCovered'
<1> USE LockAssumption DEF LeaseCovered, Leased
<1>a. \A c \in Coroutines, r \in Resources : Leased(c, r) => Collected[r] = locks[r] /\ Live(r)
  BY CollectedTyped DEF Live, Expired, LeaseTypeOK, LockRecord
<1>1. CASE Tick
  BY <1>1 DEF Tick, LeaseTypeOK, LockRecord
<1>2. CASE Inspect
  BY <1>2, <1>a DEF Inspect
<1>3. ASSUME NEW c \in Coroutines, Release(c) PROVE LeaseCovered'
  BY <1>3 DEF Release, Outside, Holds, OwnHolders, LeaseTypeOK
<1>4. ASSUME NEW c \in Coroutines, NEW ttl \in Ttls, Heartbeat(c, ttl) PROVE LeaseCovered'
  <2> DEFINE r == body[c].resource
  <2>1. CASE r \in Resources
    <3>1. locks[r] \in LockRecord /\ locks[r].holder = HolderOf[c]
      BY <1>4, <2>1 DEF Heartbeat, Holds, LeaseTypeOK
    <3>2. /\ locks'[r] \in LockRecord
          /\ locks'[r].holder = HolderOf[c] /\ locks'[r].expires = clock + ttl
          /\ \A s \in Resources : s # r => locks'[s] = locks[s]
      BY <1>4, <2>1, <3>1, TypedNext DEF Heartbeat, LeaseTypeOK, LockRecord
    <3>3. /\ body'[c].resource = r /\ body'[c].lease = clock + ttl
          /\ \A d \in Coroutines : d # c => body'[d] = body[d]
          /\ clock' = clock
      BY <1>4 DEF Heartbeat, LeaseTypeOK
    <3>4. ASSUME NEW d \in Coroutines, NEW s \in Resources, Leased(d, s)'
          PROVE  /\ locks'[s] \in LockRecord
                 /\ locks'[s].holder = HolderOf[d] /\ body'[d].lease <= locks'[s].expires
      <4>1. CASE d = c
        BY <3>2, <3>3, <3>4, <4>1 DEF LeaseTypeOK
      <4>2. CASE d # c
        <5>1. Leased(d, s)
          BY <3>3, <3>4, <4>2
        <5>2. s # r
          BY <5>1, <4>2, <3>1 DEF OwnHolders
        <5> QED
          BY <5>1, <5>2, <3>2, <3>3, <4>2
      <4> QED
        BY <4>1, <4>2
    <3> QED
      BY <3>4
  <2>2. r \in Resources
    BY <1>4 DEF Heartbeat, LeaseTypeOK
  <2> QED
    BY <2>1, <2>2
<1>5. ASSUME NEW c \in Coroutines, NEW ttl \in Ttls, NEW r \in Resources, Acquire(c, r, ttl)
      PROVE  LeaseCovered'
  <2>1. \A d \in Coroutines : d # c => ~Leased(d, r)
    BY <1>5, <1>a DEF Acquire, Busy, OwnHolders, LockRecord
  <2>2. locks'[r] = [holder |-> HolderOf[c], expires |-> clock + ttl]
    BY <1>5, CollectedTyped DEF Acquire
  <2>3. \A s \in Resources : s # r => locks'[s] = Collected[s]
    BY <1>5, CollectedTyped DEF Acquire
  <2>4. /\ body'[c] = Inside(r, clock + ttl)
        /\ \A d \in Coroutines : d # c => body'[d] = body[d]
        /\ clock' = clock
    BY <1>5 DEF Acquire, LeaseTypeOK
  <2> QED
    BY <1>a, <2>1, <2>2, <2>3, <2>4 DEF Inside, LockRecord, LeaseTypeOK
<1>6. ASSUME NEW c \in Coroutines, NEW r \in Resources, Contend(c, r) PROVE LeaseCovered'
  BY <1>6, <1>a DEF Contend
<1>7. CASE UNCHANGED leaseVars
  BY <1>7 DEF leaseVars
<1> QED
  BY <1>1, <1>2, <1>3, <1>4, <1>5, <1>6, <1>7 DEF LeaseNext

\* Bodies of coroutines with ids of their own exclude each other within their
\* leases, whatever expires, revives or is released late (lock.py:63-139).
THEOREM Leases == ASSUME OwnHolders PROVE LeaseSpec => []LeaseExclusive
<1>1. LeaseInit => LeaseCovered
  BY DEF LeaseInit, LeaseCovered, Leased, Outside
<1>2. LeaseCovered => LeaseExclusive
  BY DEF LeaseCovered, LeaseExclusive, OwnHolders
<1> QED
  BY <1>1, <1>2, LeaseCoveredNext, Typing, PTL DEF LeaseSpec

--------------------------------------------------------------------------------
\* A step of the store is the taking of one lock, the freeing of some, or none.
LEMMA OwnerStep == ASSUME LeaseTypeOK, [LeaseNext]_leaseVars PROVE [Lock!Next]_Owner
<1> USE LockAssumption
<1>a. Owner \in [Resources -> Holders \cup {None}]
  BY DEF Owner, Live, LeaseTypeOK, LockRecord
<1>b. ASSUME \A r \in Resources : Owner'[r] = Owner[r] PROVE Owner' = Owner
  BY <1>b DEF Owner
<1>c. ASSUME \A r \in Resources : Owner'[r] \in {Owner[r], None} PROVE [Lock!Next]_Owner
  <2> DEFINE S == {r \in Resources : Owner'[r] = None}
  <2>1. Owner' = [r \in Resources |-> IF r \in S THEN None ELSE Owner[r]]
    BY <1>c DEF Owner
  <2> QED
    BY <2>1, <1>b DEF Lock!Next, Lock!Free
<1>d. ASSUME NEW r \in Resources, NEW h \in Holders, Owner[r] \in {None, h}, Owner'[r] = h,
             \A s \in Resources : s # r => Owner'[s] = Owner[s]
      PROVE  [Lock!Next]_Owner
  <2>1. Owner' = [Owner EXCEPT ![r] = h]
    BY <1>d, <1>a DEF Owner
  <2>2. CASE Owner[r] = None
    BY <2>1, <2>2 DEF Lock!Next, Lock!Take
  <2>3. CASE Owner[r] = h
    BY <1>d, <2>3, <1>b
  <2> QED
    BY <1>d, <2>2, <2>3
<1>e. ASSUME locks' = Collected, clock' = clock PROVE Owner' = Owner
  BY <1>e, CollectedTyped, <1>b DEF Owner, Live, Expired
<1>1. CASE Tick
  BY <1>1, <1>c DEF Tick, Owner, Live, Expired, LeaseTypeOK, LockRecord
<1>2. CASE Inspect
  BY <1>2, <1>e DEF Inspect
<1>3. ASSUME NEW c \in Coroutines, Release(c) PROVE [Lock!Next]_Owner
  <2>1. clock' = clock /\ \A r \in Resources : locks'[r] \in {locks[r], None}
    BY <1>3 DEF Release, LeaseTypeOK
  <2> QED
    BY <2>1, <1>c DEF Owner, Live, Expired
<1>4. ASSUME NEW c \in Coroutines, NEW ttl \in Ttls, Heartbeat(c, ttl)
      PROVE  [Lock!Next]_Owner
  <2> DEFINE r == body[c].resource
  <2>1. CASE r \in Resources
    <3>1. locks[r] \in LockRecord /\ locks[r].holder = HolderOf[c]
      BY <1>4, <2>1 DEF Heartbeat, Holds, LeaseTypeOK
    <3>2. /\ locks'[r] = [locks[r] EXCEPT !.expires = clock + ttl] /\ clock' = clock
          /\ \A s \in Resources : s # r => locks'[s] = locks[s]
      BY <1>4, <2>1 DEF Heartbeat, LeaseTypeOK
    <3>3. Owner'[r] = HolderOf[c] /\ Owner[r] \in {None, HolderOf[c]}
      BY <2>1, <3>1, <3>2 DEF Owner, Live, Expired, LockRecord, LeaseTypeOK
    <3>4. \A s \in Resources : s # r => Owner'[s] = Owner[s]
      BY <3>2 DEF Owner, Live, Expired
    <3> QED
      BY <2>1, <3>3, <3>4, <1>d
  <2>2. r \in Resources
    BY <1>4 DEF Heartbeat, LeaseTypeOK
  <2> QED
    BY <2>1, <2>2
<1>5. ASSUME NEW c \in Coroutines, NEW ttl \in Ttls, NEW r \in Resources, Acquire(c, r, ttl)
      PROVE  [Lock!Next]_Owner
  <2>1. /\ locks'[r] = [holder |-> HolderOf[c], expires |-> clock + ttl] /\ clock' = clock
        /\ \A s \in Resources : s # r => locks'[s] = Collected[s]
    BY <1>5, CollectedTyped DEF Acquire
  <2>2. Owner[r] \in {None, HolderOf[c]}
    <3>1. Collected[r] = None \/ Collected[r].holder = HolderOf[c]
      BY <1>5 DEF Acquire, Busy
    <3>2. Live(r) => Collected[r] = locks[r] /\ locks[r] # None
      BY CollectedTyped DEF Live
    <3>3. Owner[r] = IF Live(r) THEN locks[r].holder ELSE None
      BY DEF Owner
    <3> QED
      BY <3>1, <3>2, <3>3
  <2>3. Owner'[r] = HolderOf[c]
    BY <2>1 DEF Owner, Live, Expired, LeaseTypeOK, LockRecord
  <2>4. \A s \in Resources : s # r => Owner'[s] = Owner[s]
    BY <2>1, CollectedTyped DEF Owner, Live, Expired
  <2> QED
    BY <2>2, <2>3, <2>4, <1>d
<1>6. ASSUME NEW c \in Coroutines, NEW r \in Resources, Contend(c, r) PROVE [Lock!Next]_Owner
  BY <1>6, <1>e DEF Contend
<1>7. CASE UNCHANGED leaseVars
  BY <1>7 DEF leaseVars, Owner, Live, Expired
<1> QED
  BY <1>1, <1>2, <1>3, <1>4, <1>5, <1>6, <1>7 DEF LeaseNext

\* The unexpired locks are exclusive between holder ids, shared ids or not.
THEOREM Refinement == LeaseSpec => ImplementsLock
<1>1. LeaseInit => Lock!Init
  BY DEF LeaseInit, Lock!Init, Owner, Live
<1> QED
  BY <1>1, OwnerStep, Typing, PTL DEF LeaseSpec, ImplementsLock, Lock!Spec

------------------------------------------------------------------------------
(*****************************************************************************)
(* Quota.                                                                    *)
(*                                                                           *)
(* The limits hold of the running tasks together with those between check_quota *)
(* and start_task, of which there are fewer than may race; the levels are totals *)
(* over those who paid.                                                      *)
(*****************************************************************************)

\* The phases of a task, and the tasks in one
QuotaPhases == {"new", "called", "allowed", "waiting", "refused", "running", "ended"}
InPhase(S, phase) == {t \in S : taskPhase[t] = phase}

\* The tasks of a user and of a department
TasksOf(u) == {t \in QuotaTasks : TaskUser[t] = u}
DepartmentTasks(d) == {t \in QuotaTasks : UserDepartment[TaskUser[t]] = d}

\* The typing
QuotaTyped ==
  /\ date \in Nat /\ storeDay \in Nat /\ storeDay >= 1 /\ storeDay <= date
  /\ userUsage \in [Payers -> Nat]
  /\ departmentUsage \in [Departments -> Nat]
  /\ systemUsage \in Nat
  /\ concurrent \in [QuotaUsers -> Nat]
  /\ departmentConcurrent \in [Departments -> Nat]
  /\ userQueued \in [QuotaUsers -> Nat]
  /\ departmentQueued \in [Departments -> Nat]
  /\ taskCost \in [QuotaTasks -> Nat]
  /\ taskPhase \in [QuotaTasks -> QuotaPhases]

\* The tasks between the two calls count as if they ran
Racers ==
  /\ \A u \in QuotaUsers :
       concurrent[u] + Cardinality(InPhase(TasksOf(u), "allowed")) <= MaxUserTasks + Racing - 1
  /\ \A d \in Departments :
       departmentConcurrent[d] + Cardinality(InPhase(DepartmentTasks(d), "allowed"))
         <= MaxDepartmentTasks + Racing - 1

\* The counters of the running tasks, as the property has them
Counted ==
  /\ \A u \in QuotaUsers : concurrent[u] = Cardinality(InPhase(TasksOf(u), "running"))
  /\ \A d \in Departments : departmentConcurrent[d] = Sum(concurrent, Members(d))

\* The queues, as the property has them
Queued ==
  /\ \A u \in QuotaUsers : Cardinality(InPhase(TasksOf(u), "waiting")) <= userQueued[u]
  /\ \A d \in Departments : departmentQueued[d] <= Sum(userQueued, Members(d))

\* The invariant
QuotaInv == QuotaTyped /\ Racers /\ Counted /\ Queued /\ LevelsAgree

-----
\* Tasks change their phase one at a time
LEMMA PhaseSetsFinite ==
  ASSUME NEW S \in SUBSET QuotaTasks, NEW p
  PROVE  /\ IsFiniteSet(InPhase(S, p)) /\ IsFiniteSet(InPhase(S, p)')
         /\ Cardinality(InPhase(S, p)) \in Nat /\ Cardinality(InPhase(S, p)') \in Nat
BY QuotaAssumption, FS_Subset, FS_CardinalityType DEF InPhase

\* A task that changes its phase elsewhere leaves a phase as it was.
LEMMA StaysPut ==
  ASSUME QuotaTyped, NEW t \in QuotaTasks, NEW b, taskPhase' = [taskPhase EXCEPT ![t] = b],
         NEW S \in SUBSET QuotaTasks, NEW p, t \notin S \/ (taskPhase[t] # p /\ b # p)
  PROVE  InPhase(S, p)' = InPhase(S, p)
BY DEF InPhase, QuotaTyped

\* A task more in the phase it enters
LEMMA MovedIn ==
  ASSUME QuotaTyped, NEW S \in SUBSET QuotaTasks, NEW t \in S, NEW b,
         taskPhase' = [taskPhase EXCEPT ![t] = b], taskPhase[t] # b
  PROVE  Cardinality(InPhase(S, b)') = Cardinality(InPhase(S, b)) + 1
<1>1. InPhase(S, b)' = InPhase(S, b) \cup {t} /\ t \notin InPhase(S, b)
  BY DEF InPhase, QuotaTyped
<1> QED
  BY <1>1, PhaseSetsFinite, FS_AddElement

\* A task less in the phase it leaves
LEMMA MovedOut ==
  ASSUME QuotaTyped, NEW S \in SUBSET QuotaTasks, NEW t \in S, NEW a, NEW b,
         taskPhase' = [taskPhase EXCEPT ![t] = b], taskPhase[t] = a, a # b
  PROVE  Cardinality(InPhase(S, a)) = Cardinality(InPhase(S, a)') + 1
<1>1. InPhase(S, a) = InPhase(S, a)' \cup {t} /\ t \notin InPhase(S, a)'
  BY DEF InPhase, QuotaTyped
<1> QED
  BY <1>1, PhaseSetsFinite, FS_AddElement

\* The sets of tasks, users and payers are what their names say, and finite.
LEMMA QuotaSets ==
  /\ \A u : TasksOf(u) \subseteq QuotaTasks
  /\ \A d : DepartmentTasks(d) \subseteq QuotaTasks
  /\ \A u, p : TasksIn(u, p) = InPhase(TasksOf(u), p)
  /\ \A d : Members(d) \subseteq QuotaUsers /\ IsFiniteSet(Members(d))
  /\ IsFiniteSet(Payers) /\ QuotaUsers \subseteq Payers /\ QuotaAgents \subseteq Payers
  /\ \A t \in QuotaTasks : /\ TaskUser[t] \in QuotaUsers /\ TaskAgent[t] \in QuotaAgents
                           /\ UserDepartment[TaskUser[t]] \in Departments
                           /\ t \in TasksOf(TaskUser[t])
                           /\ t \in DepartmentTasks(UserDepartment[TaskUser[t]])
<1>1. /\ \A u : TasksOf(u) \subseteq QuotaTasks
      /\ \A d : DepartmentTasks(d) \subseteq QuotaTasks
      /\ \A u, p : TasksIn(u, p) = InPhase(TasksOf(u), p)
  BY DEF TasksOf, DepartmentTasks, InPhase, TasksIn
<1>2. \A d : Members(d) \subseteq QuotaUsers /\ IsFiniteSet(Members(d))
  BY QuotaAssumption, FS_Subset DEF Members
<1>3. IsFiniteSet(Payers) /\ QuotaUsers \subseteq Payers /\ QuotaAgents \subseteq Payers
  BY QuotaAssumption, FS_Union DEF Payers
<1> QED
  BY <1>1, <1>2, <1>3, QuotaAssumption DEF TasksOf, DepartmentTasks

\* QuotaManager() has counted nothing.
LEMMA QuotaInitial == QuotaInit => QuotaInv
<1> SUFFICES ASSUME QuotaInit PROVE QuotaInv
  OBVIOUS
<1>1. QuotaTyped
  <2>1. "new" \in QuotaPhases
    BY DEF QuotaPhases
  <2>2. taskPhase \in [QuotaTasks -> QuotaPhases]
    BY <2>1 DEF QuotaInit
  <2> QED
    BY <2>2 DEF QuotaInit, QuotaTyped
<1>2. \A S \in SUBSET QuotaTasks : \A p : p # "new" => Cardinality(InPhase(S, p)) = 0
  <2> SUFFICES ASSUME NEW S \in SUBSET QuotaTasks, NEW p, p # "new"
               PROVE  InPhase(S, p) = {}
    BY FS_EmptySet
  <2> QED
    BY DEF QuotaInit, InPhase
<1>3. /\ \A u : Cardinality(InPhase(TasksOf(u), "allowed")) = 0
      /\ \A u : Cardinality(InPhase(TasksOf(u), "running")) = 0
      /\ \A u : Cardinality(InPhase(TasksOf(u), "waiting")) = 0
      /\ \A d : Cardinality(InPhase(DepartmentTasks(d), "allowed")) = 0
  BY <1>2, QuotaSets
<1>4. Racers
  BY <1>3, QuotaAssumption DEF QuotaInit, Racers
<1>5. Counted
  <2>1. \A d : Sum(concurrent, Members(d)) = 0
    BY QuotaSets, SumZero DEF QuotaInit
  <2> QED
    BY <1>3, <2>1 DEF QuotaInit, Counted
<1>6. Queued
  <2>1. \A d : Sum(userQueued, Members(d)) = 0
    BY QuotaSets, SumZero DEF QuotaInit
  <2> QED
    BY <1>3, <2>1 DEF QuotaInit, Queued
<1>7. LevelsAgree
  <2>1. Sum(userUsage, Payers) = 0 /\ Sum(taskCost, QuotaTasks) = 0
    BY SumZero DEF QuotaInit
  <2>2. \A d : Sum(userUsage, Members(d)) = 0
    <3>1. \A d : \A x \in Members(d) : userUsage[x] = 0
      BY QuotaSets DEF QuotaInit
    <3> QED
      BY <3>1, SumZero
  <2> QED
    BY <2>1, <2>2 DEF QuotaInit, LevelsAgree
<1> QED
  BY <1>1, <1>4, <1>5, <1>6, <1>7 DEF QuotaInv

\* What the store sees after a reset agrees level by level
LEMMA SeenAgrees ==
  ASSUME QuotaTyped, LevelsAgree
  PROVE  /\ CheckReset.user \in [Payers -> Nat] /\ CheckReset.department \in [Departments -> Nat]
         /\ CheckReset.system \in Nat
         /\ CheckReset.system = Sum(CheckReset.user, Payers)
         /\ \A d \in Departments : CheckReset.department[d] = Sum(CheckReset.user, Members(d))
         /\ CheckReset.system <= Sum(taskCost, QuotaTasks)
         /\ date = 1 => CheckReset.system = Sum(taskCost, QuotaTasks)
<1>1. CASE date = storeDay
  BY <1>1 DEF CheckReset, QuotaTyped, LevelsAgree
<1>2. CASE date # storeDay
  <2>1. /\ CheckReset.user = [p \in Payers |-> 0]
        /\ CheckReset.department = [d \in Departments |-> 0] /\ CheckReset.system = 0
    BY <1>2 DEF CheckReset
  <2>2. Sum(CheckReset.user, Payers) = 0
    BY <2>1, SumZero
  <2>3. \A d : Sum(CheckReset.user, Members(d)) = 0
    <3>1. \A d : \A x \in Members(d) : CheckReset.user[x] = 0
      BY <2>1, QuotaSets
    <3> QED
      BY <3>1, SumZero
  <2>4. Sum(taskCost, QuotaTasks) \in Nat
    BY UnitsFinite, QuotaAssumption DEF QuotaTyped
  <2>5. date # 1
    BY <1>2 DEF QuotaTyped
  <2> QED
    BY <2>1, <2>2, <2>3, <2>4, <2>5
<1> QED
  BY <1>1, <1>2

\* _check_reset() clears the levels of the day together.
LEMMA Looked ==
  ASSUME QuotaInv, Look, UNCHANGED <<date, taskCost>>
  PROVE  /\ LevelsAgree' /\ storeDay' = date
         /\ userUsage' \in [Payers -> Nat] /\ departmentUsage' \in [Departments -> Nat]
         /\ systemUsage' \in Nat
<1>1. /\ storeDay' = date /\ userUsage' = CheckReset.user
      /\ departmentUsage' = CheckReset.department /\ systemUsage' = CheckReset.system
  BY DEF Look
<1>2. QuotaTyped /\ LevelsAgree
  BY DEF QuotaInv
<1>3. Sum(userUsage, Payers)' = Sum(CheckReset.user, Payers)
  BY <1>1 DEF Sum, Units
<1>4. \A d : Sum(userUsage, Members(d))' = Sum(CheckReset.user, Members(d))
  BY <1>1 DEF Sum, Units, Members
<1>5. Sum(taskCost, QuotaTasks)' = Sum(taskCost, QuotaTasks)
  BY DEF Sum, Units
<1> QED
  BY <1>1, <1>2, <1>3, <1>4, <1>5, SeenAgrees DEF LevelsAgree

\* record_usage() charges the payer, the department of the payer and the system
\* the same.
LEMMA Charged ==
  ASSUME QuotaInv, QuotaUsers \cap QuotaAgents = {}, NEW t \in QuotaTasks, NEW payer \in Payers,
         NEW cost \in Nat, NEW departments, Charge(t, payer, cost, departments), date' = date,
         \A d \in Departments : d \in departments <=> payer \in Members(d)
  PROVE  /\ LevelsAgree' /\ storeDay' = date /\ taskCost' \in [QuotaTasks -> Nat]
         /\ userUsage' \in [Payers -> Nat] /\ departmentUsage' \in [Departments -> Nat]
         /\ systemUsage' \in Nat
<1>1. QuotaTyped /\ LevelsAgree
  BY DEF QuotaInv
<1> PICK seen : seen = CheckReset
  OBVIOUS
<1>2. /\ seen.user \in [Payers -> Nat] /\ seen.department \in [Departments -> Nat]
      /\ seen.system \in Nat
      /\ seen.system = Sum(seen.user, Payers)
      /\ \A d \in Departments : seen.department[d] = Sum(seen.user, Members(d))
      /\ seen.system <= Sum(taskCost, QuotaTasks)
      /\ date = 1 => seen.system = Sum(taskCost, QuotaTasks)
  BY <1>1, SeenAgrees
<1>3. /\ storeDay' = date /\ userUsage' = [seen.user EXCEPT ![payer] = @ + cost]
      /\ departmentUsage' = [d \in Departments |->
           seen.department[d] + (IF d \in departments THEN cost ELSE 0)]
      /\ systemUsage' = seen.system + cost
      /\ taskCost' = [taskCost EXCEPT ![t] = @ + cost]
  BY DEF Charge
<1>4. taskCost \in [QuotaTasks -> Nat]
  BY <1>1 DEF QuotaTyped
<1>5. /\ userUsage' \in [Payers -> Nat] /\ userUsage'[payer] = seen.user[payer] + cost
      /\ \A y \in Payers \ {payer} : userUsage'[y] = seen.user[y]
  BY <1>2, <1>3
<1>6. /\ taskCost' \in [QuotaTasks -> Nat] /\ taskCost'[t] = taskCost[t] + cost
      /\ \A y \in QuotaTasks \ {t} : taskCost'[y] = taskCost[y]
  BY <1>3, <1>4
<1>7. /\ departmentUsage' \in [Departments -> Nat] /\ systemUsage' \in Nat
      /\ \A d \in Departments :
           departmentUsage'[d] = seen.department[d] + (IF d \in departments THEN cost ELSE 0)
  BY <1>2, <1>3
<1>8. Sum(userUsage', Payers) = seen.system + cost
  <2>1. IsFiniteSet(Payers) /\ payer \in Payers /\ cost \in Nat
    BY QuotaSets
  <2> QED
    BY ONLY <1>2, <1>5, <2>1, SumAdded
<1>9. Sum(taskCost', QuotaTasks) = Sum(taskCost, QuotaTasks) + cost
  <2>1. IsFiniteSet(QuotaTasks) /\ t \in QuotaTasks /\ cost \in Nat
    BY QuotaAssumption
  <2> QED
    BY ONLY <1>4, <1>6, <2>1, SumAdded
<1>10. ASSUME NEW d \in Departments PROVE departmentUsage'[d] = Sum(userUsage', Members(d))
  <2>1. Members(d) \in SUBSET Payers /\ IsFiniteSet(Members(d))
    BY QuotaSets
  <2>2. CASE d \in departments
    <3>1. payer \in Members(d)
      BY <2>2
    <3>2. Sum(userUsage', Members(d)) = Sum(seen.user, Members(d)) + cost
      BY <1>2, <1>5, <2>1, <3>1, SumAdded
    <3> QED
      BY <1>2, <1>7, <2>2, <3>2
  <2>3. CASE d \notin departments
    <3>1. \A y \in Members(d) : userUsage'[y] = seen.user[y]
      BY <1>5, <2>1, <2>3
    <3>2. Sum(userUsage', Members(d)) = Sum(seen.user, Members(d))
      BY <3>1, SumSame
    <3> QED
      BY <1>2, <1>7, <2>3, <3>2
  <2> QED
    BY <2>2, <2>3
<1>11. Sum(taskCost, QuotaTasks) \in Nat
  BY <1>4, QuotaAssumption, UnitsFinite
<1>12. /\ Sum(userUsage, Payers)' = Sum(userUsage', Payers)
       /\ Sum(taskCost, QuotaTasks)' = Sum(taskCost', QuotaTasks)
       /\ \A d : Sum(userUsage, Members(d))' = Sum(userUsage', Members(d))
  BY DEF Sum, Units, Members
<1>13. /\ systemUsage' = Sum(userUsage, Payers)'
       /\ \A d \in Departments : departmentUsage'[d] = Sum(userUsage, Members(d))'
  BY <1>3, <1>8, <1>10, <1>12
<1>14. /\ systemUsage' <= Sum(taskCost, QuotaTasks)'
       /\ storeDay' = 1 => systemUsage' = Sum(taskCost, QuotaTasks)'
  BY <1>2, <1>3, <1>9, <1>11, <1>12
<1>15. LevelsAgree'
  BY <1>13, <1>14 DEF LevelsAgree
<1> QED
  BY <1>3, <1>5, <1>6, <1>7, <1>15

\* The totals of the next state
LEMMA Primed ==
  /\ \A d : Sum(concurrent, Members(d))' = Sum(concurrent', Members(d))
  /\ \A d : Sum(userQueued, Members(d))' = Sum(userQueued', Members(d))
  /\ \A u, p : InPhase(TasksOf(u), p)' = {t \in TasksOf(u) : taskPhase'[t] = p}
  /\ \A u : TasksOf(u)' = TasksOf(u)
  /\ \A d : DepartmentTasks(d)' = DepartmentTasks(d) /\ Members(d)' = Members(d)
BY DEF Sum, Units, Members, InPhase, TasksOf, DepartmentTasks

\* How many tasks a phase has is a number, of some no more than of all.
LEMMA CardinalitiesTyped ==
  /\ \A u, p : Cardinality(InPhase(TasksOf(u), p)) \in Nat
  /\ \A d, p : Cardinality(InPhase(DepartmentTasks(d), p)) \in Nat
  /\ \A p : IsFiniteSet(InPhase(QuotaTasks, p)) /\ Cardinality(InPhase(QuotaTasks, p)) \in Nat
  /\ \A u, p : Cardinality(InPhase(TasksOf(u), p)) <= Cardinality(InPhase(QuotaTasks, p))
  /\ \A d, p : Cardinality(InPhase(DepartmentTasks(d), p)) <= Cardinality(InPhase(QuotaTasks, p))
<1>1. \A p : IsFiniteSet(InPhase(QuotaTasks, p))
  BY QuotaAssumption, FS_Subset DEF InPhase
<1>2. ASSUME NEW S \in SUBSET QuotaTasks, NEW p
      PROVE  /\ Cardinality(InPhase(S, p)) \in Nat
             /\ Cardinality(InPhase(S, p)) <= Cardinality(InPhase(QuotaTasks, p))
  <2>1. InPhase(S, p) \in SUBSET InPhase(QuotaTasks, p)
    BY DEF InPhase
  <2> QED
    BY <1>1, <2>1, FS_Subset, FS_CardinalityType
<1> QED
  BY <1>1, <1>2, FS_CardinalityType, QuotaSets

\* A task that moves between phases that the counters do not see
LEMMA CountedKept ==
  ASSUME QuotaInv, NEW t \in QuotaTasks, NEW b \in QuotaPhases,
         taskPhase' = [taskPhase EXCEPT ![t] = b], taskPhase[t] # b,
         taskPhase[t] # "running", b # "running", UNCHANGED counters
  PROVE  Counted'
<1>a. \A S \in SUBSET QuotaTasks : InPhase(S, "running")' = InPhase(S, "running")
  BY DEF InPhase, QuotaInv, QuotaTyped
<1>1. \A u : InPhase(TasksOf(u), "running")' = InPhase(TasksOf(u), "running")
  BY <1>a, QuotaSets
<1> QED
  BY <1>1, Primed DEF counters, QuotaInv, Counted

\* The queues are in order while no task starts or stops to wait.
LEMMA QueuedKept ==
  ASSUME QuotaInv, NEW t \in QuotaTasks, NEW b \in QuotaPhases,
         taskPhase' = [taskPhase EXCEPT ![t] = b], taskPhase[t] # b,
         taskPhase[t] # "waiting", b # "waiting", UNCHANGED queued
  PROVE  Queued'
<1>a. \A S \in SUBSET QuotaTasks : InPhase(S, "waiting")' = InPhase(S, "waiting")
  BY DEF InPhase, QuotaInv, QuotaTyped
<1>1. \A u : InPhase(TasksOf(u), "waiting")' = InPhase(TasksOf(u), "waiting")
  BY <1>a, QuotaSets
<1> QED
  BY <1>1, Primed DEF queued, QuotaInv, Queued

\* The race is bounded while no task is admitted.
LEMMA RacersKept ==
  ASSUME QuotaInv, NEW t \in QuotaTasks, NEW b \in QuotaPhases,
         taskPhase' = [taskPhase EXCEPT ![t] = b], taskPhase[t] # b,
         taskPhase[t] # "allowed", b # "allowed", UNCHANGED counters
  PROVE  Racers'
<1>a. \A S \in SUBSET QuotaTasks : InPhase(S, "allowed")' = InPhase(S, "allowed")
  BY DEF InPhase, QuotaInv, QuotaTyped
<1>1. /\ \A u : InPhase(TasksOf(u), "allowed")' = InPhase(TasksOf(u), "allowed")
      /\ \A d : InPhase(DepartmentTasks(d), "allowed")' = InPhase(DepartmentTasks(d), "allowed")
  BY <1>a, QuotaSets
<1> QED
  BY <1>1 DEF counters, QuotaInv, Racers

\* The phases, for the provers
LEMMA PhasesDistinct ==
  {"new", "called", "allowed", "waiting", "refused", "running", "ended"} = QuotaPhases
BY DEF QuotaPhases

\* A task that check_quota() admits: its user and its department were below their
\* limits, and the others between the two calls are fewer than may race.
LEMMA Admitted ==
  ASSUME QuotaInv, NEW t \in QuotaTasks, taskPhase[t] \in {"new", "called"},
         CheckQuota(TaskUser[t]) = "allow",
         Cardinality({s \in QuotaTasks : taskPhase[s] = "allowed"}) < Racing,
         taskPhase' = [taskPhase EXCEPT ![t] = "allowed"], UNCHANGED counters
  PROVE  Racers'
<1> DEFINE u == TaskUser[t]
           d == UserDepartment[u]
<1>1. "allowed" \in QuotaPhases /\ QuotaTyped /\ taskPhase[t] # "allowed"
  BY DEF QuotaPhases, QuotaInv
<1>2. u \in QuotaUsers /\ d \in Departments /\ t \in TasksOf(u) /\ t \in DepartmentTasks(d)
  BY QuotaSets
<1>3. concurrent[u] < MaxUserTasks /\ departmentConcurrent[d] < MaxDepartmentTasks
  <2>1. concurrent[u] \in Nat /\ departmentConcurrent[d] \in Nat
    BY <1>1, <1>2 DEF QuotaTyped
  <2>2. ~(concurrent[u] >= MaxUserTasks) /\ ~(departmentConcurrent[d] >= MaxDepartmentTasks)
    BY DEF CheckQuota
  <2> QED
    BY <2>1, <2>2, QuotaAssumption
<1>4. Cardinality(InPhase(QuotaTasks, "allowed")) < Racing
  BY DEF InPhase
<1>a. \A s \in QuotaTasks : s # t => taskPhase'[s] = taskPhase[s]
  BY <1>1 DEF QuotaTyped
<1>5. ASSUME NEW x \in QuotaUsers
      PROVE  concurrent[x] + Cardinality(InPhase(TasksOf(x), "allowed")') <= MaxUserTasks + Racing - 1
  <2>1. CASE x = u
    <3>1. /\ Cardinality(InPhase(TasksOf(u), "allowed")') = Cardinality(InPhase(TasksOf(u), "allowed")) + 1
      BY <1>1, <1>2, QuotaSets, MovedIn
    <3>2. Cardinality(InPhase(TasksOf(u), "allowed")) < Racing
      BY <1>4, QuotaAssumption, CardinalitiesTyped
    <3> HIDE DEF u
    <3> QED
      BY <1>1, <1>2, <1>3, <2>1, <3>1, <3>2, QuotaAssumption, CardinalitiesTyped DEF QuotaTyped
  <2>2. CASE x # u
    <3>1. t \notin TasksOf(x)
      BY <2>2 DEF TasksOf
    <3>2. \A s \in TasksOf(x) : taskPhase'[s] = taskPhase[s]
      BY <1>a, <3>1, QuotaSets
    <3>3. InPhase(TasksOf(x), "allowed")' = InPhase(TasksOf(x), "allowed")
      BY <3>2 DEF InPhase
    <3> QED
      BY <3>3 DEF QuotaInv, Racers
  <2> QED
    BY <2>1, <2>2
<1>6. ASSUME NEW x \in Departments
      PROVE  departmentConcurrent[x] + Cardinality(InPhase(DepartmentTasks(x), "allowed")')
               <= MaxDepartmentTasks + Racing - 1
  <2>1. CASE x = d
    <3>1. Cardinality(InPhase(DepartmentTasks(d), "allowed")')
            = Cardinality(InPhase(DepartmentTasks(d), "allowed")) + 1
      BY <1>1, <1>2, QuotaSets, MovedIn
    <3>2. Cardinality(InPhase(DepartmentTasks(d), "allowed")) < Racing
      BY <1>4, QuotaAssumption, CardinalitiesTyped
    <3> HIDE DEF d
    <3> QED
      BY <1>1, <1>2, <1>3, <2>1, <3>1, <3>2, QuotaAssumption, CardinalitiesTyped DEF QuotaTyped
  <2>2. CASE x # d
    <3>1. t \notin DepartmentTasks(x)
      BY <2>2 DEF DepartmentTasks
    <3>2. \A s \in DepartmentTasks(x) : taskPhase'[s] = taskPhase[s]
      BY <1>a, <3>1, QuotaSets
    <3>3. InPhase(DepartmentTasks(x), "allowed")' = InPhase(DepartmentTasks(x), "allowed")
      BY <3>2 DEF InPhase
    <3> QED
      BY <3>3 DEF QuotaInv, Racers
  <2> QED
    BY <2>1, <2>2
<1> QED
  BY <1>5, <1>6 DEF counters, Racers

\* A task that must wait is in both queues.
LEMMA Entered ==
  ASSUME QuotaInv, NEW t \in QuotaTasks, taskPhase[t] \in {"new", "called"},
         Enqueue(TaskUser[t]), taskPhase' = [taskPhase EXCEPT ![t] = "waiting"]
  PROVE  /\ Queued' /\ userQueued' \in [QuotaUsers -> Nat]
         /\ departmentQueued' \in [Departments -> Nat]
<1> DEFINE u == TaskUser[t]
           d == UserDepartment[u]
<1>1. "waiting" \in QuotaPhases /\ QuotaTyped /\ taskPhase[t] # "waiting"
  BY DEF QuotaPhases, QuotaInv
<1>2. u \in QuotaUsers /\ d \in Departments /\ t \in TasksOf(u)
  BY QuotaSets
<1>3. userQueued \in [QuotaUsers -> Nat] /\ departmentQueued \in [Departments -> Nat]
  BY <1>1 DEF QuotaTyped
<1>4. /\ userQueued' \in [QuotaUsers -> Nat] /\ userQueued'[u] = userQueued[u] + 1
      /\ \A y \in QuotaUsers \ {u} : userQueued'[y] = userQueued[y]
      /\ departmentQueued' \in [Departments -> Nat] /\ departmentQueued'[d] = departmentQueued[d] + 1
      /\ \A y \in Departments \ {d} : departmentQueued'[y] = departmentQueued[y]
  BY <1>2, <1>3 DEF Enqueue
<1>5. ASSUME NEW x \in QuotaUsers
      PROVE  Cardinality(InPhase(TasksOf(x), "waiting")') <= userQueued'[x]
  <2>1. CASE x = u
    <3>1. Cardinality(InPhase(TasksOf(x), "waiting")') = Cardinality(InPhase(TasksOf(x), "waiting")) + 1
      BY <1>1, <1>2, <2>1, QuotaSets, MovedIn
    <3>2. Cardinality(InPhase(TasksOf(x), "waiting")) <= userQueued[x]
      BY DEF QuotaInv, Queued
    <3> HIDE DEF u
    <3> QED
      BY <1>3, <1>4, <2>1, <3>1, <3>2, CardinalitiesTyped
  <2>2. CASE x # u
    <3>1. t \notin TasksOf(x)
      BY <2>2 DEF TasksOf
    <3>2. InPhase(TasksOf(x), "waiting")' = InPhase(TasksOf(x), "waiting")
      BY <1>1, <3>1, QuotaSets, StaysPut
    <3> QED
      BY <1>4, <2>2, <3>2 DEF QuotaInv, Queued
  <2> QED
    BY <2>1, <2>2
<1>6. ASSUME NEW x \in Departments PROVE departmentQueued'[x] <= Sum(userQueued', Members(x))
  <2>1. departmentQueued[x] <= Sum(userQueued, Members(x)) /\ Sum(userQueued, Members(x)) \in Nat
    BY <1>3, UnitsFinite, QuotaSets DEF QuotaInv, Queued
  <2>2. CASE x = d
    <3>1. u \in Members(x)
      BY <1>2, <2>2 DEF Members
    <3>2. Sum(userQueued', Members(x)) = Sum(userQueued, Members(x)) + 1
      BY <1>3, <1>4, <3>1, QuotaSets, SumAdded
    <3> QED
      BY <1>3, <1>4, <2>1, <2>2, <3>2
  <2>3. CASE x # d
    <3>1. \A y \in Members(x) : userQueued'[y] = userQueued[y]
      BY <1>4, <2>3 DEF Members
    <3>2. Sum(userQueued', Members(x)) = Sum(userQueued, Members(x))
      BY <3>1, SumSame
    <3> QED
      BY <1>4, <2>1, <2>3, <3>2
  <2> QED
    BY <2>2, <2>3
<1> QED
  BY <1>4, <1>5, <1>6, Primed DEF Queued

\* check_quota() admits, queues or refuses a task.
LEMMA AskStep ==
  ASSUME QuotaInv, NEW t \in QuotaTasks, Ask(t)
  PROVE  QuotaInv'
<1>1. /\ taskPhase[t] \in {"new", "called"} /\ Look /\ UNCHANGED <<date, counters, taskCost>>
      /\ CheckQuota(TaskUser[t]) = "allow" =>
           Cardinality({s \in QuotaTasks : taskPhase[s] = "allowed"}) < Racing
  BY DEF Ask
<1>2. /\ LevelsAgree' /\ storeDay' = date
      /\ userUsage' \in [Payers -> Nat] /\ departmentUsage' \in [Departments -> Nat]
      /\ systemUsage' \in Nat
  BY <1>1, Looked
<1>3. QuotaTyped /\ {"allowed", "waiting", "refused"} \subseteq QuotaPhases
  BY DEF QuotaInv, QuotaPhases
<1>4. ASSUME NEW b \in {"allowed", "waiting", "refused"},
             taskPhase' = [taskPhase EXCEPT ![t] = b],
             userQueued' \in [QuotaUsers -> Nat], departmentQueued' \in [Departments -> Nat]
      PROVE  QuotaTyped' /\ Counted'
  <2>1. b \in QuotaPhases /\ taskPhase[t] # b /\ taskPhase[t] # "running" /\ b # "running"
    BY <1>1, <1>3
  <2>2. taskPhase' \in [QuotaTasks -> QuotaPhases]
    BY <1>3, <1>4, <2>1 DEF QuotaTyped
  <2>3. QuotaTyped'
    BY <1>1, <1>2, <1>3, <1>4, <2>2 DEF QuotaTyped, counters
  <2>4. Counted'
    BY <1>1, <1>4, <2>1, CountedKept
  <2> QED
    BY <2>3, <2>4
<1>5. CASE /\ CheckQuota(TaskUser[t]) = "allow" /\ taskPhase' = [taskPhase EXCEPT ![t] = "allowed"]
           /\ UNCHANGED queued
  <2>1. QuotaTyped' /\ Counted'
    BY <1>3, <1>4, <1>5 DEF queued, QuotaTyped
  <2>2. Racers'
    BY <1>1, <1>5, Admitted
  <2>3. Queued'
    BY <1>1, <1>3, <1>5, QueuedKept
  <2> QED
    BY <1>2, <2>1, <2>2, <2>3 DEF QuotaInv
<1>6. CASE Enqueue(TaskUser[t]) /\ taskPhase' = [taskPhase EXCEPT ![t] = "waiting"]
  <2>1. /\ Queued' /\ userQueued' \in [QuotaUsers -> Nat]
        /\ departmentQueued' \in [Departments -> Nat]
    BY <1>1, <1>6, Entered
  <2>2. QuotaTyped' /\ Counted'
    BY <1>4, <1>6, <2>1
  <2>3. Racers'
    BY <1>1, <1>3, <1>6, RacersKept
  <2> QED
    BY <1>2, <2>1, <2>2, <2>3 DEF QuotaInv
<1>7. CASE taskPhase' = [taskPhase EXCEPT ![t] = "refused"] /\ UNCHANGED queued
  <2>1. QuotaTyped' /\ Counted'
    BY <1>3, <1>4, <1>7 DEF queued, QuotaTyped
  <2>2. Racers'
    BY <1>1, <1>3, <1>7, RacersKept
  <2>3. Queued'
    BY <1>1, <1>3, <1>7, QueuedKept
  <2> QED
    BY <1>2, <2>1, <2>2, <2>3 DEF QuotaInv
<1> QED
  BY <1>5, <1>6, <1>7 DEF Ask

\* The levels agree while nothing is charged.
LEMMA LevelsKept ==
  ASSUME QuotaInv, UNCHANGED <<usage, taskCost>>
  PROVE  LevelsAgree'
BY DEF QuotaInv, LevelsAgree, usage, Sum, Units, Members

\* One more for a user is one more in the user's department
LEMMA OneMore ==
  ASSUME NEW f \in [QuotaUsers -> Nat], NEW g \in [QuotaUsers -> Nat], NEW u \in QuotaUsers,
         g[u] = f[u] + 1, \A y \in QuotaUsers \ {u} : g[y] = f[y],
         NEW d
  PROVE  /\ Sum(f, Members(d)) \in Nat /\ Sum(g, Members(d)) \in Nat
         /\ Sum(g, Members(d)) =
              IF d = UserDepartment[u] THEN Sum(f, Members(d)) + 1 ELSE Sum(f, Members(d))
<1>1. Members(d) \in SUBSET QuotaUsers /\ IsFiniteSet(Members(d))
  BY QuotaSets
<1>2. CASE d = UserDepartment[u]
  <2>1. u \in Members(d)
    BY <1>2 DEF Members
  <2> QED
    BY <1>1, <1>2, <2>1, SumAdded, UnitsFinite
<1>3. CASE d # UserDepartment[u]
  <2>1. \A y \in Members(d) : g[y] = f[y]
    BY <1>3 DEF Members
  <2> QED
    BY <1>1, <1>3, <2>1, SumSame, UnitsFinite
<1> QED
  BY <1>2, <1>3

\* start_task() counts the task.
LEMMA StartTaskStep ==
  ASSUME QuotaInv, NEW t \in QuotaTasks, StartTask(t)
  PROVE  QuotaInv'
<1> PICK u \in QuotaUsers : u = TaskUser[t]
  BY QuotaSets
<1> PICK d \in Departments : d = UserDepartment[u]
  BY QuotaSets
<1>1. /\ taskPhase[t] = "allowed" /\ taskPhase' = [taskPhase EXCEPT ![t] = "running"]
      /\ concurrent' = [concurrent EXCEPT ![u] = @ + 1]
      /\ departmentConcurrent' = [departmentConcurrent EXCEPT ![d] = @ + 1]
      /\ UNCHANGED <<date, usage, queued, taskCost>>
  BY DEF StartTask
<1>2. /\ QuotaTyped /\ "running" \in QuotaPhases
      /\ concurrent \in [QuotaUsers -> Nat] /\ departmentConcurrent \in [Departments -> Nat]
  BY DEF QuotaInv, QuotaPhases, QuotaTyped
<1>3. /\ concurrent' \in [QuotaUsers -> Nat] /\ concurrent'[u] = concurrent[u] + 1
      /\ \A y \in QuotaUsers \ {u} : concurrent'[y] = concurrent[y]
      /\ departmentConcurrent' \in [Departments -> Nat]
      /\ departmentConcurrent'[d] = departmentConcurrent[d] + 1
      /\ \A y \in Departments \ {d} : departmentConcurrent'[y] = departmentConcurrent[y]
  BY <1>1, <1>2
<1>4. QuotaTyped'
  <2>1. taskPhase' \in [QuotaTasks -> QuotaPhases]
    BY <1>1, <1>2 DEF QuotaTyped
  <2> QED
    BY <1>1, <1>2, <1>3, <2>1 DEF QuotaTyped, usage, queued
<1>5. Racers'
  <2>1. ASSUME NEW x \in QuotaUsers
        PROVE  concurrent'[x] + Cardinality(InPhase(TasksOf(x), "allowed")')
                 <= MaxUserTasks + Racing - 1
    <3>1. concurrent[x] + Cardinality(InPhase(TasksOf(x), "allowed")) <= MaxUserTasks + Racing - 1
      BY DEF QuotaInv, Racers
    <3>2. CASE x = u
      <4>1. t \in TasksOf(x) /\ TasksOf(x) \in SUBSET QuotaTasks
        BY <3>2, QuotaSets
      <4>2. Cardinality(InPhase(TasksOf(x), "allowed")) = Cardinality(InPhase(TasksOf(x), "allowed")') + 1
        BY <1>1, <1>2, <4>1, MovedOut
      <4>3. Cardinality(InPhase(TasksOf(x), "allowed")') \in Nat
        BY <4>1, PhaseSetsFinite
      <4> QED
        BY <1>2, <1>3, <3>1, <3>2, <4>2, <4>3
    <3>3. CASE x # u
      <4>1. InPhase(TasksOf(x), "allowed")' = InPhase(TasksOf(x), "allowed")
        <5>1. t \notin TasksOf(x)
          BY <3>3 DEF TasksOf
        <5> QED
          BY <1>1, <1>2, <5>1, QuotaSets, StaysPut
      <4> QED
        BY <1>3, <3>1, <3>3, <4>1
    <3> QED
      BY <3>2, <3>3
  <2>2. ASSUME NEW x \in Departments
        PROVE  departmentConcurrent'[x] + Cardinality(InPhase(DepartmentTasks(x), "allowed")')
                 <= MaxDepartmentTasks + Racing - 1
    <3>1. departmentConcurrent[x] + Cardinality(InPhase(DepartmentTasks(x), "allowed"))
            <= MaxDepartmentTasks + Racing - 1
      BY DEF QuotaInv, Racers
    <3>2. CASE x = d
      <4>1. t \in DepartmentTasks(x) /\ DepartmentTasks(x) \in SUBSET QuotaTasks
        BY <3>2, QuotaSets
      <4>2. Cardinality(InPhase(DepartmentTasks(x), "allowed"))
              = Cardinality(InPhase(DepartmentTasks(x), "allowed")') + 1
        BY <1>1, <1>2, <4>1, MovedOut
      <4>3. Cardinality(InPhase(DepartmentTasks(x), "allowed")') \in Nat
        BY <4>1, PhaseSetsFinite
      <4> QED
        BY <1>2, <1>3, <3>1, <3>2, <4>2, <4>3
    <3>3. CASE x # d
      <4>1. InPhase(DepartmentTasks(x), "allowed")' = InPhase(DepartmentTasks(x), "allowed")
        <5>1. t \notin DepartmentTasks(x)
          BY <3>3 DEF DepartmentTasks
        <5> QED
          BY <1>1, <1>2, <5>1, QuotaSets, StaysPut
      <4> QED
        BY <1>3, <3>1, <3>3, <4>1
    <3> QED
      BY <3>2, <3>3
  <2> QED
    BY <2>1, <2>2 DEF Racers
<1>6. Counted'
  <2>1. ASSUME NEW x \in QuotaUsers
        PROVE  concurrent'[x] = Cardinality(InPhase(TasksOf(x), "running")')
    <3>1. concurrent[x] = Cardinality(InPhase(TasksOf(x), "running"))
      BY DEF QuotaInv, Counted
    <3>2. CASE x = u
      <4>1. t \in TasksOf(x) /\ TasksOf(x) \in SUBSET QuotaTasks
        BY <3>2, QuotaSets
      <4>2. Cardinality(InPhase(TasksOf(x), "running")') = Cardinality(InPhase(TasksOf(x), "running")) + 1
        BY <1>1, <1>2, <4>1, MovedIn
      <4> QED
        BY <1>3, <3>1, <3>2, <4>2
    <3>3. CASE x # u
      <4>1. InPhase(TasksOf(x), "running")' = InPhase(TasksOf(x), "running")
        <5>1. t \notin TasksOf(x)
          BY <3>3 DEF TasksOf
        <5> QED
          BY <1>1, <1>2, <5>1, QuotaSets, StaysPut
      <4> QED
        BY <1>3, <3>1, <3>3, <4>1
    <3> QED
      BY <3>2, <3>3
  <2>2. ASSUME NEW x \in Departments
        PROVE  departmentConcurrent'[x] = Sum(concurrent', Members(x))
    <3>1. departmentConcurrent[x] = Sum(concurrent, Members(x))
      BY DEF QuotaInv, Counted
    <3>2. Sum(concurrent', Members(x)) =
            IF x = d THEN Sum(concurrent, Members(x)) + 1 ELSE Sum(concurrent, Members(x))
      BY <1>2, <1>3, OneMore
    <3> QED
      BY <1>3, <3>1, <3>2
  <2> QED
    BY <2>1, <2>2, Primed DEF Counted
<1>7. Queued'
  BY <1>1, <1>2, QueuedKept
<1>8. LevelsAgree'
  BY <1>1, LevelsKept
<1> QED
  BY <1>4, <1>5, <1>6, <1>7, <1>8 DEF QuotaInv

\* end_task() takes it out of the counts.
LEMMA EndTaskStep ==
  ASSUME QuotaInv, NEW t \in QuotaTasks, EndTask(t)
  PROVE  QuotaInv'
<1> PICK u \in QuotaUsers : u = TaskUser[t]
  BY QuotaSets
<1> PICK d \in Departments : d = UserDepartment[u]
  BY QuotaSets
<1>1. /\ taskPhase[t] = "running" /\ taskPhase' = [taskPhase EXCEPT ![t] = "ended"]
      /\ concurrent' = [concurrent EXCEPT ![u] = LessOne(@)]
      /\ departmentConcurrent' = [departmentConcurrent EXCEPT ![d] = LessOne(@)]
      /\ UNCHANGED <<date, usage, queued, taskCost>>
  BY DEF EndTask
<1>2. /\ QuotaTyped /\ "ended" \in QuotaPhases
      /\ concurrent \in [QuotaUsers -> Nat] /\ departmentConcurrent \in [Departments -> Nat]
  BY DEF QuotaInv, QuotaPhases, QuotaTyped
<1>3. t \in TasksOf(u) /\ TasksOf(u) \in SUBSET QuotaTasks
  BY QuotaSets
<1>4. Cardinality(InPhase(TasksOf(u), "running")) = Cardinality(InPhase(TasksOf(u), "running")') + 1
  BY <1>1, <1>2, <1>3, MovedOut
<1>5. Cardinality(InPhase(TasksOf(u), "running")') \in Nat
  BY <1>3, PhaseSetsFinite
<1>6. concurrent[u] = Cardinality(InPhase(TasksOf(u), "running"))
  BY DEF QuotaInv, Counted
<1>7. concurrent[u] # 0
  BY <1>4, <1>5, <1>6
<1>8. /\ concurrent' \in [QuotaUsers -> Nat] /\ concurrent[u] = concurrent'[u] + 1
      /\ \A y \in QuotaUsers \ {u} : concurrent[y] = concurrent'[y]
  BY <1>1, <1>2, <1>7 DEF LessOne
<1>9. \A x \in Departments :
        /\ departmentConcurrent[x] = Sum(concurrent, Members(x)) /\ Sum(concurrent', Members(x)) \in Nat
        /\ Sum(concurrent, Members(x)) =
            IF x = d THEN Sum(concurrent', Members(x)) + 1 ELSE Sum(concurrent', Members(x))
  BY <1>2, <1>8, OneMore DEF QuotaInv, Counted
<1>10. departmentConcurrent[d] # 0
  BY <1>9
<1>11. /\ departmentConcurrent' \in [Departments -> Nat]
       /\ departmentConcurrent[d] = departmentConcurrent'[d] + 1
       /\ \A y \in Departments \ {d} : departmentConcurrent'[y] = departmentConcurrent[y]
  BY <1>1, <1>2, <1>10 DEF LessOne
<1>12. QuotaTyped'
  <2>1. taskPhase' \in [QuotaTasks -> QuotaPhases]
    BY <1>1, <1>2 DEF QuotaTyped
  <2> QED
    BY <1>1, <1>2, <1>8, <1>11, <2>1 DEF QuotaTyped, usage, queued
<1>13. Racers'
  <2>1. \A S \in SUBSET QuotaTasks : InPhase(S, "allowed")' = InPhase(S, "allowed")
    BY <1>1, <1>2 DEF InPhase, QuotaTyped
  <2>2. /\ \A x : InPhase(TasksOf(x), "allowed")' = InPhase(TasksOf(x), "allowed")
        /\ \A x : InPhase(DepartmentTasks(x), "allowed")' = InPhase(DepartmentTasks(x), "allowed")
    BY <2>1, QuotaSets
  <2>3. /\ \A x \in QuotaUsers : concurrent'[x] <= concurrent[x]
        /\ \A x \in Departments : departmentConcurrent'[x] <= departmentConcurrent[x]
    BY <1>2, <1>8, <1>11
  <2>4. ASSUME NEW x \in QuotaUsers
        PROVE  concurrent'[x] + Cardinality(InPhase(TasksOf(x), "allowed")')
                 <= MaxUserTasks + Racing - 1
    <3>1. concurrent[x] + Cardinality(InPhase(TasksOf(x), "allowed")) <= MaxUserTasks + Racing - 1
      BY DEF QuotaInv, Racers
    <3> QED
      BY <1>2, <1>8, <2>2, <2>3, <3>1, CardinalitiesTyped, QuotaAssumption
  <2>5. ASSUME NEW x \in Departments
        PROVE  departmentConcurrent'[x] + Cardinality(InPhase(DepartmentTasks(x), "allowed")')
                 <= MaxDepartmentTasks + Racing - 1
    <3>1. departmentConcurrent[x] + Cardinality(InPhase(DepartmentTasks(x), "allowed"))
            <= MaxDepartmentTasks + Racing - 1
      BY DEF QuotaInv, Racers
    <3> QED
      BY <1>2, <1>11, <2>2, <2>3, <3>1, CardinalitiesTyped, QuotaAssumption
  <2> QED
    BY <2>4, <2>5 DEF Racers
<1>14. Counted'
  <2>1. ASSUME NEW x \in QuotaUsers
        PROVE  concurrent'[x] = Cardinality(InPhase(TasksOf(x), "running")')
    <3>1. CASE x = u
      BY <1>2, <1>4, <1>5, <1>6, <1>8, <3>1
    <3>2. CASE x # u
      <4>1. InPhase(TasksOf(x), "running")' = InPhase(TasksOf(x), "running")
        <5>1. t \notin TasksOf(x)
          BY <3>2 DEF TasksOf
        <5> QED
          BY <1>1, <1>2, <5>1, QuotaSets, StaysPut
      <4> QED
        BY <1>8, <3>2, <4>1 DEF QuotaInv, Counted
    <3> QED
      BY <3>1, <3>2
  <2>2. \A x \in Departments : departmentConcurrent'[x] = Sum(concurrent', Members(x))
    BY <1>2, <1>9, <1>11
  <2> QED
    BY <2>1, <2>2, Primed DEF Counted
<1>15. Queued'
  BY <1>1, <1>2, QueuedKept
<1>16. LevelsAgree'
  BY <1>1, LevelsKept
<1> QED
  BY <1>12, <1>13, <1>14, <1>15, <1>16 DEF QuotaInv

\* The tracker charges a call to its agent or its user.
LEMMA RecordCallStep ==
  ASSUME QuotaInv, QuotaUsers \cap QuotaAgents = {}, NEW t \in QuotaTasks, NEW cost \in 1..2,
         NEW named \in BOOLEAN, RecordCall(t, cost, named)
  PROVE  QuotaInv'
<1>1. UNCHANGED <<date, counters, queued, taskPhase>> /\ cost \in Nat
  BY DEF RecordCall
<1>2. /\ LevelsAgree' /\ storeDay' = date /\ taskCost' \in [QuotaTasks -> Nat]
      /\ userUsage' \in [Payers -> Nat] /\ departmentUsage' \in [Departments -> Nat]
      /\ systemUsage' \in Nat
  <2>1. CASE named
    <3>1. Charge(t, TaskUser[t], cost, {UserDepartment[TaskUser[t]]})
      BY <2>1 DEF RecordCall
    <3>2. \A d \in Departments :
            d \in {UserDepartment[TaskUser[t]]} <=> TaskUser[t] \in Members(d)
      BY QuotaSets DEF Members
    <3> QED
      BY <1>1, <3>1, <3>2, QuotaSets, Charged
  <2>2. CASE ~named
    <3>1. Charge(t, TaskAgent[t], cost, {})
      BY <2>2 DEF RecordCall
    <3>2. \A d \in Departments : d \in {} <=> TaskAgent[t] \in Members(d)
      BY QuotaSets
    <3> QED
      BY <1>1, <3>1, <3>2, QuotaSets, Charged
  <2> QED
    BY <2>1, <2>2
<1>3. QuotaTyped'
  BY <1>1, <1>2 DEF QuotaInv, QuotaTyped, counters, queued
<1>4. /\ \A S, p : InPhase(S, p)' = InPhase(S, p)
      /\ \A u : TasksOf(u)' = TasksOf(u) /\ \A d : DepartmentTasks(d)' = DepartmentTasks(d)
      /\ \A d : Sum(concurrent, Members(d))' = Sum(concurrent, Members(d))
      /\ \A d : Sum(userQueued, Members(d))' = Sum(userQueued, Members(d))
  BY <1>1 DEF InPhase, TasksOf, DepartmentTasks, Sum, Units, Members, counters, queued
<1>5. Racers' /\ Counted' /\ Queued'
  BY <1>1, <1>4 DEF QuotaInv, Racers, Counted, Queued, counters, queued
<1> QED
  BY <1>2, <1>3, <1>5 DEF QuotaInv

\* Whoever is released leaves the waiting tasks; nothing else that is counted changes
LEMMA Released ==
  ASSUME QuotaInv, NEW waiting \in SUBSET InPhase(QuotaTasks, "waiting"), ReleaseWaiting(waiting)
  PROVE  /\ taskPhase' \in [QuotaTasks -> QuotaPhases]
         /\ \A S \in SUBSET QuotaTasks :
              /\ InPhase(S, "running")' = InPhase(S, "running")
              /\ InPhase(S, "allowed")' = InPhase(S, "allowed")
              /\ Cardinality(InPhase(S, "waiting")') <= Cardinality(InPhase(S, "waiting"))
         /\ \A S \in SUBSET QuotaTasks : waiting # {} /\ waiting \subseteq S =>
              Cardinality(InPhase(S, "waiting")) = Cardinality(InPhase(S, "waiting")') + 1
<1>1. QuotaTyped /\ "called" \in QuotaPhases
  BY DEF QuotaInv, QuotaPhases
<1>2. CASE waiting = {}
  <2>1. taskPhase' = taskPhase
    BY <1>2 DEF ReleaseWaiting
  <2>2. \A S, p : InPhase(S, p)' = InPhase(S, p)
    BY <2>1 DEF InPhase
  <2>3. \A S \in SUBSET QuotaTasks : Cardinality(InPhase(S, "waiting")) \in Nat
    BY PhaseSetsFinite
  <2> QED
    BY <1>1, <1>2, <2>1, <2>2, <2>3 DEF QuotaTyped
<1>3. CASE waiting # {}
  <2>1. PICK t \in waiting : taskPhase' = [taskPhase EXCEPT ![t] = "called"]
    BY <1>3 DEF ReleaseWaiting
  <2>2. t \in QuotaTasks /\ taskPhase[t] = "waiting"
    BY DEF InPhase
  <2>3. taskPhase' \in [QuotaTasks -> QuotaPhases]
    BY <1>1, <2>1 DEF QuotaTyped
  <2>4. \A S \in SUBSET QuotaTasks : /\ InPhase(S, "running")' = InPhase(S, "running")
                                     /\ InPhase(S, "allowed")' = InPhase(S, "allowed")
    BY <1>1, <2>1, <2>2 DEF InPhase, QuotaTyped
  <2>5. ASSUME NEW S \in SUBSET QuotaTasks
        PROVE  Cardinality(InPhase(S, "waiting")') <= Cardinality(InPhase(S, "waiting"))
    <3>1. InPhase(S, "waiting")' \in SUBSET InPhase(S, "waiting")
      BY <1>1, <2>1, <2>2 DEF InPhase, QuotaTyped
    <3> QED
      BY <3>1, PhaseSetsFinite, FS_Subset
  <2>6. ASSUME NEW S \in SUBSET QuotaTasks, waiting \subseteq S
        PROVE  Cardinality(InPhase(S, "waiting")) = Cardinality(InPhase(S, "waiting")') + 1
    <3>1. t \in S
      BY <2>6
    <3> QED
      BY <1>1, <2>1, <2>2, <3>1, MovedOut
  <2> QED
    BY <2>3, <2>4, <2>5, <2>6
<1> QED
  BY <1>2, <1>3

\* What a notification leaves to show: that the queues still hold the waiting
LEMMA NotifyStep ==
  ASSUME QuotaInv, NEW waiting \in SUBSET InPhase(QuotaTasks, "waiting"), ReleaseWaiting(waiting),
         UNCHANGED <<date, usage, counters, taskCost>>,
         userQueued' \in [QuotaUsers -> Nat], departmentQueued' \in [Departments -> Nat], Queued'
  PROVE  QuotaInv'
<1>1. /\ taskPhase' \in [QuotaTasks -> QuotaPhases]
      /\ \A S \in SUBSET QuotaTasks : /\ InPhase(S, "running")' = InPhase(S, "running")
                                      /\ InPhase(S, "allowed")' = InPhase(S, "allowed")
  BY Released
<1>2. QuotaTyped'
  BY <1>1 DEF QuotaInv, QuotaTyped, usage, counters
<1>3. /\ \A u : InPhase(TasksOf(u), "running")' = InPhase(TasksOf(u), "running")
      /\ \A u : InPhase(TasksOf(u), "allowed")' = InPhase(TasksOf(u), "allowed")
      /\ \A d : InPhase(DepartmentTasks(d), "allowed")' = InPhase(DepartmentTasks(d), "allowed")
  BY <1>1, QuotaSets
<1>4. Racers'
  BY <1>3 DEF QuotaInv, Racers, counters
<1>5. Counted'
  BY <1>3, Primed DEF QuotaInv, Counted, counters
<1>6. LevelsAgree'
  BY LevelsKept
<1> QED
  BY <1>2, <1>4, <1>5, <1>6 DEF QuotaInv

\* A place of a user is offered to the first in the queue of the user.
LEMMA NotifyUserStep ==
  ASSUME QuotaInv, NEW u \in QuotaUsers, NotifyUser(u)
  PROVE  QuotaInv'
<1> PICK d \in Departments : d = UserDepartment[u]
  BY QuotaAssumption
<1>1. /\ userQueued[u] > 0 /\ ReleaseWaiting(TasksIn(u, "waiting"))
      /\ UNCHANGED <<date, usage, counters, taskCost>>
      /\ userQueued' = [x \in QuotaUsers |->
                          IF x \in {u} THEN LessOne(userQueued[x]) ELSE userQueued[x]]
      /\ departmentQueued' = [departmentQueued EXCEPT ![d] = LessOne(@)]
  BY DEF NotifyUser, Dequeue
<1>2. userQueued \in [QuotaUsers -> Nat] /\ departmentQueued \in [Departments -> Nat]
  BY DEF QuotaInv, QuotaTyped
<1>3. /\ userQueued' \in [QuotaUsers -> Nat] /\ userQueued[u] = userQueued'[u] + 1
      /\ \A y \in QuotaUsers \ {u} : userQueued[y] = userQueued'[y]
  BY <1>1, <1>2 DEF LessOne
<1>4. /\ departmentQueued' \in [Departments -> Nat]
      /\ departmentQueued'[d] = LessOne(departmentQueued[d])
      /\ \A y \in Departments \ {d} : departmentQueued'[y] = departmentQueued[y]
  BY <1>1, <1>2 DEF LessOne
<1>5. TasksIn(u, "waiting") \in SUBSET InPhase(QuotaTasks, "waiting")
  BY DEF TasksIn, InPhase
<1>6. ASSUME NEW x \in QuotaUsers
      PROVE  Cardinality(InPhase(TasksOf(x), "waiting")') <= userQueued'[x]
  <2>1. /\ Cardinality(InPhase(TasksOf(x), "waiting")) <= userQueued[x]
        /\ TasksOf(x) \in SUBSET QuotaTasks
    BY QuotaSets DEF QuotaInv, Queued
  <2>2. /\ Cardinality(InPhase(TasksOf(x), "waiting")) \in Nat
        /\ Cardinality(InPhase(TasksOf(x), "waiting")') \in Nat
        /\ Cardinality(InPhase(TasksOf(x), "waiting")') <= Cardinality(InPhase(TasksOf(x), "waiting"))
    BY <1>1, <1>5, <2>1, PhaseSetsFinite, Released
  <2>3. CASE x # u
    BY <1>2, <1>3, <2>1, <2>2, <2>3
  <2>4. CASE x = u /\ TasksIn(u, "waiting") = {}
    <3>1. InPhase(TasksOf(x), "waiting") = {}
      BY <2>4, QuotaSets
    <3>2. Cardinality(InPhase(TasksOf(x), "waiting")) = 0
      BY <3>1, FS_EmptySet
    <3> QED
      BY <1>3, <2>2, <3>2
  <2>5. CASE x = u /\ TasksIn(u, "waiting") # {}
    <3>1. TasksIn(u, "waiting") \subseteq TasksOf(x)
      BY <2>5 DEF TasksIn, TasksOf
    <3>2. Cardinality(InPhase(TasksOf(x), "waiting"))
            = Cardinality(InPhase(TasksOf(x), "waiting")') + 1
      BY <1>1, <1>5, <2>1, <2>5, <3>1, Released
    <3> QED
      BY <1>2, <1>3, <2>1, <2>2, <2>5, <3>2
  <2> QED
    BY <2>3, <2>4, <2>5
<1>7. ASSUME NEW x \in Departments PROVE departmentQueued'[x] <= Sum(userQueued', Members(x))
  <2>1. /\ Sum(userQueued', Members(x)) \in Nat /\ Sum(userQueued, Members(x)) \in Nat
        /\ Sum(userQueued, Members(x)) =
             IF x = d THEN Sum(userQueued', Members(x)) + 1 ELSE Sum(userQueued', Members(x))
    BY <1>2, <1>3, OneMore
  <2>2. departmentQueued[x] <= Sum(userQueued, Members(x))
    BY DEF QuotaInv, Queued
  <2> QED
    BY <1>2, <1>4, <2>1, <2>2 DEF LessOne
<1>8. Queued'
  BY <1>6, <1>7, Primed DEF Queued
<1> QED
  BY <1>1, <1>3, <1>4, <1>5, <1>8, NotifyStep

\* A place of a department is offered to the first in its queue.
LEMMA NotifyDepartmentStep ==
  ASSUME QuotaInv, NEW d \in Departments, NotifyDepartment(d)
  PROVE  QuotaInv'
<1> DEFINE waiting == UNION {TasksIn(u, "waiting") : u \in Members(d)}
<1>1. /\ ReleaseWaiting(waiting) /\ UNCHANGED <<date, usage, counters, taskCost>>
      /\ userQueued' = [x \in QuotaUsers |->
                          IF x \in {} THEN LessOne(userQueued[x]) ELSE userQueued[x]]
      /\ departmentQueued' = [departmentQueued EXCEPT ![d] = LessOne(@)]
  BY DEF NotifyDepartment, Dequeue
<1>2. userQueued \in [QuotaUsers -> Nat] /\ departmentQueued \in [Departments -> Nat]
  BY DEF QuotaInv, QuotaTyped
<1>3. userQueued' = userQueued
  BY <1>1, <1>2
<1>4. /\ departmentQueued' \in [Departments -> Nat]
      /\ departmentQueued'[d] = LessOne(departmentQueued[d])
      /\ \A y \in Departments \ {d} : departmentQueued'[y] = departmentQueued[y]
  BY <1>1, <1>2 DEF LessOne
<1>5. waiting \in SUBSET InPhase(QuotaTasks, "waiting")
  BY DEF TasksIn, InPhase
<1> HIDE DEF waiting
<1>6. ASSUME NEW x \in QuotaUsers
      PROVE  Cardinality(InPhase(TasksOf(x), "waiting")') <= userQueued'[x]
  <2>1. /\ Cardinality(InPhase(TasksOf(x), "waiting")) <= userQueued[x]
        /\ TasksOf(x) \in SUBSET QuotaTasks
    BY QuotaSets DEF QuotaInv, Queued
  <2>2. /\ Cardinality(InPhase(TasksOf(x), "waiting")) \in Nat
        /\ Cardinality(InPhase(TasksOf(x), "waiting")') \in Nat
        /\ Cardinality(InPhase(TasksOf(x), "waiting")') <= Cardinality(InPhase(TasksOf(x), "waiting"))
    BY <1>1, <1>5, <2>1, PhaseSetsFinite, Released
  <2> QED
    BY <1>2, <1>3, <2>1, <2>2
<1>7. ASSUME NEW x \in Departments PROVE departmentQueued'[x] <= Sum(userQueued, Members(x))
  <2>1. departmentQueued[x] <= Sum(userQueued, Members(x)) /\ Sum(userQueued, Members(x)) \in Nat
    BY <1>2, UnitsFinite, QuotaSets DEF QuotaInv, Queued
  <2> QED
    BY <1>2, <1>4, <2>1 DEF LessOne
<1>8. Queued'
  BY <1>3, <1>6, <1>7, Primed DEF Queued
<1> QED
  BY <1>1, <1>2, <1>3, <1>4, <1>5, <1>8, NotifyStep

\* Steps that leave all but the date
LEMMA NewDayStep ==
  ASSUME QuotaInv, date' = date \/ date' = date + 1,
         UNCHANGED <<usage, counters, queued, taskCost, taskPhase>>
  PROVE  QuotaInv'
<1>1. QuotaTyped'
  BY DEF QuotaInv, QuotaTyped, usage, counters, queued
<1>2. /\ \A S, p : InPhase(S, p)' = InPhase(S, p)
      /\ \A u : TasksOf(u)' = TasksOf(u) /\ \A d : DepartmentTasks(d)' = DepartmentTasks(d)
      /\ \A d : Sum(concurrent, Members(d))' = Sum(concurrent, Members(d))
      /\ \A d : Sum(userQueued, Members(d))' = Sum(userQueued, Members(d))
  BY DEF InPhase, TasksOf, DepartmentTasks, Sum, Units, Members, counters, queued
<1>3. Racers' /\ Counted' /\ Queued'
  BY <1>2 DEF QuotaInv, Racers, Counted, Queued, counters, queued
<1> QED
  BY <1>1, <1>3, LevelsKept DEF QuotaInv

\* Every step keeps the invariant.
LEMMA QuotaStep ==
  ASSUME QuotaUsers \cap QuotaAgents = {}
  PROVE  QuotaInv /\ [QuotaNext]_quotaVars => QuotaInv'
<1> SUFFICES ASSUME QuotaInv, [QuotaNext]_quotaVars PROVE QuotaInv'
  OBVIOUS
<1>1. ASSUME NEW t \in QuotaTasks, Ask(t) \/ StartTask(t) \/ EndTask(t) PROVE QuotaInv'
  BY <1>1, AskStep, StartTaskStep, EndTaskStep
<1>2. ASSUME NEW t \in QuotaTasks, NEW cost \in 1..2, NEW named \in BOOLEAN,
             RecordCall(t, cost, named)
      PROVE  QuotaInv'
  BY <1>2, RecordCallStep
<1>3. ASSUME NEW u \in QuotaUsers, NotifyUser(u) PROVE QuotaInv'
  BY <1>3, NotifyUserStep
<1>4. ASSUME NEW d \in Departments, NotifyDepartment(d) PROVE QuotaInv'
  BY <1>4, NotifyDepartmentStep
<1>5. CASE NewDay
  BY <1>5, NewDayStep DEF NewDay
<1>6. CASE UNCHANGED quotaVars
  BY <1>6, NewDayStep DEF quotaVars
<1> QED
  BY <1>1, <1>2, <1>3, <1>4, <1>5, <1>6 DEF QuotaNext

\* The invariant gives the property.
LEMMA QuotaInvSays == QuotaInv => AdmissionSound
<1> SUFFICES ASSUME QuotaInv PROVE AdmissionSound
  OBVIOUS
<1>1. OverAdmissionBounded
  <2>1. /\ concurrent \in [QuotaUsers -> Nat] /\ departmentConcurrent \in [Departments -> Nat]
        /\ MaxUserTasks \in Nat /\ MaxDepartmentTasks \in Nat /\ Racing \in Nat
    BY QuotaAssumption DEF QuotaInv, QuotaTyped
  <2> QED
    BY <2>1, CardinalitiesTyped DEF QuotaInv, Racers, OverAdmissionBounded
<1>2. CountersMatchRunning
  BY QuotaSets DEF QuotaInv, Counted, CountersMatchRunning
<1>3. WaitingHaveEntries
  BY QuotaSets DEF QuotaInv, Queued, WaitingHaveEntries
<1> QED
  BY <1>1, <1>2, <1>3 DEF QuotaInv, AdmissionSound

\* core/quota.py: more tasks run than the limits allow only by those that stood
\* between check_quota and start_task, the counters tell the tasks that run, user,
\* department and system are charged alike, and a waiting task has an entry left in
\* the queue of its user, whatever the order of notifications.  An agent is charged
\* under its name where no user is known, so names of agents must not be names of
\* users.
THEOREM AdmissionSoundHolds ==
  ASSUME QuotaUsers \cap QuotaAgents = {}
  PROVE  QuotaSpec => []AdmissionSound
<1>1. QuotaInit => QuotaInv
  BY QuotaInitial
<1>2. QuotaInv /\ [QuotaNext]_quotaVars => QuotaInv'
  BY QuotaStep
<1>3. QuotaInv => AdmissionSound
  BY QuotaInvSays
<1> QED
  BY <1>1, <1>2, <1>3, PTL DEF QuotaSpec

------------------------------------------------------------------------------
(*****************************************************************************)
(* RateLimit.                                                                *)
(*                                                                           *)
(* A log is a count of requests for each age, and what the limiter counts is *)
(* what it admitted.  With WATCH the checks between the two transactions are *)
(* added to what is held.                                                    *)
(*****************************************************************************)

\* A finite set of numbers has a largest one.
LEMMA MostOf ==
  ASSUME NEW T \in SUBSET Nat, IsFiniteSet(T), T # {}
  PROVE  \E m \in T : \A x \in T : x <= m
<1> DEFINE Without == {U \in SUBSET T : U # {} /\ ~ \E m \in U : \A x \in U : x <= m}
<1> SUFFICES ASSUME T \in Without PROVE FALSE
  OBVIOUS
<1>1. IsWellFoundedOn(StrictSubsetOrdering(T), SUBSET T)
  BY FS_StrictSubsetOrderingWellFounded, FS_FiniteSubsetsOfFinite
<1>2. PICK U \in Without : \A V \in Without : ~ (<<V, U>> \in StrictSubsetOrdering(T))
  <2>1. Without \subseteq SUBSET T /\ Without # {}
    OBVIOUS
  <2> HIDE DEF Without
  <2> QED
    BY <1>1, <2>1, WFMin
<1>3. U # {} /\ U \subseteq T /\ ~ \E m \in U : \A x \in U : x <= m
  OBVIOUS
<1>4. PICK y \in U : TRUE
  BY <1>3
<1> DEFINE V == U \ {y}
<1>5. V # {}
  <2> SUFFICES ASSUME V = {} PROVE FALSE
    OBVIOUS
  <2>1. \A x \in U : x = y
    OBVIOUS
  <2> QED
    BY <1>3, <1>4, <2>1
<1>6. V \notin Without
  <2>1. V \in SUBSET T /\ V \subseteq U /\ V # U
    BY <1>3, <1>4
  <2>2. <<V, U>> \in StrictSubsetOrdering(T)
    BY <1>3, <2>1 DEF StrictSubsetOrdering
  <2> QED
    BY <1>2, <2>2
<1>7. PICK m \in V : \A x \in V : x <= m
  BY <1>3, <1>5, <1>6
<1>8. y \in Nat /\ m \in Nat /\ \A x \in U : x \in Nat
  BY <1>3
<1>9. \E b \in U : \A x \in U : x <= b
  <2>1. CASE y <= m
    BY <1>7, <2>1
  <2>2. CASE m <= y
    <3>1. \A x \in U : x <= y
      BY <1>7, <1>8, <2>2
    <3> QED
      BY <3>1
  <2> QED
    BY <1>8, <2>1, <2>2
<1> QED
  BY <1>3, <1>9

\* The highest limit of a key is above all its limits.
LEMMA HighestBounds ==
  ASSUME NEW k
  PROVE  Highest(k) \in Nat \ {0} /\ \A s \in Scopes : CeilingOf(k, s) <= Highest(k)
<1> DEFINE T == {CeilingOf(k, s) : s \in Scopes}
           c == [s \in Scopes |-> CeilingOf(k, s)]
<1>1. \A s \in Scopes : CeilingOf(k, s) \in Nat \ {0}
  BY RateAssumption DEF CeilingOf
<1>2. c \in Surjection(Scopes, T)
  BY DEF Surjection
<1>3. T \in SUBSET Nat /\ T # {} /\ \A x \in T : x # 0
  BY <1>1, RateAssumption
<1>4. IsFiniteSet(T)
  <2> HIDE DEF T, c
  <2> QED
    BY <1>2, RateAssumption, FS_Surjection
<1>5. \E m \in T : \A x \in T : x <= m
  <2> HIDE DEF T
  <2> QED
    BY <1>3, <1>4, MostOf
<1>6. \E m \in T : \A s \in Scopes : CeilingOf(k, s) <= m
  BY <1>5
<1>7. Highest(k) \in T /\ \A s \in Scopes : CeilingOf(k, s) <= Highest(k)
  BY <1>6 DEF Highest
<1> QED
  BY <1>3, <1>7

\* The values of the variables
RatePhases == {"idle", "user", "user admit", "ip", "ip admit", "served", "refused"}
Checks == [phase : RatePhases, user : RateUsers \cup {"none"}, scope : Scopes \cup {"none"},
           replica : Replicas \cup {"none"}, tries : Nat]
LogShape == [Stores -> [Keys -> [0..(Window + 1) -> Nat]]]
AdmittedShape == [Stores -> [Keys -> [Ages -> Nat]]]

\* What a store admitted in the window, and the checks that are about to be
\* admitted between the two transactions of WATCH
Held(s, k) == Sum(admitted[s][k], Ages)
Between(c) == check[c].phase \in {"user admit", "ip admit"}
Pending(k) == {c \in Callers : Between(c) /\ KeyOf(c) = k}

\* The typing
RateTyped ==
  /\ backend \in {"none", "memory", "lua", "watch"}
  /\ log \in LogShape /\ admitted \in AdmittedShape
  /\ check \in [Callers -> Checks]
  /\ \A c \in Callers :
       /\ check[c].phase # "idle" =>
            backend # "none" /\ check[c].scope \in Scopes /\ check[c].replica \in Replicas
       /\ check[c].phase \in {"user", "user admit"} => check[c].user \in RateUsers
       /\ Between(c) => backend = "watch"

\* What was admitted is what the logs hold, and they hold it where the backend keeps it
Mirrored ==
  /\ \A s \in Stores, k \in Keys, age \in Ages : admitted[s][k][age] = log[s][k][age]
  /\ \A s \in Stores, k \in Keys, age \in Ages :
       \/ backend = "memory" /\ s \in Replicas
       \/ backend \in {"lua", "watch"} /\ s = "redis"
       \/ admitted[s][k][age] = 0

\* The window of a store is bounded; with WATCH those about to be admitted count,
\* and one caller is there rightly.
Bounded ==
  \A k \in Keys :
    /\ backend # "watch" => \A s \in Stores : Held(s, k) <= Highest(k)
    /\ backend = "watch" =>
         Held("redis", k) + Cardinality(Pending(k)) <= Highest(k) + Cardinality(Callers) - 1

\* The invariant
RateInv == RateTyped /\ Mirrored /\ Bounded

\* The ages of the window
LEMMA RateFacts ==
  /\ Window \in Nat /\ Ages = 0..Window /\ IsFiniteSet(Ages) /\ Ages \subseteq 0..(Window + 1)
  /\ 0 \in Ages /\ Window + 1 \notin Ages
  /\ "redis" \in Stores
<1>1. Window \in Nat
  BY RateAssumption
<1>2. IsFiniteSet(0..Window)
  BY <1>1, FS_Interval
<1> QED
  BY <1>1, <1>2 DEF Ages, Stores

\* What a store holds is a number.
LEMMA HeldTyped ==
  ASSUME RateTyped, NEW s \in Stores, NEW k \in Keys
  PROVE  Held(s, k) \in Nat
<1>1. admitted[s][k] \in [Ages -> Nat]
  BY DEF RateTyped, AdmittedShape
<1> QED
  BY <1>1, RateFacts, UnitsFinite DEF Held

\* Those about to be admitted are finitely many.
LEMMA PendingTyped ==
  /\ \A k : IsFiniteSet(Pending(k)) /\ Cardinality(Pending(k)) \in Nat
            /\ Cardinality(Pending(k)) <= Cardinality(Callers)
  /\ Cardinality(Callers) \in Nat
BY RateAssumption, FS_Subset, FS_CardinalityType DEF Pending

\* What a log holds once it is evicted is what was admitted
LEMMA KeptSize ==
  ASSUME RateTyped, Mirrored, NEW s \in Stores, NEW k \in Keys
  PROVE  /\ Evict(log[s][k]) \in [0..(Window + 1) -> Nat]
         /\ \A age \in Ages : Evict(log[s][k])[age] = log[s][k][age]
         /\ Size(Evict(log[s][k])) = Held(s, k)
<1> DEFINE kept == Evict(log[s][k])
<1>1. log[s][k] \in [0..(Window + 1) -> Nat] /\ admitted[s][k] \in [Ages -> Nat]
  BY DEF RateTyped, LogShape, AdmittedShape
<1>2. /\ kept \in [0..(Window + 1) -> Nat] /\ kept[Window + 1] = 0
      /\ \A age \in Ages : kept[age] = log[s][k][age]
  BY <1>1, RateFacts DEF Evict
<1> HIDE DEF kept
<1>3. 0..(Window + 1) = Ages \cup {Window + 1}
  BY RateFacts
<1>4. Sum(kept, 0..(Window + 1)) = Sum(kept, Ages)
  BY <1>2, <1>3, SumOfPart
<1>5. Sum(kept, Ages) = Sum(admitted[s][k], Ages)
  <2> DEFINE counted == admitted[s][k]
  <2>1. \A age \in Ages : kept[age] = counted[age]
    BY <1>2 DEF Mirrored
  <2> HIDE DEF counted
  <2>2. Sum(kept, Ages) = Sum(counted, Ages)
    BY <2>1, SumSame
  <2> QED
    BY <2>2 DEF counted
<1> QED
  BY <1>2, <1>4, <1>5 DEF kept, Size, Held

\* The first of a pair
LEMMA FirstOfPair == \A a, b : <<a, b>>[1] = a
OBVIOUS

\* A check under way asks a store of its backend about a key, up to its scope's limit
LEMMA Asked ==
  ASSUME RateTyped, NEW c \in Callers, check[c].phase \in {"user", "user admit", "ip", "ip admit"}
  PROVE  /\ StoreOf(c) \in Stores /\ KeyOf(c) \in Keys /\ LimitOf(c) <= Highest(KeyOf(c))
         /\ LimitOf(c) \in Nat
         /\ IF backend = "memory" THEN StoreOf(c) \in Replicas
                                  ELSE StoreOf(c) = "redis" /\ backend \in {"lua", "watch"}
<1>1. /\ check[c].phase # "idle" /\ check[c].scope \in Scopes /\ check[c].replica \in Replicas
      /\ backend \in {"memory", "lua", "watch"}
  BY DEF RateTyped
<1>2. CASE Dimension(c) = "user"
  <2>1. check[c].user \in RateUsers
    BY <1>2 DEF Dimension, RateTyped
  <2>2. KeyOf(c) = <<"user", check[c].user>> /\ LimitOf(c) = UserLimit[check[c].scope]
    BY <1>2 DEF KeyOf, LimitOf
  <2>3. KeyOf(c) \in Keys /\ KeyOf(c)[1] = "user"
    <3>1. <<"user", check[c].user>> \in {<<"user", u>> : u \in RateUsers}
      BY <2>1
    <3>2. {<<"user", u>> : u \in RateUsers} \subseteq Keys
      BY Zenon DEF Keys
    <3>3. KeyOf(c) \in Keys
      BY <2>2, <3>1, <3>2, Zenon
    <3>4. KeyOf(c)[1] = "user"
      BY <2>2, FirstOfPair, Zenon
    <3> QED
      BY <3>3, <3>4
  <2>4. LimitOf(c) = CeilingOf(KeyOf(c), check[c].scope)
    BY <2>2, <2>3 DEF CeilingOf
  <2>5. LimitOf(c) \in Nat
    BY <1>1, <2>2, RateAssumption
  <2> QED
    BY <1>1, <2>3, <2>4, <2>5, HighestBounds DEF StoreOf, Stores
<1>3. CASE Dimension(c) # "user"
  <2>1. KeyOf(c) = <<"ip", "a">> /\ LimitOf(c) = IpLimit[check[c].scope]
    BY <1>3 DEF KeyOf, LimitOf
  <2>2. KeyOf(c) \in Keys /\ KeyOf(c)[1] # "user"
    <3>1. <<"ip", "a">> \in Keys
      BY Zenon DEF Keys
    <3>2. KeyOf(c) \in Keys
      BY <2>1, <3>1, Zenon
    <3>3. KeyOf(c)[1] = "ip"
      BY <2>1, FirstOfPair, Zenon
    <3> QED
      BY <3>2, <3>3
  <2>3. LimitOf(c) = CeilingOf(KeyOf(c), check[c].scope)
    BY <2>1, <2>2 DEF CeilingOf
  <2>4. LimitOf(c) \in Nat
    BY <1>1, <2>1, RateAssumption
  <2> QED
    BY <1>1, <2>2, <2>3, <2>4, HighestBounds DEF StoreOf, Stores
<1> QED
  BY <1>2, <1>3

\* The phases of a request that is being checked
CheckingPhases == {"user", "user admit", "ip", "ip admit"}

\* A request that moves on, and is not between two transactions, leaves nobody else changed
LEMMA MovesOn ==
  ASSUME RateTyped, NEW c \in Callers, backend' = backend,
         check' \in [Callers -> Checks], \A d \in Callers \ {c} : check'[d] = check[d],
         check'[c].phase \notin {"user admit", "ip admit"},
         check'[c].phase # "idle" => backend # "none" /\ check'[c].scope \in Scopes
                                     /\ check'[c].replica \in Replicas,
         check'[c].phase = "user" => check'[c].user \in RateUsers
  PROVE  /\ \A d \in Callers :
              /\ check'[d].phase # "idle" =>
                   backend' # "none" /\ check'[d].scope \in Scopes /\ check'[d].replica \in Replicas
              /\ check'[d].phase \in {"user", "user admit"} => check'[d].user \in RateUsers
              /\ Between(d)' => backend' = "watch"
         /\ \A k : Pending(k)' = Pending(k) \ {c}
         /\ \A k : Cardinality(Pending(k)') <= Cardinality(Pending(k))
<1>1. ASSUME NEW d \in Callers
      PROVE  /\ check'[d].phase # "idle" =>
                  backend' # "none" /\ check'[d].scope \in Scopes /\ check'[d].replica \in Replicas
             /\ check'[d].phase \in {"user", "user admit"} => check'[d].user \in RateUsers
             /\ Between(d)' => backend' = "watch"
  BY <1>1 DEF RateTyped, Between
<1>2. ASSUME NEW k PROVE Pending(k)' = Pending(k) \ {c}
  <2>1. ~ Between(c)'
    BY DEF Between
  <2>2. \A d \in Callers \ {c} : (Between(d)' <=> Between(d)) /\ KeyOf(d)' = KeyOf(d)
    BY DEF Between, KeyOf, Dimension
  <2> QED
    BY <2>1, <2>2 DEF Pending
<1>3. ASSUME NEW k PROVE Cardinality(Pending(k)') <= Cardinality(Pending(k))
  BY <1>2, PendingTyped, FS_Subset
<1> QED
  BY <1>1, <1>2, <1>3

\* A check that is decided moves its request on.
LEMMA Proceeds ==
  ASSUME RateTyped, NEW c \in Callers, check[c].phase \in CheckingPhases,
         NEW passed \in BOOLEAN, Proceed(c, passed), backend' = backend
  PROVE  /\ check' \in [Callers -> Checks] /\ \A d \in Callers \ {c} : check'[d] = check[d]
         /\ check'[c].phase \in {"ip", "served", "refused"}
         /\ backend # "none" /\ check'[c].scope \in Scopes /\ check'[c].replica \in Replicas
<1> DEFINE r == check[c]
<1>1. r \in Checks /\ r.scope \in Scopes /\ r.replica \in Replicas /\ backend # "none"
  BY DEF RateTyped, CheckingPhases
<1>2. CASE passed /\ Dimension(c) = "user"
  <2> DEFINE q == [r EXCEPT !.phase = "ip", !.tries = 0]
  <2>1. q \in Checks /\ q.phase = "ip" /\ q.scope = r.scope /\ q.replica = r.replica
    BY <1>1 DEF Checks, RatePhases
  <2>2. check' = [check EXCEPT ![c] = q]
    BY <1>2 DEF Proceed
  <2> HIDE DEF q
  <2> QED
    BY <1>1, <2>1, <2>2 DEF RateTyped
<1>3. CASE ~ (passed /\ Dimension(c) = "user")
  <2> DEFINE q == [r EXCEPT !.phase = IF passed THEN "served" ELSE "refused"]
  <2>1. /\ q \in Checks /\ q.phase \in {"served", "refused"}
        /\ q.scope = r.scope /\ q.replica = r.replica
    BY <1>1 DEF Checks, RatePhases
  <2>2. check' = [check EXCEPT ![c] = q]
    BY <1>3 DEF Proceed
  <2> HIDE DEF q
  <2> QED
    BY <1>1, <2>1, <2>2 DEF RateTyped
<1> QED
  BY <1>2, <1>3

\* One admission more at one age is one more in all.
LEMMA OneMoreHeld ==
  \A D : \A x \in D : \A f \in [D -> Nat], g \in [D -> Nat] :
    IsFiniteSet(D) /\ g[x] = f[x] + 1 /\ (\A y \in D \ {x} : g[y] = f[y])
      => Sum(g, D) = Sum(f, D) + 1
<1> SUFFICES ASSUME NEW D, NEW x \in D, NEW f \in [D -> Nat], NEW g \in [D -> Nat],
                    IsFiniteSet(D), g[x] = f[x] + 1, \A y \in D \ {x} : g[y] = f[y]
             PROVE  Sum(g, D) = Sum(f, D) + 1
  OBVIOUS
<1>1. PICK one \in Nat : one = 1
  OBVIOUS
<1>2. g[x] = f[x] + one /\ D \in SUBSET D
  BY <1>1
<1>3. Sum(g, D) = Sum(f, D) + one
  BY <1>2, SumAdded
<1> QED
  BY <1>1, <1>3

\* Where the logs and the history stay, the bound is only about who is under way
LEMMA NothingAdmitted ==
  ASSUME RateInv, admitted' = admitted, backend' = backend,
         \A s \in Stores, k \in Keys, age \in Ages : log'[s][k][age] = log[s][k][age],
         \A k \in Keys : Cardinality(Pending(k)') <= Cardinality(Pending(k))
  PROVE  Mirrored' /\ Bounded'
<1>1. Mirrored'
  BY DEF RateInv, Mirrored
<1>2. ASSUME NEW k \in Keys
      PROVE  /\ backend' # "watch" => \A s \in Stores : Held(s, k)' <= Highest(k)
             /\ backend' = "watch" =>
                  Held("redis", k)' + Cardinality(Pending(k)') <= Highest(k) + Cardinality(Callers) - 1
  <2>1. \A s : Held(s, k)' = Held(s, k)
    BY DEF Held
  <2>2. Cardinality(Pending(k)') <= Cardinality(Pending(k)) /\ Cardinality(Pending(k)) \in Nat
    BY PendingTyped
  <2>3. IsFiniteSet(Pending(k)')
    BY RateAssumption, FS_Subset DEF Pending
  <2>4. Cardinality(Pending(k)') \in Nat
    BY <2>3, FS_CardinalityType
  <2>5. Held("redis", k) \in Nat /\ Highest(k) \in Nat /\ Cardinality(Callers) \in Nat
    BY HeldTyped, HighestBounds, PendingTyped, RateFacts DEF RateInv
  <2> QED
    BY <2>1, <2>2, <2>4, <2>5 DEF RateInv, Bounded
<1>3. Bounded'
  BY <1>2 DEF Bounded
<1> QED
  BY <1>1, <1>3

\* One more of age zero in the log of a key, and in the history
Recorded(s, k, kept) ==
  /\ log' = [log EXCEPT ![s][k] = [kept EXCEPT ![0] = @ + 1]]
  /\ admitted' = [admitted EXCEPT ![s][k][0] = @ + 1]

\* The store of a replica in memory, or the one of Redis
InUse(s) ==
  \/ backend = "memory" /\ s \in Replicas
  \/ backend \in {"lua", "watch"} /\ s = "redis"

\* An admission adds one to what its store holds of its key
LEMMA OneAdmitted ==
  ASSUME RateInv, NEW s \in Stores, NEW k \in Keys, NEW kept \in [0..(Window + 1) -> Nat],
         \A age \in Ages : kept[age] = log[s][k][age],
         Recorded(s, k, kept), backend' = backend,
         InUse(s)
  PROVE  /\ log' \in LogShape /\ admitted' \in AdmittedShape
         /\ Mirrored'
         /\ Held(s, k)' = Held(s, k) + 1
         /\ \A t \in Stores, l \in Keys : t # s \/ l # k => Held(t, l)' = Held(t, l)
<1>1. log \in LogShape /\ admitted \in AdmittedShape
  BY DEF RateInv, RateTyped
<1> DEFINE new == [kept EXCEPT ![0] = @ + 1]
           old == admitted[s][k]
           counted == [old EXCEPT ![0] = @ + 1]
<1>2. /\ new \in [0..(Window + 1) -> Nat] /\ new[0] = kept[0] + 1
      /\ \A age \in Ages : age # 0 => new[age] = kept[age]
  BY RateFacts
<1>3. /\ old \in [Ages -> Nat]
      /\ counted \in [Ages -> Nat] /\ counted[0] = old[0] + 1
      /\ \A age \in Ages : age # 0 => counted[age] = old[age]
  <2>1. old \in [Ages -> Nat]
    BY <1>1 DEF AdmittedShape
  <2>2. 0 \in Ages
    BY RateFacts
  <2>3. ASSUME NEW f \in [Ages -> Nat]
        PROVE  LET g == [f EXCEPT ![0] = @ + 1]
               IN  g \in [Ages -> Nat] /\ g[0] = f[0] + 1 /\ \A age \in Ages : age # 0 => g[age] = f[age]
    BY ONLY <2>2, <2>3
  <2> QED
    BY <2>1, <2>3
<1>4. \A age \in Ages : new[age] = counted[age]
  <2>1. \A age \in Ages : old[age] = kept[age]
    BY DEF RateInv, Mirrored
  <2>2. ASSUME NEW age \in Ages PROVE new[age] = counted[age]
    <3>1. old[age] = kept[age]
      BY <2>1
    <3>2. CASE age = 0
      BY ONLY <1>2, <1>3, <3>1, <3>2
    <3>3. CASE age # 0
      BY ONLY <2>2, <1>2, <1>3, <3>1, <3>3
    <3> QED
      BY <3>2, <3>3
  <2> QED
    BY <2>2
<1>5. /\ log'[s][k] = new
      /\ \A t \in Stores, l \in Keys : t # s \/ l # k => log'[t][l] = log[t][l]
      /\ log' \in LogShape
  <2>1. log' = [log EXCEPT ![s][k] = new]
    BY DEF Recorded
  <2> HIDE DEF new
  <2> QED
    BY <1>1, <1>2, <2>1 DEF LogShape
<1>6. /\ admitted'[s][k] = counted
      /\ \A t \in Stores, l \in Keys : t # s \/ l # k => admitted'[t][l] = admitted[t][l]
      /\ admitted' \in AdmittedShape
  BY <1>1, <1>3 DEF AdmittedShape, Recorded
<1> HIDE DEF new, counted
<1>7. Mirrored'
  <2>1. ASSUME NEW t \in Stores, NEW l \in Keys, NEW age \in Ages
        PROVE  admitted'[t][l][age] = log'[t][l][age]
    <3>1. CASE t = s /\ l = k
      BY <1>4, <1>5, <1>6, <3>1
    <3>2. CASE t # s \/ l # k
      <4>1. log'[t][l] = log[t][l] /\ admitted'[t][l] = admitted[t][l]
        BY <1>5, <1>6, <3>2
      <4>2. admitted[t][l][age] = log[t][l][age]
        BY DEF RateInv, Mirrored
      <4> QED
        BY <4>1, <4>2
    <3> QED
      BY <3>1, <3>2
  <2>2. ASSUME NEW t \in Stores, NEW l \in Keys, NEW age \in Ages
        PROVE  \/ backend' = "memory" /\ t \in Replicas
               \/ backend' \in {"lua", "watch"} /\ t = "redis"
               \/ admitted'[t][l][age] = 0
    BY <1>6 DEF RateInv, Mirrored, InUse
  <2> QED
    BY <2>1, <2>2 DEF Mirrored
<1>8. Held(s, k)' = Held(s, k) + 1
  <2> HIDE DEF old
  <2>1. Sum(counted, Ages) = Sum(old, Ages) + 1
    <3>1. \A age \in Ages \ {0} : counted[age] = old[age]
      BY <1>3
    <3>2. old \in [Ages -> Nat] /\ counted \in [Ages -> Nat] /\ counted[0] = old[0] + 1
      BY <1>3
    <3>3. IsFiniteSet(Ages) /\ 0 \in Ages
      BY RateFacts
    <3> QED
      BY <3>1, <3>2, <3>3, OneMoreHeld, Zenon
  <2> QED
    BY <2>1, <1>6 DEF Held, old
<1>9. \A t \in Stores, l \in Keys : t # s \/ l # k => Held(t, l)' = Held(t, l)
  BY <1>6 DEF Held
<1> QED
  BY <1>5, <1>6, <1>7, <1>8, <1>9

\* The limiter has admitted nothing at first.
LEMMA RateStarts == RateInit => RateInv
<1> SUFFICES ASSUME RateInit PROVE RateInv
  OBVIOUS
<1>1. RateTyped
  <2>1. log \in LogShape /\ admitted \in AdmittedShape
    BY DEF RateInit, LogShape, AdmittedShape, Unused, NoneAdmitted
  <2>2. NoCheck \in Checks /\ NoCheck.phase = "idle"
    BY DEF NoCheck, Checks, RatePhases
  <2>3. check \in [Callers -> Checks] /\ \A c \in Callers : check[c].phase = "idle"
    BY <2>2 DEF RateInit
  <2>4. backend = "none"
    BY DEF RateInit
  <2> QED
    BY <2>1, <2>3, <2>4 DEF RateTyped, Between
<1>2. \A s \in Stores, k \in Keys, age \in Ages : admitted[s][k][age] = 0 /\ log[s][k][age] = 0
  BY RateFacts DEF RateInit, Unused, NoneAdmitted
<1>3. Mirrored
  BY <1>2 DEF Mirrored
<1>4. ASSUME NEW s \in Stores, NEW k \in Keys PROVE Held(s, k) = 0
  <2>1. \A age \in Ages : admitted[s][k][age] = 0
    BY <1>2
  <2> QED
    BY <2>1, SumZero DEF Held
<1>5. Bounded
  <2>1. backend # "watch"
    BY DEF RateInit
  <2>2. \A k : Highest(k) \in Nat
    BY HighestBounds
  <2> QED
    BY <1>4, <2>1, <2>2 DEF Bounded
<1> QED
  BY <1>1, <1>3, <1>5 DEF RateInv

\* A step that admits nothing and lets a request move on
LEMMA QuietStep ==
  ASSUME RateInv, admitted' = admitted, backend' = backend, log' \in LogShape,
         \A s \in Stores, k \in Keys, age \in Ages : log'[s][k][age] = log[s][k][age],
         NEW c \in Callers,
         check' \in [Callers -> Checks], \A d \in Callers \ {c} : check'[d] = check[d],
         check'[c].phase \notin {"user admit", "ip admit"},
         check'[c].phase # "idle" => backend # "none" /\ check'[c].scope \in Scopes
                                     /\ check'[c].replica \in Replicas,
         check'[c].phase = "user" => check'[c].user \in RateUsers
  PROVE  RateInv'
<1>1. RateTyped
  BY DEF RateInv
<1>2. /\ \A d \in Callers :
           /\ check'[d].phase # "idle" =>
                backend' # "none" /\ check'[d].scope \in Scopes /\ check'[d].replica \in Replicas
           /\ check'[d].phase \in {"user", "user admit"} => check'[d].user \in RateUsers
           /\ Between(d)' => backend' = "watch"
      /\ \A k : Cardinality(Pending(k)') <= Cardinality(Pending(k))
  BY <1>1, MovesOn
<1>3. Mirrored' /\ Bounded'
  BY <1>2, NothingAdmitted
<1>4. RateTyped'
  BY <1>1, <1>2 DEF RateTyped
<1> QED
  BY <1>3, <1>4 DEF RateInv

\* A check that is decided and admits nothing
LEMMA QuietProceed ==
  ASSUME RateInv, NEW c \in Callers, check[c].phase \in CheckingPhases,
         NEW passed \in BOOLEAN, Proceed(c, passed), backend' = backend, admitted' = admitted,
         log' \in LogShape,
         \A s \in Stores, k \in Keys, age \in Ages : log'[s][k][age] = log[s][k][age]
  PROVE  RateInv'
<1>1. RateTyped
  BY DEF RateInv
<1>2. /\ check' \in [Callers -> Checks] /\ \A d \in Callers \ {c} : check'[d] = check[d]
      /\ check'[c].phase \in {"ip", "served", "refused"}
      /\ backend # "none" /\ check'[c].scope \in Scopes /\ check'[c].replica \in Replicas
  BY <1>1, Proceeds
<1>3. check'[c].phase \notin {"user admit", "ip admit"} /\ check'[c].phase # "user"
  BY <1>2
<1> QED
  BY <1>2, <1>3, QuietStep

\* A map of maps changed at one place
LEMMA ChangedAt ==
  ASSUME NEW A, NEW B, NEW C, NEW m \in [A -> [B -> C]], NEW s \in A, NEW k \in B, NEW c \in C
  PROVE  LET n == [m EXCEPT ![s][k] = c]
         IN  /\ n \in [A -> [B -> C]] /\ n[s][k] = c
             /\ \A t \in A, l \in B : t # s \/ l # k => n[t][l] = m[t][l]
OBVIOUS

\* Trimming a log keeps what the window holds
LEMMA Trimmed ==
  ASSUME RateInv, NEW s \in Stores, NEW k \in Keys,
         log' = [log EXCEPT ![s][k] = Evict(log[s][k])]
  PROVE  /\ log' \in LogShape
         /\ \A t \in Stores, l \in Keys, age \in Ages : log'[t][l][age] = log[t][l][age]
<1> DEFINE kept == Evict(log[s][k])
<1>1. kept \in [0..(Window + 1) -> Nat] /\ \A age \in Ages : kept[age] = log[s][k][age]
  BY KeptSize DEF RateInv
<1>2. log \in LogShape
  BY DEF RateInv, RateTyped
<1> HIDE DEF kept
<1>3. log' = [log EXCEPT ![s][k] = kept]
  BY DEF kept
<1>4. /\ log' \in LogShape /\ log'[s][k] = kept
      /\ \A t \in Stores, l \in Keys : t # s \/ l # k => log'[t][l] = log[t][l]
  BY <1>1, <1>2, <1>3, ChangedAt DEF LogShape
<1>5. ASSUME NEW t \in Stores, NEW l \in Keys, NEW age \in Ages
      PROVE  log'[t][l][age] = log[t][l][age]
  <2>1. CASE t = s /\ l = k
    BY <1>1, <1>4, <2>1
  <2>2. CASE t # s \/ l # k
    BY <1>4, <2>2
  <2> QED
    BY <2>1, <2>2
<1> QED
  BY <1>4, <1>5

\* check() in memory, or the Lua script: evict, count, admit in one step
LEMMA CheckAtomicKeeps ==
  ASSUME RateInv, NEW c \in Callers, CheckAtomic(c)
  PROVE  RateInv'
<1>1. RateTyped /\ Mirrored /\ Bounded
  BY DEF RateInv
<1>2. /\ backend \in {"memory", "lua"} /\ check[c].phase \in {"user", "ip"} /\ backend' = backend
      /\ check[c].phase \in {"user", "user admit", "ip", "ip admit"}
      /\ check[c].phase \in CheckingPhases
  BY DEF CheckAtomic, CheckingPhases
<1>3. /\ StoreOf(c) \in Stores /\ KeyOf(c) \in Keys /\ LimitOf(c) <= Highest(KeyOf(c))
      /\ LimitOf(c) \in Nat
      /\ IF backend = "memory" THEN StoreOf(c) \in Replicas
                               ELSE StoreOf(c) = "redis" /\ backend \in {"lua", "watch"}
  BY <1>1, <1>2, Asked
<1>4. PICK s \in Stores, k \in Keys : s = StoreOf(c) /\ k = KeyOf(c)
  BY <1>3
<1>5. /\ LimitOf(c) <= Highest(k) /\ LimitOf(c) \in Nat
      /\ IF backend = "memory" THEN s \in Replicas ELSE s = "redis" /\ backend \in {"lua", "watch"}
  BY <1>3, <1>4
<1>6. /\ Kept(c) \in [0..(Window + 1) -> Nat]
      /\ \A age \in Ages : Kept(c)[age] = log[s][k][age]
      /\ Size(Kept(c)) = Held(s, k)
  BY <1>1, <1>4, KeptSize DEF Kept
<1>7. CASE Size(Kept(c)) < LimitOf(c) /\ Admit(c, Kept(c))
  <2>1. /\ log' = [log EXCEPT ![s][k] = [Kept(c) EXCEPT ![0] = @ + 1]]
        /\ admitted' = [admitted EXCEPT ![s][k][0] = @ + 1] /\ Proceed(c, TRUE)
    BY <1>7, <1>4 DEF Admit
  <2>2. InUse(s)
    BY <1>2, <1>5 DEF InUse
  <2>3. PICK kept \in [0..(Window + 1) -> Nat] : kept = Kept(c)
    BY <1>6
  <2>4. /\ log' \in LogShape /\ admitted' \in AdmittedShape /\ Mirrored'
        /\ Held(s, k)' = Held(s, k) + 1
        /\ \A t \in Stores, l \in Keys : t # s \/ l # k => Held(t, l)' = Held(t, l)
    <3>1. \A age \in Ages : kept[age] = log[s][k][age]
      BY <1>6, <2>3
    <3>2. Recorded(s, k, kept) /\ backend' = backend
      BY <1>2, <2>1, <2>3 DEF Recorded
    <3>3. s \in Stores /\ k \in Keys
      BY <1>5
    <3>4. RateInv /\ kept \in [0..(Window + 1) -> Nat]
      OBVIOUS
    <3> QED
      BY ONLY <2>2, <3>1, <3>2, <3>3, <3>4, OneAdmitted, ZenonT(30)
  <2>5. /\ check' \in [Callers -> Checks] /\ \A d \in Callers \ {c} : check'[d] = check[d]
        /\ check'[c].phase \in {"ip", "served", "refused"}
        /\ backend # "none" /\ check'[c].scope \in Scopes /\ check'[c].replica \in Replicas
    BY <1>1, <1>2, <2>1, Proceeds
  <2>6. \A d \in Callers :
          /\ check'[d].phase # "idle" =>
               backend' # "none" /\ check'[d].scope \in Scopes /\ check'[d].replica \in Replicas
          /\ check'[d].phase \in {"user", "user admit"} => check'[d].user \in RateUsers
          /\ Between(d)' => backend' = "watch"
    <3>1. check'[c].phase \notin {"user admit", "ip admit"} /\ check'[c].phase # "user"
      BY <2>5
    <3> QED
      BY <1>1, <1>2, <2>5, <3>1, MovesOn
  <2>7. RateTyped'
    BY <1>1, <1>2, <2>4, <2>5, <2>6 DEF RateTyped
  <2>8. ASSUME NEW l \in Keys, NEW t \in Stores PROVE Held(t, l)' <= Highest(l)
    <3>1. Held(t, l) <= Highest(l) /\ Held(t, l) \in Nat /\ Highest(l) \in Nat
      BY <1>1, <1>2, HeldTyped, HighestBounds DEF Bounded
    <3>2. Held(s, k) < LimitOf(c) /\ LimitOf(c) <= Highest(k)
      BY <1>5, <1>6, <1>7
    <3>3. Held(s, k) \in Nat /\ Highest(k) \in Nat /\ LimitOf(c) \in Nat
      BY <1>1, <1>5, HeldTyped, HighestBounds
    <3>4. Held(s, k)' <= Highest(k)
      BY <2>4, <3>2, <3>3
    <3>5. CASE t = s /\ l = k
      BY <3>4, <3>5
    <3>6. CASE t # s \/ l # k
      BY <2>4, <3>1, <3>6
    <3> QED
      BY <3>5, <3>6
  <2>9. Bounded'
    BY <1>2, <2>8 DEF Bounded
  <2> QED
    BY <2>4, <2>7, <2>9 DEF RateInv
<1>8. CASE /\ log' = [log EXCEPT ![s][k] = Kept(c)] /\ Proceed(c, FALSE)
           /\ UNCHANGED admitted
  <2>1. /\ log' \in LogShape
        /\ \A t \in Stores, l \in Keys, age \in Ages : log'[t][l][age] = log[t][l][age]
    <3>1. log' = [log EXCEPT ![s][k] = Evict(log[s][k])]
      BY <1>4, <1>8 DEF Kept
    <3> QED
      BY <3>1, Trimmed
  <2>2. FALSE \in BOOLEAN
    OBVIOUS
  <2> QED
    BY <1>2, <1>8, <2>1, <2>2, QuietProceed
<1> QED
  BY <1>7, <1>8, <1>4 DEF CheckAtomic

\* An error of Redis lets the request pass and counts nothing.
LEMMA AdmitFreeKeeps ==
  ASSUME RateInv, NEW c \in Callers, check[c].phase \in CheckingPhases, AdmitFree(c)
  PROVE  RateInv'
<1>1. /\ log' \in LogShape /\ backend' = backend /\ admitted' = admitted /\ Proceed(c, TRUE)
      /\ \A s \in Stores, k \in Keys, age \in Ages : log'[s][k][age] = log[s][k][age]
  BY DEF AdmitFree, RateInv, RateTyped
<1> QED
  BY <1>1, QuietProceed

\* A transaction that found the key changed is tried again.
LEMMA WatchConflictKeeps ==
  ASSUME RateInv, NEW c \in Callers, WatchConflict(c)
  PROVE  RateInv'
<1>1. check[c].phase \in {"user", "ip"} /\ check[c].phase \in CheckingPhases
  BY DEF WatchConflict, CheckingPhases
<1>2. CASE AdmitFree(c)
  BY <1>1, <1>2, AdmitFreeKeeps
<1>3. CASE /\ check' = [check EXCEPT ![c].tries = @ + 1] /\ UNCHANGED <<backend, log, admitted>>
  <2> DEFINE r == check[c]
  <2>1. r \in Checks /\ r.scope \in Scopes /\ r.replica \in Replicas /\ backend # "none"
        /\ (r.phase = "user" => r.user \in RateUsers)
    BY <1>1 DEF RateInv, RateTyped
  <2>2. PICK n \in Nat : n = r.tries + 1
    BY <2>1 DEF Checks
  <2> DEFINE q == [r EXCEPT !.tries = n]
  <2>3. /\ q \in Checks /\ q.phase = r.phase /\ q.scope = r.scope /\ q.replica = r.replica
        /\ q.user = r.user
    BY <2>1 DEF Checks
  <2>4. check' = [check EXCEPT ![c] = q]
    BY <1>3, <2>2
  <2> HIDE DEF q
  <2>5. check' \in [Callers -> Checks] /\ check'[c] = q /\ \A d \in Callers \ {c} : check'[d] = check[d]
    BY <2>3, <2>4 DEF RateInv, RateTyped
  <2>6. /\ log' \in LogShape /\ backend' = backend /\ admitted' = admitted
        /\ \A s \in Stores, k \in Keys, age \in Ages : log'[s][k][age] = log[s][k][age]
    BY <1>3 DEF RateInv, RateTyped
  <2>7. /\ check'[c].phase \notin {"user admit", "ip admit"}
        /\ backend # "none" /\ check'[c].scope \in Scopes /\ check'[c].replica \in Replicas
        /\ check'[c].phase = "user" => check'[c].user \in RateUsers
    BY <1>1, <2>1, <2>3, <2>5
  <2> QED
    BY <2>5, <2>6, <2>7, QuietStep
<1> QED
  BY <1>2, <1>3 DEF WatchConflict

\* A request comes in.
LEMMA RequestKeeps ==
  ASSUME RateInv, NEW c \in Callers, NEW u \in RateUsers \cup {"none"}, NEW s \in Scopes,
         NEW r \in Replicas, Request(c, u, s, r)
  PROVE  RateInv'
<1> DEFINE q == [phase |-> IF u = "none" THEN "ip" ELSE "user", user |-> u,
                 scope |-> s, replica |-> r, tries |-> 0]
<1>1. /\ q \in Checks /\ q.phase \in {"ip", "user"} /\ q.scope = s /\ q.replica = r
      /\ (q.phase = "user" => q.user \in RateUsers)
  BY DEF Checks, RatePhases
<1>2. check' = [check EXCEPT ![c] = q] /\ backend # "none"
  BY DEF Request
<1> HIDE DEF q
<1>3. check' \in [Callers -> Checks] /\ check'[c] = q /\ \A d \in Callers \ {c} : check'[d] = check[d]
  BY <1>1, <1>2 DEF RateInv, RateTyped
<1>4. /\ log' \in LogShape /\ backend' = backend /\ admitted' = admitted
      /\ \A t \in Stores, k \in Keys, age \in Ages : log'[t][k][age] = log[t][k][age]
  BY DEF RateInv, RateTyped, Request
<1>5. /\ check'[c].phase \notin {"user admit", "ip admit"}
      /\ backend # "none" /\ check'[c].scope \in Scopes /\ check'[c].replica \in Replicas
      /\ check'[c].phase = "user" => check'[c].user \in RateUsers
  BY <1>1, <1>2, <1>3
<1> QED
  BY <1>3, <1>4, <1>5, QuietStep

\* A request is answered.
LEMMA AnsweredKeeps ==
  ASSUME RateInv, NEW c \in Callers, Answered(c)
  PROVE  RateInv'
<1>1. NoCheck \in Checks /\ NoCheck.phase = "idle"
  BY DEF NoCheck, Checks, RatePhases
<1>2. /\ check' \in [Callers -> Checks] /\ check'[c] = NoCheck
      /\ \A d \in Callers \ {c} : check'[d] = check[d]
  BY <1>1 DEF RateInv, RateTyped, Answered
<1>3. /\ log' \in LogShape /\ backend' = backend /\ admitted' = admitted
      /\ \A t \in Stores, k \in Keys, age \in Ages : log'[t][k][age] = log[t][k][age]
  BY DEF RateInv, RateTyped, Answered
<1>4. check'[c].phase = "idle"
  BY <1>1, <1>2
<1>5. /\ check'[c].phase \notin {"user admit", "ip admit"} /\ check'[c].phase # "user"
  BY <1>4
<1> QED
  BY <1>2, <1>3, <1>4, <1>5, QuietStep

\* The arithmetic of WATCH: below the limit there is room for one more with
\* the others about to be admitted.
LEMMA RoomLeft ==
  \A h, p, m, z, n \in Nat : h < p /\ p <= m /\ z <= n => h + z <= m + n - 1
OBVIOUS

\* The first transaction of WATCH evicts and counts.
LEMMA WatchRoundKeeps ==
  ASSUME RateInv, NEW c \in Callers, WatchRound(c)
  PROVE  RateInv'
<1>1. RateTyped /\ Mirrored /\ Bounded
  BY DEF RateInv
<1>2. /\ backend = "watch" /\ check[c].phase \in {"user", "ip"} /\ backend' = backend
      /\ check[c].phase \in {"user", "user admit", "ip", "ip admit"}
      /\ check[c].phase \in CheckingPhases /\ admitted' = admitted
  BY DEF WatchRound, CheckingPhases
<1>3. /\ StoreOf(c) = "redis" /\ KeyOf(c) \in Keys /\ LimitOf(c) <= Highest(KeyOf(c))
      /\ LimitOf(c) \in Nat
  BY <1>1, <1>2, Asked
<1>4. PICK k \in Keys : k = KeyOf(c)
  BY <1>3
<1>5. Size(Kept(c)) = Held("redis", k)
  BY <1>1, <1>3, <1>4, RateFacts, KeptSize DEF Kept
<1>6. /\ log' \in LogShape
      /\ \A t \in Stores, l \in Keys, age \in Ages : log'[t][l][age] = log[t][l][age]
  <2>1. log' = [log EXCEPT !["redis"][k] = Evict(log["redis"][k])]
    BY <1>3, <1>4 DEF WatchRound, Kept
  <2> QED
    BY <2>1, RateFacts, Trimmed
<1>7. CASE Size(Kept(c)) < LimitOf(c)
  <2> DEFINE r == check[c]
  <2>1. /\ r \in Checks /\ r.scope \in Scopes /\ r.replica \in Replicas
        /\ (r.phase = "user" => r.user \in RateUsers)
    BY <1>1, <1>2 DEF RateTyped
  <2>2. PICK p \in {"user admit", "ip admit"} : p = IF r.phase = "user" THEN "user admit" ELSE "ip admit"
    OBVIOUS
  <2> DEFINE q == [r EXCEPT !.phase = p]
  <2>3. /\ q \in Checks /\ q.phase = p /\ q.scope = r.scope /\ q.replica = r.replica
        /\ q.user = r.user
    BY <2>1 DEF Checks, RatePhases
  <2>4. check' = [check EXCEPT ![c] = q]
    BY <1>7, <2>2 DEF WatchRound
  <2> HIDE DEF q
  <2>5. check' \in [Callers -> Checks] /\ check'[c] = q /\ \A d \in Callers \ {c} : check'[d] = check[d]
    BY <1>1, <2>3, <2>4 DEF RateTyped
  <2>6. /\ p = "user admit" => check'[c].user \in RateUsers
        /\ check'[c].phase = p /\ check'[c].scope \in Scopes /\ check'[c].replica \in Replicas
    BY <2>1, <2>2, <2>3, <2>5
  <2>7. \A d \in Callers :
          /\ check'[d].phase # "idle" =>
               backend' # "none" /\ check'[d].scope \in Scopes /\ check'[d].replica \in Replicas
          /\ check'[d].phase \in {"user", "user admit"} => check'[d].user \in RateUsers
          /\ Between(d)' => backend' = "watch"
    BY <1>1, <1>2, <2>5, <2>6 DEF RateTyped, Between
  <2>8. RateTyped'
    BY <1>1, <1>2, <1>6, <2>5, <2>7 DEF RateTyped
  <2>9. Mirrored'
    <3>1. ASSUME NEW t \in Stores, NEW l \in Keys, NEW age \in Ages
          PROVE  admitted'[t][l][age] = log'[t][l][age]
      <4>1. admitted[t][l][age] = log[t][l][age]
        BY <1>1 DEF Mirrored
      <4> QED
        BY <1>2, <1>6, <4>1
    <3>2. ASSUME NEW t \in Stores, NEW l \in Keys, NEW age \in Ages
          PROVE  \/ backend' = "memory" /\ t \in Replicas
                 \/ backend' \in {"lua", "watch"} /\ t = "redis"
                 \/ admitted'[t][l][age] = 0
      BY <1>1, <1>2 DEF Mirrored
    <3> QED
      BY <3>1, <3>2 DEF Mirrored
  <2>10. KeyOf(c)' = k
    <3>1. (Dimension(c) = "user")' <=> Dimension(c) = "user"
      BY <1>2, <2>2, <2>6 DEF Dimension
    <3>2. check'[c].user = check[c].user
      BY <2>3, <2>5
    <3> QED
      BY <1>4, <3>1, <3>2 DEF KeyOf
  <2>11. \A d \in Callers \ {c} : (Between(d)' <=> Between(d)) /\ KeyOf(d)' = KeyOf(d)
    BY <2>5 DEF Between, KeyOf, Dimension
  <2>12. ASSUME NEW l \in Keys
         PROVE  Held("redis", l)' + Cardinality(Pending(l)') <= Highest(l) + Cardinality(Callers) - 1
    <3>1. Held("redis", l)' = Held("redis", l)
      BY <1>2 DEF Held
    <3>2. /\ Held("redis", l) \in Nat /\ Highest(l) \in Nat /\ Cardinality(Callers) \in Nat
          /\ Cardinality(Pending(l)) \in Nat
          /\ Held("redis", l) + Cardinality(Pending(l)) <= Highest(l) + Cardinality(Callers) - 1
      BY <1>1, <1>2, HeldTyped, HighestBounds, PendingTyped, RateFacts DEF Bounded
    <3>3. CASE l = k
      <4>1. Pending(l)' \in SUBSET Callers
        BY DEF Pending
      <4>2. Cardinality(Pending(l)') \in Nat /\ Cardinality(Pending(l)') <= Cardinality(Callers)
        BY <4>1, RateAssumption, FS_Subset, FS_CardinalityType
      <4>3. Held("redis", l) < LimitOf(c) /\ LimitOf(c) <= Highest(l) /\ LimitOf(c) \in Nat
        BY <1>3, <1>4, <1>5, <1>7, <3>3
      <4>4. Held("redis", l) + Cardinality(Pending(l)') <= Highest(l) + Cardinality(Callers) - 1
        BY <3>2, <4>2, <4>3, RoomLeft, Zenon
      <4> QED
        BY <3>1, <4>4, Zenon
    <3>4. CASE l # k
      <4>1. Pending(l)' = Pending(l)
        <5>1. c \notin Pending(l) /\ c \notin Pending(l)'
          BY <1>4, <2>10, <3>4 DEF Pending
        <5> QED
          BY <2>11, <5>1 DEF Pending
      <4> QED
        BY <3>1, <3>2, <4>1
    <3> QED
      BY <3>3, <3>4
  <2>13. Bounded'
    BY <1>2, <2>12 DEF Bounded
  <2> QED
    BY <2>8, <2>9, <2>13 DEF RateInv
<1>8. CASE Proceed(c, FALSE)
  <2>1. FALSE \in BOOLEAN
    OBVIOUS
  <2> QED
    BY <1>2, <1>6, <1>8, <2>1, QuietProceed
<1> QED
  BY <1>7, <1>8 DEF WatchRound

\* The second one admits, without a second count.
LEMMA WatchAdmitKeeps ==
  ASSUME RateInv, NEW c \in Callers, WatchAdmit(c)
  PROVE  RateInv'
<1>1. RateTyped /\ Mirrored /\ Bounded
  BY DEF RateInv
<1>2. /\ check[c].phase \in {"user", "user admit", "ip", "ip admit"}
      /\ check[c].phase \in CheckingPhases /\ Between(c) /\ backend = "watch" /\ backend' = backend
  BY DEF WatchAdmit, CheckingPhases, Between, RateInv, RateTyped
<1>3. StoreOf(c) = "redis" /\ KeyOf(c) \in Keys
  BY <1>1, <1>2, Asked
<1>4. PICK k \in Keys : k = KeyOf(c)
  BY <1>3
<1>5. PICK kept \in [0..(Window + 1) -> Nat] : kept = log["redis"][k]
  BY <1>1, RateFacts DEF RateTyped, LogShape
<1>6. Recorded("redis", k, kept) /\ Proceed(c, TRUE)
  BY <1>3, <1>4, <1>5 DEF WatchAdmit, Admit, Recorded
<1>7. /\ log' \in LogShape /\ admitted' \in AdmittedShape /\ Mirrored'
      /\ Held("redis", k)' = Held("redis", k) + 1
      /\ \A t \in Stores, l \in Keys : t # "redis" \/ l # k => Held(t, l)' = Held(t, l)
  <2>1. PICK s \in Stores : s = "redis"
    BY RateFacts
  <2>2. Recorded(s, k, kept) /\ \A age \in Ages : kept[age] = log[s][k][age]
    BY <1>5, <1>6, <2>1
  <2>3. InUse(s) /\ backend' = backend
    BY <1>2, <2>1 DEF InUse
  <2>4. /\ log' \in LogShape /\ admitted' \in AdmittedShape /\ Mirrored'
        /\ Held(s, k)' = Held(s, k) + 1
        /\ \A t \in Stores, l \in Keys : t # s \/ l # k => Held(t, l)' = Held(t, l)
    <3>1. RateInv /\ kept \in [0..(Window + 1) -> Nat] /\ s \in Stores /\ k \in Keys
      OBVIOUS
    <3> QED
      BY ONLY <2>2, <2>3, <3>1, OneAdmitted, ZenonT(30)
  <2> QED
    BY <2>1, <2>4
<1>8. /\ check' \in [Callers -> Checks] /\ \A d \in Callers \ {c} : check'[d] = check[d]
      /\ check'[c].phase \in {"ip", "served", "refused"}
      /\ backend # "none" /\ check'[c].scope \in Scopes /\ check'[c].replica \in Replicas
  BY <1>1, <1>2, <1>6, Proceeds
<1>9. /\ \A d \in Callers :
           /\ check'[d].phase # "idle" =>
                backend' # "none" /\ check'[d].scope \in Scopes /\ check'[d].replica \in Replicas
           /\ check'[d].phase \in {"user", "user admit"} => check'[d].user \in RateUsers
           /\ Between(d)' => backend' = "watch"
      /\ \A l : Pending(l)' = Pending(l) \ {c}
  <2>1. check'[c].phase \notin {"user admit", "ip admit"} /\ check'[c].phase # "user"
    BY <1>8
  <2> QED
    BY <1>1, <1>2, <1>8, <2>1, MovesOn
<1>10. RateTyped'
  BY <1>1, <1>2, <1>7, <1>8, <1>9 DEF RateTyped
<1>11. ASSUME NEW l \in Keys
       PROVE  Held("redis", l)' + Cardinality(Pending(l)') <= Highest(l) + Cardinality(Callers) - 1
  <2>1. /\ Held("redis", l) \in Nat /\ Highest(l) \in Nat /\ Cardinality(Callers) \in Nat
        /\ Cardinality(Pending(l)) \in Nat /\ IsFiniteSet(Pending(l))
        /\ Held("redis", l) + Cardinality(Pending(l)) <= Highest(l) + Cardinality(Callers) - 1
    BY <1>1, <1>2, HeldTyped, HighestBounds, PendingTyped, RateFacts DEF Bounded
  <2>2. Cardinality(Pending(l) \ {c}) = IF c \in Pending(l) THEN Cardinality(Pending(l)) - 1
                                                           ELSE Cardinality(Pending(l))
    BY <2>1, FS_RemoveElement
  <2>3. c \in Pending(l) <=> l = k
    BY <1>2, <1>4 DEF Pending
  <2>4. CASE l = k
    <3>1. Held("redis", l)' = Held("redis", l) + 1
      BY <1>7, <2>4
    <3>2. Cardinality(Pending(l)') = Cardinality(Pending(l)) - 1
      BY <1>9, <2>2, <2>3, <2>4
    <3> QED
      BY <2>1, <3>1, <3>2
  <2>5. CASE l # k
    BY <1>7, <1>9, <2>1, <2>2, <2>3, <2>5, RateFacts
  <2> QED
    BY <2>4, <2>5
<1>12. Bounded'
  BY <1>2, <1>11 DEF Bounded
<1> QED
  BY <1>7, <1>10, <1>12 DEF RateInv

\* The limiter is built with one of its backends.
LEMMA ChooseBackendKeeps ==
  ASSUME RateInv, NEW b \in {"memory", "lua", "watch"}, ChooseBackend(b)
  PROVE  RateInv'
<1>1. backend = "none" /\ backend' = b /\ UNCHANGED <<log, check, admitted>>
  BY DEF ChooseBackend
<1>2. RateTyped /\ Mirrored
  BY DEF RateInv
<1>3. \A c \in Callers : check[c].phase = "idle" /\ ~ Between(c)
  BY <1>1, <1>2 DEF RateTyped, Between
<1>4. RateTyped'
  BY <1>1, <1>2, <1>3 DEF RateTyped, Between
<1>5. \A s \in Stores, k \in Keys, age \in Ages : admitted[s][k][age] = 0
  BY <1>1, <1>2 DEF Mirrored
<1>6. Mirrored'
  BY <1>1, <1>2, <1>5 DEF Mirrored
<1>7. ASSUME NEW s \in Stores, NEW k \in Keys PROVE Held(s, k)' = 0
  <2>1. \A age \in Ages : admitted'[s][k][age] = 0
    BY <1>1, <1>5
  <2> QED
    BY <2>1, SumZero DEF Held
<1>8. ASSUME NEW k \in Keys
      PROVE  /\ \A s \in Stores : Held(s, k)' <= Highest(k)
             /\ Held("redis", k)' + Cardinality(Pending(k)') <= Highest(k) + Cardinality(Callers) - 1
  <2>1. Highest(k) \in Nat /\ Highest(k) >= 1 /\ Cardinality(Callers) \in Nat
    BY HighestBounds, PendingTyped
  <2>2. Pending(k)' = {}
    BY <1>1, <1>3 DEF Pending, Between
  <2>3. Cardinality(Pending(k)') = 0
    BY <2>2, FS_EmptySet
  <2> QED
    BY <1>7, <2>1, <2>3, RateFacts
<1>9. Bounded'
  BY <1>8 DEF Bounded
<1> QED
  BY <1>4, <1>6, <1>9 DEF RateInv

\* reset() forgets everything.
LEMMA ResetAllKeeps ==
  ASSUME RateInv, ResetAll
  PROVE  RateInv'
<1>1. /\ log' = Unused /\ admitted' = NoneAdmitted /\ UNCHANGED <<backend, check>>
      /\ \A c \in Callers : check[c].phase = "idle"
  BY DEF ResetAll
<1>2. RateTyped
  BY DEF RateInv
<1>3. log' \in LogShape /\ admitted' \in AdmittedShape
  BY <1>1 DEF LogShape, AdmittedShape, Unused, NoneAdmitted
<1>4. RateTyped'
  BY <1>1, <1>2, <1>3 DEF RateTyped, Between
<1>5. \A s \in Stores, k \in Keys, age \in Ages : admitted'[s][k][age] = 0 /\ log'[s][k][age] = 0
  BY <1>1, RateFacts DEF Unused, NoneAdmitted
<1>6. Mirrored'
  BY <1>5 DEF Mirrored
<1>7. ASSUME NEW s \in Stores, NEW k \in Keys PROVE Held(s, k)' = 0
  <2>1. \A age \in Ages : admitted'[s][k][age] = 0
    BY <1>5
  <2> QED
    BY <2>1, SumZero DEF Held
<1>8. ASSUME NEW k \in Keys
      PROVE  /\ \A s \in Stores : Held(s, k)' <= Highest(k)
             /\ Held("redis", k)' + Cardinality(Pending(k)') <= Highest(k) + Cardinality(Callers) - 1
  <2>1. Highest(k) \in Nat /\ Highest(k) >= 1 /\ Cardinality(Callers) \in Nat
    BY HighestBounds, PendingTyped
  <2>2. Pending(k)' = {}
    BY <1>1 DEF Pending, Between
  <2>3. Cardinality(Pending(k)') = 0
    BY <2>2, FS_EmptySet
  <2> QED
    BY <1>7, <2>1, <2>3, RateFacts
<1>9. Bounded'
  BY <1>8 DEF Bounded
<1> QED
  BY <1>4, <1>6, <1>9 DEF RateInv

\* The time: every admission is a tick older, the oldest leave the window.
LEMMA RateTickKeeps ==
  ASSUME RateInv, RateTick
  PROVE  RateInv'
<1>1. /\ UNCHANGED <<backend, check>> /\ \A c \in Callers : check[c].phase = "idle"
  BY DEF RateTick
<1>2. RateTyped /\ Mirrored /\ Bounded /\ log \in LogShape /\ admitted \in AdmittedShape
  BY DEF RateInv, RateTyped
<1>3. ASSUME NEW s \in Stores, NEW k \in Keys
      PROVE  /\ log[s][k] \in [0..(Window + 1) -> Nat] /\ admitted[s][k] \in [Ages -> Nat]
             /\ log'[s][k] = [age \in 0..(Window + 1) |->
                  CASE age = 0 -> 0
                    [] age \in 1..Window -> log[s][k][age - 1]
                    [] OTHER -> log[s][k][Window] + log[s][k][Window + 1]]
             /\ admitted'[s][k] = [age \in Ages |->
                  IF age = 0 THEN 0 ELSE admitted[s][k][age - 1]]
  BY <1>2 DEF RateTick, LogShape, AdmittedShape
<1>4. ASSUME NEW s \in Stores, NEW k \in Keys
      PROVE  /\ log'[s][k] \in [0..(Window + 1) -> Nat]
             /\ log'[s][k][0] = 0
             /\ \A age \in 1..Window : log'[s][k][age] = log[s][k][age - 1]
  <2> DEFINE h == log[s][k]
             new == [age \in 0..(Window + 1) |->
                  CASE age = 0 -> 0
                    [] age \in 1..Window -> h[age - 1]
                    [] OTHER -> h[Window] + h[Window + 1]]
  <2>1. h \in [0..(Window + 1) -> Nat] /\ log'[s][k] = new
    BY <1>3
  <2> HIDE DEF h
  <2>2. ASSUME NEW age \in 0..(Window + 1)
        PROVE  (CASE age = 0 -> 0
                  [] age \in 1..Window -> h[age - 1]
                  [] OTHER -> h[Window] + h[Window + 1]) \in Nat
    <3>1. CASE age = 0
      BY <3>1
    <3>2. CASE age \in 1..Window
      BY <2>1, <3>2, RateFacts
    <3>3. CASE age # 0 /\ age \notin 1..Window
      BY <2>1, <3>3, RateFacts
    <3> QED
      BY <3>1, <3>2, <3>3
  <2>3. new \in [0..(Window + 1) -> Nat]
    BY <2>2
  <2>4. new[0] = 0 /\ \A age \in 1..Window : new[age] = h[age - 1]
    BY RateFacts
  <2> QED
    BY <2>1, <2>3, <2>4 DEF h
<1>5. ASSUME NEW s \in Stores, NEW k \in Keys
      PROVE  /\ admitted'[s][k] \in [Ages -> Nat]
             /\ admitted'[s][k][0] = 0
             /\ \A age \in 1..Window : admitted'[s][k][age] = admitted[s][k][age - 1]
  <2> DEFINE h == admitted[s][k]
             new == [age \in Ages |-> IF age = 0 THEN 0 ELSE h[age - 1]]
  <2>1. h \in [Ages -> Nat] /\ admitted'[s][k] = new
    BY <1>3
  <2> HIDE DEF h
  <2>2. \A age \in Ages : age = 0 \/ age - 1 \in Ages
    BY RateFacts
  <2>3. new \in [Ages -> Nat]
    BY <2>1, <2>2
  <2>4. new[0] = 0 /\ \A age \in 1..Window : new[age] = h[age - 1]
    BY RateFacts
  <2> QED
    BY <2>1, <2>3, <2>4 DEF h
<1>6. log' \in LogShape /\ admitted' \in AdmittedShape
  <2>1. \E f : log' = [s \in Stores |-> [k \in Keys |-> f[s][k]]] /\ f = log'
    <3>1. log' = [s \in Stores |-> [k \in Keys |-> log'[s][k]]]
      BY DEF RateTick
    <3> QED
      BY <3>1
  <2>2. admitted' = [s \in Stores |-> [k \in Keys |-> admitted'[s][k]]]
    BY DEF RateTick
  <2> QED
    BY <1>4, <1>5, <2>1, <2>2 DEF LogShape, AdmittedShape
<1>7. RateTyped'
  BY <1>1, <1>2, <1>6 DEF RateTyped, Between
<1>8. \A age \in Ages : age = 0 \/ (age \in 1..Window /\ age - 1 \in Ages)
  BY RateFacts
<1>9. Mirrored'
  <2>1. ASSUME NEW s \in Stores, NEW k \in Keys, NEW age \in Ages
        PROVE  admitted'[s][k][age] = log'[s][k][age]
    <3>1. CASE age = 0
      BY <1>4, <1>5, <3>1
    <3>2. CASE age \in 1..Window /\ age - 1 \in Ages
      <4>1. admitted[s][k][age - 1] = log[s][k][age - 1]
        BY <1>2, <3>2 DEF Mirrored
      <4> QED
        BY <1>4, <1>5, <3>2, <4>1
    <3> QED
      BY <1>8, <3>1, <3>2
  <2>2. ASSUME NEW s \in Stores, NEW k \in Keys, NEW age \in Ages
        PROVE  \/ backend' = "memory" /\ s \in Replicas
               \/ backend' \in {"lua", "watch"} /\ s = "redis"
               \/ admitted'[s][k][age] = 0
    <3>1. CASE age = 0
      BY <1>5, <3>1
    <3>2. CASE age \in 1..Window /\ age - 1 \in Ages
      <4>1. InUse(s) \/ admitted[s][k][age - 1] = 0
        BY <1>2, <3>2 DEF Mirrored, InUse
      <4> QED
        BY <1>1, <1>5, <3>2, <4>1 DEF InUse
    <3> QED
      BY <1>8, <3>1, <3>2
  <2> QED
    BY <2>1, <2>2 DEF Mirrored
<1>10. ASSUME NEW s \in Stores, NEW k \in Keys
       PROVE  Held(s, k)' <= Held(s, k) /\ Held(s, k)' \in Nat /\ Held(s, k) \in Nat
  <2> DEFINE f == admitted[s][k]
             g == admitted'[s][k]
  <2>1. /\ f \in [0..Window -> Nat] /\ g \in [0..Window -> Nat] /\ g[0] = 0
        /\ \A age \in 1..Window : g[age] = f[age - 1]
    BY <1>3, <1>5, RateFacts
  <2> HIDE DEF f, g
  <2>2. Sum(g, 0..Window) <= Sum(f, 0..Window)
    BY <2>1, RateFacts, SumShifted
  <2>3. Sum(g, Ages) \in Nat /\ Sum(f, Ages) \in Nat
    BY <2>1, RateFacts, UnitsFinite
  <2> QED
    BY <2>2, <2>3, RateFacts DEF f, g, Held
<1>11. ASSUME NEW k \in Keys
       PROVE  /\ backend' # "watch" => \A s \in Stores : Held(s, k)' <= Highest(k)
              /\ backend' = "watch" =>
                   Held("redis", k)' + Cardinality(Pending(k)') <= Highest(k) + Cardinality(Callers) - 1
  <2>1. Highest(k) \in Nat /\ Cardinality(Callers) \in Nat /\ Cardinality(Pending(k)) \in Nat
    BY HighestBounds, PendingTyped
  <2>2. Pending(k)' = {} /\ Pending(k) = {}
    BY <1>1 DEF Pending, Between
  <2>3. Cardinality(Pending(k)') = 0 /\ Cardinality(Pending(k)) = 0
    BY <2>2, FS_EmptySet
  <2> QED
    BY <1>1, <1>2, <1>10, <2>1, <2>3, RateFacts DEF Bounded
<1>12. Bounded'
  BY <1>11 DEF Bounded
<1> QED
  BY <1>7, <1>9, <1>12 DEF RateInv

\* Nothing changes.
LEMMA RateIdleKeeps ==
  ASSUME RateInv, UNCHANGED rateVars
  PROVE  RateInv'
<1>1. RateTyped' /\ Mirrored'
  <2>1. UNCHANGED <<backend, log, check, admitted>>
    BY DEF rateVars
  <2>2. RateTyped'
    <3>1. RateTyped
      BY DEF RateInv
    <3> QED
      BY ONLY <2>1, <3>1 DEF RateTyped, Between, LogShape, AdmittedShape
  <2>3. Mirrored'
    <3>1. Mirrored
      BY DEF RateInv
    <3> QED
      BY ONLY <2>1, <3>1 DEF Mirrored
  <2> QED
    BY <2>2, <2>3
<1>2. \A s, k : Held(s, k)' = Held(s, k) /\ Pending(k)' = Pending(k)
  BY DEF Held, Pending, Between, KeyOf, Dimension, rateVars
<1>3. Bounded'
  BY <1>2 DEF RateInv, Bounded, rateVars
<1> QED
  BY <1>1, <1>3 DEF RateInv

\* Every step keeps the invariant.
LEMMA RateStep == RateInv /\ [RateNext]_rateVars => RateInv'
<1> SUFFICES ASSUME RateInv, [RateNext]_rateVars PROVE RateInv'
  OBVIOUS
<1>1. ASSUME NEW c \in Callers, RedisFails(c) PROVE RateInv'
  BY <1>1, AdmitFreeKeeps DEF RedisFails, CheckingPhases
<1> QED
  BY <1>1, ChooseBackendKeeps, RequestKeeps, CheckAtomicKeeps, WatchRoundKeeps, WatchAdmitKeeps,
     WatchConflictKeeps, AnsweredKeeps, ResetAllKeeps, RateTickKeeps, RateIdleKeeps DEF RateNext

\* The invariant gives the property: the stores that are not in use hold nothing.
LEMMA RateInvSays == RateInv => WindowsBounded
<1> SUFFICES ASSUME RateInv, NEW k \in Keys
             PROVE  InWindow(k) <=
                      CASE backend = "memory" -> Highest(k) * Cardinality(Replicas)
                        [] backend = "watch" -> Highest(k) + Cardinality(Callers) - 1
                        [] OTHER -> Highest(k)
  BY DEF WindowsBounded
<1> DEFINE held == [s \in Stores |-> Held(s, k)]
<1>1. RateTyped /\ Mirrored /\ Bounded
  BY DEF RateInv
<1>2. held \in [Stores -> Nat]
  BY <1>1, HeldTyped
<1>3. InWindow(k) = Sum(held, Stores)
  BY DEF InWindow, Held
<1>4. Highest(k) \in Nat /\ Cardinality(Callers) \in Nat /\ Cardinality(Pending(k)) \in Nat
  BY HighestBounds, PendingTyped
<1>5. ASSUME NEW s \in Stores, \A age \in Ages : admitted[s][k][age] = 0
      PROVE  held[s] = 0
  BY <1>5, SumZero DEF Held
<1>6. \A s \in Stores : held[s] = Held(s, k)
  OBVIOUS
<1> HIDE DEF held
<1>7. CASE backend = "memory"
  <2>1. \A s \in Stores \ Replicas : held[s] = 0
    BY <1>1, <1>5, <1>7 DEF Mirrored
  <2>2. Replicas \in SUBSET Stores
    BY DEF Stores
  <2>3. Sum(held, Stores) = Sum(held, Replicas)
    BY <2>1, <2>2, SumOfPart
  <2>4. \A s \in Replicas : held[s] <= Highest(k)
    BY <1>1, <1>6, <1>7, <2>2 DEF Bounded
  <2>5. Sum(held, Replicas) <= Highest(k) * Cardinality(Replicas)
    BY <1>2, <1>4, <2>2, <2>4, UnitsOver, RateAssumption
  <2> QED
    BY <1>3, <1>7, <2>3, <2>5
<1>8. CASE backend # "memory"
  <2>1. \A s \in Stores \ {"redis"} : held[s] = 0
    BY <1>1, <1>5, <1>8 DEF Mirrored
  <2>2. {"redis"} \in SUBSET Stores
    BY RateFacts
  <2>3. Sum(held, Stores) = Sum(held, {"redis"})
    BY <2>1, <2>2, SumOfPart
  <2>4. IsFiniteSet({"redis"}) /\ Cardinality({"redis"}) = 1
    BY FS_Singleton
  <2>5. PICK n \in Nat : n = held["redis"]
    BY <1>2, RateFacts
  <2>6. Sum(held, {"redis"}) <= n * Cardinality({"redis"})
    BY <1>2, <2>2, <2>4, <2>5, UnitsOver
  <2>7. Sum(held, {"redis"}) \in Nat
    BY <1>2, <2>2, <2>4, UnitsFinite
  <2>8. InWindow(k) <= Held("redis", k) /\ InWindow(k) \in Nat /\ Held("redis", k) \in Nat
    BY <1>3, <1>6, <2>3, <2>4, <2>5, <2>6, <2>7, RateFacts
  <2>9. CASE backend = "watch"
    BY <1>1, <1>4, <1>8, <2>8, <2>9 DEF Bounded
  <2>10. CASE backend # "watch"
    BY <1>1, <1>4, <1>8, <2>8, <2>10, RateFacts DEF Bounded
  <2> QED
    BY <2>9, <2>10
<1> QED
  BY <1>7, <1>8

\* core/rate_limit/: no window of a key holds more admissions than the largest
\* limit that applies to it, times the replicas in memory, and with WATCH at most
\* one more for every other check under way.
THEOREM WindowsBoundedHolds == RateSpec => []WindowsBounded
<1>1. RateInit => RateInv
  BY RateStarts
<1>2. RateInv /\ [RateNext]_rateVars => RateInv'
  BY RateStep
<1>3. RateInv => WindowsBounded
  BY RateInvSays
<1> QED
  BY <1>1, <1>2, <1>3, PTL DEF RateSpec

==============================================================================
