---------------------------- MODULE RecordProofs ----------------------------
(*****************************************************************************)
(* What the system keeps a record of: the audit log and the archives of its  *)
(* backups.  For any sizes, writers, days, components and retention.         *)
(*****************************************************************************)
EXTENDS AuditLog, Backup, Positions, TLAPS, FiniteSetTheorems, SequenceTheorems

------------------------------------------------------------------------------
(*****************************************************************************)
(* Elements of sequences, and what is picked from one.                       *)
(*****************************************************************************)

\* An element occurs in a sequence.
In(s, e) == \E k \in 1..Len(s) : s[k] = e

\* No element occurs twice.
NoneTwice(s) == \A i, j \in 1..Len(s) : s[i] = s[j] => i = j

\* Counting up to each of them numbers the members of a set of positions
\* from one to their number, each number once.
LEMMA Ranked ==
  ASSUME NEW m \in Nat, NEW P \in SUBSET (1..m)
  PROVE  /\ Cardinality(P) \in Nat
         /\ \A i \in P : Cardinality(P \cap 1..i) \in 1..Cardinality(P)
         /\ \A n \in 1..Cardinality(P) : \E i \in P : Cardinality(P \cap 1..i) = n
         /\ \A i, j \in P : Cardinality(P \cap 1..i) = Cardinality(P \cap 1..j) => i = j
<1> DEFINE rank == [i \in P |-> Cardinality(P \cap 1..i)]
<1>1. IsFiniteSet(P) /\ Cardinality(P) \in Nat
  <2>1. IsFiniteSet(1..m)
    BY FS_Interval
  <2> QED
    BY <2>1, FS_Subset, FS_CardinalityType
<1>2. ASSUME NEW i \in P
      PROVE  /\ IsFiniteSet(P \cap 1..i)
             /\ Cardinality(P \cap 1..i) \in 1..Cardinality(P)
  <2>1. IsFiniteSet(P \cap 1..i) /\ Cardinality(P \cap 1..i) <= Cardinality(P)
    BY <1>1, FS_Subset
  <2>2. Cardinality(P \cap 1..i) \in Nat
    BY <2>1, FS_CardinalityType
  <2>3. i \in P \cap 1..i
    OBVIOUS
  <2>4. Cardinality(P \cap 1..i) # 0
    BY <2>1, <2>3, FS_EmptySet
  <2> QED
    BY <1>1, <2>1, <2>2, <2>4
<1>3. ASSUME NEW i \in P, NEW j \in P, i < j
      PROVE  Cardinality(P \cap 1..i) # Cardinality(P \cap 1..j)
  <2>1. P \cap 1..i \in SUBSET (P \cap 1..j) /\ j \in P \cap 1..j /\ j \notin P \cap 1..i
    BY <1>3
  <2> QED
    BY <1>2, <2>1, FS_Subset
<1>4. \A i, j \in P : Cardinality(P \cap 1..i) = Cardinality(P \cap 1..j) => i = j
  <2> SUFFICES ASSUME NEW i \in P, NEW j \in P, i # j
               PROVE  Cardinality(P \cap 1..i) # Cardinality(P \cap 1..j)
    OBVIOUS
  <2>1. i < j \/ j < i
    OBVIOUS
  <2> QED
    BY <1>3, <2>1
<1>5. rank \in Injection(P, 1..Cardinality(P))
  BY <1>2, <1>4 DEF Injection, IsInjective
<1>6. IsFiniteSet(1..Cardinality(P)) /\ Cardinality(1..Cardinality(P)) = Cardinality(P)
  <2>1. 1 \in Int /\ Cardinality(P) \in Int
    BY <1>1
  <2>2. Cardinality(1..Cardinality(P)) =
          IF 1 > Cardinality(P) THEN 0 ELSE Cardinality(P) - 1 + 1
    BY <2>1, FS_Interval
  <2> QED
    BY <1>1, <2>1, <2>2, FS_Interval
<1>7. rank \in Surjection(P, 1..Cardinality(P))
  <2> HIDE DEF rank
  <2> QED
    BY <1>5, <1>6, FS_Injection
<1>8. \A n \in 1..Cardinality(P) : \E i \in P : Cardinality(P \cap 1..i) = n
  BY <1>7 DEF Surjection
<1> QED
  BY <1>1, <1>2, <1>4, <1>8

\* What is picked at some positions are the elements there, each as often as
\* it was there.
LEMMA PickedHas ==
  ASSUME NEW D, NEW s \in Seq(D), NEW P \in SUBSET (1..Len(s))
  PROVE  /\ Picked(s, P) \in Seq(D)
         /\ \A e : In(Picked(s, P), e) <=> \E i \in P : s[i] = e
         /\ NoneTwice(s) => NoneTwice(Picked(s, P))
<1> DEFINE m == Cardinality(P)
           at(n) == CHOOSE i \in P : Cardinality(P \cap 1..i) = n
           picked == [n \in 1..m |-> s[at(n)]]
<1>1. /\ m \in Nat
      /\ \A i \in P : Cardinality(P \cap 1..i) \in 1..m
      /\ \A n \in 1..m : \E i \in P : Cardinality(P \cap 1..i) = n
      /\ \A i, j \in P : Cardinality(P \cap 1..i) = Cardinality(P \cap 1..j) => i = j
  <2>1. Len(s) \in Nat
    OBVIOUS
  <2> QED
    BY <2>1, Ranked
<1>2. \A n \in 1..m : at(n) \in P /\ Cardinality(P \cap 1..at(n)) = n
  BY <1>1
<1>3. \A i \in P : at(Cardinality(P \cap 1..i)) = i
  BY <1>1, <1>2
<1>4. Picked(s, P) = picked
  BY DEF Picked
<1> HIDE DEF at, m
<1>5. picked \in Seq(D) /\ Len(picked) = m /\ DOMAIN picked = 1..m
  <2>1. \A i \in 1..Len(s) : s[i] \in D
    OBVIOUS
  <2>2. \A n \in 1..m : at(n) \in 1..Len(s)
    BY <1>2
  <2>3. \A n \in 1..m : s[at(n)] \in D
    BY <2>1, <2>2, Zenon
  <2>4. picked \in [1..m -> D]
    BY <2>3
  <2> HIDE DEF picked
  <2> QED
    BY <1>1, <2>4
<1>6. \A n \in 1..m : picked[n] = s[at(n)]
  OBVIOUS
<1> HIDE DEF picked
<1>7. ASSUME NEW e PROVE In(picked, e) <=> \E i \in P : s[i] = e
  <2>1. ASSUME NEW n \in 1..m, picked[n] = e PROVE \E i \in P : s[i] = e
    BY <1>2, <1>6, <2>1
  <2>2. ASSUME NEW i \in P, s[i] = e PROVE \E n \in 1..m : picked[n] = e
    <3>1. PICK n \in 1..m : n = Cardinality(P \cap 1..i)
      BY <1>1
    <3> QED
      BY <1>3, <1>6, <2>2, <3>1
  <2> QED
    BY <1>5, <2>1, <2>2 DEF In
<1>8. ASSUME NoneTwice(s) PROVE NoneTwice(picked)
  <2> SUFFICES ASSUME NEW i \in 1..m, NEW j \in 1..m, picked[i] = picked[j] PROVE i = j
    BY <1>5 DEF NoneTwice
  <2>1. s[at(i)] = s[at(j)] /\ at(i) \in 1..Len(s) /\ at(j) \in 1..Len(s)
    BY <1>2, <1>6
  <2>2. at(i) = at(j)
    BY <1>8, <2>1 DEF NoneTwice
  <2> QED
    BY <1>2, <2>2
<1> QED
  BY <1>4, <1>5, <1>7, <1>8

------------------------------------------------------------------------------
(*****************************************************************************)
(* AuditLog.                                                                 *)
(*                                                                           *)
(* The lists of entries have no doubles and no entry in common with each other *)
(* or with the sets of the lost; every step says where each entry is afterwards. *)
(* The queue holds consecutive entries, so what is dropped is a queue's length *)
(* behind the newest.                                                        *)
(*****************************************************************************)

\* The empty sequence has no elements.
LEMMA InEmpty == \A e : ~ In(<<>>, e)
BY DEF In

\* Appending adds the one element.
LEMMA InAppend ==
  ASSUME NEW D, NEW s \in Seq(D), NEW x \in D
  PROVE  /\ \A e : In(Append(s, x), e) <=> In(s, e) \/ e = x
         /\ NoneTwice(s) /\ ~ In(s, x) => NoneTwice(Append(s, x))
<1>1. /\ Len(Append(s, x)) = Len(s) + 1 /\ Append(s, x)[Len(s) + 1] = x
      /\ \A i \in 1..Len(s) : Append(s, x)[i] = s[i]
  OBVIOUS
<1>2. 1..(Len(s) + 1) = (1..Len(s)) \cup {Len(s) + 1} /\ Len(s) + 1 \notin 1..Len(s)
  OBVIOUS
<1>3. \A e : In(Append(s, x), e) <=> In(s, e) \/ e = x
  BY <1>1, <1>2 DEF In
<1>4. ASSUME NoneTwice(s), ~ In(s, x) PROVE NoneTwice(Append(s, x))
  BY <1>1, <1>2, <1>4 DEF NoneTwice, In
<1> QED
  BY <1>3, <1>4

\* A sequence cut in two: the elements are those of the two parts, and what
\* occurs once is in one of them only.
LEMMA InSplit ==
  ASSUME NEW D, NEW s \in Seq(D), NEW n \in 0..Len(s), NEW a \in Seq(D), NEW b \in Seq(D),
         Len(a) = n, \A i \in 1..n : a[i] = s[i],
         Len(b) = Len(s) - n, \A i \in 1..(Len(s) - n) : b[i] = s[n + i]
  PROVE  /\ \A e : In(s, e) <=> In(a, e) \/ In(b, e)
         /\ NoneTwice(s) =>
              NoneTwice(a) /\ NoneTwice(b) /\ \A e : ~ (In(a, e) /\ In(b, e))
<1>1. Len(a) = n /\ \A i \in 1..n : a[i] = s[i]
  OBVIOUS
<1>2. Len(b) = Len(s) - n /\ \A i \in 1..(Len(s) - n) : b[i] = s[n + i]
  OBVIOUS
<1>3. ASSUME NEW e PROVE In(s, e) <=> In(a, e) \/ In(b, e)
  <2>1. ASSUME NEW k \in 1..Len(s), s[k] = e PROVE In(a, e) \/ In(b, e)
    <3>1. CASE k <= n
      BY <1>1, <2>1, <3>1 DEF In
    <3>2. CASE ~ (k <= n)
      <4>1. k - n \in 1..(Len(s) - n) /\ n + (k - n) = k
        BY <3>2
      <4> QED
        BY <1>2, <2>1, <4>1 DEF In
    <3> QED
      BY <3>1, <3>2
  <2>2. ASSUME In(a, e) PROVE In(s, e)
    BY <1>1, <2>2 DEF In
  <2>3. ASSUME In(b, e) PROVE In(s, e)
    BY <1>2, <2>3 DEF In
  <2> QED
    BY <2>1, <2>2, <2>3 DEF In
<1>4. ASSUME NoneTwice(s)
      PROVE  NoneTwice(a) /\ NoneTwice(b) /\ \A e : ~ (In(a, e) /\ In(b, e))
  <2>1. NoneTwice(a)
    BY <1>1, <1>4 DEF NoneTwice
  <2>2. NoneTwice(b)
    <3> SUFFICES ASSUME NEW i \in 1..(Len(s) - n), NEW j \in 1..(Len(s) - n), b[i] = b[j]
                 PROVE  i = j
      BY <1>2 DEF NoneTwice
    <3>1. n + i \in 1..Len(s) /\ n + j \in 1..Len(s) /\ s[n + i] = s[n + j]
      BY <1>2
    <3>2. n + i = n + j
      BY <1>4, <3>1 DEF NoneTwice
    <3> QED
      BY <3>2
  <2>3. ASSUME NEW e, In(a, e), In(b, e) PROVE FALSE
    <3>1. PICK i \in 1..n : s[i] = e
      BY <1>1, <2>3 DEF In
    <3>2. PICK j \in 1..(Len(s) - n) : s[n + j] = e
      BY <1>2, <2>3 DEF In
    <3>3. n + j \in 1..Len(s) /\ i \in 1..Len(s) /\ i # n + j
      OBVIOUS
    <3> QED
      BY <1>4, <3>1, <3>2, <3>3 DEF NoneTwice
  <2> QED
    BY <2>1, <2>2, <2>3
<1> QED
  BY <1>3, <1>4

\* Taking the head away takes that one element.
LEMMA InTail ==
  ASSUME NEW D, NEW s \in Seq(D), s # <<>>
  PROVE  /\ Head(s) \in D /\ In(s, Head(s)) /\ Tail(s) \in Seq(D) /\ Len(Tail(s)) = Len(s) - 1
         /\ \A i \in 1..(Len(s) - 1) : Tail(s)[i] = s[i + 1]
         /\ \A e : In(s, e) <=> e = Head(s) \/ In(Tail(s), e)
         /\ NoneTwice(s) => NoneTwice(Tail(s)) /\ ~ In(Tail(s), Head(s))
<1>1. /\ Tail(s) \in Seq(D) /\ Len(Tail(s)) = Len(s) - 1 /\ Len(s) \in Nat \ {0}
      /\ \A i \in 1..(Len(s) - 1) : Tail(s)[i] = s[i + 1]
      /\ Head(s) = s[1] /\ Head(s) \in D
  OBVIOUS
<1>2. ASSUME NEW e PROVE In(s, e) <=> e = Head(s) \/ In(Tail(s), e)
  <2>1. ASSUME NEW k \in 1..Len(s), s[k] = e PROVE e = Head(s) \/ In(Tail(s), e)
    <3>1. CASE k = 1
      BY <1>1, <2>1, <3>1
    <3>2. CASE k # 1
      <4>1. k - 1 \in 1..(Len(s) - 1) /\ (k - 1) + 1 = k
        BY <3>2
      <4> QED
        BY <1>1, <2>1, <4>1 DEF In
    <3> QED
      BY <3>1, <3>2
  <2>2. In(Tail(s), e) => In(s, e)
    BY <1>1 DEF In
  <2>3. In(s, Head(s))
    BY <1>1 DEF In
  <2> QED
    BY <2>1, <2>2, <2>3 DEF In
<1>3. NoneTwice(s) => NoneTwice(Tail(s)) /\ ~ In(Tail(s), Head(s))
  BY <1>1 DEF NoneTwice, In
<1>4. In(s, Head(s))
  BY <1>2
<1> QED
  BY <1>1, <1>2, <1>3, <1>4

\* Joining two sequences without common elements.
LEMMA InConcat ==
  ASSUME NEW D, NEW s \in Seq(D), NEW t \in Seq(D)
  PROVE  /\ s \o t \in Seq(D)
         /\ \A e : In(s \o t, e) <=> In(s, e) \/ In(t, e)
         /\ NoneTwice(s) /\ NoneTwice(t) /\ (\A e : ~ (In(s, e) /\ In(t, e))) => NoneTwice(s \o t)
<1>1. /\ s \o t \in Seq(D) /\ Len(s \o t) = Len(s) + Len(t)
      /\ \A j \in 1..Len(s) + Len(t) : (s \o t)[j] = IF j <= Len(s) THEN s[j] ELSE t[j - Len(s)]
  BY ConcatProperties, Zenon
<1>2. Len(s) \in Nat /\ Len(t) \in Nat
  OBVIOUS
<1> PICK u : u = s \o t
  OBVIOUS
<1>3. /\ Len(u) = Len(s) + Len(t) /\ (\A j \in 1..Len(s) : u[j] = s[j])
      /\ \A j \in 1..Len(t) : u[Len(s) + j] = t[j]
  <2>1. ASSUME NEW j \in 1..Len(s) PROVE u[j] = s[j]
    BY <1>1, <1>2
  <2>2. ASSUME NEW j \in 1..Len(t) PROVE u[Len(s) + j] = t[j]
    <3>1. Len(s) + j \in 1..(Len(s) + Len(t)) /\ ~ (Len(s) + j <= Len(s)) /\ (Len(s) + j) - Len(s) = j
      BY <1>2
    <3> QED
      BY <1>1, <3>1
  <2> QED
    BY <1>1, <2>1, <2>2
<1>4. ASSUME NEW k \in 1..Len(u)
      PROVE  k \in 1..Len(s) \/ \E j \in 1..Len(t) : k = Len(s) + j
  <2>1. CASE k <= Len(s)
    BY <1>2, <1>3, <2>1
  <2>2. CASE ~ (k <= Len(s))
    <3>1. k - Len(s) \in 1..Len(t) /\ k = Len(s) + (k - Len(s))
      BY <1>2, <1>3, <2>2
    <3> QED
      BY <3>1
  <2> QED
    BY <2>1, <2>2
<1>5. ASSUME NEW e PROVE In(u, e) <=> In(s, e) \/ In(t, e)
  <2>1. In(s, e) => In(u, e)
    BY <1>2, <1>3 DEF In
  <2>2. ASSUME NEW j \in 1..Len(t), t[j] = e PROVE In(u, e)
    <3>1. Len(s) + j \in 1..Len(u)
      BY <1>2, <1>3
    <3> QED
      BY <1>3, <2>2, <3>1 DEF In
  <2>3. In(u, e) => In(s, e) \/ In(t, e)
    BY <1>3, <1>4 DEF In
  <2> QED
    BY <2>1, <2>2, <2>3 DEF In
<1>6. ASSUME NoneTwice(s), NoneTwice(t), \A e : ~ (In(s, e) /\ In(t, e))
      PROVE  NoneTwice(u)
  <2> SUFFICES ASSUME NEW i \in 1..Len(u), NEW j \in 1..Len(u), u[i] = u[j] PROVE i = j
    BY DEF NoneTwice
  <2>1. CASE i \in 1..Len(s) /\ j \in 1..Len(s)
    BY <1>3, <1>6, <2>1 DEF NoneTwice
  <2>5. ASSUME NEW k \in 1..Len(s), NEW m \in 1..Len(t), s[k] = t[m] PROVE FALSE
    BY ONLY <1>6, <2>5 DEF In
  <2>2. CASE i \in 1..Len(s) /\ \E m \in 1..Len(t) : j = Len(s) + m
    <3>1. PICK m \in 1..Len(t) : j = Len(s) + m
      BY <2>2
    <3>2. s[i] = t[m]
      BY <1>3, <2>2, <3>1
    <3> QED
      BY <2>2, <2>5, <3>2
  <2>3. CASE j \in 1..Len(s) /\ \E m \in 1..Len(t) : i = Len(s) + m
    <3>1. PICK m \in 1..Len(t) : i = Len(s) + m
      BY <2>3
    <3>2. s[j] = t[m]
      BY <1>3, <2>3, <3>1
    <3> QED
      BY <2>3, <2>5, <3>2
  <2>4. CASE (\E m \in 1..Len(t) : i = Len(s) + m) /\ (\E m \in 1..Len(t) : j = Len(s) + m)
    <3>1. PICK m \in 1..Len(t), n \in 1..Len(t) : i = Len(s) + m /\ j = Len(s) + n
      BY <2>4
    <3>2. t[m] = t[n]
      BY <1>3, <3>1
    <3>3. m = n
      BY <1>6, <3>2 DEF NoneTwice
    <3> QED
      BY <3>1, <3>3
  <2> QED
    BY <1>4, <2>1, <2>2, <2>3, <2>4
<1> QED
  BY <1>1, <1>5, <1>6

\* A time of the run has a day of the run.
LEMMA DayBounded ==
  ASSUME NEW t \in 0..MaxClock
  PROVE  Day(t) \in Days
<1>1. /\ TicksPerDay \in Nat /\ TicksPerDay > 0 /\ MaxClock \in Nat /\ t \in Nat /\ t <= MaxClock
  BY AuditAssumption
<1> DEFINE a == t \div TicksPerDay
           b == MaxClock \div TicksPerDay
<1>2. /\ a \in Nat /\ b \in Nat /\ TicksPerDay * a <= t /\ MaxClock < TicksPerDay * b + TicksPerDay
  BY <1>1
<1> HIDE DEF a, b
<1>3. a <= b
  <2> SUFFICES ASSUME b + 1 <= a PROVE FALSE
    BY <1>2
  <2>1. PICK c \in Nat : a = b + 1 + c
    <3>1. a - (b + 1) \in Nat /\ a = b + 1 + (a - (b + 1))
      BY <1>2
    <3> QED
      BY <3>1
  <2>2. TicksPerDay * a = TicksPerDay * b + TicksPerDay + TicksPerDay * c
    BY <1>1, <1>2, <2>1
  <2>3. TicksPerDay * c \in Nat /\ TicksPerDay * b \in Nat /\ TicksPerDay * a \in Nat
    BY <1>1, <1>2
  <2> QED
    BY <1>1, <1>2, <2>2, <2>3
<1> QED
  BY <1>2, <1>3 DEF a, b, Day, Days

--------------------------------------------------------------------------------

\* An entry that can still reach a file or is in one, and one that is lost
Held(e) ==
  \/ In(queue, e) \/ (\E f \in Writers : In(writing[f], e)) \/ (\E d \in Days : In(file[d], e))
Gone(e) == e \in dropped \/ e \in failed \/ e \in purged

\* The queue, the batches of the writers and the files are sequences of entries.
AuditTyped ==
  /\ clock \in 0..MaxClock /\ stamp \in Seq(0..MaxClock)
  /\ queue \in Seq(Nat) /\ writing \in [Writers -> Seq(Nat)] /\ file \in [Days -> Seq(Nat)]

\* None of them has an entry twice.
Listed ==
  /\ NoneTwice(queue)
  /\ \A f \in Writers : NoneTwice(writing[f])
  /\ \A d \in Days : NoneTwice(file[d])

\* An entry is logged exactly when it is somewhere, and it is in one place only
Placed(e) ==
  /\ e \in Entries <=> Held(e) \/ Gone(e)
  /\ ~ (Held(e) /\ Gone(e))
  /\ \A f \in Writers : In(writing[f], e) =>
       ~ In(queue, e) /\ \A g \in Writers : In(writing[g], e) => g = f
  /\ \A d \in Days : In(file[d], e) =>
       /\ ~ In(queue, e) /\ \A f \in Writers : ~ In(writing[f], e)
       /\ \A c \in Days : In(file[c], e) => c = d
  /\ ~ (e \in dropped /\ e \in failed) /\ ~ (e \in dropped /\ e \in purged)
  /\ ~ (e \in failed /\ e \in purged)

\* The entries behind one in the queue are newer ones
Queued ==
  /\ Len(queue) <= QueueMaxSize
  /\ \A i \in 1..Len(queue) : queue[i] + (Len(queue) - i) <= Len(stamp)
  /\ \A e \in dropped : e \in Nat /\ e + QueueMaxSize <= Len(stamp)

\* The invariant: every entry is in one place.
AuditInv == AuditTyped /\ Listed /\ Queued /\ \A e : Placed(e)

\* AuditLogger() starts with nothing queued and nothing on disk.
LEMMA AuditStarts == AuditInit => AuditInv
<1> SUFFICES ASSUME AuditInit PROVE AuditInv
  OBVIOUS
<1>1. /\ clock = 0 /\ stamp = <<>> /\ queue = <<>> /\ dropped = {} /\ failed = {} /\ purged = {}
      /\ \A f \in Writers : writing[f] = <<>>
      /\ \A d \in Days : file[d] = <<>>
  BY DEF AuditInit
<1>2. AuditTyped
  BY AuditAssumption DEF AuditInit, AuditTyped
<1>3. NoneTwice(<<>>) /\ Len(<<>>) = 0
  BY DEF NoneTwice
<1>4. Listed
  BY <1>1, <1>3 DEF Listed
<1>5. Queued
  BY <1>1, <1>3, AuditAssumption DEF Queued
<1>6. ASSUME NEW e PROVE Placed(e)
  <2>1. e \notin Entries
    BY <1>1, <1>3 DEF Entries
  <2>2. ~ Held(e) /\ ~ Gone(e)
    BY <1>1, InEmpty DEF Held, Gone
  <2> QED
    BY <2>1, <2>2 DEF Placed, Held, Gone
<1> QED
  BY <1>2, <1>4, <1>5, <1>6 DEF AuditInv

\* Every step shows where each entry is afterwards
LEMMA LogKeeps ==
  ASSUME AuditInv, Log
  PROVE  AuditInv'
<1> DEFINE n == Len(stamp) + 1
<1>1. AuditTyped /\ Listed /\ Queued /\ \A e : Placed(e)
  BY DEF AuditInv
<1>2. /\ stamp' = Append(stamp, clock) /\ Put(Len(stamp) + 1)
      /\ UNCHANGED <<clock, writing, file, failed, purged>>
  BY DEF Log, NewEntry
<1>3. /\ stamp' \in Seq(0..MaxClock) /\ Len(stamp') = n /\ n \in Nat \ {0} /\ Len(stamp) \in Nat
      /\ Entries' = Entries \cup {n} /\ n \notin Entries
  BY <1>1, <1>2 DEF AuditTyped, Entries
<1>4. queue \in Seq(Nat) /\ QueueMaxSize \in Nat \ {0}
  BY <1>1, AuditAssumption DEF AuditTyped
<1>5. ~ Held(n) /\ ~ Gone(n)
  BY <1>1, <1>3 DEF Placed
<1>6. CASE Len(queue) < QueueMaxSize
  <2>1. queue' = Append(queue, n) /\ dropped' = dropped
    BY <1>2, <1>6 DEF Put
  <2>2. \A e : In(queue', e) <=> In(queue, e) \/ e = n
    BY <1>3, <1>4, <2>1, InAppend
  <2>3. NoneTwice(queue')
    BY <1>1, <1>3, <1>4, <1>5, <2>1, InAppend DEF Listed, Held
  <2>4. /\ queue' \in Seq(Nat) /\ Len(queue') = Len(queue) + 1 /\ queue'[Len(queue) + 1] = n
        /\ \A i \in 1..Len(queue) : queue'[i] = queue[i]
    BY <1>3, <1>4, <2>1
  <2>5. Queued'
    <3>1. ASSUME NEW i \in 1..Len(queue')
          PROVE  queue'[i] + (Len(queue') - i) <= Len(stamp')
      <4>1. CASE i = Len(queue) + 1
        BY <1>3, <1>4, <2>4, <4>1
      <4>2. CASE i # Len(queue) + 1
        <5>1. i \in 1..Len(queue) /\ queue'[i] = queue[i] /\ queue[i] \in Nat
          BY <1>4, <2>4, <4>2
        <5>2. queue[i] + (Len(queue) - i) <= Len(stamp)
          BY <1>1, <5>1 DEF Queued
        <5>3. PICK q \in Nat, m \in Nat, l \in Nat :
                q = queue[i] /\ m = Len(stamp) /\ l = Len(queue)
          BY <1>3, <1>4, <5>1
        <5>4. q + (l - i) <= m
          BY <5>2, <5>3, Zenon
        <5>5. q + ((l + 1) - i) <= m + 1
          BY ONLY <5>1, <5>3, <5>4
        <5>6. queue'[i] = q /\ Len(queue') = l + 1 /\ Len(stamp') = m + 1
          BY <1>3, <2>4, <5>1, <5>3
        <5> QED
          BY <5>5, <5>6, Zenon
      <4> QED
        BY <4>1, <4>2
    <3>2. Len(queue') <= QueueMaxSize
      BY <1>4, <1>6, <2>4
    <3>3. \A e \in dropped' : e \in Nat /\ e + QueueMaxSize <= Len(stamp')
      BY <1>1, <1>3, <1>4, <2>1 DEF Queued
    <3> QED
      BY <3>1, <3>2, <3>3 DEF Queued
  <2>6. ASSUME NEW e PROVE Placed(e)'
    <3>1. Held(e)' <=> Held(e) \/ e = n
      BY <1>2, <2>2 DEF Held
    <3>2. Gone(e)' <=> Gone(e)
      BY <1>2, <2>1 DEF Gone
    <3>3. /\ e \in Entries' <=> Held(e)' \/ Gone(e)'
          /\ ~ (Held(e)' /\ Gone(e)')
      BY <1>1, <1>3, <1>5, <3>1, <3>2 DEF Placed
    <3>4. \A f \in Writers : In(writing[f], e) => e # n
      BY <1>5 DEF Held
    <3>5. \A d \in Days : In(file[d], e) => e # n
      BY <1>5 DEF Held
    <3> QED
      BY <1>1, <1>2, <2>1, <2>2, <3>3, <3>4, <3>5 DEF Placed
  <2>7. AuditTyped' /\ Listed'
    BY <1>1, <1>2, <1>3, <2>3, <2>4 DEF AuditTyped, Listed
  <2> QED
    BY <2>5, <2>6, <2>7 DEF AuditInv
<1>7. CASE ~ (Len(queue) < QueueMaxSize)
  <2>1. queue' = Append(Tail(queue), n) /\ dropped' = dropped \cup {Head(queue)}
    BY <1>2, <1>7 DEF Put
  <2>2. queue # <<>> /\ Len(queue) = QueueMaxSize
    BY <1>1, <1>4, <1>7 DEF Queued
  <2>3. /\ Head(queue) \in Nat /\ Head(queue) = queue[1] /\ In(queue, Head(queue))
        /\ Tail(queue) \in Seq(Nat) /\ Len(Tail(queue)) = Len(queue) - 1
        /\ \A i \in 1..(Len(queue) - 1) : Tail(queue)[i] = queue[i + 1]
        /\ \A e : In(queue, e) <=> e = Head(queue) \/ In(Tail(queue), e)
        /\ NoneTwice(Tail(queue)) /\ ~ In(Tail(queue), Head(queue))
    BY <1>1, <1>4, <2>2, InTail DEF Listed
  <2>4. PICK rest \in Seq(Nat) : rest = Tail(queue)
    BY <2>3
  <2>5. queue' = Append(rest, n) /\ NoneTwice(rest) /\ ~ In(rest, n)
    BY <1>5, <2>1, <2>3, <2>4 DEF Held
  <2>6. \A e : In(queue', e) <=> In(Tail(queue), e) \/ e = n
    <3>1. \A e : In(queue', e) <=> In(rest, e) \/ e = n
      BY <1>3, <2>5, InAppend
    <3> QED
      BY <2>4, <3>1
  <2>7. NoneTwice(queue')
    BY <1>3, <2>5, InAppend
  <2>8. /\ queue' \in Seq(Nat) /\ Len(queue') = Len(queue) /\ queue'[Len(queue)] = n
        /\ \A i \in 1..(Len(queue) - 1) : queue'[i] = queue[i + 1]
    BY <1>3, <1>4, <2>1, <2>2, <2>3
  <2>9. Queued'
    <3>1. ASSUME NEW i \in 1..Len(queue')
          PROVE  queue'[i] + (Len(queue') - i) <= Len(stamp')
      <4>1. CASE i = Len(queue)
        BY <1>3, <1>4, <2>8, <4>1
      <4>2. CASE i # Len(queue)
        <5>0. i \in 1..(Len(queue) - 1) /\ i + 1 \in 1..Len(queue)
          BY <1>4, <2>8, <4>2
        <5>a. \A k \in 1..Len(queue) : queue[k] \in Nat
          BY ONLY <1>4
        <5>1. i + 1 \in 1..Len(queue) /\ queue'[i] = queue[i + 1] /\ queue[i + 1] \in Nat
          BY ONLY <2>8, <5>0, <5>a
        <5>2. queue[i + 1] + (Len(queue) - (i + 1)) <= Len(stamp)
          BY <1>1, <5>1 DEF Queued
        <5>3. PICK q \in Nat, m \in Nat, l \in Nat :
                q = queue[i + 1] /\ m = Len(stamp) /\ l = Len(queue)
          BY <1>3, <1>4, <5>1
        <5>4. q + (l - (i + 1)) <= m
          BY <5>2, <5>3, Zenon
        <5>5. q + (l - i) <= m + 1
          BY <1>4, <2>8, <5>4
        <5>6. queue'[i] = q /\ Len(queue') = l /\ Len(stamp') = m + 1
          BY <1>3, <2>8, <5>1, <5>3
        <5> QED
          BY <5>5, <5>6, Zenon
      <4> QED
        BY <4>1, <4>2
    <3>2. Len(queue') <= QueueMaxSize
      BY <2>2, <2>8, <1>4
    <3>3. Head(queue) + QueueMaxSize <= Len(stamp')
      <4>1. queue[1] + (Len(queue) - 1) <= Len(stamp)
        BY <1>1, <1>4, <2>2 DEF Queued
      <4> QED
        BY <1>3, <1>4, <2>2, <2>3, <4>1
    <3>4. \A e \in dropped' : e \in Nat /\ e + QueueMaxSize <= Len(stamp')
      <4>1. Len(stamp) \in Nat /\ Len(stamp') = Len(stamp) + 1 /\ QueueMaxSize \in Nat
        BY <1>3, <1>4
      <4>2. \A e \in dropped : e \in Nat /\ e + QueueMaxSize <= Len(stamp)
        BY <1>1 DEF Queued
      <4>3. \A e \in dropped : e \in Nat /\ e + QueueMaxSize <= Len(stamp')
        BY ONLY <4>1, <4>2
      <4>4. Head(queue) \in Nat /\ dropped' = dropped \cup {Head(queue)}
        BY <2>1, <2>3
      <4> QED
        BY ONLY <3>3, <4>3, <4>4
    <3> QED
      BY <3>1, <3>2, <3>4 DEF Queued
  <2>10. ASSUME NEW e PROVE Placed(e)'
    <3>1. Placed(e) /\ Placed(n) /\ ~ Held(n) /\ ~ Gone(n)
      BY <1>1, <1>5
    <3>2. /\ In(queue, e) <=> e = Head(queue) \/ In(Tail(queue), e)
          /\ In(queue', e) <=> In(Tail(queue), e) \/ e = n
          /\ ~ In(Tail(queue), Head(queue)) /\ In(queue, Head(queue))
      BY <2>3, <2>6
    <3>3. /\ e \in dropped' <=> e \in dropped \/ e = Head(queue)
          /\ e \in Entries' <=> e \in Entries \/ e = n
      BY <1>3, <2>1
    <3>4. UNCHANGED <<writing, file, failed, purged>>
      BY <1>2
    <3>5. CASE e = n
      BY ONLY <3>1, <3>2, <3>3, <3>4, <3>5 DEF Placed, Held, Gone
    <3>6. CASE e # n
      BY ONLY <3>1, <3>2, <3>3, <3>4, <3>6 DEF Placed, Held, Gone
    <3> QED
      BY <3>5, <3>6
  <2>11. AuditTyped' /\ Listed'
    BY <1>1, <1>2, <1>3, <2>7, <2>8 DEF AuditTyped, Listed
  <2> QED
    BY <2>9, <2>10, <2>11 DEF AuditInv
<1> QED
  BY <1>6, <1>7

\* sync_log() writes its own line past the queue, or loses it.
LEMMA SyncLogKeeps ==
  ASSUME AuditInv, SyncLog
  PROVE  AuditInv'
<1> DEFINE n == Len(stamp) + 1
<1>1. AuditTyped /\ Listed /\ Queued /\ \A e : Placed(e)
  BY DEF AuditInv
<1>2. /\ stamp' = Append(stamp, clock) /\ UNCHANGED <<clock, queue, writing, dropped, purged>>
      /\ \/ file' = [file EXCEPT ![Day(clock)] = Append(@, n)] /\ UNCHANGED failed
         \/ failed' = failed \cup {n} /\ UNCHANGED file
  BY DEF SyncLog, NewEntry
<1>3. /\ stamp' \in Seq(0..MaxClock) /\ Len(stamp') = n /\ n \in Nat \ {0} /\ Len(stamp) \in Nat
      /\ Entries' = Entries \cup {n} /\ n \notin Entries
  BY <1>1, <1>2 DEF AuditTyped, Entries
<1>4. ~ Held(n) /\ ~ Gone(n)
  BY <1>1, <1>3 DEF Placed
<1>5. Queued'
  <2>1. \A i \in 1..Len(queue) : queue[i] \in Nat /\ Len(queue) \in Nat
    BY <1>1 DEF AuditTyped
  <2> QED
    BY <1>1, <1>2, <1>3, <2>1, AuditAssumption DEF Queued
<1>6. CASE file' = [file EXCEPT ![Day(clock)] = Append(@, n)] /\ UNCHANGED failed
  <2>1. PICK d \in Days : d = Day(clock)
    BY <1>1, DayBounded DEF AuditTyped
  <2>2. PICK old \in Seq(Nat) : old = file[d]
    BY <1>1 DEF AuditTyped
  <2>3. /\ file' \in [Days -> Seq(Nat)] /\ file'[d] = Append(old, n)
        /\ \A c \in Days \ {d} : file'[c] = file[c]
    <3>1. Append(old, n) \in Seq(Nat)
      BY <1>3
    <3> QED
      BY <1>1, <1>6, <2>1, <2>2, <3>1 DEF AuditTyped
  <2>4. \A e : In(file'[d], e) <=> In(file[d], e) \/ e = n
    <3>1. \A e : In(Append(old, n), e) <=> In(old, e) \/ e = n
      BY <1>3, InAppend
    <3> QED
      BY <2>2, <2>3, <3>1
  <2>5. NoneTwice(file'[d])
    <3>1. NoneTwice(old) /\ ~ In(old, n)
      BY <1>1, <1>4, <2>2 DEF Listed, Held
    <3>2. NoneTwice(Append(old, n))
      BY <1>3, <3>1, InAppend
    <3> QED
      BY <2>3, <3>2
  <2>6. ASSUME NEW e PROVE Placed(e)'
    <3>1. \A c \in Days : In(file'[c], e) <=> In(file[c], e) \/ (c = d /\ e = n)
      BY <2>3, <2>4
    <3>2. CASE e = n
      BY <1>2, <1>3, <1>4, <1>6, <3>1, <3>2 DEF Placed, Held, Gone
    <3>3. CASE e # n
      <4>1. \A c \in Days : In(file'[c], e) <=> In(file[c], e)
        BY <3>1, <3>3
      <4>2. e \in Entries' <=> e \in Entries
        BY <1>3, <3>3
      <4> QED
        BY <1>1, <1>2, <1>6, <4>1, <4>2 DEF Placed, Held, Gone
    <3> QED
      BY <3>2, <3>3
  <2>7. AuditTyped' /\ Listed'
    BY <1>1, <1>2, <1>3, <2>3, <2>5 DEF AuditTyped, Listed
  <2> QED
    BY <1>5, <2>6, <2>7 DEF AuditInv
<1>7. CASE failed' = failed \cup {n} /\ UNCHANGED file
  <2>1. ASSUME NEW e PROVE Placed(e)'
    <3>1. Placed(e) /\ ~ Held(n) /\ ~ Gone(n)
      BY <1>1, <1>4
    <3>2. /\ e \in failed' <=> e \in failed \/ e = n
          /\ e \in Entries' <=> e \in Entries \/ e = n
      BY <1>3, <1>7
    <3>3. UNCHANGED <<queue, writing, file, dropped, purged>>
      BY <1>2, <1>7
    <3>4. Held(e)' <=> Held(e)
      BY ONLY <3>3 DEF Held
    <3>5. Gone(e)' <=> Gone(e) \/ e = n
      BY ONLY <3>2, <3>3 DEF Gone
    <3>6. /\ e \in Entries <=> Held(e) \/ Gone(e)
          /\ ~ (Held(e) /\ Gone(e)) /\ (e = n => ~ Held(e))
      BY ONLY <3>1 DEF Placed
    <3>7. /\ e \in Entries' <=> Held(e)' \/ Gone(e)'
          /\ ~ (Held(e)' /\ Gone(e)')
      BY ONLY <3>2, <3>4, <3>5, <3>6
    <3>8. /\ \A f \in Writers : In(writing'[f], e) =>
               ~ In(queue', e) /\ \A g \in Writers : In(writing'[g], e) => g = f
          /\ \A d \in Days : In(file'[d], e) =>
               /\ ~ In(queue', e) /\ \A f \in Writers : ~ In(writing'[f], e)
               /\ \A c \in Days : In(file'[c], e) => c = d
      BY ONLY <3>1, <3>3 DEF Placed
    <3>9. /\ ~ (e \in dropped' /\ e \in failed') /\ ~ (e \in dropped' /\ e \in purged')
          /\ ~ (e \in failed' /\ e \in purged')
      <4>1. /\ ~ (e \in dropped /\ e \in failed) /\ ~ (e \in dropped /\ e \in purged)
            /\ ~ (e \in failed /\ e \in purged)
        BY ONLY <3>1 DEF Placed
      <4>2. e = n => e \notin dropped /\ e \notin purged
        BY ONLY <3>1 DEF Gone
      <4> QED
        BY ONLY <3>2, <3>3, <4>1, <4>2
    <3> QED
      BY ONLY <3>7, <3>8, <3>9 DEF Placed
  <2>2. AuditTyped' /\ Listed'
    BY <1>1, <1>2, <1>3, <1>7 DEF AuditTyped, Listed
  <2> QED
    BY <1>5, <2>1, <2>2 DEF AuditInv
<1> QED
  BY <1>2, <1>6, <1>7

\* A batch goes from the front of the queue to a thread that has nothing left, or is
\* lost when an entry of it cannot be serialized
LEMMA DrainKeeps ==
  ASSUME AuditInv, NEW f \in Writers, Drain(f),
         UNCHANGED <<clock, stamp, file, dropped, purged>>
  PROVE  AuditInv'
<1>1. AuditTyped /\ Listed /\ Queued /\ \A e : Placed(e)
  BY DEF AuditInv
<1>2. queue \in Seq(Nat) /\ Len(queue) \in Nat /\ Len(stamp) \in Nat
  BY <1>1 DEF AuditTyped
<1>3. PICK n \in 0..Len(queue) : n = BatchLen
  BY <1>2, AuditAssumption DEF BatchLen
<1>4. PICK batch, rest : batch = SubSeq(queue, 1, n) /\ rest = SubSeq(queue, n + 1, Len(queue))
  OBVIOUS
<1>5. /\ batch \in Seq(Nat) /\ rest \in Seq(Nat) /\ Len(rest) = Len(queue) - n
      /\ \A i \in 1..(Len(queue) - n) : rest[i] = queue[n + i]
      /\ \A e : In(queue, e) <=> In(batch, e) \/ In(rest, e)
      /\ NoneTwice(batch) /\ NoneTwice(rest) /\ \A e : ~ (In(batch, e) /\ In(rest, e))
  <2>1. NoneTwice(queue)
    BY <1>1 DEF Listed
  <2>2. queue \in Seq(Nat) /\ n \in 0..Len(queue)
    BY <1>2
  <2>3. batch \in Seq(Nat) /\ Len(batch) = n /\ \A i \in 1..n : batch[i] = queue[i]
    <3>1. 1 \in Int /\ n \in Int /\ \A i \in 1..n : queue[i] \in Nat
      BY ONLY <2>2
    <3>2. /\ batch \in Seq(Nat) /\ Len(batch) = (IF 1 <= n THEN n - 1 + 1 ELSE 0)
          /\ \A i \in 1..(n - 1 + 1) : batch[i] = queue[1 + i - 1]
      BY ONLY <1>4, <3>1, SubSeqProperties
    <3> QED
      BY ONLY <2>2, <3>2
  <2>4. /\ rest \in Seq(Nat) /\ Len(rest) = Len(queue) - n
        /\ \A i \in 1..(Len(queue) - n) : rest[i] = queue[n + i]
    <3>1. PICK k \in Int, m \in Int : k = n + 1 /\ m = Len(queue)
      BY ONLY <2>2
    <3>2. \A i \in k..m : queue[i] \in Nat
      BY ONLY <2>2, <3>1
    <3>3. /\ rest \in Seq(Nat) /\ Len(rest) = (IF k <= m THEN m - k + 1 ELSE 0)
          /\ \A i \in 1..(m - k + 1) : rest[i] = queue[k + i - 1]
      <4>1. rest = SubSeq(queue, k, m)
        BY ONLY <1>4, <3>1
      <4> QED
        BY ONLY <3>1, <3>2, <4>1, SubSeqProperties
    <3>4. /\ Len(rest) = Len(queue) - n /\ m - k + 1 = Len(queue) - n
          /\ \A i \in 1..(Len(queue) - n) : k + i - 1 = n + i
      BY ONLY <2>2, <3>1, <3>3
    <3> QED
      BY ONLY <3>3, <3>4
  <2>5. /\ \A e : In(queue, e) <=> In(batch, e) \/ In(rest, e)
        /\ NoneTwice(queue) =>
             NoneTwice(batch) /\ NoneTwice(rest) /\ \A e : ~ (In(batch, e) /\ In(rest, e))
    <3>1. PICK D : D = Nat
      OBVIOUS
    <3>2. queue \in Seq(D) /\ batch \in Seq(D) /\ rest \in Seq(D)
      BY ONLY <2>2, <2>3, <2>4, <3>1
    <3> QED
      BY ONLY <2>2, <2>3, <2>4, <3>2, InSplit, ZenonT(30)
  <2> QED
    BY ONLY <2>1, <2>3, <2>4, <2>5
<1>6. /\ writing[f] = <<>> /\ queue' = rest /\ Batch = batch
      /\ \/ writing' = [writing EXCEPT ![f] = batch] /\ failed' = failed
         \/ writing' = writing /\ failed' = failed \cup Elements(batch)
  BY <1>3, <1>4 DEF Drain, HandOver, Batch
<1>7. \A e : ~ In(writing[f], e)
  BY <1>6, InEmpty
<1>8. \A e : /\ In(queue, e) <=> In(batch, e) \/ In(queue', e)
             /\ ~ (In(batch, e) /\ In(queue', e))
  BY <1>5, <1>6
<1>9. /\ \A e : Placed(e)'
      /\ writing' \in [Writers -> Seq(Nat)] /\ \A g \in Writers : NoneTwice(writing'[g])
  <2>1. Entries' = Entries
    BY DEF Entries
  <2>2. CASE writing' = [writing EXCEPT ![f] = batch] /\ failed' = failed
    <3>1. /\ writing' \in [Writers -> Seq(Nat)] /\ writing'[f] = batch
          /\ \A g \in Writers \ {f} : writing'[g] = writing[g]
      BY <1>1, <1>5, <2>2 DEF AuditTyped
    <3>2. ASSUME NEW e PROVE Placed(e)'
      <4>1. \A g \in Writers : In(writing'[g], e) <=> In(writing[g], e) \/ (g = f /\ In(batch, e))
        BY <1>7, <3>1
      <4> QED
        BY <1>1, <1>8, <2>1, <2>2, <4>1 DEF Placed, Held, Gone
    <3>3. \A g \in Writers : NoneTwice(writing'[g])
      BY <1>1, <1>5, <3>1 DEF Listed
    <3> QED
      BY <3>1, <3>2, <3>3
  <2>3. CASE writing' = writing /\ failed' = failed \cup Elements(batch)
    <3>1. ASSUME NEW e PROVE Placed(e)'
      <4>1. e \in failed' <=> e \in failed \/ In(batch, e)
        BY <2>3 DEF Elements, In
      <4>2. Placed(e)
        BY <1>1
      <4>3. /\ In(queue, e) <=> In(batch, e) \/ In(queue', e)
            /\ ~ (In(batch, e) /\ In(queue', e))
        BY <1>8
      <4>4. Entries' = Entries /\ UNCHANGED <<writing, file, dropped, purged>>
        BY <2>1, <2>3
      <4>5. /\ Held(e) <=> Held(e)' \/ In(batch, e)
            /\ Gone(e)' <=> Gone(e) \/ In(batch, e)
        BY ONLY <4>1, <4>3, <4>4 DEF Held, Gone
      <4>6. In(batch, e) => ~ Held(e)'
        BY ONLY <4>2, <4>3, <4>4 DEF Placed, Held
      <4>7. /\ e \in Entries' <=> Held(e)' \/ Gone(e)'
            /\ ~ (Held(e)' /\ Gone(e)')
        BY ONLY <4>2, <4>4, <4>5, <4>6 DEF Placed
      <4>8. /\ \A g \in Writers : In(writing'[g], e) =>
                 ~ In(queue', e) /\ \A h \in Writers : In(writing'[h], e) => h = g
            /\ \A d \in Days : In(file'[d], e) =>
                 /\ ~ In(queue', e) /\ \A g \in Writers : ~ In(writing'[g], e)
                 /\ \A c \in Days : In(file'[c], e) => c = d
        BY ONLY <4>2, <4>3, <4>4 DEF Placed
      <4>9. /\ ~ (e \in dropped' /\ e \in failed') /\ ~ (e \in dropped' /\ e \in purged')
            /\ ~ (e \in failed' /\ e \in purged')
        <5>1. In(batch, e) => e \notin dropped /\ e \notin purged
          BY ONLY <4>2, <4>3 DEF Placed, Held, Gone
        <5>2. /\ ~ (e \in dropped /\ e \in failed) /\ ~ (e \in dropped /\ e \in purged)
              /\ ~ (e \in failed /\ e \in purged)
          BY ONLY <4>2 DEF Placed
        <5> QED
          BY ONLY <4>1, <4>4, <5>1, <5>2
      <4> QED
        BY ONLY <4>7, <4>8, <4>9 DEF Placed
    <3> QED
      BY <1>1, <2>3, <3>1 DEF AuditTyped, Listed
  <2> QED
    BY <1>6, <2>2, <2>3
<1>10. Queued'
  <2>1. ASSUME NEW i \in 1..Len(queue')
        PROVE  queue'[i] + (Len(queue') - i) <= Len(stamp')
    <3>a. Len(queue') = Len(queue) - n /\ i \in 1..Len(queue') /\ n \in 0..Len(queue)
      BY <1>5, <1>6
    <3>0. i \in 1..(Len(queue) - n) /\ n + i \in 1..Len(queue)
      BY ONLY <1>2, <3>a
    <3>b. \A k \in 1..Len(queue) : queue[k] \in Nat
      BY ONLY <1>2
    <3>1. n + i \in 1..Len(queue) /\ queue'[i] = queue[n + i] /\ queue[n + i] \in Nat
      BY ONLY <1>5, <1>6, <3>0, <3>b
    <3>2. queue[n + i] + (Len(queue) - (n + i)) <= Len(stamp)
      BY <1>1, <3>1 DEF Queued
    <3>3. PICK l \in Nat, m \in Nat, q \in Nat :
            l = Len(queue) /\ m = Len(stamp') /\ q = queue[n + i]
      BY <1>2, <3>1
    <3>4. m = Len(stamp)
      BY <3>3
    <3>5. q + (l - (n + i)) <= m
      BY <3>2, <3>3, <3>4
    <3>6. q + ((l - n) - i) <= m
      BY ONLY <3>a, <3>3, <3>5
    <3> QED
      BY ONLY <3>a, <3>1, <3>3, <3>6
  <2>2. Len(queue') <= QueueMaxSize
    BY <1>1, <1>2, <1>5, <1>6, AuditAssumption DEF Queued
  <2> QED
    BY <1>1, <2>1, <2>2 DEF Queued
<1>11. AuditTyped' /\ Listed'
  BY <1>1, <1>5, <1>6, <1>9 DEF AuditTyped, Listed
<1> QED
  BY <1>9, <1>10, <1>11 DEF AuditInv

\* A thread writes the lines of one day
LEMMA WriteDayKeeps ==
  ASSUME AuditInv, NEW f \in Writers, WriteDay(f)
  PROVE  AuditInv'
<1>1. AuditTyped /\ Listed /\ Queued /\ \A e : Placed(e)
  BY DEF AuditInv
<1>2. PICK s \in Seq(Nat) : s = writing[f]
  BY <1>1 DEF AuditTyped
<1>3. s # <<>> /\ NoneTwice(s) /\ Len(s) \in Nat \ {0} /\ Head(s) = s[1] /\ s[1] \in Nat
  BY <1>1, <1>2 DEF WriteDay, Listed
<1>4. \A e : In(s, e) => e \in Entries
  BY <1>1, <1>2 DEF Placed, Held
<1>5. PICK d \in Days : d = Day(stamp[Head(s)])
  <2>1. In(s, Head(s))
    BY <1>3 DEF In
  <2>2. Head(s) \in 1..Len(stamp) /\ stamp \in Seq(0..MaxClock)
    BY <1>1, <1>4, <2>1 DEF AuditTyped, Entries
  <2>3. \A h \in 1..Len(stamp) : stamp[h] \in 0..MaxClock
    BY <2>2, ElementOfSeq
  <2>4. stamp[Head(s)] \in 0..MaxClock
    BY <2>2, <2>3, Zenon
  <2> QED
    BY <2>4, DayBounded
<1> DEFINE P == {i \in 1..Len(s) : Day(stamp[s[i]]) = d}
           Q == {i \in 1..Len(s) : Day(stamp[s[i]]) # d}
<1>6. PICK lines, rest : lines = Picked(s, P) /\ rest = Picked(s, Q)
  OBVIOUS
<1>7. P \in SUBSET (1..Len(s)) /\ Q \in SUBSET (1..Len(s))
  OBVIOUS
<1>8. /\ lines \in Seq(Nat) /\ NoneTwice(lines) /\ rest \in Seq(Nat) /\ NoneTwice(rest)
      /\ \A e : In(lines, e) <=> \E i \in P : s[i] = e
      /\ \A e : In(rest, e) <=> \E i \in Q : s[i] = e
  <2> HIDE DEF P, Q
  <2> QED
    BY <1>3, <1>6, <1>7, PickedHas
<1>9. \A e : /\ In(s, e) <=> In(lines, e) \/ In(rest, e)
             /\ ~ (In(lines, e) /\ In(rest, e))
  <2>1. ASSUME NEW e PROVE In(s, e) <=> In(lines, e) \/ In(rest, e)
    BY <1>8 DEF In
  <2>2. ASSUME NEW e PROVE ~ (In(lines, e) /\ In(rest, e))
    <3> SUFFICES ASSUME NEW i \in P, NEW j \in Q, s[i] = e, s[j] = e PROVE FALSE
      BY <1>8
    <3> QED
      OBVIOUS
  <2> QED
    BY <2>1, <2>2
<1> HIDE DEF P, Q
<1>10. PICK old \in Seq(Nat) : old = file[d]
  BY <1>1 DEF AuditTyped
<1>11. file' = [file EXCEPT ![d] = old \o lines] /\ writing' = [writing EXCEPT ![f] = rest]
       /\ UNCHANGED <<clock, stamp, queue, dropped, failed, purged>>
  BY <1>2, <1>5, <1>6, <1>10 DEF WriteDay, OfDay, NotOfDay, P, Q
<1>12. \A e : ~ (In(old, e) /\ In(lines, e))
  BY <1>1, <1>2, <1>9, <1>10 DEF Placed
<1>13. /\ old \o lines \in Seq(Nat) /\ NoneTwice(old \o lines)
       /\ \A e : In(old \o lines, e) <=> In(old, e) \/ In(lines, e)
  <2>1. NoneTwice(old)
    BY <1>1, <1>10 DEF Listed
  <2> QED
    BY <1>8, <1>12, <2>1, InConcat
<1>14. PICK new \in Seq(Nat) : new = old \o lines
  BY <1>13
<1>15. /\ file' \in [Days -> Seq(Nat)] /\ file'[d] = new
       /\ \A c \in Days \ {d} : file'[c] = file[c]
  BY <1>1, <1>11, <1>14 DEF AuditTyped
<1>16. /\ writing' \in [Writers -> Seq(Nat)] /\ writing'[f] = rest
       /\ \A g \in Writers \ {f} : writing'[g] = writing[g]
  BY <1>1, <1>8, <1>11 DEF AuditTyped
<1>17. ASSUME NEW e PROVE Placed(e)'
  <2>1. \A c \in Days : In(file'[c], e) <=> In(file[c], e) \/ (c = d /\ In(lines, e))
    BY <1>10, <1>13, <1>14, <1>15
  <2>2. \A g \in Writers : In(writing'[g], e) <=> In(writing[g], e) /\ ~ (g = f /\ In(lines, e))
    BY <1>2, <1>9, <1>16
  <2>3. In(lines, e) => In(writing[f], e)
    BY <1>2, <1>9
  <2>4. Entries' = Entries
    BY <1>11 DEF Entries
  <2>5. Held(e)' <=> Held(e)
    BY <1>11, <2>1, <2>2, <2>3 DEF Held
  <2>6. Gone(e)' <=> Gone(e)
    BY <1>11 DEF Gone
  <2>7. \A g \in Writers : In(writing'[g], e) =>
          ~ In(queue', e) /\ \A h \in Writers : In(writing'[h], e) => h = g
    BY <1>1, <1>11, <2>2 DEF Placed
  <2>8. ASSUME NEW c \in Days, In(file'[c], e)
        PROVE  /\ ~ In(queue', e) /\ \A g \in Writers : ~ In(writing'[g], e)
               /\ \A b \in Days : In(file'[b], e) => b = c
    BY <1>1, <1>11, <2>1, <2>2, <2>3, <2>8 DEF Placed
  <2> QED
    BY <1>1, <1>11, <2>4, <2>5, <2>6, <2>7, <2>8 DEF Placed
<1>18. AuditTyped' /\ Listed' /\ Queued'
  BY <1>1, <1>8, <1>11, <1>13, <1>14, <1>15, <1>16 DEF AuditTyped, Listed, Queued
<1> QED
  BY <1>17, <1>18 DEF AuditInv

\* A batch whose next file cannot be written loses what it has left.
LEMMA AuditWriteFailsKeeps ==
  ASSUME AuditInv, NEW f \in Writers, WriteFails(f)
  PROVE  AuditInv'
<1>1. AuditTyped /\ Listed /\ Queued /\ \A e : Placed(e)
  BY DEF AuditInv
<1>2. PICK s \in Seq(Nat) : s = writing[f]
  BY <1>1 DEF AuditTyped
<1>3. /\ failed' = failed \cup Elements(s) /\ writing' = [writing EXCEPT ![f] = <<>>]
      /\ UNCHANGED <<clock, stamp, queue, file, dropped, purged>>
  BY <1>2 DEF WriteFails
<1>4. /\ writing' \in [Writers -> Seq(Nat)] /\ writing'[f] = <<>>
      /\ \A g \in Writers \ {f} : writing'[g] = writing[g]
  BY <1>1, <1>3 DEF AuditTyped
<1>5. \A e : e \in Elements(s) <=> In(s, e)
  BY DEF Elements, In
<1>6. ASSUME NEW e PROVE Placed(e)'
  <2>1. \A g \in Writers : In(writing'[g], e) <=> In(writing[g], e) /\ g # f
    BY <1>4, InEmpty
  <2>2. e \in failed' <=> e \in failed \/ In(writing[f], e)
    BY <1>2, <1>3, <1>5
  <2>3. Entries' = Entries
    BY <1>3 DEF Entries
  <2> QED
    BY <1>1, <1>3, <2>1, <2>2, <2>3 DEF Placed, Held, Gone
<1>7. NoneTwice(<<>>)
  BY DEF NoneTwice
<1>8. AuditTyped' /\ Listed' /\ Queued'
  BY <1>1, <1>3, <1>4, <1>7 DEF AuditTyped, Listed, Queued
<1> QED
  BY <1>6, <1>8 DEF AuditInv

\* purge_old_entries() removes whole days.
LEMMA PurgeKeeps ==
  ASSUME AuditInv, Purge
  PROVE  AuditInv'
<1>1. AuditTyped /\ Listed /\ Queued /\ \A e : Placed(e)
  BY DEF AuditInv
<1>2. /\ purged' = purged \cup UNION {Elements(file[d]) : d \in {d \in Days : Expired(d)}}
      /\ file' = [d \in Days |-> IF Expired(d) THEN <<>> ELSE file[d]]
      /\ UNCHANGED <<clock, stamp, queue, writing, dropped, failed>>
  BY DEF Purge
<1>3. \A d \in Days : file[d] \in Seq(Nat) /\ \A e : e \in Elements(file[d]) <=> In(file[d], e)
  <2>1. \A t \in Seq(Nat) : \A e : e \in Elements(t) <=> In(t, e)
    BY DEF Elements, In
  <2>2. \A d \in Days : file[d] \in Seq(Nat)
    BY <1>1 DEF AuditTyped
  <2> QED
    BY <2>1, <2>2
<1>4. file' \in [Days -> Seq(Nat)]
  BY <1>2, <1>3
<1>5. NoneTwice(<<>>)
  BY DEF NoneTwice
<1>6. ASSUME NEW e PROVE Placed(e)'
  <2>1. \A d \in Days : In(file'[d], e) <=> In(file[d], e) /\ ~ Expired(d)
    BY <1>2, InEmpty
  <2>2. e \in purged' <=> e \in purged \/ \E d \in Days : Expired(d) /\ In(file[d], e)
    BY <1>2, <1>3
  <2>3. Entries' = Entries
    BY <1>2 DEF Entries
  <2> QED
    BY <1>1, <1>2, <2>1, <2>2, <2>3 DEF Placed, Held, Gone
<1>7. AuditTyped' /\ Listed' /\ Queued'
  BY <1>1, <1>2, <1>4, <1>5 DEF AuditTyped, Listed, Queued
<1> QED
  BY <1>6, <1>7 DEF AuditInv

\* Steps of the clock and of the logger that touch no entry
LEMMA AuditElseKeeps ==
  ASSUME AuditInv, clock' \in 0..MaxClock,
         UNCHANGED <<stamp, queue, writing, file, dropped, failed, purged>>
  PROVE  AuditInv'
<1>1. AuditTyped' /\ Listed' /\ Queued'
  BY DEF AuditInv, AuditTyped, Listed, Queued
<1>2. \A e : Placed(e)'
  BY DEF AuditInv, Placed, Held, Gone, Entries
<1> QED
  BY <1>1, <1>2 DEF AuditInv

\* Every step keeps the invariant.
LEMMA AuditStep == AuditInv /\ [AuditNext]_auditVars => AuditInv'
<1> SUFFICES ASSUME AuditInv, [AuditNext]_auditVars PROVE AuditInv'
  OBVIOUS
<1>1. clock \in 0..MaxClock /\ MaxClock \in Nat
  BY AuditAssumption DEF AuditInv, AuditTyped
<1>2. CASE Tick
  <2>1. clock' \in 0..MaxClock
    BY <1>1, <1>2 DEF Tick
  <2> QED
    BY <1>2, <2>1, AuditElseKeeps DEF Tick
<1>3. CASE Close \/ CloseReturns \/ UNCHANGED auditVars
  BY <1>1, <1>3, AuditElseKeeps DEF Close, CloseReturns, auditVars
<1>4. CASE TimerFires
  BY <1>4, DrainKeeps DEF TimerFires, Writers
<1>5. CASE CloseFlush
  BY <1>5, DrainKeeps DEF CloseFlush, Writers
<1>6. ASSUME NEW c \in Callers, Flush(c) PROVE AuditInv'
  BY <1>6, DrainKeeps DEF Flush, Writers
<1> QED
  BY <1>2, <1>3, <1>4, <1>5, <1>6, LogKeeps, SyncLogKeeps, WriteDayKeeps, AuditWriteFailsKeeps,
     PurgeKeeps DEF AuditNext

\* core/audit_logger.py: the queue keeps to its bound, and an entry is dropped only
\* once QUEUE_MAX_SIZE newer ones have been logged.
THEOREM NewestKeptHolds == AuditSpec => []NewestKept
<1>1. AuditInv => NewestKept
  BY DEF AuditInv, Queued, NewestKept
<1> QED
  BY <1>1, AuditStarts, AuditStep, PTL DEF AuditSpec

--------------------------------------------------------------------------------

\* In a list without doubles an entry is at one position or at none.
LEMMA AtOne ==
  ASSUME NEW D, NEW s \in Seq(D), NoneTwice(s), NEW e
  PROVE  IF In(s, e) THEN \E k : At(s, e) = {k} ELSE At(s, e) = {}
<1>1. DOMAIN s = 1..Len(s)
  OBVIOUS
<1>2. CASE In(s, e)
  <2>1. PICK k \in 1..Len(s) : s[k] = e
    BY <1>2 DEF In
  <2>2. At(s, e) = {k}
    BY <1>1, <2>1 DEF At, NoneTwice
  <2> QED
    BY <1>2, <2>2
<1>3. CASE ~ In(s, e)
  BY <1>1, <1>3 DEF At, In
<1> QED
  BY <1>2, <1>3

\* An entry is once in a set or not at all.
LEMMA GoneOne ==
  ASSUME NEW set, NEW name, NEW e
  PROVE  GonePlaces(set, name, e) = IF e \in set THEN {<<name>>} ELSE {}
<1>1. CASE e \in set
  <2>1. set \cap {e} = {e}
    BY <1>1
  <2> QED
    BY <1>1, <2>1 DEF GonePlaces
<1>2. CASE e \notin set
  <2>1. set \cap {e} = {}
    BY <1>2
  <2> QED
    BY <1>2, <2>1 DEF GonePlaces
<1> QED
  BY <1>1, <1>2

\* The invariant gives the property: the places of an entry are those of one
\* list or of one set.
LEMMA AuditInvSays == AuditInv => EachInOnePlace
<1> SUFFICES ASSUME AuditInv, NEW e \in Entries PROVE Cardinality(Copies(e)) = 1
  BY DEF EachInOnePlace
<1>1. AuditTyped /\ Listed /\ Placed(e)
  BY DEF AuditInv
<1>2. Copies(e) = QueuePlaces(e) \cup WritingPlaces(e) \cup FilePlaces(e)
                    \cup GonePlaces(dropped, "dropped", e) \cup GonePlaces(failed, "failed", e)
                    \cup GonePlaces(purged, "purged", e)
  BY DEF Copies
<1>3. /\ In(queue, e) => \E p : QueuePlaces(e) = {p}
      /\ ~ In(queue, e) => QueuePlaces(e) = {}
  <2>1. IF In(queue, e) THEN \E k : At(queue, e) = {k} ELSE At(queue, e) = {}
    BY <1>1, AtOne DEF AuditTyped, Listed
  <2>2. ASSUME NEW k, At(queue, e) = {k} PROVE QueuePlaces(e) = {<<"queue", k>>}
    BY <2>2 DEF QueuePlaces
  <2>3. At(queue, e) = {} => QueuePlaces(e) = {}
    BY DEF QueuePlaces
  <2> QED
    BY <2>1, <2>2, <2>3
<1>4. \A f \in Writers : IF In(writing[f], e) THEN \E k : At(writing[f], e) = {k}
                                              ELSE At(writing[f], e) = {}
  <2> SUFFICES ASSUME NEW f \in Writers
               PROVE  IF In(writing[f], e) THEN \E k : At(writing[f], e) = {k}
                                           ELSE At(writing[f], e) = {}
    OBVIOUS
  <2>1. writing[f] \in Seq(Nat) /\ NoneTwice(writing[f])
    BY <1>1 DEF AuditTyped, Listed
  <2> QED
    BY <2>1, AtOne
<1>5. \A d \in Days : IF In(file[d], e) THEN \E k : At(file[d], e) = {k} ELSE At(file[d], e) = {}
  <2> SUFFICES ASSUME NEW d \in Days
               PROVE  IF In(file[d], e) THEN \E k : At(file[d], e) = {k} ELSE At(file[d], e) = {}
    OBVIOUS
  <2>1. file[d] \in Seq(Nat) /\ NoneTwice(file[d])
    BY <1>1 DEF AuditTyped, Listed
  <2> QED
    BY <2>1, AtOne
<1>6. ASSUME NEW f \in Writers, In(writing[f], e)
      PROVE  \E p : WritingPlaces(e) = {p}
  <2>1. PICK k : At(writing[f], e) = {k}
    BY <1>4, <1>6
  <2>2. \A g \in Writers \ {f} : At(writing[g], e) = {}
    BY <1>1, <1>4, <1>6 DEF Placed
  <2>3. \A p : p \in WritingPlaces(e) <=>
                 \E g \in Writers : \E j \in At(writing[g], e) : p = <<"writing", g, j>>
    BY DEF WritingPlaces
  <2>4. PICK place : place = <<"writing", f, k>>
    OBVIOUS
  <2>5. \A p : p \in WritingPlaces(e) <=> p = place
    BY <2>1, <2>2, <2>3, <2>4
  <2>6. WritingPlaces(e) = {place}
    BY <2>5
  <2> QED
    BY <2>6
<1>7. (\A f \in Writers : ~ In(writing[f], e)) => WritingPlaces(e) = {}
  BY <1>4 DEF WritingPlaces
<1>8. ASSUME NEW d \in Days, In(file[d], e)
      PROVE  \E p : FilePlaces(e) = {p}
  <2>1. PICK k : At(file[d], e) = {k}
    BY <1>5, <1>8
  <2>2. \A c \in Days \ {d} : At(file[c], e) = {}
    BY <1>1, <1>5, <1>8 DEF Placed
  <2>3. \A p : p \in FilePlaces(e) <=>
                 \E c \in Days : \E j \in At(file[c], e) : p = <<"file", c, j>>
    BY DEF FilePlaces
  <2>4. PICK place : place = <<"file", d, k>>
    OBVIOUS
  <2>5. \A p : p \in FilePlaces(e) <=> p = place
    BY <2>1, <2>2, <2>3, <2>4
  <2>6. FilePlaces(e) = {place}
    BY <2>5
  <2> QED
    BY <2>6
<1>9. (\A d \in Days : ~ In(file[d], e)) => FilePlaces(e) = {}
  BY <1>5 DEF FilePlaces
<1>10. /\ e \in dropped => GonePlaces(dropped, "dropped", e) = {<<"dropped">>}
       /\ e \notin dropped => GonePlaces(dropped, "dropped", e) = {}
       /\ e \in failed => GonePlaces(failed, "failed", e) = {<<"failed">>}
       /\ e \notin failed => GonePlaces(failed, "failed", e) = {}
       /\ e \in purged => GonePlaces(purged, "purged", e) = {<<"purged">>}
       /\ e \notin purged => GonePlaces(purged, "purged", e) = {}
  BY GoneOne
<1>11. \E p : Copies(e) = {p}
  <2>1. CASE In(queue, e)
    BY <1>1, <1>2, <1>3, <1>7, <1>9, <1>10, <2>1 DEF Placed, Held, Gone
  <2>2. ASSUME NEW f \in Writers, In(writing[f], e) PROVE \E p : Copies(e) = {p}
    <3>1. PICK p : WritingPlaces(e) = {p}
      BY <1>6, <2>2
    <3>2. Copies(e) = {p}
      BY <1>1, <1>2, <1>3, <1>9, <1>10, <2>2, <3>1 DEF Placed, Held, Gone
    <3> QED
      BY <3>2
  <2>3. ASSUME NEW d \in Days, In(file[d], e) PROVE \E p : Copies(e) = {p}
    <3>1. PICK p : FilePlaces(e) = {p}
      BY <1>8, <2>3
    <3>2. Copies(e) = {p}
      BY <1>1, <1>2, <1>3, <1>7, <1>10, <2>3, <3>1 DEF Placed, Held, Gone
    <3> QED
      BY <3>2
  <2>4. CASE Gone(e)
    BY <1>1, <1>2, <1>3, <1>7, <1>9, <1>10, <2>4 DEF Placed, Held, Gone
  <2> QED
    BY <1>1, <2>1, <2>2, <2>3, <2>4 DEF Placed, Held
<1> QED
  BY <1>11, FS_Singleton

\* core/audit_logger.py: whatever the timer, flush(), close() and the threads do
\* together, an entry is in one place: the queue, a batch, one line of one file, or
\* among the dropped, failed or purged.
THEOREM EachInOnePlaceHolds == AuditSpec => []EachInOnePlace
<1> QED
  BY AuditInvSays, AuditStarts, AuditStep, PTL DEF AuditSpec

------------------------------------------------------------------------------
(***************************************************************************)
(* The archives of core/backup/ for any components and retention, any      *)
(* number of writes of the application, failed runs and damaged archives.  *)
(*                                                                         *)
(* What a restore finds in an archive depends on the run that wrote it, so *)
(* the invariant follows the copy from the graph through the job into the  *)
(* archive and its manifest.                                               *)
(***************************************************************************)

Copy == [Files -> Int]
Dirs == {DirOf(c) : c \in Included}
Kinds == {"json", "sqlite", "sqlite copy", "postgres"}
Archive == [age : Nat, whole : BOOLEAN, kind : Kinds,
            sums : [Included -> {"dir", "file"} \X Copy],
            copied : [Dirs -> Copy], content : [Dirs -> Copy]]
Job == [phase : {"none", "copy", "tar", "close", "retain"}, kind : Kinds, copy : Copy]

Typed == live \in Copy /\ job \in Job /\ archives \subseteq Archive

\* A node is in its file before its links are.
Written == live["f1"] - live["f2"] \in {0, 1}

\* One instant of a graph, or no graph at all
AtOnce(kind, copy) ==
  kind \in {"sqlite", "postgres"} /\ copy # Placeholder => copy["f1"] - copy["f2"] \in {0, 1}

JobAtOnce == job.phase \in {"tar", "close", "retain"} => AtOnce(job.kind, job.copy)

\* The manifest of an archive is about what was copied into it.
Summed(a) == \A c \in Included \cap Dirs : a.sums[c] = ChecksumOf(c, a.kind, a.copied[c])

Archived == \A a \in archives : AtOnce(a.kind, a.copied["graph"]) /\ Summed(a)

\* The archive of a run that got so far is there, and young.
JobArchived ==
  /\ job.phase = "close" => \E a \in archives : a.age = 0 /\ ~a.whole
  /\ job.phase = "retain" => \E a \in archives : a.age = 0 /\ a.whole

BackupInv == Typed /\ Written /\ JobAtOnce /\ Archived /\ JobArchived

\* WholeArchiveStays speaks of one step.
WholeStays == (\E a \in archives : a.whole) => (\E a \in archives' : a.whole)

-----------------------------------------------------------------------------
\* The graph is a directory of every archive.
LEMMA GraphArchived == "graph" \in Dirs
BY BackupAssumption DEF Dirs, DirOf

\* What an archive is made of comes from the job.
LEMMA NewArchive ==
  ASSUME NEW j \in Job, AtOnce(j.kind, j.copy)
  PROVE  /\ ArchiveOf(j) \in Archive
         /\ ArchiveOf(j).age = 0 /\ ~ArchiveOf(j).whole
         /\ AtOnce(ArchiveOf(j).kind, ArchiveOf(j).copied["graph"])
         /\ Summed(ArchiveOf(j))
<1> DEFINE A == ArchiveOf(j)
           C == [d \in Dirs |-> IF d = "graph" THEN j.copy ELSE AsCopied]
<1>1. A = [age |-> 0, whole |-> FALSE, kind |-> j.kind, sums |-> SumsOf(j),
           copied |-> C, content |-> C]
  BY DEF ArchiveOf, Dirs
<1>2. C \in [Dirs -> Copy] /\ C["graph"] = j.copy
  BY GraphArchived DEF Job, Copy, AsCopied
<1>3. SumsOf(j) \in [Included -> {"dir", "file"} \X Copy]
  BY DEF SumsOf, ChecksumOf, Job, Copy, AsCopied
<1>4. A.age = 0 /\ ~A.whole /\ A.kind = j.kind /\ A.sums = SumsOf(j) /\ A.copied = C
  BY <1>1
<1>5. A \in Archive
  BY <1>1, <1>2, <1>3 DEF Archive, Job
<1>6. Summed(A)
  BY <1>4 DEF Summed, SumsOf
<1> QED
  BY <1>2, <1>4, <1>5, <1>6

\* A day, the end of a run and the disk leave an archive's copy and manifest alone.
LEMMA AgedArchive ==
  ASSUME NEW a \in Archive, NEW n \in Nat
  PROVE  /\ [a EXCEPT !.age = n] \in Archive
         /\ [a EXCEPT !.age = n].whole = a.whole
         /\ AtOnce(a.kind, a.copied["graph"]) =>
              AtOnce([a EXCEPT !.age = n].kind, [a EXCEPT !.age = n].copied["graph"])
         /\ Summed(a) => Summed([a EXCEPT !.age = n])
BY DEF Archive, Summed

\* Closing an archive changes neither its age nor what it holds.
LEMMA ClosedArchive ==
  ASSUME NEW a \in Archive
  PROVE  /\ [a EXCEPT !.whole = TRUE] \in Archive
         /\ [a EXCEPT !.whole = TRUE].whole /\ [a EXCEPT !.whole = TRUE].age = a.age
         /\ AtOnce(a.kind, a.copied["graph"]) =>
              AtOnce([a EXCEPT !.whole = TRUE].kind, [a EXCEPT !.whole = TRUE].copied["graph"])
         /\ Summed(a) => Summed([a EXCEPT !.whole = TRUE])
BY DEF Archive, Summed

\* Damage to one directory of an archive leaves its checksums and its copy of the graph as they were.
LEMMA DamagedArchive ==
  ASSUME NEW a \in Archive, NEW d \in Dirs
  PROVE  LET b == [a EXCEPT !.content[d] = Damaged]
         IN  /\ b \in Archive
             /\ b.whole = a.whole /\ b.age = a.age
             /\ AtOnce(a.kind, a.copied["graph"]) => AtOnce(b.kind, b.copied["graph"])
             /\ Summed(a) => Summed(b)
<1> DEFINE b == [a EXCEPT !.content[d] = Damaged]
<1>1. [a.content EXCEPT ![d] = Damaged] \in [Dirs -> Copy]
  BY DEF Archive, Copy, Damaged
<1>2. /\ b.age = a.age /\ b.whole = a.whole /\ b.kind = a.kind
      /\ b.sums = a.sums /\ b.copied = a.copied
  BY DEF Archive
<1>3. b \in Archive
  BY <1>1 DEF Archive
<1> QED
  BY <1>2, <1>3 DEF Summed

-----------------------------------------------------------------------------
\* The application and the begin of a run change no archive.
LEMMA WriteKeeps ==
  ASSUME BackupInv, NEW f \in Files, WriteGraph(f) PROVE BackupInv' /\ WholeStays
<1>1. live' \in Copy /\ Written'
  BY DEF BackupInv, Typed, Written, WriteGraph, Copy, Files
<1> QED
  BY <1>1 DEF BackupInv, Typed, JobAtOnce, Archived, JobArchived, WriteGraph, WholeStays

\* A backup that begins keeps the invariant and leaves whole archives whole.
LEMMA BeginKeeps ==
  ASSUME BackupInv, NEW kind \in GraphKinds, BeginBackup(kind) PROVE BackupInv' /\ WholeStays
<1>a. kind \in Kinds
  BY BackupAssumption DEF Kinds
<1>1. kind \in Kinds /\ NoCopy \in Copy
  BY <1>a DEF Copy, NoCopy
<1>2. job' \in Job /\ job'.phase = "copy"
  BY <1>1 DEF BeginBackup, Job
<1> QED
  BY <1>2 DEF BackupInv, Typed, Written, JobAtOnce, Archived, JobArchived, BeginBackup, WholeStays

\* A graph is copied at once, or its kind says that it was not.
LEMMA CopyKeeps ==
  ASSUME BackupInv,
         \/ \E f \in Files : CopyFile(f) \/ CopyRest(f)
         \/ CopyAtOnce
         \/ DumpFails
  PROVE  BackupInv' /\ WholeStays
<1> USE DEF BackupInv, Typed
<1>1. UNCHANGED <<live, archives>>
  BY DEF CopyFile, CopyRest, CopyAtOnce, DumpFails
<1>2. ASSUME NEW f \in Files, CopyFile(f)
      PROVE  job' \in Job /\ job'.phase \in {"copy", "tar"} /\ AtOnce(job'.kind, job'.copy)
  <2>1. job' = [phase |-> job'.phase,
                kind |-> IF job.kind = "sqlite" THEN "sqlite copy" ELSE job.kind,
                copy |-> [job.copy EXCEPT ![f] = live[f]]]
        /\ job'.phase \in {"copy", "tar"}
    BY <1>2 DEF CopyFile, Job
  <2>2. [job.copy EXCEPT ![f] = live[f]] \in Copy
    BY DEF Job, Copy
  <2>3. job'.kind \in {"json", "sqlite copy"} /\ job' \in Job
    BY <1>2, <2>1, <2>2 DEF CopyFile, Job, Kinds
  <2> QED
    BY <2>1, <2>3 DEF AtOnce
<1>3. ASSUME NEW f \in Files, CopyRest(f)
      PROVE  job' \in Job /\ job'.phase \in {"copy", "tar"} /\ AtOnce(job'.kind, job'.copy)
  <2>1. job' = [phase |-> "tar", kind |-> job.kind, copy |-> [job.copy EXCEPT ![f] = live[f]]]
    BY <1>3 DEF CopyRest, Job
  <2>2. [job.copy EXCEPT ![f] = live[f]] \in Copy
    BY DEF Job, Copy
  <2> QED
    BY <1>3, <2>1, <2>2 DEF CopyRest, Job, AtOnce
<1>4. ASSUME CopyAtOnce
      PROVE  job' \in Job /\ job'.phase \in {"copy", "tar"} /\ AtOnce(job'.kind, job'.copy)
  <2>1. job' = [phase |-> "tar", kind |-> job.kind, copy |-> live]
    BY <1>4 DEF CopyAtOnce, Job
  <2> QED
    BY <2>1 DEF Job, AtOnce, Written
<1>5. ASSUME DumpFails
      PROVE  job' \in Job /\ job'.phase \in {"copy", "tar"} /\ AtOnce(job'.kind, job'.copy)
  <2>1. job' = [phase |-> "tar", kind |-> job.kind, copy |-> Placeholder]
    BY <1>5 DEF DumpFails, Job
  <2>2. Placeholder \in Copy
    BY DEF Placeholder, Copy
  <2> QED
    BY <2>1, <2>2 DEF Job, AtOnce
<1> QED
  BY <1>1, <1>2, <1>3, <1>4, <1>5 DEF Written, JobAtOnce, Archived, JobArchived, WholeStays

\* A new archive is of the job; those there were stay.
LEMMA OpenKeeps == ASSUME BackupInv, OpenArchive PROVE BackupInv' /\ WholeStays
<1> USE DEF BackupInv, Typed
<1>1. /\ archives' = archives \cup {ArchiveOf(job)} /\ live' = live
      /\ job' = [phase |-> "close", kind |-> job.kind, copy |-> job.copy]
  BY DEF OpenArchive, Job
<1>2. job' \in Job /\ AtOnce(job.kind, job.copy)
  BY <1>1 DEF OpenArchive, Job, JobAtOnce
<1>3. ArchiveOf(job) \in Archive /\ ArchiveOf(job).age = 0 /\ ~ArchiveOf(job).whole
  BY <1>2, NewArchive
<1>4. Archived'
  BY <1>1, <1>2, NewArchive DEF Archived
<1> QED
  BY <1>1, <1>2, <1>3, <1>4 DEF Written, JobAtOnce, JobArchived, WholeStays

\* Closing takes away a half-written archive and puts a whole one in its place.
LEMMA CloseKeeps == ASSUME BackupInv, CloseArchive PROVE BackupInv' /\ WholeStays
<1> USE DEF BackupInv, Typed
<1> DEFINE closed == [Today EXCEPT !.whole = TRUE]
<1>1. Today \in archives /\ Today.age = 0 /\ ~Today.whole
  BY DEF CloseArchive, JobArchived, Today
<1>2. /\ archives' = (archives \ {Today}) \cup {closed} /\ live' = live
      /\ job' = [phase |-> "retain", kind |-> job.kind, copy |-> job.copy]
  BY DEF CloseArchive, Job
<1>3. closed \in Archive /\ closed.age = 0 /\ closed.whole
  BY <1>1, ClosedArchive
<1>4. Archived'
  BY <1>1, <1>2, ClosedArchive DEF Archived
<1>5. job' \in Job /\ JobAtOnce'
  BY <1>2 DEF CloseArchive, Job, JobAtOnce
<1> QED
  BY <1>1, <1>2, <1>3, <1>4, <1>5 DEF Written, JobArchived, WholeStays

\* Retention spares the archive of its own run, which is whole by then.
LEMMA RetainKeeps ==
  ASSUME BackupInv, Retain PROVE BackupInv' /\ (KeepDays > 0 => WholeStays)
<1>1. /\ archives' \subseteq archives /\ job' = NoBackup /\ live' = live
      /\ \A a \in archives : a.age < KeepDays => a \in archives'
  <2>1. PICK late \in SUBSET Borderline : archives' = archives \ (Outdated \cup late)
    BY DEF Retain
  <2>2. \A a \in archives : a.age < KeepDays => a \notin Outdated \cup late
    BY <2>1, BackupAssumption DEF Outdated, Borderline, BackupInv, Typed, Archive
  <2> QED
    BY <2>1, <2>2 DEF Retain
<1>2. KeepDays > 0 => WholeStays
  <2>1. PICK a \in archives : a.age = 0 /\ a.whole
    BY DEF BackupInv, JobArchived, Retain
  <2> QED
    BY <1>1, <2>1 DEF WholeStays
<1>3. NoBackup \in Job
  BY DEF NoBackup, Job, Kinds, Copy, NoCopy
<1>4. BackupInv'
  BY <1>1, <1>3 DEF BackupInv, Typed, Written, JobAtOnce, Archived, JobArchived, NoBackup
<1> QED
  BY <1>2, <1>4

\* A run that fails takes nothing with it.
LEMMA FailKeeps == ASSUME BackupInv, BackupFails PROVE BackupInv' /\ WholeStays
<1>1. NoBackup \in Job
  BY DEF NoBackup, Job, Kinds, Copy, NoCopy
<1> QED
  BY <1>1 DEF BackupInv, Typed, Written, JobAtOnce, Archived, JobArchived, BackupFails,
     NoBackup, WholeStays

\* Archives get older between the runs only.
LEMMA NextDayKeeps == ASSUME BackupInv, NextDay PROVE BackupInv' /\ WholeStays
<1> USE DEF BackupInv, Typed
<1> DEFINE older(a) == IF a.age > KeepDays THEN a.age ELSE a.age + 1
<1>1. archives' = {[a EXCEPT !.age = older(a)] : a \in archives}
  BY DEF NextDay
<1>2. \A a \in archives : older(a) \in Nat
  BY DEF Archive
<1> HIDE DEF older
<1>3. \A a \in archives : [a EXCEPT !.age = older(a)] \in Archive
  BY <1>2, AgedArchive
<1>4. ASSUME NEW a \in archives, a.whole PROVE \E b \in archives' : b.whole
  <2>1. [a EXCEPT !.age = older(a)] \in archives'
    BY <1>1
  <2>2. [a EXCEPT !.age = older(a)].whole
    BY <1>2, <1>4, AgedArchive
  <2> QED
    BY <2>1, <2>2
<1>5. archives' \subseteq Archive /\ WholeStays
  BY <1>1, <1>3, <1>4 DEF WholeStays
<1>6. Archived'
  BY <1>1, <1>2, AgedArchive DEF Archived
<1> QED
  BY <1>5, <1>6 DEF NextDay, Written, JobAtOnce, JobArchived

\* Damage changes the content of an archive, neither its copy nor its manifest.
LEMMA DamageKeeps ==
  ASSUME BackupInv, NEW a \in archives, NEW d \in Dirs, Damage(a, d)
  PROVE  BackupInv' /\ WholeStays
<1> USE DEF BackupInv, Typed
<1> DEFINE b == [a EXCEPT !.content[d] = Damaged]
<1>1. a \in Archive /\ a.whole
  BY DEF Damage
<1>2. archives' = (archives \ {a}) \cup {b} /\ UNCHANGED <<live, job>>
  BY DEF Damage
<1>3. /\ b \in Archive /\ b.whole = a.whole /\ b.age = a.age
      /\ AtOnce(a.kind, a.copied["graph"]) => AtOnce(b.kind, b.copied["graph"])
      /\ Summed(a) => Summed(b)
  BY <1>1, DamagedArchive
<1> HIDE DEF b
<1> QED
  BY <1>1, <1>2, <1>3 DEF Written, JobAtOnce, Archived, JobArchived, WholeStays

\* Every step keeps the invariant, and a whole archive.
LEMMA BackupSteps ==
  ASSUME BackupInv, [BackupNext]_backupVars PROVE BackupInv' /\ (KeepDays > 0 => WholeStays)
<1>1. CASE BackupNext
  BY <1>1, WriteKeeps, BeginKeeps, CopyKeeps, OpenKeeps, CloseKeeps, RetainKeeps, FailKeeps,
     NextDayKeeps, DamageKeeps DEF BackupNext, BackupRun, Dirs
<1>2. CASE UNCHANGED backupVars
  BY <1>2 DEF backupVars, BackupInv, Typed, Written, JobAtOnce, Archived, JobArchived, WholeStays
<1> QED
  BY <1>1, <1>2

\* A backup begins with a graph nobody has written and no archive.
LEMMA BackupBegins == ASSUME BackupInit PROVE BackupInv
<1>1. live \in Copy /\ Written
  BY DEF BackupInit, Copy, Written, Files
<1>2. job \in Job /\ job.phase = "none"
  BY DEF BackupInit, NoBackup, Job, Kinds, Copy, NoCopy
<1> QED
  BY <1>1, <1>2 DEF BackupInit, BackupInv, Typed, JobAtOnce, Archived, JobArchived

-----------------------------------------------------------------------------
\* The checksum of another content is another: a restore without errors that verified
\* wrote what was copied.
LEMMA InvFaithful == ASSUME BackupInv PROVE ArchivesFaithful
<1>1. PointInTime
  BY DEF BackupInv, Archived, AtOnce, PointInTime
<1>2. ASSUME NEW a \in archives, NEW asked \in {{"graph"}, Dirs},
             NEW r \in Restores(a, TRUE, asked), r.verified, ~r.errors,
             NEW c \in Included \cap asked, c \in DOMAIN a.copied
      PROVE  r.wrote[c] = a.copied[c]
  <2>1. a \in Archive /\ DOMAIN a.content = Dirs /\ DOMAIN a.copied = Dirs
    BY DEF BackupInv, Typed, Archive
  <2> DEFINE dirs == Dirs \cap asked
             write(ds) == [d \in ds |-> a.content[d]]
             refused == [verified |-> FALSE, errors |-> TRUE, wrote |-> write({})]
             done == [verified |-> TRUE, errors |-> FALSE, wrote |-> write(dirs)]
             spoilt(d) == [verified |-> TRUE, errors |-> TRUE, wrote |-> write(dirs \ {d})]
  <2>a. Restores(a, TRUE, asked) =
          IF ~a.whole \/ ~Verified(a) THEN {refused} ELSE {done} \cup {spoilt(d) : d \in dirs}
    BY <2>1 DEF Restores
  <2>b. refused.errors /\ \A d \in dirs : spoilt(d).errors
    OBVIOUS
  <2>c. done.wrote = write(dirs)
    OBVIOUS
  <2> HIDE DEF refused, done, spoilt
  <2>d. r # refused /\ \A d \in dirs : r # spoilt(d)
    BY <1>2, <2>b
  <2>e. Verified(a) /\ r = done
    BY <1>2, <2>a, <2>d
  <2>2. Verified(a) /\ r.wrote = write(dirs)
    BY <2>c, <2>e
  <2>3. <<"dir", a.content[c]>> = a.sums[c]
    BY <1>2, <2>1, <2>2 DEF Verified, Found
  <2>4. a.sums[c] = ChecksumOf(c, a.kind, a.copied[c])
    BY <1>2, <2>1 DEF BackupInv, Archived, Summed
  <2>5. a.content[c] = a.copied[c]
    BY <2>3, <2>4 DEF ChecksumOf
  <2> QED
    BY <1>2, <2>1, <2>2, <2>5
<1>3. RestoredFaithfully
  BY <1>2 DEF RestoredFaithfully, Dirs
<1> QED
  BY <1>1, <1>3 DEF ArchivesFaithful

\* An archive holds a state there was, and a verified restore brings back that one.
THEOREM BackupFaithful == BackupSpec => []ArchivesFaithful
BY BackupBegins, BackupSteps, InvFaithful, PTL DEF BackupSpec

\* With a retention of a day or more, no step leaves the host without a whole archive,
\* once there was one.
THEOREM BackupKept ==
  ASSUME KeepDays > 0 PROVE BackupSpec => WholeArchiveStays
<1>1. BackupInv /\ [BackupNext]_backupVars => [WholeStays]_backupVars
  BY BackupSteps
<1>2. BackupSpec => [][WholeStays]_backupVars
  BY <1>1, BackupBegins, BackupSteps, PTL DEF BackupSpec
<1> QED
  BY <1>2 DEF WholeArchiveStays, WholeStays

==============================================================================
