------------------------------ MODULE ExclusiveLock ------------------------------
(***************************************************************************)
(* What a lock on each resource promises: it is taken only when it is      *)
(* free, so it passes from one holder to another only by becoming free.    *)
(***************************************************************************)
CONSTANTS Resources, Holders, None

VARIABLE owner

Take(r) == /\ owner[r] = None
           /\ \E h \in Holders : owner' = [owner EXCEPT ![r] = h]

\* Locks are released, and time or a restart can free several of them at once.
Free == /\ owner' # owner
        /\ \E S \in SUBSET Resources :
              owner' = [r \in Resources |-> IF r \in S THEN None ELSE owner[r]]

Init == owner = [r \in Resources |-> None]

Next == Free \/ \E r \in Resources : Take(r)

Spec == Init /\ [][Next]_owner
================================================================================
