------------------------------- MODULE TaskBoard -------------------------------
(***************************************************************************)
(* What the task store promises its users, whoever calls it and however    *)
(* the calls interleave: a task is posted once, by its owner; while it is  *)
(* pending it moves from assignee to assignee; it is finished once and     *)
(* then stays as it is; and every change adds one to its version, so that  *)
(* a version names one state of the task.                                  *)
(***************************************************************************)
EXTENDS Naturals

CONSTANTS Users, Ids, None

VARIABLE board

Post(id) ==
    /\ board[id] = None
    /\ \E u \in Users, sh \in SUBSET Users, st \in {"pending", "completed", "failed"} :
           board' = [board EXCEPT ![id] = [status |-> st, owner |-> u, assignee |-> None,
                                           shared |-> sh, version |-> 1]]

Open(id) == board[id] # None /\ board[id].status = "pending"

Assign(id) ==
    /\ Open(id)
    /\ \E u \in Users :
           board' = [board EXCEPT ![id].assignee = u, ![id].version = @ + 1]

Finish(id) ==
    /\ Open(id)
    /\ \E st \in {"completed", "failed"} :
           board' = [board EXCEPT ![id].status = st, ![id].version = @ + 1]

Init == board = [id \in Ids |-> None]

Next == \E id \in Ids : Post(id) \/ Assign(id) \/ Finish(id)

Spec == Init /\ [][Next]_board
================================================================================
