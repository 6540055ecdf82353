---------------------------- MODULE Attachments ----------------------------
(***************************************************************************)
(* What attaching promises, without calls, polls or retries: a disk is     *)
(* asked for on one node at a time, it is recorded as attached only when   *)
(* its node can use it, it leaves a node that can use it only when its     *)
(* release is asked for, and it is recorded as detached only when it is    *)
(* away.  A disk that is brought where it was not asked for, or overlooked *)
(* there, is adrift until it leaves, and may be recorded as detached.  A   *)
(* disk taken from a node unasked is seized until the orchestrator's next  *)
(* request, and may be recorded as attached.  BlockAttach implements this. *)
(***************************************************************************)
CONSTANTS Volumes, Nodes,
          None       \* no node

VARIABLES
  place,    \* volume -> [node, usable]: where it is, and can the node open it?
  record,   \* volume -> node -> what the orchestrator has recorded
  up,       \* node -> does it exist?
  adrift,   \* volumes on a node that is not known to have them
  seized    \* <<v, n>> where v was taken from n unasked

vars == <<place, record, up, adrift, seized>>

Away == [node |-> None, usable |-> FALSE]
Records == {"detached", "attaching", "attached", "detaching"}

Init ==
  /\ place = [v \in Volumes |-> Away]
  /\ record = [v \in Volumes |-> [n \in Nodes |-> "detached"]]
  /\ up = [n \in Nodes |-> TRUE]
  /\ adrift = {} /\ seized = {}
-----------------------------------------------------------------------------
(* The orchestrator *)

Write(v, n, r) ==
  /\ record' = [record EXCEPT ![v][n] = r]
  /\ UNCHANGED <<place, up, adrift>>

(* A request, which may be repeated. *)
Ask(v, n) ==
  /\ record[v][n] = "attaching" \/ \A m \in Nodes : record[v][m] = "detached"
  /\ Write(v, n, "attaching")
  /\ seized' = seized \ {<<v, n>>}

Confirm(v, n) ==
  /\ record[v][n] = "attaching"
  /\ up[n] => place[v] = [node |-> n, usable |-> TRUE] \/ <<v, n>> \in seized
  /\ Write(v, n, "attached")
  /\ UNCHANGED seized

Release(v, n) ==
  /\ record[v][n] # "detached"
  /\ Write(v, n, "detaching")
  /\ seized' = seized \ {<<v, n>>}

Free(v, n) ==
  /\ record[v][n] = "detaching"
  /\ place[v].node # n \/ v \in adrift
  /\ Write(v, n, "detached")
  /\ UNCHANGED seized

(* A disk to be released is taken to be away. *)
Overlook(v, n) ==
  /\ record[v][n] = "detaching" /\ place[v].node = n
  /\ adrift' = adrift \union {v}
  /\ UNCHANGED <<place, record, up, seized>>
-----------------------------------------------------------------------------
(* The cloud *)

Put(v, p) ==
  /\ place' = [place EXCEPT ![v] = p]
  /\ UNCHANGED <<record, up>>

Bring(v, n) ==
  /\ up[n] /\ place[v] = Away
  /\ Put(v, [node |-> n, usable |-> FALSE])
  /\ adrift' = IF record[v][n] = "attaching" THEN adrift ELSE adrift \union {v}
  /\ UNCHANGED seized

(* The disk can be used, at first or again. *)
Connect(v) ==
  /\ place[v].node # None /\ ~ place[v].usable
  /\ Put(v, [node |-> place[v].node, usable |-> TRUE])
  /\ UNCHANGED <<adrift, seized>>

Disconnect(v) ==
  LET n == place[v].node IN
  /\ place[v].usable
  /\ Put(v, [node |-> n, usable |-> FALSE])
  /\ seized' = IF record[v][n] = "detaching" THEN seized ELSE seized \union {<<v, n>>}
  /\ UNCHANGED adrift

(* An attachment that was never finished, or a detachment that is. *)
TakeAway(v) ==
  /\ place[v].node # None /\ ~ place[v].usable
  /\ Put(v, Away)
  /\ adrift' = adrift \ {v}
  /\ UNCHANGED seized

LoseNode(n) ==
  /\ up[n]
  /\ up' = [up EXCEPT ![n] = FALSE]
  /\ place' = [v \in Volumes |-> IF place[v].node = n THEN Away ELSE place[v]]
  /\ adrift' = {v \in adrift : place[v].node # n}
  /\ UNCHANGED <<record, seized>>

Next ==
  \/ \E v \in Volumes, n \in Nodes :
       Ask(v, n) \/ Confirm(v, n) \/ Release(v, n) \/ Free(v, n) \/ Overlook(v, n) \/ Bring(v, n)
  \/ \E v \in Volumes : Connect(v) \/ Disconnect(v) \/ TakeAway(v)
  \/ \E n \in Nodes : LoseNode(n)

Spec == Init /\ [][Next]_vars
=============================================================================
