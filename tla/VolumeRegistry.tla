--------------------------- MODULE VolumeRegistry ---------------------------
(***************************************************************************)
(* What a CSI controller promises about volumes, without saying how: a     *)
(* name stands for at most one volume at a time, a volume is handed to the *)
(* orchestrator only in the states agreed upon, the capacity it was        *)
(* promised is there, and capacity never shrinks.  Uniqueness can be given *)
(* up, name by name and for good; nothing else can.  FileController,       *)
(* BlockVolumes and BlockSnapshots implement this.                         *)
(***************************************************************************)
EXTENDS Naturals

CONSTANTS Names,      \* the names CreateVolume is called with
          Ids,        \* the ids the cloud may give to a volume
          Sizes,      \* capacities in GiB
          None,       \* the name of a volume that does not exist yet
          Grantable   \* the states in which a volume may be handed out

VARIABLES volume,     \* id -> [name, state, size]
          granted,    \* id -> largest capacity the orchestrator was told
          excused     \* the names that may have come to stand for several

vars == <<volume, granted, excused>>

States == {"absent", "building", "ready", "removed"}

TypeOK ==
  /\ volume \in [Ids -> [name : Names \union {None}, state : States, size : Sizes \union {0}]]
  /\ granted \in [Ids -> Sizes \union {0}]
  /\ excused \subseteq Names

Standing(id) == volume[id].state \in {"building", "ready"}

Init ==
  /\ volume = [id \in Ids |-> [name |-> None, state |-> "absent", size |-> 0]]
  /\ granted = [id \in Ids |-> 0]
  /\ excused = {}

(* It is no longer known what a name stands for. *)
Excuse(n) ==
  /\ excused' = excused \union {n}
  /\ UNCHANGED <<volume, granted>>

(* A volume is started under a name no standing volume has. *)
Provision(id, n, s) ==
  /\ volume[id].state = "absent"
  /\ n \in excused \/ \A other \in Ids : Standing(other) => volume[other].name # n
  /\ volume' = [volume EXCEPT ![id] = [name |-> n, state |-> "building", size |-> s]]
  /\ UNCHANGED <<granted, excused>>

Finish(id) ==
  /\ volume[id].state = "building"
  /\ volume' = [volume EXCEPT ![id].state = "ready"]
  /\ UNCHANGED <<granted, excused>>

Grow(id, s) ==
  /\ volume[id].state = "ready"
  /\ s > volume[id].size
  /\ volume' = [volume EXCEPT ![id].size = s]
  /\ UNCHANGED <<granted, excused>>

(* Where "removed" is grantable the answer may be late: the volume can be
   removed while it travels. *)
Grant(id, s) ==
  /\ volume[id].state \in Grantable
  /\ s > granted[id]
  /\ s <= volume[id].size
  /\ granted' = [granted EXCEPT ![id] = s]
  /\ UNCHANGED <<volume, excused>>

(* A volume that fails while it is built is given up as well. *)
Remove(id) ==
  /\ Standing(id)
  /\ volume' = [volume EXCEPT ![id].state = "removed"]
  /\ UNCHANGED <<granted, excused>>

Next ==
  \/ \E n \in Names : Excuse(n)
  \/ \E id \in Ids :
       \/ \E n \in Names, s \in Sizes : Provision(id, n, s)
       \/ Finish(id)
       \/ \E s \in Sizes : Grow(id, s)
       \/ \E s \in Sizes : Grant(id, s)
       \/ Remove(id)

Spec == Init /\ [][Next]_vars
=============================================================================
