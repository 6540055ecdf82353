----------------------------- MODULE NodeMounts -----------------------------
(***************************************************************************)
(* What a node service promises the kubelet, without calls, retries or     *)
(* caches.  A volume is mounted at the staging path of the node, and from  *)
(* there for the pod, each time with its own contents; the kubelet records *)
(* a mount as there or gone only when it is so; the pod's mount comes last *)
(* and goes first; and a volume leaves the node unmounted.  Of the volumes *)
(* that are excused nothing is promised.                                   *)
(***************************************************************************)
CONSTANTS
  Volumes,
  Contents,  \* what may be seen at a path
  None       \* nothing is mounted

VARIABLES
  present,   \* the volumes that are attached to the node
  stages,    \* are volumes mounted at a staging path first?
  own,       \* volume -> its own contents, None if there is no way to mount it
  mount,     \* volume -> path -> what is mounted there
  record,    \* volume -> path -> what the kubelet has recorded of the mount
  excused    \* volumes of which nothing is promised

vars == <<present, stages, own, mount, record, excused>>

Paths == {"staging", "pod"}
Seen == Contents \union {None}
Records == {"no", "uncertain", "yes"}

Init ==
  /\ present \in SUBSET Volumes
  /\ stages \in BOOLEAN
  /\ own \in [Volumes -> Seen]
  /\ mount = [v \in Volumes |-> [p \in Paths |-> None]]
  /\ record = [v \in Volumes |-> [p \in Paths |-> "no"]]
  /\ excused \in SUBSET Volumes
-----------------------------------------------------------------------------
(* The kubelet *)

Write(v, p, r) ==
  /\ record' = [record EXCEPT ![v][p] = r]
  /\ UNCHANGED <<present, stages, own, mount, excused>>

(* A mount is to be made or undone. *)
Ask(v, p) ==
  /\ p = "staging" => record[v]["pod"] = "no"
  /\ p = "pod" /\ stages => record[v]["staging"] = "yes"
  /\ Write(v, p, "uncertain")

Done(v, p) ==
  /\ record[v][p] = "uncertain" /\ mount[v][p] = own[v] /\ own[v] # None
  /\ Write(v, p, "yes")

Undone(v, p) ==
  /\ record[v][p] = "uncertain" /\ mount[v][p] = None
  /\ Write(v, p, "no")

(* A volume that is not in use is made anew. *)
Renew(v) ==
  /\ \A p \in Paths : record[v][p] = "no"
  /\ \E c \in Seen : own' = [own EXCEPT ![v] = c]
  /\ UNCHANGED <<present, stages, mount, record, excused>>
-----------------------------------------------------------------------------
(* The node *)

Arrive(v) ==
  /\ present' = present \union {v}
  /\ UNCHANGED <<stages, own, mount, record, excused>>

Leave(v) ==
  /\ v \notin excused => \A p \in Paths : record[v][p] = "no" /\ mount[v][p] = None
  /\ present' = present \ {v}
  /\ UNCHANGED <<stages, own, mount, record, excused>>

Put(v, p, c) ==
  /\ record[v][p] = "uncertain"
  /\ mount' = [mount EXCEPT ![v][p] = c]
  /\ UNCHANGED <<present, stages, own, record, excused>>

Mount(v, p) ==
  /\ v \in present /\ mount[v][p] = None
  /\ p = "pod" /\ stages => record[v]["staging"] = "yes"
  /\ Put(v, p, own[v])

Unmount(v, p) == Put(v, p, None)

(* The node starts anew. *)
Reboot ==
  /\ mount' = [v \in Volumes |-> [p \in Paths |-> None]]
  /\ record' = [v \in Volumes |-> [p \in Paths |-> "no"]]
  /\ excused' \in SUBSET excused
  /\ UNCHANGED <<present, stages, own>>

(* Something happens to a volume that is excused now, if not before. *)
Stray(v) ==
  /\ excused' = excused \union {v}
  /\ \E m \in [Paths -> Seen] : mount' = [mount EXCEPT ![v] = m]
  /\ \E r \in [Paths -> Records] : record' = [record EXCEPT ![v] = r]
  /\ UNCHANGED <<present, stages, own>>

Next ==
  \/ \E v \in Volumes, p \in Paths :
       Ask(v, p) \/ Done(v, p) \/ Undone(v, p) \/ Mount(v, p) \/ Unmount(v, p)
  \/ \E v \in Volumes : Renew(v) \/ Arrive(v) \/ Leave(v) \/ Stray(v)
  \/ Reboot

Spec == Init /\ [][Next]_vars
=============================================================================
