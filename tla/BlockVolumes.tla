---------------------------- MODULE BlockVolumes ----------------------------
(***************************************************************************)
(* CreateVolume and DeleteVolume of the block storage driver               *)
(* (src/driver/blockstorage/controller.go:43-153) between the provisioner  *)
(* that calls them and the volume API.  These handlers hold no lock and    *)
(* wait for nothing: what keeps retries apart is that an API call fails    *)
(* once the context of its request has expired.                            *)
(***************************************************************************)
EXTENDS Naturals, FiniteSets

CONSTANTS
  Handlers,      \* gRPC handler goroutines that may run at once
  Names,         \* volume names, one per claim
  Ids,           \* volume ids the API can give out: a quota on volumes
  Sizes,         \* capacities in GiB
  Asked,         \* [Names -> SUBSET Sizes]: sizes CreateVolume(name) is called with
  None,          \* no volume, no name
  MaxFaults      \* bound on failing calls, timeouts, losses and restarts

ASSUME NoneAssumption == None \notin Names \union Ids
ASSUME SizesAssumption == Sizes \subseteq Nat \ {0} /\ Asked \in [Names -> SUBSET Sizes]
ASSUME BoundsAssumption == MaxFaults \in Nat

VARIABLES
  volumes,   \* the API's volumes: id -> [name, status, size]
  late,      \* create requests given up by their caller and not yet executed
  call,      \* handler -> its local variables
  claim,     \* name -> what the provisioner has recorded: [state, id, capacity]
  doubtful,  \* names a create was sent for blindly, or overdue (history)
  faults

cloud == <<volumes, late>>
vars == <<cloud, call, claim, doubtful, faults>>
-----------------------------------------------------------------------------
Statuses == {"none", "creating", "available", "busy", "error", "deleting", "gone"}
Volumes == [name : Names \union {None}, status : Statuses, size : Sizes \union {0}]

Idle == [op |-> "none", pc |-> "idle", n |-> None, id |-> None, size |-> 0, live |-> FALSE]
Calls == [op : {"none", "create", "delete"},
          pc : {"idle", "list", "create", "delete", "reply"},
          n : Names \union {None}, id : Ids \union {None},
          size : Sizes \union {0}, live : BOOLEAN]
Claims == [state : {"pending", "bound", "released", "deleted"},
           id : Ids \union {None}, capacity : Sizes \union {0}]

TypeOK ==
  /\ volumes \in [Ids -> Volumes]
  /\ late \subseteq Names \X Sizes
  /\ call \in [Handlers -> Calls]
  /\ claim \in [Names -> Claims]
  /\ doubtful \subseteq Names
  /\ faults \in 0..MaxFaults
  /\ \A n \in Names : claim[n].state # "pending" => claim[n].id # None

Init ==
  /\ volumes = [id \in Ids |-> [name |-> None, status |-> "none", size |-> 0]]
  /\ late = {}
  /\ call = [h \in Handlers |-> Idle]
  /\ claim = [n \in Names |-> [state |-> "pending", id |-> None, capacity |-> 0]]
  /\ doubtful = {}
  /\ faults = 0

Fault == faults < MaxFaults /\ faults' = faults + 1
-----------------------------------------------------------------------------
(* The volume API *)

Exists(id) == volumes[id].status \notin {"none", "gone"}

NewVolume(id, n, s) ==
  /\ volumes[id].status = "none"
  /\ volumes' = [volumes EXCEPT ![id] = [name |-> n, status |-> "creating", size |-> s]]

Deletable(id) == volumes[id].status \in {"available", "error"}
StartDelete(id) == volumes' = [volumes EXCEPT ![id].status = "deleting"]

Becomes(id, before, after) ==
  /\ volumes[id].status = before
  /\ volumes' = [volumes EXCEPT ![id].status = after]

VolumeReady(id) ==
  /\ Becomes(id, "creating", "available")
  /\ UNCHANGED <<late, call, claim, doubtful, faults>>

(* A volume in use is attached or extended, and is so for a while after its
   last pod has gone. *)
VolumeUsed(id) ==
  /\ \E n \in Names : claim[n].state = "bound" /\ claim[n].id = id
  /\ Becomes(id, "available", "busy")
  /\ UNCHANGED <<late, call, claim, doubtful, faults>>

VolumeFreed(id) ==
  /\ Becomes(id, "busy", "available")
  /\ UNCHANGED <<late, call, claim, doubtful, faults>>

VolumeFails(id) ==
  /\ Becomes(id, "creating", "error")
  /\ Fault
  /\ UNCHANGED <<late, call, claim, doubtful>>

VolumeGone(id) ==
  /\ Becomes(id, "deleting", "gone")
  /\ UNCHANGED <<late, call, claim, doubtful, faults>>

LateCreate(n, s) ==
  /\ <<n, s>> \in late
  /\ \E id \in Ids : NewVolume(id, n, s)
  /\ late' = late \ {<<n, s>>}
  /\ UNCHANGED <<call, claim, doubtful, faults>>
-----------------------------------------------------------------------------
(* The provisioner has one call at a time on a claim and repeats it until it
   succeeds. *)

Waiting(n, ops) == \E h \in Handlers : call[h].live /\ call[h].n = n /\ call[h].op \in ops

Start(h, op, pc, n, s) ==
  /\ call[h].pc = "idle"
  /\ call' = [call EXCEPT ![h] = [op |-> op, pc |-> pc, n |-> n, id |-> claim[n].id,
                                  size |-> s, live |-> TRUE]]
  /\ UNCHANGED <<cloud, claim, doubtful, faults>>

CallCreate(h, n, s) ==
  /\ claim[n].state = "pending" /\ s \in Asked[n]
  /\ ~ Waiting(n, {"create"})
  /\ Start(h, "create", "list", n, s)

CallDelete(h, n) ==
  /\ claim[n].state = "released"
  /\ ~ Waiting(n, {"delete"})
  /\ Start(h, "delete", "delete", n, 0)

(* The user has no use for the volume any longer. *)
UserReleases(n) ==
  /\ claim[n].state = "bound"
  /\ claim' = [claim EXCEPT ![n].state = "released"]
  /\ UNCHANGED <<cloud, call, doubtful, faults>>

(* The provisioner's deadline passes, or its connection breaks. *)
Cancel(h) ==
  /\ call[h].live
  /\ call' = [call EXCEPT ![h].live = FALSE]
  /\ Fault
  /\ UNCHANGED <<cloud, claim, doubtful>>

(* The plugin restarts. *)
Restart ==
  /\ call' = [h \in Handlers |-> Idle]
  /\ Fault
  /\ UNCHANGED <<cloud, claim, doubtful>>
-----------------------------------------------------------------------------
(* The handlers *)

Return(h) == call' = [call EXCEPT ![h] = Idle]
Goto(h, pc) == call' = [call EXCEPT ![h].pc = pc]

Answer(h, id) == call' = [call EXCEPT ![h].pc = "reply", ![h].id = id, ![h].size = volumes[id].size]

(* Mutant: the API is called without the request's context. *)
ReachesAPIAnyway(h, pc) == call[h].pc = pc

(* The handler is at an API call, and its context has not expired. *)
ReachesAPI(h, pc) == call[h].pc = pc /\ call[h].live

(* Mutant: the first volume of the list is taken. *)
AnyVolume(n) == {id \in Ids : Exists(id)}

(* Mutant: volumes still being made are overlooked. *)
NamedAvailable(n) == {id \in Ids : volumes[id].status = "available" /\ volumes[id].name = n}

(* GetVolumesByName, whatever the status of the volume. *)
NamedVolumes(n) == {id \in Ids : Exists(id) /\ volumes[id].name = n}

(* Mutant: a volume that exists already is an error. *)
ListRefuses(h) ==
  /\ ReachesAPI(h, "list")
  /\ IF NamedVolumes(call[h].n) # {} THEN Return(h) ELSE Goto(h, "create")
  /\ UNCHANGED <<cloud, claim, doubtful, faults>>

(* A volume of that name is the answer if it has the capacity, AlreadyExists
   if it has another. *)
List(h) ==
  /\ ReachesAPI(h, "list")
  /\ \/ \E id \in NamedVolumes(call[h].n) :
          IF volumes[id].size = call[h].size THEN Answer(h, id) ELSE Return(h)
     \/ NamedVolumes(call[h].n) = {} /\ Goto(h, "create")
  /\ UNCHANGED <<cloud, claim, doubtful, faults>>

(* An error of List is logged, and the volume created all the same. *)
ListFails(h) ==
  /\ ReachesAPI(h, "list")
  /\ Goto(h, "create")
  /\ doubtful' = doubtful \union {call[h].n}
  /\ Fault
  /\ UNCHANGED <<cloud, claim>>

Create(h) ==
  /\ ReachesAPI(h, "create")
  /\ \E id \in Ids :
       /\ NewVolume(id, call[h].n, call[h].size)
       /\ call' = [call EXCEPT ![h].pc = "reply", ![h].id = id]
  /\ UNCHANGED <<late, claim, doubtful, faults>>

QuotaExceeded(h) ==
  /\ ReachesAPI(h, "create")
  /\ \A id \in Ids : volumes[id].status # "none"
  /\ Return(h)
  /\ UNCHANGED <<cloud, claim, doubtful, faults>>

(* The deadline passes while the create request is on its way. *)
CreateOverdue(h) ==
  /\ ReachesAPI(h, "create")
  /\ late' = late \union {<<call[h].n, call[h].size>>}
  /\ doubtful' = doubtful \union {call[h].n}
  /\ Return(h)
  /\ Fault
  /\ UNCHANGED <<volumes, claim>>

(* Mutant: every error of Delete is taken for "not found". *)
DeleteForgives(h) ==
  /\ ReachesAPI(h, "delete")
  /\ IF Deletable(call[h].id) THEN StartDelete(call[h].id) ELSE UNCHANGED volumes
  /\ Goto(h, "reply")
  /\ UNCHANGED <<late, claim, doubtful, faults>>

(* Mutant: "not found" is an error like any other. *)
DeleteNeedsVolume(h) ==
  /\ ReachesAPI(h, "delete")
  /\ IF Deletable(call[h].id)
       THEN StartDelete(call[h].id) /\ Goto(h, "reply")
       ELSE UNCHANGED volumes /\ Return(h)
  /\ UNCHANGED <<late, claim, doubtful, faults>>

(* A volume that is not found is deleted; a busy one is an error. *)
Delete(h) ==
  LET id == call[h].id IN
  /\ ReachesAPI(h, "delete")
  /\ \/ ~ Exists(id) /\ UNCHANGED volumes /\ Goto(h, "reply")
     \/ Deletable(id) /\ StartDelete(id) /\ Goto(h, "reply")
     \/ Exists(id) /\ ~ Deletable(id) /\ UNCHANGED volumes /\ Return(h)
  /\ UNCHANGED <<late, claim, doubtful, faults>>

Record(h) ==
  claim' = [claim EXCEPT ![call[h].n] =
    IF call[h].op = "create"
      THEN [state |-> "bound", id |-> call[h].id, capacity |-> call[h].size]
      ELSE [@ EXCEPT !.state = "deleted"]]

(* The answer of a successful call, if the provisioner still listens. *)
Reply(h) ==
  /\ call[h].pc = "reply"
  /\ IF call[h].live THEN Record(h) ELSE UNCHANGED claim
  /\ Return(h)
  /\ UNCHANGED <<cloud, doubtful, faults>>

(* The context has expired: the next API call fails.  Where it is List, the
   handler goes on to Create, which fails in its turn. *)
Expire(h) ==
  /\ call[h].pc \notin {"idle", "reply"} /\ ~ call[h].live
  /\ Return(h)
  /\ UNCHANGED <<cloud, claim, doubtful, faults>>

(* An API call fails without effect, or the answer to it is lost. *)
ApiFails(h) ==
  /\ call[h].pc \in {"create", "delete"} /\ call[h].live
  /\ \/ UNCHANGED volumes
     \/ call[h].pc = "create" /\ \E id \in Ids : NewVolume(id, call[h].n, call[h].size)
     \/ call[h].pc = "delete" /\ Deletable(call[h].id) /\ StartDelete(call[h].id)
  /\ Return(h)
  /\ Fault
  /\ UNCHANGED <<late, claim, doubtful>>

HandlerStep(h) ==
  \/ List(h) \/ Create(h) \/ QuotaExceeded(h) \/ Delete(h)
  \/ Reply(h) \/ Expire(h)

HandlerFault(h) == ListFails(h) \/ CreateOverdue(h) \/ ApiFails(h) \/ Cancel(h)

ProvisionerStep ==
  \/ \E h \in Handlers, n \in Names :
       CallDelete(h, n) \/ \E s \in Sizes : CallCreate(h, n, s)
  \/ \E n \in Names : UserReleases(n)

CloudStep ==
  \/ \E id \in Ids : VolumeReady(id) \/ VolumeFails(id) \/ VolumeGone(id)
                   \/ VolumeUsed(id) \/ VolumeFreed(id)
  \/ \E n \in Names, s \in Sizes : LateCreate(n, s)

Next ==
  \/ \E h \in Handlers : HandlerStep(h) \/ HandlerFault(h)
  \/ ProvisionerStep
  \/ CloudStep
  \/ Restart

Spec == Init /\ [][Next]_vars
-----------------------------------------------------------------------------
(* Properties *)

(* CreateVolume is idempotent without a lock: lost answers, restarts and the
   handlers of calls given up leave one volume to a name.  The exceptions are
   a create sent although List had failed, and one the API executes after its
   caller's deadline (controller.go:88-126). *)
OneVolumePerName ==
  \A i, j \in Ids :
    /\ Exists(i) /\ Exists(j)
    /\ volumes[i].name = volumes[j].name /\ volumes[i].name \notin doubtful
    => i = j

(* The same without the exceptions: "Verify a volume with the provided name
   doesn't already exist for this tenant" (controller.go:88). *)
OneVolumePerNameAlways ==
  \A i, j \in Ids : Exists(i) /\ Exists(j) /\ volumes[i].name = volumes[j].name => i = j

(* A bound claim has a volume of its own, which nothing but its own release
   deletes, with the capacity that was answered (controller.go:95-130). *)
BoundVolumeIsThere ==
  \A n \in Names : claim[n].state = "bound" =>
    /\ volumes[claim[n].id].name = n
    /\ volumes[claim[n].id].status \in {"creating", "available", "busy", "error"}
    /\ claim[n].capacity = volumes[claim[n].id].size

(* After DeleteVolume has succeeded no volume of the claim is left to be paid
   for: not the one it had, and none made by a call given up
   (controller.go:121-153). *)
NothingLeftBehind ==
  \A n \in Names \ doubtful, id \in Ids :
    claim[n].state = "deleted" /\ volumes[id].name = n => volumes[id].status \in {"deleting", "gone"}

(* The volumes as an orchestrator sees them.  CreateVolume waits for nothing,
   so a volume is handed out while it is built. *)
RegistryState(status) ==
  CASE status = "none" -> "absent"
    [] status \in {"creating", "error"} -> "building"
    [] status \in {"available", "busy"} -> "ready"
    [] OTHER -> "removed"

HandedTo(id, n) == claim[n].state # "pending" /\ claim[n].id = id

Granted(id) ==
  IF \E n \in Names : HandedTo(id, n)
    THEN claim[CHOOSE n \in Names : HandedTo(id, n)].capacity
    ELSE 0

Registry == INSTANCE VolumeRegistry WITH
  volume <- [id \in Ids |-> [name |-> volumes[id].name, size |-> volumes[id].size,
                             state |-> RegistryState(volumes[id].status)]],
  granted <- [id \in Ids |-> Granted(id)],
  excused <- doubtful,
  Grantable <- {"building", "ready"}

(* CreateVolume and DeleteVolume with the API implement the registry: a listing
   that failed and a creation executed late excuse a second volume of the name
   and nothing else (controller.go:43-153). *)
RefinesRegistry == Registry!Spec
-----------------------------------------------------------------------------
(* Handlers run, the API finishes what it has accepted, and the provisioner retries
   without end.  Every request has a goroutine of its own in the code; strong
   fairness stands in for that where Handlers is small. *)
Fairness ==
  /\ \A h \in Handlers : WF_vars(HandlerStep(h))
  /\ \A id \in Ids : WF_vars(VolumeReady(id)) /\ WF_vars(VolumeGone(id)) /\ WF_vars(VolumeFreed(id))
  /\ \A n \in Names :
       /\ SF_vars(\E h \in Handlers, s \in Sizes : CallCreate(h, n, s))
       /\ SF_vars(\E h \in Handlers : CallDelete(h, n))

FairSpec == Spec /\ Fairness

(* Every claim whose calls agree on its size is bound in the end, unless other
   claims have used up the quota (controller.go:88-130). *)
ClaimsSettle ==
  \A n \in Names : Cardinality(Asked[n]) = 1 =>
    <>\/ claim[n].state # "pending"
      \/ \A id \in Ids : volumes[id].status # "none" /\ volumes[id].name # n

(* Every volume released is deleted in the end (controller.go:140-152). *)
DeletionsSettle ==
  \A n \in Names : claim[n].state = "released" ~> claim[n].state = "deleted"
=============================================================================
