--------------------------- MODULE BlockSnapshots ---------------------------
(***************************************************************************)
(* CreateSnapshot and DeleteSnapshot of the block storage driver           *)
(* (src/driver/blockstorage/controller.go:287-375, client.go:132-166)      *)
(* between the snapshotter and the snapshot API.  A name stands for the    *)
(* pair of a snapshot's name and its source volume, which the snapshotter  *)
(* never separates and by which both are looked up.                        *)
(***************************************************************************)
EXTENDS Naturals, FiniteSets

CONSTANTS
  Handlers,    \* gRPC handler goroutines that may run at once
  Names,       \* snapshots asked for
  Ids,         \* snapshot ids the API can give out: a quota on snapshots
  None,        \* no snapshot, no name
  ReadyPolls,  \* diskDetachSteps, which WaitSnapshotReady shares
  MaxFaults    \* bound on failing calls, timeouts, losses and restarts

ASSUME NoneAssumption == None \notin Names \union Ids
ASSUME BoundsAssumption == ReadyPolls \in Nat \ {0} /\ MaxFaults \in Nat

VARIABLES
  snaps,     \* the API's snapshots: id -> [name, status]
  late,      \* names of create requests given up by their caller and not yet executed
  call,      \* handler -> its local variables
  content,   \* name -> what the snapshotter has recorded: [state, id]
  doubtful,  \* names a create was sent for blindly, or overdue (history)
  faults

cloud == <<snaps, late>>
vars == <<cloud, call, content, doubtful, faults>>
-----------------------------------------------------------------------------
Snapshots == [name : Names \union {None},
              status : {"none", "creating", "available", "error", "deleting", "gone"}]
Idle == [op |-> "none", pc |-> "idle", n |-> None, id |-> None, polls |-> 0, live |-> FALSE]
Calls == [op : {"none", "create", "delete"},
          pc : {"idle", "list", "create", "wait", "delete", "reply"},
          n : Names \union {None}, id : Ids \union {None}, polls : 0..ReadyPolls, live : BOOLEAN]
Contents == [state : {"pending", "ready", "released", "deleted"}, id : Ids \union {None}]

TypeOK ==
  /\ snaps \in [Ids -> Snapshots]
  /\ late \subseteq Names
  /\ call \in [Handlers -> Calls]
  /\ \A h \in Handlers : call[h].pc = "wait" => call[h].polls > 0 /\ call[h].id # None
  /\ content \in [Names -> Contents]
  /\ doubtful \subseteq Names
  /\ faults \in 0..MaxFaults

Init ==
  /\ snaps = [id \in Ids |-> [name |-> None, status |-> "none"]]
  /\ late = {}
  /\ call = [h \in Handlers |-> Idle]
  /\ content = [n \in Names |-> [state |-> "pending", id |-> None]]
  /\ doubtful = {}
  /\ faults = 0

Fault == faults < MaxFaults /\ faults' = faults + 1
-----------------------------------------------------------------------------
(* The snapshot API *)

Exists(id) == snaps[id].status \notin {"none", "gone"}

NewSnapshot(id, n) ==
  /\ snaps[id].status = "none"
  /\ snaps' = [snaps EXCEPT ![id] = [name |-> n, status |-> "creating"]]

Deletable(id) == snaps[id].status \in {"available", "error"}
StartDelete(id) == snaps' = [snaps EXCEPT ![id].status = "deleting"]

Becomes(id, from, to) ==
  /\ snaps[id].status = from
  /\ snaps' = [snaps EXCEPT ![id].status = to]
  /\ UNCHANGED <<late, call, content, doubtful>>

SnapshotReady(id) == Becomes(id, "creating", "available") /\ UNCHANGED faults
SnapshotFails(id) == Becomes(id, "creating", "error") /\ Fault
SnapshotGone(id) == Becomes(id, "deleting", "gone") /\ UNCHANGED faults

LateCreate(n) ==
  /\ n \in late
  /\ \E id \in Ids : NewSnapshot(id, n)
  /\ late' = late \ {n}
  /\ UNCHANGED <<call, content, doubtful, faults>>
-----------------------------------------------------------------------------
(* The snapshotter has one call at a time on a snapshot. *)

Start(h, op, pc, n) ==
  /\ call[h].pc = "idle"
  /\ \A g \in Handlers : ~ (call[g].live /\ call[g].n = n)
  /\ call' = [call EXCEPT ![h] = [op |-> op, pc |-> pc, n |-> n, id |-> content[n].id,
                                  polls |-> 0, live |-> TRUE]]
  /\ UNCHANGED <<cloud, content, doubtful, faults>>

CallCreate(h, n) == content[n].state = "pending" /\ Start(h, "create", "list", n)
CallDelete(h, n) == content[n].state = "released" /\ Start(h, "delete", "delete", n)

UserReleases(n) ==
  /\ content[n].state = "ready"
  /\ content' = [content EXCEPT ![n].state = "released"]
  /\ UNCHANGED <<cloud, call, doubtful, faults>>

Cancel(h) ==
  /\ call[h].live
  /\ call' = [call EXCEPT ![h].live = FALSE]
  /\ Fault
  /\ UNCHANGED <<cloud, content, doubtful>>

Restart ==
  /\ call' = [h \in Handlers |-> Idle]
  /\ Fault
  /\ UNCHANGED <<cloud, content, doubtful>>
-----------------------------------------------------------------------------
(* The handlers *)

Return(h) == call' = [call EXCEPT ![h] = Idle]
Goto(h, pc) == call' = [call EXCEPT ![h].pc = pc]

(* Mutant: the answer does not wait. *)
NoWait(h, id) == call' = [call EXCEPT ![h].pc = "reply", ![h].id = id]

WaitFor(h, id) ==
  call' = [call EXCEPT ![h].pc = "wait", ![h].id = id, ![h].polls = ReadyPolls]

(* Mutant: the API is called without the request's context. *)
ReachesAPIAnyway(h, pc) == call[h].pc = pc

(* The handler is at an API call, and its context has not expired. *)
ReachesAPI(h, pc) == call[h].pc = pc /\ call[h].live

(* Mutant: only snapshots that are ready are found. *)
NamedReady(n) == {id \in Ids : snaps[id].name = n /\ snaps[id].status = "available"}

(* GetSnapshotByNameAndVolumeID. *)
NamedSnapshots(n) == {id \in Ids : Exists(id) /\ snaps[id].name = n}

(* Mutant: a snapshot that exists already is an error. *)
ListRefuses(h) ==
  /\ ReachesAPI(h, "list")
  /\ IF NamedSnapshots(call[h].n) # {} THEN Return(h) ELSE Goto(h, "create")
  /\ UNCHANGED <<cloud, content, doubtful, faults>>

(* None: create it.  One: wait for it.  More: an error, whatever they are. *)
List(h) ==
  LET found == NamedSnapshots(call[h].n) IN
  /\ ReachesAPI(h, "list")
  /\ \/ found = {} /\ Goto(h, "create")
     \/ \E id \in found : found = {id} /\ WaitFor(h, id)
     \/ Cardinality(found) > 1 /\ Return(h)
  /\ UNCHANGED <<cloud, content, doubtful, faults>>

(* An error of List is logged, and the snapshot created all the same. *)
ListFails(h) ==
  /\ ReachesAPI(h, "list")
  /\ Goto(h, "create")
  /\ doubtful' = doubtful \union {call[h].n}
  /\ Fault
  /\ UNCHANGED <<cloud, content>>

Create(h) ==
  /\ ReachesAPI(h, "create")
  /\ \E id \in Ids : NewSnapshot(id, call[h].n) /\ WaitFor(h, id)
  /\ UNCHANGED <<late, content, doubtful, faults>>

QuotaExceeded(h) ==
  /\ ReachesAPI(h, "create")
  /\ \A id \in Ids : snaps[id].status # "none"
  /\ Return(h)
  /\ UNCHANGED <<cloud, content, doubtful, faults>>

(* The deadline passes while the create request is on its way. *)
CreateOverdue(h) ==
  /\ ReachesAPI(h, "create")
  /\ late' = late \union {call[h].n}
  /\ doubtful' = doubtful \union {call[h].n}
  /\ Return(h)
  /\ Fault
  /\ UNCHANGED <<snaps, content>>

KeepsWaiting(h) ==
  IF call[h].polls > 1 THEN call' = [call EXCEPT ![h].polls = @ - 1] ELSE Return(h)

(* WaitSnapshotReady: a snapshot in error is waited for like any other. *)
Wait(h) ==
  LET id == call[h].id IN
  /\ ReachesAPI(h, "wait")
  /\ \/ ~ Exists(id) /\ Return(h)
     \/ snaps[id].status = "available" /\ Goto(h, "reply")
     \/ Exists(id) /\ snaps[id].status # "available" /\ KeepsWaiting(h)
  /\ UNCHANGED <<cloud, content, doubtful, faults>>

(* Mutant: "not found" is an error like any other. *)
DeleteNeedsSnapshot(h) ==
  /\ ReachesAPI(h, "delete")
  /\ IF Deletable(call[h].id)
       THEN StartDelete(call[h].id) /\ Goto(h, "reply")
       ELSE UNCHANGED snaps /\ Return(h)
  /\ UNCHANGED <<late, content, doubtful, faults>>

(* A snapshot that is not found is deleted; a busy one is an error. *)
Delete(h) ==
  LET id == call[h].id IN
  /\ ReachesAPI(h, "delete")
  /\ \/ ~ Exists(id) /\ UNCHANGED snaps /\ Goto(h, "reply")
     \/ Deletable(id) /\ StartDelete(id) /\ Goto(h, "reply")
     \/ Exists(id) /\ ~ Deletable(id) /\ UNCHANGED snaps /\ Return(h)
  /\ UNCHANGED <<late, content, doubtful, faults>>

(* The answer of a successful call, if the snapshotter still listens. *)
Reply(h) ==
  /\ call[h].pc = "reply"
  /\ content' = IF ~ call[h].live THEN content
                ELSE [content EXCEPT ![call[h].n] =
                        [state |-> IF call[h].op = "create" THEN "ready" ELSE "deleted",
                         id |-> call[h].id]]
  /\ Return(h)
  /\ UNCHANGED <<cloud, doubtful, faults>>

(* The context has expired: the next API call fails. *)
Expire(h) ==
  /\ call[h].pc \notin {"idle", "reply"} /\ ~ call[h].live
  /\ Return(h)
  /\ UNCHANGED <<cloud, content, doubtful, faults>>

(* An API call fails without effect, or the answer to it is lost. *)
ApiFails(h) ==
  /\ call[h].pc \in {"create", "wait", "delete"} /\ call[h].live
  /\ \/ UNCHANGED snaps
     \/ call[h].pc = "create" /\ \E id \in Ids : NewSnapshot(id, call[h].n)
     \/ call[h].pc = "delete" /\ Deletable(call[h].id) /\ StartDelete(call[h].id)
  /\ Return(h)
  /\ Fault
  /\ UNCHANGED <<late, content, doubtful>>

HandlerStep(h) ==
  \/ List(h) \/ Create(h) \/ QuotaExceeded(h) \/ Wait(h) \/ Delete(h) \/ Reply(h) \/ Expire(h)

Next ==
  \/ \E h \in Handlers :
       HandlerStep(h) \/ ListFails(h) \/ CreateOverdue(h) \/ ApiFails(h) \/ Cancel(h)
  \/ \E h \in Handlers, n \in Names : CallCreate(h, n) \/ CallDelete(h, n)
  \/ \E n \in Names : UserReleases(n) \/ LateCreate(n)
  \/ \E id \in Ids : SnapshotReady(id) \/ SnapshotFails(id) \/ SnapshotGone(id)
  \/ Restart

Spec == Init /\ [][Next]_vars
-----------------------------------------------------------------------------
(* Properties *)

(* CreateSnapshot is idempotent without a lock: lost answers, timed out waits
   and restarts leave one snapshot.  The exceptions are a create sent although
   List had failed, and one the API executes after its caller's deadline
   (controller.go:300-332). *)
OneSnapshotPerName ==
  \A i, j \in Ids :
    /\ Exists(i) /\ Exists(j)
    /\ snaps[i].name = snaps[j].name /\ snaps[i].name \notin doubtful
    => i = j

(* What was answered as ready to use can be restored from until it is
   released (controller.go:340-353). *)
ReadyIsAvailable ==
  \A n \in Names : content[n].state = "ready" =>
    snaps[content[n].id] = [name |-> n, status |-> "available"]

(* After DeleteSnapshot has succeeded nothing is left of the snapshot, nor of
   one made by a call given up, with the same exceptions
   (controller.go:325, 357-375). *)
NothingLeftBehind ==
  \A n \in Names \ doubtful, id \in Ids :
    content[n].state = "deleted" /\ snaps[id].name = n => snaps[id].status \in {"deleting", "gone"}

(* The snapshots as an orchestrator sees them: volumes of one size. *)
RegistryState(status) ==
  CASE status = "none" -> "absent"
    [] status \in {"creating", "error"} -> "building"
    [] status = "available" -> "ready"
    [] OTHER -> "removed"

HandedOut(id) == \E n \in Names : content[n].state # "pending" /\ content[n].id = id

Registry == INSTANCE VolumeRegistry WITH
  volume <- [id \in Ids |-> [name |-> snaps[id].name, state |-> RegistryState(snaps[id].status),
                             size |-> IF snaps[id].status = "none" THEN 0 ELSE 1]],
  granted <- [id \in Ids |-> IF HandedOut(id) THEN 1 ELSE 0],
  excused <- doubtful,
  Sizes <- {1},
  Grantable <- {"ready"}

(* CreateSnapshot and DeleteSnapshot with the API implement the registry, where
   CreateSnapshot hands out only what is ready; a listing that failed and a
   creation executed late excuse a second snapshot of the name and nothing else
   (controller.go:287-375). *)
RefinesRegistry == Registry!Spec
-----------------------------------------------------------------------------
(* Handlers run, the API finishes what it has accepted, and the snapshotter
   retries without end. *)
Fairness ==
  /\ \A h \in Handlers : WF_vars(HandlerStep(h))
  /\ \A id \in Ids : WF_vars(SnapshotReady(id)) /\ WF_vars(SnapshotGone(id))
  /\ \A n \in Names :
       /\ SF_vars(\E h \in Handlers : CallCreate(h, n))
       /\ SF_vars(\E h \in Handlers : CallDelete(h, n))

FairSpec == Spec /\ Fairness

(* No snapshot of that name, or one that may still become ready. *)
Hopeful(n) ==
  /\ n \notin doubtful
  /\ \E id \in Ids : snaps[id].status = "none" \/ snaps[id].name = n
  /\ \A id \in NamedSnapshots(n) : snaps[id].status # "error"

(* Whatever was lost or timed out, a snapshot asked for becomes ready in the
   end: the next call takes up the one it finds (controller.go:306-313). *)
SnapshotsSettle == \A n \in Names : <>(content[n].state # "pending" \/ ~ Hopeful(n))

(* Every snapshot released is deleted in the end (controller.go:365-374). *)
DeletionsSettle == \A n \in Names : content[n].state = "released" ~> content[n].state = "deleted"
=============================================================================
