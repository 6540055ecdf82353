# Verification of csi-bizflycloud

TLA+ models of the two CSI drivers in this repository, the block storage driver
(`driver/blockstorage`) and the file storage driver (`driver/filestorage`),
model-checked with TLC. Their safety properties are also proved with TLAPS, for
every value of the constants, and so is that each service of the two drivers
implements an abstract specification of what it promises.

## 1. The system

Both drivers are gRPC servers. Every request is a goroutine; goroutines run at
once, and a request whose caller has given up goes on to its end. The callers
are the sidecars of the controller (external-provisioner, -resizer, -attacher,
-snapshotter: one at a time on an object, each with a deadline, three minutes where
a manifest sets `--timeout`, and retries without end) and the kubelet (the same,
on each node). What lasts is in the Bizfly cloud; the processes keep almost nothing.

| Part | State | Operations | Talks to |
|---|---|---|---|
| File storage controller (`filestorage/controllerserver.go`, `share.go`) | `pendingVolumes`, a process-wide map of names and ids | CreateVolume, DeleteVolume, ControllerExpandVolume | provisioner, resizer; file storage API |
| File storage node service (`filestorage/nodeserver.go`, `csiclient/`) | `nodeStageCache` under a mutex; the capability `supportsNodeStage` read at start | NodeStage/Unstage/Publish/UnpublishVolume, passed on to an NFS CSI plugin | kubelet; the plugin |
| File storage driver (`filestorage/driver.go`, `cmd/csi-fs-bizflycloud/main.go`) | the socket file on the host | login, probe of the plugin, removal of the old socket, Listen, Serve | cloud API; the plugin; Kubernetes restarts it |
| Block volumes (`blockstorage/controller.go`) | none | CreateVolume, DeleteVolume, ControllerExpandVolume | provisioner, resizer; volume API |
| Block attachments (`controller.go`, `client.go`) | none | ControllerPublishVolume, ControllerUnpublishVolume with their polls | attacher; server and volume API |
| Block snapshots (`controller.go`, `client.go`) | none | CreateSnapshot, DeleteSnapshot, WaitSnapshotReady | snapshotter; snapshot API |
| Block node service (`blockstorage/nodeserver.go`) | the node's mount table | NodeStage/Unstage/Publish/UnpublishVolume, NodeExpandVolume | kubelet; the operating system |
| Listings and queries (`controller.go:265-285, 377-578`) | none | ListVolumes, ListSnapshots, ControllerGetVolume, ... | |
| Block driver (`server.go`, `driver.go`, `cmd/csi-bizflycloud/main.go`) | the socket file; a WaitGroup | login of the controller, removal of the old socket, Listen, Serve, Wait | cloud API; Kubernetes |
| Identity services | none | constant answers | |

What is hard, part by part, and what correctness means there:

* **File controller.** The lock is on the *name* in CreateVolume and on the *id*
  in ControllerExpandVolume, DeleteVolume has none, and the lock is lost in a
  restart. Between the API calls of one handler anything happens. Correct: one
  share per name; no key stays locked; the capacity answered is there; what is
  handed out has been built; every claim settles.
* **File node.** The cache is written before the call it is about is made, and
  calls overlap after a timeout. Correct: a volume is mounted from its own
  server and share; nothing stays mounted or cached that the kubelet is done
  with; restarts of driver and plugin do not stop a pod for good.
* **Attachments.** The API's view of a volume and of a server disagree while
  the cloud is at work, and a handler given up may sit in its backoff while its
  successor runs. Correct: attached as recorded, detached as recorded, no disk
  leaves without being asked for, convergence.
* **Volumes and snapshots.** Idempotence rests on a listing by name, without a
  lock, and an error of the listing is taken for "there is none". Correct: one
  object per name, nothing left behind, what was answered is true, requests
  settle.
* **Block node.** Check and mount are two steps without a lock, and a handler
  does not look at its context. Correct: the pod sees the volume, one mount,
  no mount of a device that is gone.

* **Expansion.** Requests are in bytes, volumes in whole GiB; the controller
  compares the limit before it rounds, and answers when the API has accepted the
  extension, which may be under way while the node reads the device again, and
  may fail. Correct: what the user is told is in the file system, nobody pays
  for more than the rounding, growth reaches the user.
* **Start.** The probe of the plugin outlasts the context of the calls after
  it; a killed program leaves its socket file; the block driver's server can
  end without its program. Correct: once API and plugin are up, all serve.

`PROJECT.json` lists the hazards line by line, with the properties on them.

## 2. The modules

| Module | Models | Notes |
|---|---|---|
| `VolumeRegistry` | what a CSI controller promises about volumes | abstract: names stand for one volume, capacity is there and never shrinks |
| `Attachments` | what attaching promises | abstract: one node at a time, records that are true, no disk leaves unasked |
| `Expansion` | what an expansion promises its user | abstract: volume, file system and answer grow in this order |
| `NodeMounts` | what a node service promises the kubelet | abstract: staged, then published; true records; a volume leaves unmounted |
| `FileController` | `controllerserver.go:39-210`, `share.go` | implements `VolumeRegistry` |
| `BlockAttach` | `blockstorage/controller.go:155-263`, `client.go:56-130` | with cloud and attacher; implements `Attachments` |
| `BlockVolumes` | `controller.go:43-153, 597-626`, `client.go:42-54` | with volume API and provisioner; implements `VolumeRegistry` |
| `Sizes` | `filestorage/util.go:40-46` and the library's `RoundUpSize` | bytes and GiB |
| `BlockResize` | `controller.go:506-545`, `nodeserver.go:317-349` | both programs' part in an expansion, with volume API, resizer, kubelet and device; implements `Expansion` |
| `BlockSnapshots` | `controller.go:287-375`, `client.go:132-166` | with snapshot API and snapshotter; implements `VolumeRegistry` |
| `FileNode` | `filestorage/nodeserver.go:38-180`, `driver.go:158-272` | with kubelet and plugin; implements `NodeMounts` |
| `BlockNode` | `blockstorage/nodeserver.go:45-241, 354-361` | with kubelet and mounts; implements `NodeMounts` |
| `DriverStart` | `main.go` of both programs, `filestorage/driver.go:158-332`, `server.go:53-109` | four kinds of program side by side |
| `*_proofs` | theorems about the module they are named after | section 5 |
| `MC*` | values for TLC | |

The abstract modules know no calls, retries or caches. Three of them say where
less is promised: `excused` in `VolumeRegistry` (a name may come to stand for
several objects) and in `NodeMounts`; `adrift` in `Attachments`, a disk brought
where it was not asked for or overlooked there, until it leaves; `seized`, a disk
taken from a node unasked, until the next request for it. The mappings give them
the variables that record the causes in the detailed modules: `doubtful`;
`overtaken` and raw devices; `leftover`; `strayed`; `taken`. So a refinement
says that these causes are the only ones.
The three modules that implement `VolumeRegistry` differ in `Grantable`, the states
in which a volume is handed out: file shares when they are built (one may be deleted
while the answer travels), block volumes already while they are built, and
snapshots when they are ready.

The conventions are the same everywhere. A handler is a member of `Handlers`;
`call[h]` holds its local variables, with `pc` the API call or critical section
it is at. **One action is one API call with the code up to the next**, because
that is where other goroutines and the cloud come in; early returns are
disjuncts. `live` says whether the caller still waits: an API call with the
request's context fails once it does not (`ReachesAPI`, `Expire`; the node service of the
block driver ignores the context and has no such guard). `faults` bounds calls that fail or
whose answers are lost, timeouts and restarts; `moves` bounds what users do. Payloads
(zones, types, access rules, descriptions, mount options) are left out: no property tells
them apart. Validation of empty fields is left out, as the callers never send them.

Environment, modelled from its use and marked external in the map:

* *The cloud* carries out what it has accepted, or fails as the `...Fails`
  actions say. It may also carry out a request whose caller has given up, long
  after: a creation in `FileController`, `BlockVolumes` and `BlockSnapshots`, an
  attachment or a detachment in `BlockAttach`, where a server's list of volumes
  lags behind the volumes, too (`Enlist`, `Unlist`). The code ignores the task that
  an extension of a block volume returns, so in `BlockResize` the extension ends
  at any time, or fails (`lapsed` records that). Whether the API takes an
  extension to the present size is the constant `ExtendsToSame`.
* *Sidecars and kubelet* have one call at a time on an object and retry. The
  kubelet takes an error other than a lost connection or a timeout for final,
  and what it does not know for "uncertain", to be undone later.
* *The plugin* (`FileNode`) answers a repeated call for something mounted with
  success, and serves one call at a time on a volume, so that a call it works
  on takes effect before the next. Its capabilities do not change while the node is up.
* *The operating system* (`BlockNode`) refuses a second mount of a device on
  the same path but stacks bind mounts; UnmountPath removes the uppermost mount
  and reports an error while another is left. Its mount check, like the one
  before a mount, compares the device numbers of a path and its parent, and does
  not see a directory of the same file system bound there (`Detected`): such a path is
  mounted over, and its removal fails. This is mount-utils v0.24.0, which
  `go.mod:26` names; its source is not in the repository.

## 3. The runs

| Run | Question | States | Bounds |
|---|---|---|---|
| `file_controller` | one share per name; lock discipline; answers stay true; `RefinesRegistry`; each step of a call brings its reply nearer (`CallsEnd`); claims settle | 871 k | 2 handlers, 1 name, 2 ids, 2 sizes, 2 polls, 2 faults |
| `file_duplicate` | *finding*: a failing lookup makes a second share | | 1 name, 2 polls, 2 faults |
| `block_attach` | attached and detached as recorded; disks leave on request; `RefinesAttachments`; attachments converge | 860 k | 2 handlers, 1 volume, 2 nodes, 2 polls to attach and 1 to detach, 2 faults, 3 moves |
| `block_volumes` | one volume per name, bound volumes are there, nothing left behind; `RefinesRegistry`; claims and deletions settle | 100 k | 2 handlers, 2 names, 2 ids, 1 size, 2 faults |
| `block_resize` | what is told is there; sizes in range; `RefinesExpansion`; expansions settle | 237 k | 2 handlers, a GiB of 2 bytes, requests of 1, 3, 4, 5 bytes, limits none and 3, 2 faults, 2 moves |
| `resize_limit` | *finding*: a volume is extended past its limit | | the same |
| `volume_duplicate` | *finding*: a failing listing makes a second volume | | 1 name, 2 faults |
| `block_snapshots` | one snapshot per name, ready is available, nothing left; `RefinesRegistry`; snapshots and deletions settle | 63 k | 2 handlers, 1 name, 3 ids, 2 polls, 4 faults |
| `file_node` | own context, no leftovers; `RefinesMounts`; pods settle | 70 k | 2 handlers, 1 volume, 2 exports and none, 3 faults, 3 moves |
| `stage_cache` | *finding*: a failed stage leaves its entry | | 2 faults |
| `driver_start` | every program serves again; while API and plugin are up it only comes nearer (`ComesNearer`) | 140 k | block controller, block node, file node, and a file program with both services; 2 faults |
| `block_node` | the pod sees its volume, mounted once, while attached; `RefinesMounts`; pods settle | 29 k | 2 handlers, 1 volume in either mode, 3 faults, 3 moves, 4 mounts |

Why the bounds are enough. Two handlers are the least at which a call given up
overlaps its successor, and sidecars and kubelet never have more than one call
of theirs on an object; a third leftover adds nothing that two of them in
turn do not do. Objects meet only through names, ids and keys: two names with two
ids show a mix-up in `block_volumes`. `file_controller` has one name, and
spends its states on two handlers for it, their polls and late creations; that keys and
shares of several names stay apart is proved (`KeysAreLocks`, `NamesAreUnique`).
`block_snapshots` has three ids, for a snapshot made in time, one made
overdue, and one of the retry. Two or three faults allow
a lost answer, a failed retry and a restart in one behaviour. With three faults
at most four mounts can be on a path, so `MaxMounts` never holds a handler up.
With a GiB of two bytes the requests lie below, at and above a boundary, two
of them in the same GiB, and one above the limit once rounded. The programs of
`driver_start` share nothing but API and plugin, so one of each kind is enough.
In `block_volumes` both claims ask for one size, so that the name alone tells
their volumes apart; that the capacity answered is the volume's, whatever is
asked for, is proved.
`CHECK_DEADLOCK FALSE` stands where the system may be done: when all volumes
are released or no move is left.

`TypeOK` is an invariant of every module. The runs leave it out, as each
module's `TypeCorrect` proves it.

Each property is paired in `PROJECT.json` with a mutant, a plausible bug
(`(* Mutant: ... *)` in the modules, used by no specification) that violates it.

### What the findings say

* `share.go:40-50`, `controller.go:89-121` and `controller.go:299-325` take a
  lookup that failed for "does not exist". After a lost answer this makes a
  second object of the name; for snapshots every later call then fails
  (`controller.go:315-317`). `OneSharePerName`, `OneVolumePerName` and
  `OneSnapshotPerName` show that failing lookups and creations the API executes
  after their deadline are the *only* causes: their exceptions (`doubtful`) list
  exactly these.
* `controller.go:519-534` compares the size that was asked for with the limit, and
  extends to that size rounded up. The error at line 523 says "After round-up,
  volume size exceeds the limit specified": of this, `LimitKept` shows the contrary.
  By `VolumeInRange` the volume exceeds what was asked for by less than a GiB, so the
  limit too.
* `filestorage/nodeserver.go:136-160` leaves the entry of a failed stage in the
  cache. An administrator who makes the volume anew, to correct server or
  share, gets the old ones. `MountedFromOwnContext` shows this, and a stage
  that runs after its deadline, to be the only cause.
* Not findings, for lack of a sentence in the repository that says otherwise:
  in `BlockNode` a node call that outlives its deadline can unmount what a later
  one mounted, so that a pod is given an empty directory (drop `overtaken` from
  `PodSeesVolume` to see it), and that directory's mount is not detected, so its unpublish
  (`nodeserver.go:156`) fails until the node restarts (drop `Hidden` from `PodsSettle`);
  the failing repetition of a raw device's publish
  is an error that covers a mount; a block storage program whose Serve has
  failed stays up and serves nothing (`server.go:107`, the exception of
  `ServesAgain`); an attach request that the API executes after the attacher has
  detached the volume (`controller.go:189-195`), or an unpublish that reads a list without
  the volume before it shows there (`controller.go:226`), leaves it on a node that
  the attacher records as detached, and each publish elsewhere is refused as
  long as it is there (drop `strayed` from `Converges`); a detach request executed late
  (`controller.go:240`) takes the volume away that is attached anew and recorded so
  (drop `taken` from `AttachedWhenRecorded`).
* Seen while reading, and outside the models: `ListSnapshots` says ReadyToUse
  of a snapshot in any status (`controller.go:397`) and passes the source volume
  where the API takes a name (`controller.go:413`).

## 4. Fairness

Weak fairness on a handler's step: a goroutine runs on. Weak fairness on what
the cloud has accepted, on the start of programs (Kubernetes restarts them) and
on attach and detach. The retries of sidecars and kubelet are fair per object;
strongly where the few `Handlers` could be taken each time by other calls: in
the code every request has a goroutine of its own. No fairness on faults,
timeouts or users. Faults are bounded, so the liveness properties speak of what
happens once they stop. In `DriverStart` nothing is assumed of API and plugin:
they come and go, and `ServesAgain` is about behaviours in which they stay up in
the end.

## 5. Proofs

The theorems hold for all values of the constants that meet the named
assumptions: any number of handlers, names, volumes, nodes, polls, faults and
moves, any sizes, any GiB. Each module's `TypeCorrect` proves its `TypeOK`. All
but the theorems of `FileController` and `DriverStart` follow one plan, since the
drivers hold no lock there: an inductive invariant says what the external state
looks like, that at most one call on an object is waited for (`Serial`), and what
the handler of that call *knows*, which nobody else can undo as long as its caller
waits. A lemma on the handlers that rest carries this over the steps of others,
one lemma per action shows that the action keeps the invariant, and the
properties are read off at the end.

The refinements (`Implements...`) are proved from the same invariants: `Init` maps
to the abstract `Init`, and one lemma per action says which abstract action it is,
or that it is a stutter. Most steps are stutters: what a handler does between the
call that asks and the one that answers is nothing the abstract module can see,
and the invariant is what makes the answer true when it comes.

**FileController.** `TypeCorrect` first, with `Shape`: what a handler's `pc`
says about its other variables. `CapacityInv` adds what a handler *knows* while
it waits: that its share is built, or being built, with at least the size its
answer will name; this is what makes `CapacityIsThere`, `HandedOutIsBuilt` and
`ExpansionIsEnough` inductive, since the share is read long before the answer.
The lemma `Grows` carries it over every step of everybody else. `HeldInv`: keys
and busy handlers correspond one to one (`KeysAreLocks`). `UniqueInv` adds that
a handler about to create has seen no share of its name, which stays true
because it holds the name's key and nobody else creates, or that the name is
`doubtful`: `NamesAreUnique`, without assumptions.
`ImplementsRegistry` combines them: every step is a step of `VolumeRegistry` or
a stutter, under the refinement mapping in `FileController`. `CallsAreBounded`
is the part of liveness that is within the prover's reach: `Left`, the steps a
handler has left, is a measure that each of its steps lowers and nobody else's
step changes, with `Waits` (who polls has a look left) as the invariant it needs.
That handlers take their steps is fairness, and stays with TLC.

**BlockAttach.** `AttachInv` = `TypeOK` and `Shape`, `Serial` (one live
call on a volume and node), `CloudFacts` (what volume and server listings
can show together), `RecordFacts` (what the attacher's record implies of the
cloud) and `HandlerFacts` (what a live handler's progress implies). From it
`AttachedIsAttached`, `DetachedIsDetached` and `DisksLeaveOnRequest`. A handler given
up does no harm itself, since its calls do not reach the API; the request it sent may.
Executed late, an attachment that is not asked for makes its volume `strayed`, as does an
unpublish that finds it unlisted while it is there, and a detachment that is not asked for
adds to `taken`; the facts are claimed of the rest. `ImplementsAttachments`: the attacher's
answers are `Confirm` and `Free`, which `HandlerFacts` shows to be true when
they are given; a handler that overlooks its volume is `Overlook`; a detachment that
starts is `Disconnect`, for a live unpublish or as a seizure; `BeginAttachFacts` and
`BeginDetachFacts` say what both kinds of caller share.

**BlockVolumes, BlockSnapshots.** A create that is waited for and about to send
its request knows that no object has its name, or that the name is `doubtful`;
one about to answer knows its object. `Unique` counts the objects already gone
too: whatever else bears the name of a deleted object would be left behind. A
deletion is waited for only once the claim is released, so that nothing
deletes what is bound. From these `NamesAreUnique`, `BoundIsThere`,
`ReadyIsThere` and `NothingIsLeft`. A call given up does no harm because its
next API call fails: this is where `ReachesAPI` is needed. `ImplementsRegistry`: a
creation is `Provision`, which needs `Unique` and what the creating handler knows,
or that the name is excused already; a failed listing and a creation that
becomes overdue are `Excuse`; the answer is `Grant`. In `BlockVolumes` the capacity granted is read
from the claim that holds the id, which is one, since the volume bears its name.

**BlockResize.** Rounding first: `RoundUpSize` covers its argument by less than a
GiB. `SizesShrink`: file system and device are no larger than the volume, which only
grows. `ToldOK`, `RangeOK` and what the two kinds of call know give
`ToldIsTrue` and `RangeIsKept` (never less than was asked for, nor a whole GiB
more), without any assumption on when extensions end.
`ImplementsExpansion` shows in addition that volume, file system and answer never
shrink or overtake one another: a handler that resizes late, with a size it read
before, leaves the file system as it is or grows it within the volume.

**FileNode.** A call that was given up is not passed on to the plugin, but it
still writes the cache. `VolumeOK` holds of every volume outside `leftover` (a
stage of it failed, or ran too late): cache, plugin and pod have the volume's
own context or none, and none when the kubelet is done. `OwnContext` and `NothingStaysMounted` follow, so
these two causes are the only ones. `ImplementsMounts` needs two facts
more: `Truth` (what the kubelet has recorded as mounted is mounted, and what is
mounted for a pod has been staged if the plugin stages) and `Replied` (a call about to
answer has had its effect), of the volumes outside `leftover`.

**BlockNode.** Here calls do *not* stop when their caller gives up; the volumes
whose mounts such a call changes are `overtaken`. For the others all mounts on
a pod's path show the volume, and a file system is mounted once, while attached,
and known to the kubelet; what is mounted there is detected (`ShownOnTop`, `Seeing`), since
only a call that has made its volume `overtaken` binds the empty directory. Mount stacks are
sequences; the few facts about them are lemmas of their own. From it `PodSees`,
`OnePerPod`, `LeavesUnmounted`.
`ImplementsMounts` adds `Ordered`: a pod's mount is known, or uncertain, only while
the kubelet knows the volume to be staged.

**DriverStart.** `ServesAgain` is liveness, and TLC's. `StartsMakeProgress` proves
the safety half of it: `Distance`, the steps a program is from serving,
gets smaller with every step that is no fault while API and plugin are up. Its
invariant `StartInv` says that who listens has removed its file, so that Listen
does not fail, and that a context has expired only in the phases where it is
used next, so that it costs one restart at most.

Only model-checked: the properties that say something happens in the end
(`ClaimsSettle`, `DeletionsSettle`, `SnapshotsSettle`, `Converges`,
`ExpansionsSettle`, `PodsSettle`, `ServesAgain`), which need fairness and ENABLED and
so are out of the prover's reach.

## 6. Not modelled, and what is left

Not modelled: identity services and capability lists (constants), request
validation, logging; manifests and examples, which are deployment data. Listings
and queries (`controller.go:265-285, 377-578`, NodeGetInfo, NodeGetVolumeStats)
change no state of driver or cloud, and no sidecar of the manifests calls most of
them: a model would restate their answers. Flags and endpoints are taken as
valid by `DriverStart`. A program with only one of the two services registers the
other as a typed nil; calls to that one are not modelled.

`FileNode` has one pod path for each volume, though several pods of a node can share
one, and its node does not restart; the plugin's mounts of different pods are
its own affair, and the driver's cache, which they share, is keyed by the
volume. `ExpansionsSettle` is checked for an API that takes an extension to the
present size (`ExtendsToSame`); for one that refuses it does not hold, since a retry
after a lost answer is refused for ever. The safety of both is proved.

Left, in this order:

1. `BlockNode` composed with `BlockAttach`: now `device` in `BlockNode` stands for
   all that the attacher does.
2. The export location between the file controller's answer and the node's context
   (`controllerserver.go:124`, `filestorage/nodeserver.go:52`).
