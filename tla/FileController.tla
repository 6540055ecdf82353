--------------------------- MODULE FileController ---------------------------
(***************************************************************************)
(* The controller of the file storage driver                               *)
(* (src/driver/filestorage/controllerserver.go and share.go) against the   *)
(* file storage API.  Each gRPC handler is a goroutine; the only state     *)
(* they share in the process is pendingVolumes, the rest lives in the      *)
(* cloud and is read and written one API call at a time.                   *)
(***************************************************************************)
EXTENDS Naturals, FiniteSets

CONSTANTS
  Handlers,      \* gRPC handler goroutines that may run at once
  Names,         \* volume names the provisioner asks for
  Ids,           \* share ids the API can give out: a quota on shares
  Sizes,         \* capacities in GiB
  Asked,         \* [Names -> SUBSET Sizes]: sizes CreateVolume(name) is called with
  None,          \* no key, no share
  MaxPolls,      \* waitForAvailableShareRetries
  MaxFaults      \* bound on failing API calls, failing shares and crashes

ASSUME KeysAssumption == Names \cap Ids = {} /\ None \notin Names \union Ids
ASSUME SizesAssumption == Sizes \subseteq Nat \ {0} /\ Asked \in [Names -> SUBSET Sizes]
ASSUME BoundsAssumption == MaxPolls \in Nat \ {0} /\ MaxFaults \in Nat

VARIABLES
  shares,     \* the API's shares: id -> [name, status, size, target, exported]
  late,       \* create requests given up by their caller and not yet executed
  pending,    \* the keys of pendingVolumes (controllerserver.go:39)
  call,       \* handler -> its local variables
  confirmed,  \* id -> largest capacity a successful reply has named, 0 if none
  doubtful,   \* names a create was sent for blindly, or overdue (history)
  faults      \* how many faults have happened

vars == <<shares, late, pending, call, confirmed, doubtful, faults>>
-----------------------------------------------------------------------------
Statuses == {"none", "creating", "available", "extending", "error", "deleting", "gone"}
Listed(id) == shares[id].status \notin {"none", "gone"}
Keys == Names \union Ids

Idle == [op |-> "none", pc |-> "idle", key |-> None, id |-> None,
         size |-> 0, seen |-> 0, polls |-> 0]
Calls == [op : {"none", "create", "expand"},
          pc : {"idle", "lookup", "create", "poll", "get", "resize", "reply"},
          key : Keys \union {None}, id : Ids \union {None},
          size : Sizes \union {0}, seen : Sizes \union {0}, polls : 0..MaxPolls]
Shares == [name : Names \union {None}, status : Statuses, size : Sizes \union {0},
           target : Sizes \union {0}, exported : BOOLEAN]

TypeOK ==
  /\ shares \in [Ids -> Shares]
  /\ late \subseteq Names \X Sizes
  /\ pending \subseteq Keys
  /\ call \in [Handlers -> Calls]
  /\ confirmed \in [Ids -> Sizes \union {0}]
  /\ doubtful \subseteq Names
  /\ faults \in 0..MaxFaults

Init ==
  /\ shares = [id \in Ids |-> [name |-> None, status |-> "none", size |-> 0,
                               target |-> 0, exported |-> FALSE]]
  /\ late = {}
  /\ pending = {}
  /\ call = [h \in Handlers |-> Idle]
  /\ confirmed = [id \in Ids |-> 0]
  /\ doubtful = {}
  /\ faults = 0
-----------------------------------------------------------------------------
(* Every way out of a handler runs the deferred pendingVolumes.Delete. *)
Return(h) ==
  /\ call' = [call EXCEPT ![h] = Idle]
  /\ pending' = pending \ {call[h].key}

Goto(h, pc) ==
  /\ call' = [call EXCEPT ![h].pc = pc]
  /\ UNCHANGED pending

Answer(h, id) ==
  /\ call' = [call EXCEPT ![h].pc = "reply", ![h].id = id, ![h].seen = shares[id].size]
  /\ UNCHANGED pending

(* Mutant: what was asked for is answered without waiting for it. *)
WaitForNothing(h, id) ==
  /\ call' = [call EXCEPT ![h].pc = "reply", ![h].id = id, ![h].seen = call[h].size]
  /\ UNCHANGED pending

WaitFor(h, id) ==
  /\ call' = [call EXCEPT ![h].pc = "poll", ![h].id = id, ![h].polls = MaxPolls]
  /\ UNCHANGED pending

Fault == faults < MaxFaults /\ faults' = faults + 1

(* Mutant: the key is stored and never looked at. *)
AdmitAnyway(h, op, pc, key, size) ==
  /\ call[h].pc = "idle"
  /\ pending' = pending \union {key}
  /\ call' = [call EXCEPT ![h] = [Idle EXCEPT !.op = op, !.pc = pc, !.key = key, !.size = size]]
  /\ UNCHANGED <<shares, late, confirmed, doubtful, faults>>

(* pendingVolumes.LoadOrStore finds the key free: the handler owns it. *)
Admit(h, op, pc, key, size) ==
  /\ call[h].pc = "idle"
  /\ key \notin pending
  /\ pending' = pending \union {key}
  /\ call' = [call EXCEPT ![h] = [Idle EXCEPT !.op = op, !.pc = pc, !.key = key, !.size = size]]
  /\ UNCHANGED <<shares, late, confirmed, doubtful, faults>>

(* Mutant: the Delete is deferred before LoadOrStore. *)
AbortFreesKey(h, key) ==
  /\ call[h].pc = "idle"
  /\ key \in pending
  /\ pending' = pending \ {key}
  /\ UNCHANGED <<shares, late, call, confirmed, doubtful, faults>>

(* LoadOrStore finds the key: reply Aborted, before the deferred Delete is set up. *)
Abort(h, key) ==
  /\ call[h].pc = "idle"
  /\ key \in pending
  /\ UNCHANGED vars

AdmitCreate(h, n, s) == s \in Asked[n] /\ Admit(h, "create", "lookup", n, s)

(* The resizer knows the ids that CreateVolume has returned. *)
AdmitExpand(h, id, s) ==
  /\ confirmed[id] > 0
  /\ Admit(h, "expand", "get", id, s)
-----------------------------------------------------------------------------
(* CreateVolume *)

(* Mutant: shares that are still being made do not count. *)
NamedAvailable(n) == {id \in Ids : shares[id].status = "available" /\ shares[id].name = n}

NamedShares(n) == {id \in Ids : Listed(id) /\ shares[id].name = n}

(* Mutant: a share that is being resized counts as done. *)
IsReadyEarly(id) == shares[id].status \in {"available", "extending"}

IsReady(id) == shares[id].status = "available"

(* Mutant: a share that exists already is an error. *)
LookupRefuses(h) ==
  /\ call[h].pc = "lookup"
  /\ IF NamedShares(call[h].key) # {} THEN Return(h) ELSE Goto(h, "create")
  /\ UNCHANGED <<shares, late, confirmed, doubtful, faults>>

(* getOrCreateShare: the first share of that name in an unordered list. *)
Lookup(h) ==
  /\ call[h].pc = "lookup"
  /\ \/ \E id \in NamedShares(call[h].key) :
          IF IsReady(id) THEN Answer(h, id) ELSE WaitFor(h, id)
     \/ NamedShares(call[h].key) = {} /\ Goto(h, "create")
  /\ UNCHANGED <<shares, late, confirmed, doubtful, faults>>

(* An error of List is not told from "not found": the share is created. *)
LookupFails(h) ==
  /\ call[h].pc = "lookup"
  /\ Goto(h, "create")
  /\ doubtful' = doubtful \union {call[h].key}
  /\ Fault
  /\ UNCHANGED <<shares, late, confirmed>>

(* The API starts a share with an id of its own. *)
NewShare(id, n, s) ==
  /\ shares[id].status = "none"
  /\ shares' = [shares EXCEPT ![id] = [name |-> n, status |-> "creating", size |-> s,
                                       target |-> s, exported |-> FALSE]]

CreateShare(h) ==
  /\ call[h].pc = "create"
  /\ \E id \in Ids : NewShare(id, call[h].key, call[h].size) /\ WaitFor(h, id)
  /\ UNCHANGED <<late, confirmed, doubtful, faults>>

(* The request arrives, its answer does not. *)
CreateLost(h) ==
  /\ call[h].pc = "create"
  /\ \E id \in Ids : NewShare(id, call[h].key, call[h].size)
  /\ Return(h)
  /\ Fault
  /\ UNCHANGED <<late, confirmed, doubtful>>

(* The caller's deadline passes while the request is still on its way. *)
CreateOverdue(h) ==
  /\ call[h].pc = "create"
  /\ late' = late \union {<<call[h].key, call[h].size>>}
  /\ doubtful' = doubtful \union {call[h].key}
  /\ Return(h)
  /\ Fault
  /\ UNCHANGED <<shares, confirmed>>

LateCreate(n, s) ==
  /\ <<n, s>> \in late
  /\ \E id \in Ids : NewShare(id, n, s)
  /\ late' = late \ {<<n, s>>}
  /\ UNCHANGED <<pending, call, confirmed, doubtful, faults>>

(* Quota is used up, or the API refuses. *)
CreateRefused(h) ==
  /\ call[h].pc = "create"
  /\ IF \E id \in Ids : shares[id].status = "none" THEN Fault ELSE UNCHANGED faults
  /\ Return(h)
  /\ UNCHANGED <<shares, late, confirmed, doubtful>>
-----------------------------------------------------------------------------
(* waitForShareAvailable, for CreateVolume and ControllerExpandVolume.  One
   step is one evaluation of the backoff's condition; there are MaxPolls. *)

(* The statuses under which the condition answers "not yet" and not an error. *)
KeepsWaiting(id) == shares[id].status \in {"creating", "extending"}

(* Mutant: the retries are not counted down to one. *)
LastPollNever(h) == call[h].polls < 0

LastPoll(h) == call[h].polls <= 1

Poll(h) ==
  LET id == call[h].id IN
  /\ call[h].pc = "poll"
  /\ \/ IsReady(id) /\ Answer(h, id)
     \/ /\ KeepsWaiting(id) /\ ~ LastPoll(h)
        /\ call' = [call EXCEPT ![h].polls = @ - 1]
        /\ UNCHANGED pending
     \/ KeepsWaiting(id) /\ LastPoll(h) /\ Return(h)
     \/ ~ IsReady(id) /\ ~ KeepsWaiting(id) /\ Return(h)
  /\ UNCHANGED <<shares, late, confirmed, doubtful, faults>>

(* An API call without effect fails: every one is given the request's context,
   so this is also what a cancelled or timed out handler meets. *)
CallFails(h) ==
  /\ call[h].pc \in {"poll", "get", "resize"}
  /\ Return(h)
  /\ Fault
  /\ UNCHANGED <<shares, late, confirmed, doubtful>>

(* Mutant: a share without an export location is handed out. *)
SucceedsUnexported(h) == call[h].op = "expand" \/ call[h].seen = call[h].size

(* The tail of CreateVolume and of ControllerExpandVolume. *)
Succeeds(h) ==
  \/ call[h].op = "expand"
  \/ call[h].seen = call[h].size /\ shares[call[h].id].exported

Confirm(id, s) == confirmed' = [confirmed EXCEPT ![id] = IF s > @ THEN s ELSE @]

Reply(h) ==
  /\ call[h].pc = "reply"
  /\ IF Succeeds(h) THEN Confirm(call[h].id, call[h].seen) ELSE UNCHANGED confirmed
  /\ Return(h)
  /\ UNCHANGED <<shares, late, doubtful, faults>>
-----------------------------------------------------------------------------
(* ControllerExpandVolume *)

Get(h) ==
  LET id == call[h].key IN
  /\ call[h].pc = "get"
  /\ \/ ~ Listed(id) /\ Return(h)
     \/ Listed(id) /\ shares[id].size >= call[h].size /\ Answer(h, id)
     \/ Listed(id) /\ shares[id].size < call[h].size /\ Goto(h, "resize")
  /\ UNCHANGED <<shares, late, confirmed, doubtful, faults>>

(* The API resizes an available share, and only upwards. *)
Resizable(id, s) == shares[id].status = "available" /\ shares[id].size < s
Extend(id, s) ==
  shares' = [shares EXCEPT ![id].status = "extending", ![id].target = s]

Resize(h) ==
  LET id == call[h].key IN
  /\ call[h].pc = "resize"
  /\ IF Resizable(id, call[h].size)
       THEN Extend(id, call[h].size) /\ WaitFor(h, id)
       ELSE UNCHANGED shares /\ Return(h)
  /\ UNCHANGED <<late, confirmed, doubtful, faults>>

ResizeLost(h) ==
  LET id == call[h].key IN
  /\ call[h].pc = "resize"
  /\ Resizable(id, call[h].size)
  /\ Extend(id, call[h].size)
  /\ Return(h)
  /\ Fault
  /\ UNCHANGED <<late, confirmed, doubtful>>
-----------------------------------------------------------------------------
(* DeleteVolume takes no key and makes one API call, so it is one step here.
   A share that is not listed is a success, a busy one an error: both change
   nothing. *)
DeleteVolume(id) ==
  /\ confirmed[id] > 0
  /\ shares[id].status \in {"available", "error"}
  /\ shares' = [shares EXCEPT ![id].status = "deleting"]
  /\ UNCHANGED <<late, pending, call, confirmed, doubtful, faults>>

(* The plugin's process restarts: handlers and pendingVolumes are lost. *)
Crash ==
  /\ call' = [h \in Handlers |-> Idle]
  /\ pending' = {}
  /\ Fault
  /\ UNCHANGED <<shares, late, confirmed, doubtful>>
-----------------------------------------------------------------------------
(* The file storage service. *)

ShareReady(id) ==
  /\ \/ /\ shares[id].status = "creating"
        /\ \E e \in BOOLEAN :
             shares' = [shares EXCEPT ![id].status = "available", ![id].exported = e]
     \/ /\ shares[id].status = "extending"
        /\ shares' = [shares EXCEPT ![id].status = "available", ![id].size = shares[id].target]
  /\ UNCHANGED <<late, pending, call, confirmed, doubtful, faults>>

ShareFails(id) ==
  /\ shares[id].status \in {"creating", "extending"}
  /\ shares' = [shares EXCEPT ![id].status = "error"]
  /\ Fault
  /\ UNCHANGED <<late, pending, call, confirmed, doubtful>>

ShareGone(id) ==
  /\ shares[id].status = "deleting"
  /\ shares' = [shares EXCEPT ![id].status = "gone"]
  /\ UNCHANGED <<late, pending, call, confirmed, doubtful, faults>>
-----------------------------------------------------------------------------
(* What a handler does once it owns its key. *)
HandlerStep(h) ==
  \/ Lookup(h) \/ CreateShare(h) \/ CreateRefused(h)
  \/ Poll(h) \/ Get(h) \/ Resize(h) \/ Reply(h)

HandlerFault(h) ==
  LookupFails(h) \/ CreateLost(h) \/ CreateOverdue(h) \/ ResizeLost(h) \/ CallFails(h)

Request(h) ==
  \/ \E n \in Names, s \in Sizes : AdmitCreate(h, n, s)
  \/ \E id \in Ids, s \in Sizes : AdmitExpand(h, id, s)
  \/ \E key \in Keys : Abort(h, key)

Service ==
  \/ \E n \in Names, s \in Sizes : LateCreate(n, s)
  \/ \E id \in Ids : DeleteVolume(id) \/ ShareReady(id) \/ ShareFails(id) \/ ShareGone(id)

Next ==
  \/ \E h \in Handlers : Request(h) \/ HandlerStep(h) \/ HandlerFault(h)
  \/ Service
  \/ Crash

Spec == Init /\ [][Next]_vars
-----------------------------------------------------------------------------
(* Properties *)

(* The keys in pendingVolumes are those of the handlers at work, each key of
   one handler: no path returns with the key or frees a key it does not own
   (LoadOrStore and the deferred Delete, controllerserver.go:55-58, 177-180). *)
PendingIsHeld ==
  LET busy == {h \in Handlers : call[h].pc # "idle"} IN
  /\ pending = {call[h].key : h \in busy}
  /\ \A g, h \in busy : call[g].key = call[h].key => g = h

(* CreateVolume is idempotent: retries, lost replies, restarts and requests in
   parallel never leave two shares with one name.  The exceptions are a create
   sent although the lookup had failed, and one the API executes after its
   caller's deadline (share.go:36-57). *)
OneSharePerName ==
  \A i, j \in Ids :
    /\ Listed(i) /\ Listed(j)
    /\ shares[i].name = shares[j].name /\ shares[i].name \notin doubtful
    => i = j

(* The same without the exceptions: "retrieves an existing share by name, or
   creates a new one if it doesn't exist yet" (share.go:36-37). *)
OneSharePerNameAlways ==
  \A i, j \in Ids : Listed(i) /\ Listed(j) /\ shares[i].name = shares[j].name => i = j

(* No reply names a capacity the share does not have, at any later time
   (CapacityBytes, controllerserver.go:148, 196, 208). *)
ConfirmedCapacity == \A id \in Ids : confirmed[id] <= shares[id].size

(* A volume is handed out only once its share has been available and has an
   export location (controllerserver.go:103-133).  Whether the location can be
   parsed is not asked: it is handed out without server and share if not. *)
ConfirmedShareIsBuilt ==
  \A id \in Ids : confirmed[id] > 0 =>
    shares[id].status \notin {"none", "creating"} /\ shares[id].exported

(* An expansion that succeeds answers with the size asked for or more, though
   the size is read again after the wait, when others have had time to act
   (controllerserver.go:183-209). *)
ExpandMeetsRequest ==
  \A h \in Handlers :
    call[h].op = "expand" /\ call[h].pc = "reply" => call[h].seen >= call[h].size

(* The steps a handler has left at most. *)
Left(h) ==
  IF call[h].pc = "idle" THEN 0
  ELSE IF call[h].pc = "reply" THEN 1
  ELSE IF call[h].pc = "poll" THEN call[h].polls + 1
  ELSE IF call[h].pc \in {"create", "resize"} THEN MaxPolls + 2
  ELSE MaxPolls + 3

(* Nothing keeps a handler, and with it the key of its volume, beyond MaxPolls
   looks at the share: whatever the share does meanwhile, each step of the
   handler brings its reply nearer, and nobody else's step puts it off
   (share.go:110-139, controllerserver.go:55-58, 177-180). *)
CallsEnd ==
  [][\A h \in Handlers :
       call[h].pc # "idle" => UNCHANGED call[h] \/ Left(h)' \in 0 .. (Left(h) - 1)]_vars

(* The volumes as an orchestrator sees them.  A share that failed is given up. *)
RegistryState(status) ==
  CASE status = "none" -> "absent"
    [] status = "creating" -> "building"
    [] status \in {"available", "extending"} -> "ready"
    [] OTHER -> "removed"

Registry == INSTANCE VolumeRegistry WITH
  volume <- [id \in Ids |-> [name |-> shares[id].name, size |-> shares[id].size,
                             state |-> RegistryState(shares[id].status)]],
  granted <- confirmed, excused <- doubtful, Grantable <- {"ready", "removed"}

(* The controller with its API implements the registry (all of CreateVolume,
   DeleteVolume and ControllerExpandVolume): a lookup that failed and a creation
   executed late excuse a second share of the name and nothing else. *)
RefinesRegistry == Registry!Spec
-----------------------------------------------------------------------------
(* A handler runs on, the service finishes what it started, and the
   provisioner retries a claim until CreateVolume succeeds. *)
Fairness ==
  /\ \A h \in Handlers : WF_vars(HandlerStep(h))
  /\ \A id \in Ids : WF_vars(ShareReady(id))
  /\ \A n \in Names, s \in Sizes : SF_vars(\E h \in Handlers : AdmitCreate(h, n, s))

FairSpec == Spec /\ Fairness

Provisioned(n) == \E id \in Ids : shares[id].name = n /\ confirmed[id] > 0

(* Out of the controller's hands: the share failed, has no export location, or
   no further share may be created. *)
Stuck(n) ==
  \/ \E id \in NamedShares(n) :
       \/ shares[id].status = "error"
       \/ shares[id].status = "available" /\ ~ shares[id].exported
  \/ \A id \in Ids : shares[id].status # "none"

(* Every claim is provisioned in the end, whatever calls were lost, timed out
   or cut off by a restart on the way (share.go:36-57). *)
ClaimsSettle == \A n \in Names : <>(Provisioned(n) \/ Stuck(n))
=============================================================================
