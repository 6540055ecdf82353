---------------------------- MODULE BlockResize ----------------------------
(***************************************************************************)
(* The expansion of a block volume while it is used: the controller's      *)
(* ControllerExpandVolume (src/driver/blockstorage/controller.go:506-545)  *)
(* extends the volume, the node's NodeExpandVolume (nodeserver.go:317-349) *)
(* grows the file system on it.  The two run in different programs, which  *)
(* the resizer and the kubelet call; they meet only in the capacities that *)
(* Kubernetes records and in the device.  Nobody waits for an extension.   *)
(***************************************************************************)
EXTENDS Sizes

CONSTANTS
  Handlers,      \* gRPC handler goroutines that may run at once
  Requests,      \* capacities in bytes that the user may ask for
  Limits,        \* limits in bytes that a call may carry, 0 for none
  MaxFaults,     \* bound on failing calls, timeouts, losses and restarts
  MaxMoves,      \* bound on pods that come and go
  ExtendsToSame  \* does the API accept an extension to the size it has?

ASSUME RequestsAssumption == Requests \subseteq Nat \ {0} /\ Limits \subseteq Nat
ASSUME BoundsAssumption == MaxFaults \in Nat /\ MaxMoves \in Nat /\ ExtendsToSame \in BOOLEAN

VARIABLES
  volume,   \* the API's volume: [status, size, target], sizes in GiB
  mounted,  \* is the volume attached to a node and mounted there?
  device,   \* the size in GiB that the node's kernel shows
  fs,       \* the size in GiB of the file system, 0 before there is one
  call,     \* handler -> its local variables
  claim,    \* what Kubernetes has recorded, in bytes: [want, pv, told]
  lapsed,   \* has an accepted extension failed? (history)
  faults, moves

node == <<mounted, device, fs>>
counters == <<faults, moves>>
vars == <<volume, node, call, claim, lapsed, counters>>
-----------------------------------------------------------------------------
Idle == [op |-> "none", pc |-> "idle", bytes |-> 0, limit |-> 0, live |-> FALSE]
Calls == [op : {"none", "expand", "node"},
          pc : {"idle", "get", "extend", "find", "rescan", "resize", "reply"},
          bytes : Nat, limit : Nat, live : BOOLEAN]

TypeOK ==
  /\ volume \in [status : {"available", "extending"}, size : Nat \ {0}, target : Nat \ {0}]
  /\ volume.size <= volume.target
  /\ volume.status = "available" => volume.size = volume.target
  /\ mounted \in BOOLEAN /\ device \in Nat /\ fs \in Nat
  /\ fs <= device \/ ~ mounted
  /\ call \in [Handlers -> Calls]
  /\ claim \in [want : Requests, pv : Nat, told : Nat]
  /\ lapsed \in BOOLEAN
  /\ faults \in 0..MaxFaults /\ moves \in 0..MaxMoves

(* The volume as CreateVolume has made and answered it: in whole GiB. *)
Init ==
  /\ \E r \in Requests :
       LET s == RoundUpSize(r) IN
       /\ volume = [status |-> "available", size |-> s, target |-> s]
       /\ claim = [want |-> r, pv |-> InBytes(s), told |-> InBytes(s)]
  /\ mounted = FALSE /\ device = 0 /\ fs = 0
  /\ call = [h \in Handlers |-> Idle]
  /\ lapsed = FALSE
  /\ faults = 0 /\ moves = 0

Fault == faults < MaxFaults /\ faults' = faults + 1 /\ UNCHANGED moves
-----------------------------------------------------------------------------
(* The volume API *)

Extendable(s) ==
  /\ volume.status = "available"
  /\ volume.size < s \/ (volume.size = s /\ ExtendsToSame)

StartExtend(s) == volume' = [volume EXCEPT !.status = "extending", !.target = s]

ExtensionDone ==
  /\ volume.status = "extending"
  /\ volume' = [volume EXCEPT !.status = "available", !.size = volume.target]
  /\ UNCHANGED <<node, call, claim, lapsed, counters>>

(* The task behind an accepted extension fails. *)
ExtensionFails ==
  /\ volume.status = "extending"
  /\ volume' = [volume EXCEPT !.status = "available", !.target = volume.size]
  /\ lapsed' = TRUE
  /\ Fault
  /\ UNCHANGED <<node, call, claim>>
-----------------------------------------------------------------------------
(* The user, the resizer and the kubelet.  Each of the two has one call at a
   time on the volume and repeats it until it succeeds. *)

Waiting(op) == \E h \in Handlers : call[h].live /\ call[h].op = op

UserGrows(r) ==
  /\ r > claim.want
  /\ claim' = [claim EXCEPT !.want = r]
  /\ UNCHANGED <<volume, node, call, lapsed, counters>>

(* A pod is placed on some node: the volume is attached there, formatted if it
   has no file system, and mounted. *)
PodComes ==
  /\ ~ mounted
  /\ mounted' = TRUE
  /\ device' = volume.size
  /\ fs' = IF fs = 0 THEN volume.size ELSE fs
  /\ moves < MaxMoves /\ moves' = moves + 1
  /\ UNCHANGED <<volume, call, claim, lapsed, faults>>

PodGoes ==
  /\ mounted
  /\ mounted' = FALSE
  /\ UNCHANGED <<volume, device, fs, call, claim, lapsed, counters>>

Start(h, op, pc, bytes, limit) ==
  /\ call[h].pc = "idle" /\ ~ Waiting(op)
  /\ call' = [call EXCEPT ![h] = [op |-> op, pc |-> pc, bytes |-> bytes, limit |-> limit,
                                  live |-> TRUE]]
  /\ UNCHANGED <<volume, node, claim, lapsed, counters>>

(* The limit of a call is compared with the bytes asked for. *)
InRange(bytes, limit) == limit = 0 \/ bytes <= limit

(* The resizer calls ControllerExpandVolume; a call whose limit is too low is
   refused at once (controller.go:522).  No sidecar of the manifests sets one. *)
CallExpand(h, limit) ==
  /\ claim.want > claim.pv
  /\ InRange(claim.want, limit)
  /\ Start(h, "expand", "get", claim.want, limit)

(* The kubelet calls NodeExpandVolume for a volume that is mounted. *)
CallNodeExpand(h) ==
  /\ mounted /\ claim.told < claim.pv
  /\ Start(h, "node", "find", claim.pv, 0)

(* The deadline of a call passes, or its connection breaks. *)
Cancel(h) ==
  /\ call[h].live
  /\ call' = [call EXCEPT ![h].live = FALSE]
  /\ Fault
  /\ UNCHANGED <<volume, node, claim, lapsed>>

(* The controller's or the node's plugin restarts. *)
Restart(op) ==
  /\ call' = [h \in Handlers |-> IF call[h].op = op THEN Idle ELSE call[h]]
  /\ Fault
  /\ UNCHANGED <<volume, node, claim, lapsed>>
-----------------------------------------------------------------------------
(* ControllerExpandVolume *)

Return(h) == call' = [call EXCEPT ![h] = Idle]
Goto(h, pc) == call' = [call EXCEPT ![h].pc = pc]

(* The handler is at an API call, and its context has not expired. *)
ReachesAPI(h, pc) == call[h].pc = pc /\ call[h].live

Get(h) ==
  /\ ReachesAPI(h, "get")
  /\ Goto(h, "extend")
  /\ UNCHANGED <<volume, node, claim, lapsed, counters>>

(* Mutant: the size is rounded down. *)
ExtendTruncated(h) ==
  LET s == call[h].bytes \div GiB IN
  /\ ReachesAPI(h, "extend")
  /\ \/ Extendable(s) /\ StartExtend(s) /\ Goto(h, "reply")
     \/ ~ Extendable(s) /\ UNCHANGED volume /\ Return(h)
  /\ UNCHANGED <<node, claim, lapsed, counters>>

(* Accepted is answered: nobody waits for the task. *)
Extend(h) ==
  LET s == RoundUpSize(call[h].bytes) IN
  /\ ReachesAPI(h, "extend")
  /\ \/ Extendable(s) /\ StartExtend(s) /\ Goto(h, "reply")
     \/ ~ Extendable(s) /\ UNCHANGED volume /\ Return(h)
  /\ UNCHANGED <<node, claim, lapsed, counters>>

(* The context has expired: the next API call fails. *)
Expire(h) ==
  /\ call[h].pc \in {"get", "extend"} /\ ~ call[h].live
  /\ Return(h)
  /\ UNCHANGED <<volume, node, claim, lapsed, counters>>

(* An API call fails without effect, or the answer to it is lost. *)
ApiFails(h) ==
  LET s == RoundUpSize(call[h].bytes) IN
  /\ call[h].pc \in {"get", "extend"} /\ call[h].live
  /\ \/ UNCHANGED volume
     \/ call[h].pc = "extend" /\ Extendable(s) /\ StartExtend(s)
  /\ Return(h)
  /\ Fault
  /\ UNCHANGED <<node, claim, lapsed>>
-----------------------------------------------------------------------------
(* NodeExpandVolume.  It never looks at the request's context. *)

Find(h) ==
  /\ call[h].pc = "find"
  /\ IF mounted THEN Goto(h, "rescan") ELSE Return(h)
  /\ UNCHANGED <<volume, node, claim, lapsed, counters>>

(* Mutant: the size that the device shows is not compared. *)
RescanOnly(h) ==
  /\ call[h].pc = "rescan"
  /\ IF mounted
       THEN device' = volume.size /\ Goto(h, "resize")
       ELSE UNCHANGED device /\ Return(h)
  /\ UNCHANGED <<volume, mounted, fs, claim, lapsed, counters>>

(* Mutant: the device must have exactly the size expected. *)
RescanExact(h) ==
  /\ call[h].pc = "rescan"
  /\ \/ /\ mounted
        /\ device' = volume.size
        /\ IF call[h].bytes = InBytes(volume.size) THEN Goto(h, "resize") ELSE Return(h)
     \/ ~ mounted /\ UNCHANGED device /\ Return(h)
  /\ UNCHANGED <<volume, mounted, fs, claim, lapsed, counters>>

(* RescanBlockDeviceGeometry makes the kernel read the size again, and fails
   if it is less than the one expected. *)
Rescan(h) ==
  /\ call[h].pc = "rescan"
  /\ \/ /\ mounted
        /\ device' = volume.size
        /\ IF call[h].bytes <= InBytes(volume.size) THEN Goto(h, "resize") ELSE Return(h)
     \/ ~ mounted /\ UNCHANGED device /\ Return(h)
  /\ UNCHANGED <<volume, mounted, fs, claim, lapsed, counters>>

(* Mutant: the file system is given the size asked for, not that of its device. *)
ResizeToRequested(h) ==
  /\ call[h].pc = "resize"
  /\ \/ mounted /\ fs' = RoundUpSize(call[h].bytes) /\ Goto(h, "reply")
     \/ ~ mounted /\ UNCHANGED fs /\ Return(h)
  /\ UNCHANGED <<volume, mounted, device, claim, lapsed, counters>>

(* Resize grows the file system to the size of its device. *)
Resize(h) ==
  /\ call[h].pc = "resize"
  /\ \/ mounted /\ fs' = device /\ Goto(h, "reply")
     \/ ~ mounted /\ UNCHANGED fs /\ Return(h)
  /\ UNCHANGED <<volume, mounted, device, claim, lapsed, counters>>

(* A command on the node fails. *)
NodeFails(h) ==
  /\ call[h].pc \in {"find", "rescan", "resize"}
  /\ Return(h)
  /\ Fault
  /\ UNCHANGED <<volume, node, claim, lapsed>>
-----------------------------------------------------------------------------
Larger(s, t) == IF s > t THEN s ELSE t

(* The answer, if somebody still listens: the resizer records the capacity of
   the volume, the kubelet tells the user. *)
Reply(h) ==
  /\ call[h].pc = "reply"
  /\ IF call[h].live
       THEN claim' = IF call[h].op = "expand"
                       THEN [claim EXCEPT !.pv = Larger(call[h].bytes, @)]
                       ELSE [claim EXCEPT !.told = Larger(call[h].bytes, @)]
       ELSE UNCHANGED claim
  /\ Return(h)
  /\ UNCHANGED <<volume, node, lapsed, counters>>

HandlerStep(h) ==
  \/ Get(h) \/ Extend(h) \/ Expire(h)
  \/ Find(h) \/ Rescan(h) \/ Resize(h)
  \/ Reply(h)

HandlerFault(h) == ApiFails(h) \/ NodeFails(h) \/ Cancel(h)

Next ==
  \/ \E h \in Handlers : HandlerStep(h) \/ HandlerFault(h)
  \/ \E h \in Handlers : CallNodeExpand(h) \/ \E limit \in Limits : CallExpand(h, limit)
  \/ \E op \in {"expand", "node"} : Restart(op)
  \/ ExtensionDone \/ ExtensionFails
  \/ PodComes \/ PodGoes
  \/ \E r \in Requests : UserGrows(r)

Spec == Init /\ [][Next]_vars
-----------------------------------------------------------------------------
(* Properties *)

(* The capacity a user is told is in the file system.  The controller answers
   before the extension is done, so this rests on the node: on the size it
   reads again and compares before it resizes (nodeserver.go:339-349). *)
ToldIsThere == fs # 0 => claim.told <= InBytes(fs)

(* Nobody pays for more than was asked for, but for the rounding, and unless an
   extension has failed what was answered is there or on its way: calls overtake
   each other, and the answer is in the bytes asked for (controller.go:519-544). *)
VolumeInRange ==
  /\ InBytes(volume.target) < claim.want + GiB
  /\ claim.pv <= InBytes(volume.target) \/ lapsed

(* "After round-up, volume size exceeds the limit specified" is the error a call
   is refused with (controller.go:523), so a size that is asked for does not.
   The code compares the bytes as they come (controller.go:522). *)
LimitKept ==
  \A h \in Handlers : call[h].pc = "extend" /\ call[h].limit > 0 =>
    InBytes(RoundUpSize(call[h].bytes)) <= call[h].limit

(* What the user sees of it is the abstract expansion: whatever handlers are cut
   off, repeated or run late in the two programs, volume and file system only
   grow, the volume to the request rounded up, the file system never beyond the
   volume, and he is told of what he can use (controller.go:506-545,
   nodeserver.go:317-349). *)
Promise == INSTANCE Expansion WITH
  want <- claim.want, size <- volume.size, usable <- fs, told <- claim.told

RefinesExpansion == Promise!Spec
-----------------------------------------------------------------------------
(* Handlers run, the API finishes what it has accepted, and resizer and kubelet
   retry without end.  Every request has a goroutine of its own in the code;
   strong fairness stands in for that where Handlers is small. *)
Fairness ==
  /\ \A h \in Handlers : WF_vars(HandlerStep(h))
  /\ WF_vars(ExtensionDone)
  /\ SF_vars(\E h \in Handlers : CallExpand(h, 0))
  /\ SF_vars(\E h \in Handlers : CallNodeExpand(h))

FairSpec == Spec /\ Fairness

(* Once a pod stays, the user gets what he asked for, lost answers and restarts
   notwithstanding: if the API accepts an extension to the size the volume has,
   which the handler asks for after a lost answer and for a request within the
   same GiB, and unless an extension fails (controller.go:526-544). *)
ExpansionsSettle ==
  <>[]mounted => (claim.told < claim.want ~> claim.told >= claim.want \/ lapsed)
=============================================================================
