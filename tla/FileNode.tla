------------------------------- MODULE FileNode -------------------------------
(***************************************************************************)
(* The node service of the file storage driver                             *)
(* (src/driver/filestorage/nodeserver.go, driver.go:158-272), which passes *)
(* the kubelet's calls on to an NFS CSI plugin with the volume context of  *)
(* its stage cache.  The capabilities of the plugin (Stages) do not change *)
(* while the node is up.                                                   *)
(***************************************************************************)
EXTENDS Naturals

CONSTANTS
  Handlers,   \* gRPC handler goroutines that may run at once
  Volumes,    \* volume ids
  Exports,    \* the server and share of a volume's context
  None,       \* no server and share
  MaxFaults,  \* bound on failing calls, timeouts, losses and restarts
  MaxMoves    \* bound on pods that come and go, and on volumes made anew

ASSUME NoneAssumption == None \notin Exports \union Volumes
ASSUME BoundsAssumption == MaxFaults \in Nat /\ MaxMoves \in Nat

VARIABLES
  stages,    \* whether the plugin has the capability STAGE_UNSTAGE_VOLUME
  plugin,    \* whether the plugin answers
  driver,    \* "probing" the plugin, "late" after 15 s of it, or "up"
  cache,     \* nodeStageCache: volume -> context
  staged,    \* volume -> the context it is mounted with at the staging path
  mounted,   \* volume -> the context it is mounted with at the pod's path
  call,      \* handler -> its local variables
  kube,      \* volume -> [pod, ctx, dev, tgt]: what the kubelet knows of it
  leftover,  \* volumes of which a stage call failed, or ran too late (history)
  faults, moves

vars == <<stages, plugin, driver, cache, staged, mounted, call, kube, leftover, faults, moves>>
mounts == <<staged, mounted>>
environment == <<stages, plugin, driver>>
-----------------------------------------------------------------------------
Contexts == Exports \union {None}
Idle == [op |-> "none", pc |-> "idle", v |-> None, ctx |-> None, live |-> FALSE]
Calls == [op : {"none", "stage", "publish", "unpublish", "unstage"},
          pc : {"idle", "cache", "lookup", "clear", "forward", "reply"},
          v : Volumes \union {None}, ctx : Contexts, live : BOOLEAN]
Records == [pod : BOOLEAN, ctx : Contexts,
            dev : {"no", "uncertain", "yes"}, tgt : {"no", "uncertain", "yes"}]

TypeOK ==
  /\ stages \in BOOLEAN /\ plugin \in BOOLEAN
  /\ driver \in {"probing", "late", "up"}
  /\ cache \in [Volumes -> Contexts]
  /\ staged \in [Volumes -> Contexts] /\ mounted \in [Volumes -> Contexts]
  /\ call \in [Handlers -> Calls]
  /\ \A h \in Handlers :
       call[h].pc = "forward" /\ call[h].op \in {"stage", "publish"} => call[h].ctx # None
  /\ kube \in [Volumes -> Records]
  /\ leftover \subseteq Volumes
  /\ faults \in 0..MaxFaults /\ moves \in 0..MaxMoves

(* A volume may be handed out without server and share
   (controllerserver.go:124-130). *)
Init ==
  /\ stages \in BOOLEAN
  /\ plugin = FALSE
  /\ driver = "probing"
  /\ cache = [v \in Volumes |-> None]
  /\ staged = [v \in Volumes |-> None]
  /\ mounted = [v \in Volumes |-> None]
  /\ call = [h \in Handlers |-> Idle]
  /\ kube \in [Volumes -> {[pod |-> TRUE, ctx |-> c, dev |-> "no", tgt |-> "no"] : c \in Contexts}]
  /\ leftover = {}
  /\ faults = 0 /\ moves = 0

Fault == faults < MaxFaults /\ faults' = faults + 1
Move == moves < MaxMoves /\ moves' = moves + 1
-----------------------------------------------------------------------------
(* The plugin and the driver's start *)

PluginStarts ==
  /\ ~ plugin /\ plugin' = TRUE
  /\ UNCHANGED <<stages, driver, cache, mounts, call, kube, leftover, faults, moves>>

PluginStops ==
  /\ plugin /\ plugin' = FALSE
  /\ Fault
  /\ UNCHANGED <<stages, driver, cache, mounts, call, kube, leftover, moves>>

(* ProbeForever probes a plugin that is not ready, and goes on when the context
   of initProxiedDriver has expired.  A plugin that refuses the connection ends
   the program, which is then started again: nothing changes here. *)
ProbeTooLong ==
  /\ driver = "probing" /\ ~ plugin
  /\ driver' = "late"
  /\ UNCHANGED <<stages, plugin, cache, mounts, call, kube, leftover, faults, moves>>

(* The plugin answers the probe.  With an expired context the next call fails,
   and with it the program, which Kubernetes starts again. *)
Probe ==
  /\ driver # "up" /\ plugin
  /\ driver' = IF driver = "late" THEN "probing" ELSE "up"
  /\ UNCHANGED <<stages, plugin, cache, mounts, call, kube, leftover, faults, moves>>

(* What the process kept in memory is gone: the cache and the calls. *)
DriverRestarts ==
  /\ driver = "up" /\ driver' = "probing"
  /\ cache' = [v \in Volumes |-> None]
  /\ call' = [h \in Handlers |-> Idle]
  /\ Fault
  /\ UNCHANGED <<stages, plugin, mounts, kube, leftover, moves>>
-----------------------------------------------------------------------------
(* The kubelet: one call at a time on a volume.  What a call is under way for,
   or has not answered, is uncertain. *)

Start(h, op, pc, v, rec) ==
  /\ driver = "up" /\ call[h].pc = "idle"
  /\ \A g \in Handlers : ~ (call[g].live /\ call[g].v = v)
  /\ call' = [call EXCEPT ![h] = [op |-> op, pc |-> pc, v |-> v, ctx |-> None, live |-> TRUE]]
  /\ kube' = [kube EXCEPT ![v] = rec]
  /\ UNCHANGED <<environment, cache, mounts, leftover, faults, moves>>

CallStage(h, v) ==
  /\ kube[v].pod /\ stages /\ kube[v].dev # "yes"
  /\ Start(h, "stage", "cache", v, [kube[v] EXCEPT !.dev = "uncertain"])

CallPublish(h, v) ==
  /\ kube[v].pod /\ kube[v].tgt # "yes"
  /\ stages => kube[v].dev = "yes"
  /\ Start(h, "publish", "lookup", v, [kube[v] EXCEPT !.tgt = "uncertain"])

CallUnpublish(h, v) ==
  /\ ~ kube[v].pod /\ kube[v].tgt # "no"
  /\ Start(h, "unpublish", "forward", v, [kube[v] EXCEPT !.tgt = "uncertain"])

CallUnstage(h, v) ==
  /\ ~ kube[v].pod /\ kube[v].tgt = "no" /\ kube[v].dev # "no"
  /\ Start(h, "unstage", "clear", v, [kube[v] EXCEPT !.dev = "uncertain"])

PodComesOrGoes(v) ==
  /\ kube' = [kube EXCEPT ![v].pod = ~ @]
  /\ Move
  /\ UNCHANGED <<environment, cache, mounts, call, leftover, faults>>

Unused(v) ==
  /\ ~ kube[v].pod /\ kube[v].dev = "no" /\ kube[v].tgt = "no"
  /\ \A h \in Handlers : ~ (call[h].live /\ call[h].v = v)

(* A PersistentVolume that nobody uses is made anew for the same share, with
   another context: an administrator corrects it. *)
VolumeMadeAnew(v) ==
  /\ Unused(v)
  /\ \E c \in Contexts \ {kube[v].ctx} : kube' = [kube EXCEPT ![v].ctx = c]
  /\ Move
  /\ UNCHANGED <<environment, cache, mounts, call, leftover, faults>>

(* The deadline of a call passes. *)
Cancel(h) ==
  /\ call[h].live
  /\ call' = [call EXCEPT ![h].live = FALSE]
  /\ Fault
  /\ UNCHANGED <<environment, cache, mounts, kube, leftover, moves>>
-----------------------------------------------------------------------------
(* The handlers *)

Return(h) == call' = [call EXCEPT ![h] = Idle]
Forward(h, c) == call' = [call EXCEPT ![h].pc = "forward", ![h].ctx = c]

(* The kubelet is told that the call of handler h has ended for good. *)
Tell(h, answer) ==
  LET v == call[h].v IN
  kube' = IF ~ call[h].live THEN kube
          ELSE IF call[h].op \in {"stage", "unstage"} THEN [kube EXCEPT ![v].dev = answer]
          ELSE [kube EXCEPT ![v].tgt = answer]

(* buildVolumeContext: the request's server and share, None if one is missing.
   The request carries the context of the volume while it is in use. *)
buildVolumeContext(v) == kube[v].ctx

(* NodeStageVolume under the mutex: the context in the cache, or the request's,
   which is put there before the plugin is called. *)
Cache(h) ==
  LET v == call[h].v
      c == IF cache[v] # None THEN cache[v] ELSE buildVolumeContext(v) IN
  /\ call[h].pc = "cache"
  /\ cache' = [cache EXCEPT ![v] = c]
  /\ IF c # None THEN Forward(h, c) /\ UNCHANGED kube ELSE Return(h) /\ Tell(h, "no")
  /\ leftover' = IF call[h].live \/ c = None THEN leftover ELSE leftover \union {v}
  /\ UNCHANGED <<environment, mounts, faults, moves>>

(* Mutant: the context is taken from the cache alone. *)
CachedOnly(v) == cache[v]

(* NodePublishVolume's context: from the cache if the plugin stages volumes and
   there is an entry, else built from the request. *)
ContextOf(v) == IF stages /\ cache[v] # None THEN cache[v] ELSE buildVolumeContext(v)

(* Mutant: the error of buildVolumeContext is not looked at. *)
LookupUnchecked(h) ==
  /\ call[h].pc = "lookup"
  /\ Forward(h, ContextOf(call[h].v))
  /\ UNCHANGED <<environment, cache, mounts, kube, leftover, faults, moves>>

Lookup(h) ==
  LET c == ContextOf(call[h].v) IN
  /\ call[h].pc = "lookup"
  /\ IF c # None THEN Forward(h, c) /\ UNCHANGED kube ELSE Return(h) /\ Tell(h, "no")
  /\ UNCHANGED <<environment, cache, mounts, leftover, faults, moves>>

(* Mutant: the entry stays in the cache. *)
ClearNothing(h) ==
  /\ call[h].pc = "clear"
  /\ call' = [call EXCEPT ![h].pc = "forward"]
  /\ UNCHANGED <<environment, cache, mounts, kube, leftover, faults, moves>>

(* NodeUnstageVolume under the mutex. *)
Clear(h) ==
  /\ call[h].pc = "clear"
  /\ cache' = [cache EXCEPT ![call[h].v] = None]
  /\ call' = [call EXCEPT ![h].pc = "forward"]
  /\ UNCHANGED <<environment, mounts, kube, leftover, faults, moves>>

(* The plugin does what it is asked; a volume that is mounted stays as it is. *)
PluginServes(h) ==
  LET v == call[h].v IN
  /\ staged' = [staged EXCEPT ![v] =
       CASE call[h].op = "stage" /\ @ = None -> call[h].ctx
         [] call[h].op = "unstage" -> None
         [] OTHER -> @]
  /\ mounted' = [mounted EXCEPT ![v] =
       CASE call[h].op = "publish" /\ @ = None -> call[h].ctx
         [] call[h].op = "unpublish" -> None
         [] OTHER -> @]

(* Mutant: a call that cannot be passed on has succeeded. *)
PassOnAnyway(h) ==
  /\ call[h].pc = "forward"
  /\ IF call[h].live /\ plugin
       THEN PluginServes(h) /\ call' = [call EXCEPT ![h].pc = "reply"]
       ELSE call' = [call EXCEPT ![h].pc = "reply"] /\ UNCHANGED mounts
  /\ UNCHANGED <<environment, cache, kube, leftover, faults, moves>>

(* The plugin serves the call and answers, unless it is down or the call's
   context has expired: then the call fails. *)
PassOn(h) ==
  /\ call[h].pc = "forward"
  /\ IF call[h].live /\ plugin
       THEN PluginServes(h) /\ call' = [call EXCEPT ![h].pc = "reply"]
       ELSE Return(h) /\ UNCHANGED mounts
  /\ UNCHANGED <<environment, cache, kube, leftover, faults, moves>>

(* The plugin serves the call, and its answer is lost. *)
AnswerLost(h) ==
  /\ call[h].pc = "forward" /\ call[h].live /\ plugin
  /\ PluginServes(h)
  /\ Return(h)
  /\ Fault
  /\ UNCHANGED <<environment, cache, kube, leftover, moves>>

(* The plugin refuses to mount.  The kubelet takes this error for final, and
   does not ask to undo what was not done. *)
PluginRefuses(h) ==
  LET v == call[h].v IN
  /\ call[h].pc = "forward" /\ call[h].live /\ plugin
  /\ \/ call[h].op = "stage" /\ staged[v] = None /\ leftover' = leftover \union {v}
     \/ call[h].op = "publish" /\ mounted[v] = None /\ UNCHANGED leftover
  /\ Tell(h, "no")
  /\ Return(h)
  /\ Fault
  /\ UNCHANGED <<environment, cache, mounts, moves>>

Reply(h) ==
  /\ call[h].pc = "reply"
  /\ Tell(h, IF call[h].op \in {"stage", "publish"} THEN "yes" ELSE "no")
  /\ Return(h)
  /\ UNCHANGED <<environment, cache, mounts, leftover, faults, moves>>

HandlerStep(h) == Cache(h) \/ Lookup(h) \/ Clear(h) \/ PassOn(h) \/ Reply(h)

KubeletCall(h, v) ==
  \/ CallStage(h, v) \/ CallPublish(h, v) \/ CallUnpublish(h, v) \/ CallUnstage(h, v)

Next ==
  \/ PluginStarts \/ PluginStops \/ ProbeTooLong \/ Probe \/ DriverRestarts
  \/ \E h \in Handlers : HandlerStep(h) \/ AnswerLost(h) \/ PluginRefuses(h) \/ Cancel(h)
  \/ \E h \in Handlers, v \in Volumes : KubeletCall(h, v)
  \/ \E v \in Volumes : PodComesOrGoes(v) \/ VolumeMadeAnew(v)

Spec == Init /\ [][Next]_vars
-----------------------------------------------------------------------------
(* Properties *)

(* A pod's volume is mounted from the server and share of its own context,
   though calls pass through the cache, calls overlap after a timeout and the
   cache is lost in a restart; all that can spoil it is the entry of a stage
   call that failed (nodeserver.go:73-92, 136-145, 169-171). *)
MountedFromOwnContext ==
  \A v \in Volumes \ leftover :
    /\ staged[v] \in {None, kube[v].ctx}
    /\ mounted[v] \in {None, kube[v].ctx}

(* The cache holds nothing but the results of the kubelet's stage calls:
   "Cache for NodeStageVolume results" (nodeserver.go:38).  The entry of a call
   that has failed is none. *)
CacheHoldsResults == \A v \in Volumes : cache[v] # None => kube[v].dev # "no"

(* A volume the kubelet is done with is mounted nowhere, whatever answers were
   lost on the way (nodeserver.go:110-122, 163-180).  The exception is the same:
   a volume staged from a left entry and made anew without server and share is
   refused when it is staged again after a restart, and stays mounted. *)
DoneIsUnmounted ==
  \A v \in Volumes \ leftover :
    /\ kube[v].tgt = "no" => mounted[v] = None
    /\ kube[v].dev = "no" => staged[v] = None

Seen(v, p) == IF p = "staging" THEN staged[v] ELSE mounted[v]
Known(v, p) == IF p = "staging" THEN kube[v].dev ELSE kube[v].tgt

Mounts == INSTANCE NodeMounts WITH
  Contents <- Exports,
  present <- Volumes, own <- [v \in Volumes |-> kube[v].ctx],
  mount <- [v \in Volumes |-> [p \in {"staging", "pod"} |-> Seen(v, p)]],
  record <- [v \in Volumes |-> [p \in {"staging", "pod"} |-> Known(v, p)]],
  excused <- leftover

(* The service with its cache and the plugin behind it keeps to the abstract
   node service, but for the volumes with a left entry: lost answers and
   restarts do not make the kubelet believe what is not so, a plugin that stages
   volumes is asked to publish what it has staged and to unstage what it does
   not publish any more (nodeserver.go:72-180). *)
RefinesMounts == Mounts!Spec
-----------------------------------------------------------------------------
(* The programs run, and the kubelet retries without end. *)
Fairness ==
  /\ WF_vars(PluginStarts) /\ WF_vars(Probe)
  /\ \A h \in Handlers : WF_vars(HandlerStep(h))
  /\ \A v \in Volumes : SF_vars(\E h \in Handlers : KubeletCall(h, v))

FairSpec == Spec /\ Fairness

(* A pod gets its volume in the end, in spite of restarts of the driver, with
   the loss of its cache, and of the plugin (nodeserver.go:83-85,
   driver.go:232-272), unless the context has no server and share; and a
   volume no pod needs is released. *)
PodsSettle ==
  \A v \in Volumes :
    /\ <>[](kube[v].pod /\ kube[v].ctx # None) => <>(mounted[v] # None /\ kube[v].tgt = "yes")
    /\ <>[](~ kube[v].pod) => <>[]Unused(v)
=============================================================================
