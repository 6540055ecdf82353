-------------------------- MODULE FileNode_proofs --------------------------
(***************************************************************************)
(* Proofs about the file storage node service and its stage cache, for any *)
(* handlers, volumes, exports and bounds.                                  *)
(***************************************************************************)
EXTENDS FileNode, TLAPS

(* The inductive invariant.  It leaves out the volumes of which a stage call
   failed or ran too late (leftover).  For the others, whatever is in the cache
   or mounted comes from the volume's own context, and is known to the kubelet
   at least as uncertain. *)

VolumeOK(v) ==
  /\ cache[v] \in {None, kube[v].ctx}
  /\ staged[v] \in {None, kube[v].ctx}
  /\ mounted[v] \in {None, kube[v].ctx}
  /\ kube[v].dev = "no" => cache[v] = None /\ staged[v] = None
  /\ kube[v].tgt = "no" => mounted[v] = None

ShapeOf(h) ==
  /\ call[h].pc = "idle" => ~ call[h].live
  /\ call[h].pc # "idle" => call[h].op # "none" /\ call[h].v \in Volumes
  /\ call[h].pc = "cache" => call[h].op = "stage"
  /\ call[h].pc = "lookup" => call[h].op = "publish"
  /\ call[h].pc = "clear" => call[h].op = "unstage"

(* What a call the kubelet waits for knows. *)
Knows(h) ==
  LET v == call[h].v IN
  /\ call[h].op \in {"stage", "unstage"} => kube[v].dev = "uncertain"
  /\ call[h].op \in {"publish", "unpublish"} => kube[v].tgt = "uncertain"
  /\ call[h].op \in {"stage", "publish"} /\ call[h].pc = "forward" => call[h].ctx = kube[v].ctx
  /\ call[h].op = "unstage" /\ call[h].pc \in {"forward", "reply"} => cache[v] = None
  /\ call[h].op = "unstage" /\ call[h].pc = "reply" => staged[v] = None
  /\ call[h].op = "unpublish" /\ call[h].pc = "reply" => mounted[v] = None

HandlerOK(h) == ShapeOf(h) /\ (call[h].live /\ call[h].v \notin leftover => Knows(h))

Serial == \A g, h \in Handlers : call[g].live /\ call[h].live /\ call[g].v = call[h].v => g = h

IInv ==
  /\ TypeOK
  /\ \A v \in Volumes \ leftover : VolumeOK(v)
  /\ \A h \in Handlers : HandlerOK(h)
  /\ Serial

(* The parts of TypeOK. *)
EnvOK == stages \in BOOLEAN /\ plugin \in BOOLEAN /\ driver \in {"probing", "late", "up"}

MountsOK == staged \in [Volumes -> Contexts] /\ mounted \in [Volumes -> Contexts]

CallOK(c) ==
  c \in Calls /\ (c.pc = "forward" /\ c.op \in {"stage", "publish"} => c.ctx # None)

CallsOK == call \in [Handlers -> Calls] /\ \A h \in Handlers : CallOK(call[h])

CountersOK == faults \in 0..MaxFaults /\ moves \in 0..MaxMoves

LEMMA Parts ==
  TypeOK <=> /\ EnvOK /\ cache \in [Volumes -> Contexts] /\ MountsOK /\ CallsOK
             /\ kube \in [Volumes -> Records] /\ leftover \subseteq Volumes /\ CountersOK
<1>1. CallsOK <=> /\ call \in [Handlers -> Calls]
                  /\ \A h \in Handlers : call[h].pc = "forward" /\ call[h].op \in {"stage", "publish"}
                                         => call[h].ctx # None
  BY DEF CallsOK, CallOK
<1> QED
  BY <1>1, Zenon DEF TypeOK, EnvOK, MountsOK, CountersOK

LEMMA TypeMade ==
  ASSUME EnvOK', cache' \in [Volumes -> Contexts], MountsOK', CallsOK',
         kube' \in [Volumes -> Records], leftover' \subseteq Volumes, CountersOK'
  PROVE  TypeOK'
<1>1. CallsOK' => /\ call' \in [Handlers -> Calls]
                  /\ \A h \in Handlers : call'[h].pc = "forward" /\ call'[h].op \in {"stage", "publish"}
                                         => call'[h].ctx # None
  BY DEF CallsOK, CallOK
<1> QED
  BY <1>1, Zenon DEF TypeOK, EnvOK, MountsOK, CountersOK

LEMMA IdleType == CallOK(Idle)
  BY DEF Idle, Calls, Contexts, CallOK

LEMMA InvInit == Init => IInv
<1> SUFFICES ASSUME Init PROVE IInv
  OBVIOUS
<1>1. EnvOK
  <2>1. driver \in {"probing", "late", "up"}
    BY DEF Init
  <2>2. stages \in BOOLEAN /\ plugin \in BOOLEAN
    BY Zenon DEF Init
  <2> QED
    BY <2>1, <2>2, Zenon DEF EnvOK
<1>2. cache \in [Volumes -> Contexts] /\ MountsOK /\ leftover \subseteq Volumes
  BY DEF Init, MountsOK, Contexts
<1>3. CallsOK
  BY IdleType DEF Init, CallsOK, CallOK
<1>4. /\ kube \in [Volumes -> Records]
      /\ \A v \in Volumes : kube[v].dev = "no" /\ kube[v].tgt = "no"
  <2> DEFINE R == {[pod |-> TRUE, ctx |-> c, dev |-> "no", tgt |-> "no"] : c \in Contexts}
  <2>1. kube \in [Volumes -> R]
    BY DEF Init
  <2>2. ASSUME NEW c \in Contexts
        PROVE  [pod |-> TRUE, ctx |-> c, dev |-> "no", tgt |-> "no"] \in Records
    BY DEF Records
  <2>3. \A r \in R : r \in Records /\ r.dev = "no" /\ r.tgt = "no"
    BY <2>2
  <2> HIDE DEF R
  <2> QED
    BY <2>1, <2>3
<1>5. CountersOK
  BY BoundsAssumption DEF Init, CountersOK
<1>6. TypeOK
  BY <1>1, <1>2, <1>3, <1>4, <1>5, Parts
<1>7. \A v \in Volumes : VolumeOK(v)
  BY <1>4 DEF Init, VolumeOK
<1>8. Serial /\ \A h \in Handlers : HandlerOK(h)
  BY DEF Init, Idle, Serial, HandlerOK, ShapeOf
<1> QED
  BY <1>6, <1>7, <1>8 DEF IInv
-----------------------------------------------------------------------------
(* What a step leaves to the handlers it is not about *)

(* A volume of which a step only clears the cache. *)
Untouched(v) ==
  \/ v \in leftover'
  \/ /\ kube'[v].ctx = kube[v].ctx /\ kube'[v].dev = kube[v].dev /\ kube'[v].tgt = kube[v].tgt
     /\ staged'[v] = staged[v] /\ mounted'[v] = mounted[v]
     /\ cache'[v] \in {None, cache[v]}

(* A handler that goes on, with or without its caller, or that has ended. *)
Rests(h) ==
  \/ call'[h] = Idle
  \/ /\ call'[h].op = call[h].op /\ call'[h].pc = call[h].pc
     /\ call'[h].v = call[h].v /\ call'[h].ctx = call[h].ctx
     /\ call[h].pc = "idle" => ~ call'[h].live
     /\ call'[h].live => call[h].live

LEMMA RestingHandler ==
  ASSUME IInv, leftover \subseteq leftover', NEW h \in Handlers, Rests(h),
         call[h].live => Untouched(call[h].v)
  PROVE  HandlerOK(h)'
<1>1. CASE call'[h] = Idle
  BY <1>1 DEF HandlerOK, ShapeOf, Idle
<1>2. CASE call'[h] # Idle
  <2>1. /\ call'[h].op = call[h].op /\ call'[h].pc = call[h].pc
        /\ call'[h].v = call[h].v /\ call'[h].ctx = call[h].ctx
        /\ call[h].pc = "idle" => ~ call'[h].live
        /\ call'[h].live => call[h].live
    BY <1>2 DEF Rests
  <2>2. HandlerOK(h)
    BY DEF IInv
  <2>3. ShapeOf(h)'
    BY <2>1, <2>2 DEF HandlerOK, ShapeOf
  <2>4. ASSUME call'[h].live, call'[h].v \notin leftover' PROVE Knows(h)'
    <3>1. Knows(h) /\ Untouched(call[h].v) /\ call[h].v \notin leftover'
      BY <2>1, <2>2, <2>4 DEF HandlerOK
    <3> QED
      BY <2>1, <3>1 DEF Knows, Untouched
  <2> QED
    BY <2>3, <2>4 DEF HandlerOK
<1> QED
  BY <1>1, <1>2

LEMMA UntouchedVolume ==
  ASSUME IInv, NEW v \in Volumes, Untouched(v), leftover \subseteq leftover', v \notin leftover'
  PROVE  VolumeOK(v)'
<1>1. VolumeOK(v)
  BY DEF IInv
<1> QED
  BY <1>1 DEF VolumeOK, Untouched

(* A handler the kubelet waits for has its volume to itself; the others change
   no more than the cache of theirs. *)
LEMMA OneMoves ==
  ASSUME IInv, TypeOK', NEW h \in Handlers, leftover \subseteq leftover', HandlerOK(h)',
         \A g \in Handlers \ {h} : Rests(g),
         call'[h].live => call[h].live /\ call'[h].v = call[h].v,
         \A u \in Volumes : Untouched(u) \/ (call[h].live /\ u = call[h].v /\ VolumeOK(u)')
  PROVE  IInv'
<1>1. ASSUME NEW g \in Handlers \ {h} PROVE HandlerOK(g)'
  <2>1. call[g].live => call[g].v \in Volumes /\ ~ (call[h].live /\ call[g].v = call[h].v)
    BY DEF IInv, HandlerOK, ShapeOf, Serial
  <2> QED
    BY <2>1, RestingHandler
<1>2. \A g \in Handlers : call'[g].live => call[g].live /\ call'[g].v = call[g].v
  BY DEF Rests, Idle
<1>3. Serial'
  BY <1>2 DEF IInv, Serial
<1>4. \A u \in Volumes \ leftover' : VolumeOK(u)'
  BY UntouchedVolume
<1> QED
  BY <1>1, <1>3, <1>4 DEF IInv

LEMMA AllRest ==
  ASSUME IInv, TypeOK', leftover \subseteq leftover', \A g \in Handlers : Rests(g),
         \A u \in Volumes : Untouched(u)
  PROVE  IInv'
<1>1. \A g \in Handlers : HandlerOK(g)'
  <2>1. \A g \in Handlers : call[g].live => call[g].v \in Volumes
    BY DEF IInv, HandlerOK, ShapeOf
  <2> QED
    BY <2>1, RestingHandler
<1>2. \A g \in Handlers : call'[g].live => call[g].live /\ call'[g].v = call[g].v
  BY DEF Rests, Idle
<1>3. Serial'
  BY <1>2 DEF IInv, Serial
<1>4. \A u \in Volumes \ leftover' : VolumeOK(u)'
  BY UntouchedVolume
<1> QED
  BY <1>1, <1>3, <1>4 DEF IInv

(* What a step that leaves parts of the state alone keeps. *)
LEMMA Kept ==
  ASSUME IInv
  PROVE  /\ UNCHANGED environment => EnvOK'
         /\ UNCHANGED mounts => MountsOK'
         /\ UNCHANGED call => CallsOK' /\ \A g \in Handlers : Rests(g)
         /\ UNCHANGED <<faults, moves>> => CountersOK'
         /\ Fault /\ UNCHANGED moves => CountersOK'
         /\ Move /\ UNCHANGED faults => CountersOK'
<1>1. UNCHANGED environment => EnvOK'
  BY Parts, Zenon DEF environment, EnvOK, IInv
<1>2. UNCHANGED mounts => MountsOK'
  BY Parts DEF mounts, MountsOK, IInv
<1>3. UNCHANGED call => CallsOK' /\ \A g \in Handlers : Rests(g)
  BY Parts DEF CallsOK, Rests, IInv, HandlerOK, ShapeOf
<1>4. /\ UNCHANGED <<faults, moves>> => CountersOK'
      /\ Fault /\ UNCHANGED moves => CountersOK'
      /\ Move /\ UNCHANGED faults => CountersOK'
  BY Parts, BoundsAssumption DEF CountersOK, Fault, Move, IInv
<1> QED
  BY <1>1, <1>2, <1>3, <1>4

(* A step that changes neither mounts nor the kubelet's records, and of the
   cache no more than that it clears it. *)
LEMMA QuietStep ==
  ASSUME IInv, EnvOK', CallsOK', CountersOK', \A g \in Handlers : Rests(g),
         UNCHANGED <<mounts, kube, leftover>>,
         cache' \in [Volumes -> Contexts], \A v \in Volumes : cache'[v] \in {None, cache[v]}
  PROVE  IInv'
<1>1. TypeOK'
  BY Kept, Parts, TypeMade DEF IInv
<1>2. \A u \in Volumes : Untouched(u)
  BY DEF Untouched, mounts
<1> QED
  BY <1>1, <1>2, AllRest

LEMMA CacheSame ==
  ASSUME IInv, UNCHANGED cache
  PROVE  cache' \in [Volumes -> Contexts] /\ \A v \in Volumes : cache'[v] \in {None, cache[v]}
  BY Parts DEF IInv
-----------------------------------------------------------------------------
(* The plugin, the driver and the user *)

LEMMA PluginInv ==
  /\ IInv /\ PluginStarts => IInv'
  /\ IInv /\ PluginStops => IInv'
  /\ IInv /\ ProbeTooLong => IInv'
  /\ IInv /\ Probe => IInv'
<1> SUFFICES ASSUME IInv, PluginStarts \/ PluginStops \/ ProbeTooLong \/ Probe PROVE IInv'
  OBVIOUS
<1>1. EnvOK
  BY Parts DEF IInv
<1>2. driver' \in {"probing", "late", "up"}
  BY <1>1 DEF EnvOK, PluginStarts, PluginStops, ProbeTooLong, Probe
<1>3. EnvOK'
  BY <1>1, <1>2, Zenon DEF EnvOK, PluginStarts, PluginStops, ProbeTooLong, Probe
<1>4. UNCHANGED <<mounts, kube, leftover>> /\ UNCHANGED <<cache, call>>
  BY DEF PluginStarts, PluginStops, ProbeTooLong, Probe
<1>5. CountersOK'
  BY Kept DEF PluginStarts, PluginStops, ProbeTooLong, Probe
<1> QED
  BY <1>3, <1>4, <1>5, Kept, CacheSame, QuietStep

LEMMA DriverRestartsInv == IInv /\ DriverRestarts => IInv'
<1> SUFFICES ASSUME IInv, DriverRestarts PROVE IInv'
  OBVIOUS
<1>1. EnvOK
  BY Parts DEF IInv
<1>2. driver' \in {"probing", "late", "up"}
  BY DEF DriverRestarts
<1>3. EnvOK'
  BY <1>1, <1>2, Zenon DEF EnvOK, DriverRestarts
<1>4. CallsOK' /\ \A g \in Handlers : Rests(g)
  BY IdleType DEF DriverRestarts, CallsOK, CallOK, Rests
<1>5. cache' \in [Volumes -> Contexts] /\ \A v \in Volumes : cache'[v] \in {None, cache[v]}
  BY DEF DriverRestarts, Contexts
<1> QED
  BY <1>3, <1>4, <1>5, Kept, QuietStep DEF DriverRestarts

(* The kubelet's record of one volume changes. *)
LEMMA Recorded ==
  ASSUME IInv, NEW v \in Volumes, NEW r \in Records, kube' = [kube EXCEPT ![v] = r]
  PROVE  /\ kube' \in [Volumes -> Records] /\ kube'[v] = r
         /\ \A u \in Volumes \ {v} : kube'[u] = kube[u]
  BY Parts DEF IInv

LEMMA PodComesOrGoesInv == ASSUME NEW v \in Volumes PROVE IInv /\ PodComesOrGoes(v) => IInv'
<1> SUFFICES ASSUME IInv, PodComesOrGoes(v) PROVE IInv'
  OBVIOUS
<1> DEFINE r == [kube[v] EXCEPT !.pod = ~ @]
<1>1. kube[v] \in Records
  BY Parts DEF IInv
<1>2. /\ r \in Records /\ r.ctx = kube[v].ctx /\ r.dev = kube[v].dev /\ r.tgt = kube[v].tgt
  BY <1>1 DEF Records
<1>3. kube' = [kube EXCEPT ![v] = r]
  BY DEF PodComesOrGoes
<1> HIDE DEF r
<1>4. /\ UNCHANGED environment /\ UNCHANGED mounts /\ UNCHANGED <<cache, call, leftover>>
      /\ CountersOK'
  BY Kept DEF PodComesOrGoes
<1>5. /\ kube' \in [Volumes -> Records]
      /\ \A u \in Volumes : kube'[u].ctx = kube[u].ctx /\ kube'[u].dev = kube[u].dev
                            /\ kube'[u].tgt = kube[u].tgt
  BY <1>2, <1>3, Recorded
<1>6. TypeOK'
  BY <1>4, <1>5, Kept, CacheSame, Parts, TypeMade DEF IInv
<1>7. \A u \in Volumes : Untouched(u)
  BY <1>4, <1>5 DEF Untouched, mounts
<1> QED
  BY <1>4, <1>6, <1>7, Kept, AllRest

(* A volume made anew was not in use: nothing of it is cached or mounted. *)
LEMMA VolumeMadeAnewInv == ASSUME NEW v \in Volumes PROVE IInv /\ VolumeMadeAnew(v) => IInv'
<1> SUFFICES ASSUME IInv, VolumeMadeAnew(v) PROVE IInv'
  OBVIOUS
<1>1. PICK c \in Contexts : kube' = [kube EXCEPT ![v].ctx = c]
  BY DEF VolumeMadeAnew
<1> DEFINE r == [kube[v] EXCEPT !.ctx = c]
<1>2. kube[v] \in Records
  BY Parts DEF IInv
<1>3. r \in Records /\ r.dev = kube[v].dev /\ r.tgt = kube[v].tgt /\ kube' = [kube EXCEPT ![v] = r]
  BY <1>1, <1>2 DEF Records
<1> HIDE DEF r
<1>4. /\ UNCHANGED environment /\ UNCHANGED mounts /\ UNCHANGED <<cache, call, leftover>>
      /\ CountersOK'
  BY Kept DEF VolumeMadeAnew
<1>5. /\ kube' \in [Volumes -> Records] /\ kube'[v] = r
      /\ \A u \in Volumes \ {v} : kube'[u] = kube[u]
  BY <1>3, Recorded
<1>6. TypeOK'
  BY <1>4, <1>5, Kept, CacheSame, Parts, TypeMade DEF IInv
<1>7. \A u \in Volumes \ {v} : Untouched(u)
  BY <1>4, <1>5 DEF Untouched, mounts
<1>8. ASSUME NEW u \in Volumes \ leftover' PROVE VolumeOK(u)'
  <2>1. VolumeOK(u)
    BY <1>4, <1>8 DEF IInv
  <2>2. CASE u = v
    <3>1. kube[v].dev = "no" /\ kube[v].tgt = "no"
      BY DEF VolumeMadeAnew, Unused
    <3>2. cache[v] = None /\ staged[v] = None /\ mounted[v] = None
      BY <2>1, <2>2, <3>1 DEF VolumeOK
    <3> QED
      BY <1>4, <2>2, <3>2 DEF VolumeOK, mounts
  <2>3. CASE u # v
    BY <1>4, <1>7, <1>8, <2>3, UntouchedVolume
  <2> QED
    BY <2>2, <2>3
<1>9. ASSUME NEW g \in Handlers PROVE HandlerOK(g)'
  <2>1. call[g].live => call[g].v \in Volumes \ {v}
    BY DEF VolumeMadeAnew, Unused, IInv, HandlerOK, ShapeOf
  <2> QED
    BY <1>4, <1>7, <2>1, Kept, RestingHandler
<1>10. Serial'
  BY <1>4 DEF IInv, Serial
<1> QED
  BY <1>6, <1>8, <1>9, <1>10 DEF IInv
-----------------------------------------------------------------------------
(* Calls come, lose their caller, and end *)

(* What a step of one handler does to the calls. *)
LEMMA CallOfHandler ==
  ASSUME IInv, NEW h \in Handlers, NEW c, CallOK(c), call' = [call EXCEPT ![h] = c]
  PROVE  CallsOK' /\ call'[h] = c /\ \A g \in Handlers \ {h} : Rests(g)
<1>1. /\ call' \in [Handlers -> Calls] /\ call'[h] = c
      /\ \A g \in Handlers \ {h} : call'[g] = call[g]
  BY Parts DEF IInv, CallsOK, CallOK
<1>2. CallsOK'
  BY <1>1, Parts DEF IInv, CallsOK, CallOK
<1>3. \A g \in Handlers \ {h} : Rests(g)
  BY <1>1 DEF Rests, IInv, HandlerOK, ShapeOf
<1> QED
  BY <1>1, <1>2, <1>3

LEMMA Returned ==
  ASSUME IInv, NEW h \in Handlers, Return(h)
  PROVE  /\ CallsOK' /\ HandlerOK(h)' /\ ~ call'[h].live
         /\ \A g \in Handlers : Rests(g)
<1>1. call' = [call EXCEPT ![h] = Idle]
  BY DEF Return
<1>2. CallsOK' /\ call'[h] = Idle /\ \A g \in Handlers \ {h} : Rests(g)
  BY <1>1, IdleType, CallOfHandler
<1>3. HandlerOK(h)' /\ ~ call'[h].live
  BY <1>2 DEF HandlerOK, ShapeOf, Idle
<1> QED
  BY <1>2, <1>3 DEF Rests

(* A handler that goes on to another step. *)
LEMMA GoneTo ==
  ASSUME IInv, NEW h \in Handlers, NEW pc \in {"forward", "reply"}, NEW ctx \in Contexts,
         pc = "forward" /\ call[h].op \in {"stage", "publish"} => ctx # None,
         call' = [call EXCEPT ![h].pc = pc, ![h].ctx = ctx]
  PROVE  /\ CallsOK'
         /\ call'[h].pc = pc /\ call'[h].ctx = ctx /\ call'[h].op = call[h].op
         /\ call'[h].v = call[h].v /\ call'[h].live = call[h].live
         /\ \A g \in Handlers \ {h} : Rests(g)
<1> DEFINE c == [call[h] EXCEPT !.pc = pc, !.ctx = ctx]
<1>1. call[h] \in Calls
  BY Parts DEF IInv, CallsOK
<1>2. c \in Calls /\ call' = [call EXCEPT ![h] = c]
  BY <1>1 DEF Calls
<1>3. c.pc = pc /\ c.ctx = ctx /\ c.op = call[h].op /\ c.v = call[h].v /\ c.live = call[h].live
  BY <1>1 DEF Calls
<1> HIDE DEF c
<1>4. CallOK(c)
  BY <1>2, <1>3 DEF CallOK
<1> QED
  BY <1>2, <1>3, <1>4, CallOfHandler

LEMMA GoneOn ==
  ASSUME IInv, NEW h \in Handlers, NEW pc \in {"forward", "reply"},
         pc = "forward" => call[h].op \notin {"stage", "publish"},
         call' = [call EXCEPT ![h].pc = pc]
  PROVE  /\ CallsOK'
         /\ call'[h].pc = pc /\ call'[h].ctx = call[h].ctx /\ call'[h].op = call[h].op
         /\ call'[h].v = call[h].v /\ call'[h].live = call[h].live
         /\ \A g \in Handlers \ {h} : Rests(g)
<1> DEFINE c == [call[h] EXCEPT !.pc = pc]
<1>1. call[h] \in Calls
  BY Parts DEF IInv, CallsOK
<1>2. c \in Calls /\ call' = [call EXCEPT ![h] = c]
  BY <1>1 DEF Calls
<1>3. /\ c.pc = pc /\ c.ctx = call[h].ctx /\ c.op = call[h].op
      /\ c.v = call[h].v /\ c.live = call[h].live
  BY <1>1 DEF Calls
<1> HIDE DEF c
<1>4. CallOK(c)
  BY <1>2, <1>3 DEF CallOK
<1> QED
  BY <1>2, <1>3, <1>4, CallOfHandler

LEMMA CancelInv == ASSUME NEW h \in Handlers PROVE IInv /\ Cancel(h) => IInv'
<1> SUFFICES ASSUME IInv, Cancel(h) PROVE IInv'
  OBVIOUS
<1> DEFINE c == [call[h] EXCEPT !.live = FALSE]
<1>1. CallOK(call[h])
  BY Parts DEF IInv, CallsOK
<1>2. c \in Calls /\ call' = [call EXCEPT ![h] = c]
  BY <1>1 DEF Calls, Cancel, CallOK
<1>3. /\ c.pc = call[h].pc /\ c.ctx = call[h].ctx /\ c.op = call[h].op
      /\ c.v = call[h].v /\ ~ c.live
  BY <1>1 DEF Calls, CallOK
<1> HIDE DEF c
<1>4. CallOK(c)
  BY <1>1, <1>2, <1>3 DEF CallOK
<1>5. CallsOK' /\ \A g \in Handlers : Rests(g)
  <2>1. CallsOK' /\ call'[h] = c /\ \A g \in Handlers \ {h} : Rests(g)
    BY <1>2, <1>4, CallOfHandler
  <2> QED
    BY <1>3, <2>1 DEF Rests
<1>6. UNCHANGED environment /\ UNCHANGED cache /\ UNCHANGED <<mounts, kube, leftover>> /\ CountersOK'
  BY Kept DEF Cancel
<1> QED
  BY <1>5, <1>6, Kept, CacheSame, QuietStep

(* A call that comes is the only one on its volume that is waited for, and the
   kubelet is uncertain of what it is about. *)
LEMMA StartInv ==
  ASSUME NEW h \in Handlers, NEW v \in Volumes,
         NEW op \in {"stage", "publish", "unpublish", "unstage"},
         NEW pc \in {"cache", "lookup", "clear", "forward"}, NEW r \in Records,
         IInv, Start(h, op, pc, v, r),
         pc = "cache" => op = "stage", pc = "lookup" => op = "publish",
         pc = "clear" => op = "unstage", pc = "forward" => op = "unpublish",
         r.ctx = kube[v].ctx,
         r.dev \in {"uncertain", kube[v].dev}, r.tgt \in {"uncertain", kube[v].tgt},
         op \in {"stage", "unstage"} => r.dev = "uncertain",
         op \in {"publish", "unpublish"} => r.tgt = "uncertain"
  PROVE  IInv'
<1> DEFINE c == [op |-> op, pc |-> pc, v |-> v, ctx |-> None, live |-> TRUE]
<1>1. CallOK(c)
  BY DEF Calls, CallOK, Contexts
<1>2. /\ call' = [call EXCEPT ![h] = c] /\ kube' = [kube EXCEPT ![v] = r]
      /\ UNCHANGED environment /\ UNCHANGED mounts /\ UNCHANGED <<cache, leftover>>
      /\ \A g \in Handlers : ~ (call[g].live /\ call[g].v = v)
      /\ CountersOK'
  BY Kept DEF Start
<1>3. c.op = op /\ c.pc = pc /\ c.v = v /\ c.live
  OBVIOUS
<1> HIDE DEF c
<1>4. CallsOK' /\ call'[h] = c /\ \A g \in Handlers \ {h} : Rests(g)
  BY <1>1, <1>2, CallOfHandler
<1>5. /\ kube' \in [Volumes -> Records] /\ kube'[v] = r
      /\ \A u \in Volumes \ {v} : kube'[u] = kube[u]
  BY <1>2, Recorded
<1>6. TypeOK'
  BY <1>2, <1>4, <1>5, Kept, CacheSame, Parts, TypeMade DEF IInv
<1>7. \A u \in Volumes \ {v} : Untouched(u)
  BY <1>2, <1>5 DEF Untouched, mounts
<1>8. ASSUME NEW u \in Volumes \ leftover' PROVE VolumeOK(u)'
  <2>1. VolumeOK(u)
    BY <1>2, <1>8 DEF IInv
  <2>2. CASE u = v
    BY <1>2, <1>5, <2>1, <2>2 DEF VolumeOK, mounts
  <2>3. CASE u # v
    BY <1>2, <1>7, <1>8, <2>3, UntouchedVolume
  <2> QED
    BY <2>2, <2>3
<1>9. HandlerOK(h)'
  BY <1>3, <1>4, <1>5 DEF HandlerOK, ShapeOf, Knows
<1>10. ASSUME NEW g \in Handlers \ {h} PROVE HandlerOK(g)'
  <2>1. call[g].live => call[g].v \in Volumes \ {v}
    BY <1>2 DEF IInv, HandlerOK, ShapeOf
  <2> QED
    BY <1>2, <1>4, <1>7, <2>1, RestingHandler
<1>11. Serial'
  <2>1. \A g \in Handlers \ {h} : call'[g].live => call[g].live /\ call'[g].v = call[g].v
    BY <1>4 DEF Rests, Idle
  <2> QED
    BY <1>2, <1>3, <1>4, <2>1 DEF IInv, Serial
<1> QED
  BY <1>6, <1>8, <1>9, <1>10, <1>11 DEF IInv

LEMMA KubeletCallInv ==
  ASSUME NEW h \in Handlers, NEW v \in Volumes PROVE IInv /\ KubeletCall(h, v) => IInv'
<1> SUFFICES ASSUME IInv, KubeletCall(h, v) PROVE IInv'
  OBVIOUS
<1> DEFINE d == [kube[v] EXCEPT !.dev = "uncertain"]
           t == [kube[v] EXCEPT !.tgt = "uncertain"]
<1>1. kube[v] \in Records
  BY Parts DEF IInv
<1>2. /\ d \in Records /\ d.ctx = kube[v].ctx /\ d.dev = "uncertain" /\ d.tgt = kube[v].tgt
      /\ t \in Records /\ t.ctx = kube[v].ctx /\ t.tgt = "uncertain" /\ t.dev = kube[v].dev
  BY <1>1 DEF Records
<1>3. \/ Start(h, "stage", "cache", v, d)
      \/ Start(h, "publish", "lookup", v, t)
      \/ Start(h, "unpublish", "forward", v, t)
      \/ Start(h, "unstage", "clear", v, d)
  BY DEF KubeletCall, CallStage, CallPublish, CallUnpublish, CallUnstage
<1> HIDE DEF d, t
<1>4. CASE Start(h, "stage", "cache", v, d)
  BY <1>2, <1>4, StartInv
<1>5. CASE Start(h, "publish", "lookup", v, t)
  BY <1>2, <1>5, StartInv
<1>6. CASE Start(h, "unpublish", "forward", v, t)
  BY <1>2, <1>6, StartInv
<1>7. CASE Start(h, "unstage", "clear", v, d)
  BY <1>2, <1>7, StartInv
<1> QED
  BY <1>3, <1>4, <1>5, <1>6, <1>7
-----------------------------------------------------------------------------
(* The steps of the handlers *)

(* Where a handler is. *)
LEMMA Place ==
  ASSUME IInv, NEW h \in Handlers, call[h].pc # "idle"
  PROVE  /\ call[h] \in Calls /\ CallOK(call[h]) /\ ShapeOf(h) /\ call[h].v \in Volumes
         /\ call[h].op \in {"stage", "publish", "unpublish", "unstage"}
         /\ call[h].live /\ call[h].v \notin leftover => Knows(h) /\ VolumeOK(call[h].v)
  BY Parts DEF IInv, CallsOK, CallOK, HandlerOK, ShapeOf, Calls

(* What the kubelet is told. *)
LEMMA Told ==
  ASSUME IInv, NEW h \in Handlers, call[h].pc # "idle",
         NEW a \in {"no", "uncertain", "yes"}, Tell(h, a)
  PROVE  LET v == call[h].v IN
         /\ kube' \in [Volumes -> Records]
         /\ \A u \in Volumes : kube'[u].ctx = kube[u].ctx
         /\ \A u \in Volumes : u # v \/ ~ call[h].live => kube'[u] = kube[u]
         /\ call[h].live /\ call[h].op \in {"stage", "unstage"} =>
              kube'[v].dev = a /\ kube'[v].tgt = kube[v].tgt
         /\ call[h].live /\ call[h].op \in {"publish", "unpublish"} =>
              kube'[v].tgt = a /\ kube'[v].dev = kube[v].dev
<1> DEFINE v == call[h].v
           d == [kube[v] EXCEPT !.dev = a]
           t == [kube[v] EXCEPT !.tgt = a]
<1>1. v \in Volumes /\ kube \in [Volumes -> Records] /\ kube[v] \in Records
      /\ call[h].op \in {"stage", "publish", "unpublish", "unstage"}
  BY Place, Parts DEF IInv
<1>2. /\ d \in Records /\ d.ctx = kube[v].ctx /\ d.dev = a /\ d.tgt = kube[v].tgt
      /\ t \in Records /\ t.ctx = kube[v].ctx /\ t.tgt = a /\ t.dev = kube[v].dev
  BY <1>1 DEF Records
<1>3. kube' = IF ~ call[h].live THEN kube
              ELSE IF call[h].op \in {"stage", "unstage"} THEN [kube EXCEPT ![v] = d]
              ELSE [kube EXCEPT ![v] = t]
  BY <1>1 DEF Tell
<1> HIDE DEF d, t
<1>4. CASE ~ call[h].live
  BY <1>1, <1>3, <1>4
<1>5. CASE call[h].live /\ call[h].op \in {"stage", "unstage"}
  BY <1>1, <1>2, <1>3, <1>5
<1>6. CASE call[h].live /\ call[h].op \in {"publish", "unpublish"}
  BY <1>1, <1>2, <1>3, <1>6
<1> QED
  BY <1>1, <1>4, <1>5, <1>6

LEMMA CacheInv == ASSUME NEW h \in Handlers PROVE IInv /\ Cache(h) => IInv'
<1> SUFFICES ASSUME IInv, Cache(h) PROVE IInv'
  OBVIOUS
<1> DEFINE v == call[h].v
           c == IF cache[v] # None THEN cache[v] ELSE kube[v].ctx
<1>1. /\ call[h].pc = "cache" /\ cache' = [cache EXCEPT ![v] = c]
      /\ leftover' = IF call[h].live \/ c = None THEN leftover ELSE leftover \union {v}
  BY DEF Cache, buildVolumeContext
<1>2. /\ UNCHANGED environment /\ UNCHANGED mounts /\ CountersOK'
  BY Kept DEF Cache
<1>3. /\ v \in Volumes /\ call[h].op = "stage" /\ call[h] \in Calls
      /\ call[h].live /\ v \notin leftover => Knows(h) /\ VolumeOK(v)
  BY <1>1, Place DEF ShapeOf
<1>4. cache \in [Volumes -> Contexts] /\ kube \in [Volumes -> Records] /\ leftover \subseteq Volumes
  BY Parts DEF IInv
<1>5. c \in Contexts /\ (c # None => call[h].live \/ v \in leftover')
  BY <1>1, <1>3, <1>4 DEF Records
<1>6. call[h].live /\ v \notin leftover => c = kube[v].ctx
  BY <1>3 DEF VolumeOK
<1>7. c = None => cache[v] = None /\ kube[v].ctx = None
  OBVIOUS
<1>8. CASE c = None /\ Return(h) /\ Tell(h, "no")
  <2>1. CallsOK' /\ HandlerOK(h)' /\ ~ call'[h].live /\ \A g \in Handlers : Rests(g)
    BY <1>8, Returned
  <2>2. /\ kube' \in [Volumes -> Records]
        /\ \A u \in Volumes : kube'[u].ctx = kube[u].ctx
        /\ \A u \in Volumes : u # v \/ ~ call[h].live => kube'[u] = kube[u]
        /\ call[h].live => kube'[v].dev = "no" /\ kube'[v].tgt = kube[v].tgt
    BY <1>1, <1>3, <1>8, Told
  <2>3. leftover' = leftover /\ cache' \in [Volumes -> Contexts] /\ cache'[v] = None
        /\ \A u \in Volumes : u # v => cache'[u] = cache[u]
    BY <1>1, <1>3, <1>4, <1>8 DEF Contexts
  <2>4. TypeOK'
    BY <1>2, <1>4, <2>1, <2>2, <2>3, Kept, TypeMade
  <2>5. \A u \in Volumes : u # v \/ ~ call[h].live \/ u \in leftover => Untouched(u)
    BY <1>2, <2>2, <2>3 DEF Untouched, mounts
  <2>6. ASSUME NEW u \in Volumes, u = v, call[h].live, v \notin leftover PROVE VolumeOK(u)'
    <3>1. VolumeOK(u)
      BY <1>3, <2>6
    <3>2. staged' = staged /\ mounted' = mounted
      BY <1>2 DEF mounts
    <3> QED
      BY <1>7, <1>8, <2>2, <2>3, <2>6, <3>1, <3>2 DEF VolumeOK
  <2>7. \A u \in Volumes : Untouched(u) \/ (call[h].live /\ u = v /\ VolumeOK(u)')
    BY <2>5, <2>6
  <2>8. call'[h].live => call[h].live /\ call'[h].v = call[h].v
    BY <2>1
  <2> QED
    BY <2>1, <2>3, <2>4, <2>7, <2>8, OneMoves
<1>9. CASE c # None /\ Forward(h, c) /\ UNCHANGED kube
  <2>1. /\ CallsOK'
        /\ call'[h].pc = "forward" /\ call'[h].ctx = c /\ call'[h].op = "stage"
        /\ call'[h].v = v /\ call'[h].live = call[h].live
        /\ \A g \in Handlers \ {h} : Rests(g)
    <3> HIDE DEF c
    <3> QED
      BY <1>3, <1>5, <1>9, GoneTo DEF Forward
  <2>2. /\ leftover \subseteq leftover' /\ leftover' \subseteq Volumes
        /\ cache' \in [Volumes -> Contexts] /\ cache'[v] = c
        /\ \A u \in Volumes : u # v => cache'[u] = cache[u]
    <3> HIDE DEF c
    <3> QED
      BY <1>1, <1>3, <1>4, <1>5
  <2>3. TypeOK'
    BY <1>2, <1>4, <1>9, <2>1, <2>2, Kept, TypeMade
  <2>4. \A u \in Volumes : u # v \/ u \in leftover' => Untouched(u)
    BY <1>2, <1>9, <2>2 DEF Untouched, mounts
  <2>5. ASSUME NEW u \in Volumes, u = v, call[h].live, v \notin leftover' PROVE VolumeOK(u)'
    <3>1. VolumeOK(u) /\ Knows(h) /\ cache'[u] = kube[u].ctx
      BY <1>3, <1>6, <2>2, <2>5
    <3>2. kube[u].dev = "uncertain"
      BY <1>3, <2>5, <3>1 DEF Knows
    <3>3. staged' = staged /\ mounted' = mounted /\ kube' = kube
      BY <1>2, <1>9 DEF mounts
    <3> QED
      BY <3>1, <3>2, <3>3 DEF VolumeOK
  <2>6. HandlerOK(h)'
    <3>1. ASSUME call[h].live, v \notin leftover' PROVE Knows(h)'
      <4>1. Knows(h) /\ c = kube[v].ctx
        BY <1>3, <1>6, <2>2, <3>1
      <4> QED
        BY <1>3, <1>9, <2>1, <4>1 DEF Knows
    <3>2. ShapeOf(h)'
      BY <1>3, <2>1 DEF ShapeOf
    <3> QED
      BY <2>1, <3>1, <3>2 DEF HandlerOK
  <2> HIDE DEF c
  <2>7. \A u \in Volumes : Untouched(u) \/ (call[h].live /\ u = v /\ VolumeOK(u)')
    <3>1. call[h].live \/ v \in leftover'
      BY <1>5, <1>9 DEF c
    <3> QED
      BY <2>4, <2>5, <3>1
  <2> QED
    BY <2>1, <2>2, <2>3, <2>6, <2>7, OneMoves
<1> QED
  BY <1>8, <1>9 DEF Cache, buildVolumeContext

LEMMA LookupInv == ASSUME NEW h \in Handlers PROVE IInv /\ Lookup(h) => IInv'
<1> SUFFICES ASSUME IInv, Lookup(h) PROVE IInv'
  OBVIOUS
<1> DEFINE v == call[h].v
           c == ContextOf(v)
<1>1. /\ call[h].pc = "lookup"
      /\ UNCHANGED environment /\ UNCHANGED mounts /\ UNCHANGED <<cache, leftover>> /\ CountersOK'
  BY Kept DEF Lookup
<1>2. /\ v \in Volumes /\ call[h].op = "publish" /\ call[h] \in Calls
      /\ call[h].live /\ v \notin leftover => Knows(h) /\ VolumeOK(v)
  BY <1>1, Place DEF ShapeOf
<1>3. cache \in [Volumes -> Contexts] /\ kube \in [Volumes -> Records] /\ leftover \subseteq Volumes
  BY Parts DEF IInv
<1>4. /\ c \in {cache[v], kube[v].ctx} /\ (c = None => kube[v].ctx = None)
      /\ c = cache[v] => c # None \/ kube[v].ctx = None
  BY DEF ContextOf, buildVolumeContext
<1>5. c \in Contexts
  BY <1>2, <1>3, <1>4 DEF Records
<1>6. CASE c = None /\ Return(h) /\ Tell(h, "no")
  <2>1. CallsOK' /\ HandlerOK(h)' /\ ~ call'[h].live /\ \A g \in Handlers : Rests(g)
    BY <1>6, Returned
  <2>2. /\ kube' \in [Volumes -> Records]
        /\ \A u \in Volumes : kube'[u].ctx = kube[u].ctx
        /\ \A u \in Volumes : u # v \/ ~ call[h].live => kube'[u] = kube[u]
        /\ call[h].live => kube'[v].tgt = "no" /\ kube'[v].dev = kube[v].dev
    BY <1>1, <1>2, <1>6, Told
  <2>3. TypeOK'
    BY <1>1, <1>3, <2>1, <2>2, Kept, CacheSame, TypeMade
  <2>4. \A u \in Volumes : u # v \/ ~ call[h].live => Untouched(u)
    BY <1>1, <2>2 DEF Untouched, mounts
  <2>5. v \in leftover => Untouched(v)
    BY <1>1 DEF Untouched
  <2>6. ASSUME NEW u \in Volumes, u = v, call[h].live, v \notin leftover PROVE VolumeOK(u)'
    <3>1. VolumeOK(u) /\ kube[u].ctx = None
      BY <1>2, <1>4, <1>6, <2>6
    <3>2. staged' = staged /\ mounted' = mounted /\ cache' = cache
      BY <1>1 DEF mounts
    <3> QED
      BY <2>2, <2>6, <3>1, <3>2 DEF VolumeOK
  <2>7. \A u \in Volumes : Untouched(u) \/ (call[h].live /\ u = v /\ VolumeOK(u)')
    BY <2>4, <2>5, <2>6
  <2>8. call'[h].live => call[h].live /\ call'[h].v = call[h].v
    BY <2>1
  <2> QED
    BY <1>1, <2>1, <2>3, <2>7, <2>8, OneMoves
<1>7. CASE c # None /\ Forward(h, c) /\ UNCHANGED kube
  <2>1. call[h].live /\ v \notin leftover => c = kube[v].ctx
    BY <1>2, <1>4, <1>7 DEF VolumeOK
  <2> HIDE DEF c
  <2>2. /\ CallsOK'
        /\ call'[h].pc = "forward" /\ call'[h].ctx = c /\ call'[h].op = "publish"
        /\ call'[h].v = v /\ call'[h].live = call[h].live
        /\ \A g \in Handlers \ {h} : Rests(g)
    BY <1>2, <1>5, <1>7, GoneTo DEF Forward
  <2>3. TypeOK'
    BY <1>1, <1>3, <1>7, <2>2, Kept, CacheSame, TypeMade
  <2>4. \A u \in Volumes : Untouched(u)
    BY <1>1, <1>7 DEF Untouched, mounts
  <2>5. HandlerOK(h)'
    <3>1. ASSUME call[h].live, v \notin leftover PROVE Knows(h)'
      BY <1>2, <1>7, <2>1, <2>2, <3>1 DEF Knows
    <3>2. ShapeOf(h)'
      BY <1>2, <2>2 DEF ShapeOf
    <3> QED
      BY <1>1, <2>2, <3>1, <3>2 DEF HandlerOK
  <2> QED
    BY <1>1, <2>2, <2>3, <2>4, <2>5, OneMoves
<1> QED
  BY <1>6, <1>7 DEF Lookup

LEMMA ClearInv == ASSUME NEW h \in Handlers PROVE IInv /\ Clear(h) => IInv'
<1> SUFFICES ASSUME IInv, Clear(h) PROVE IInv'
  OBVIOUS
<1> DEFINE v == call[h].v
<1>1. /\ call[h].pc = "clear" /\ cache' = [cache EXCEPT ![v] = None]
      /\ call' = [call EXCEPT ![h].pc = "forward"]
      /\ UNCHANGED environment /\ UNCHANGED mounts /\ UNCHANGED <<kube, leftover>> /\ CountersOK'
  BY Kept DEF Clear
<1>2. /\ v \in Volumes /\ call[h].op = "unstage"
      /\ call[h].live /\ v \notin leftover => Knows(h)
  BY <1>1, Place DEF ShapeOf
<1>3. /\ CallsOK'
      /\ call'[h].pc = "forward" /\ call'[h].op = "unstage"
      /\ call'[h].v = v /\ call'[h].live = call[h].live
      /\ \A g \in Handlers \ {h} : Rests(g)
  BY <1>1, <1>2, GoneOn
<1>4. /\ cache' \in [Volumes -> Contexts] /\ cache'[v] = None
      /\ \A u \in Volumes : cache'[u] \in {None, cache[u]}
  BY <1>1, <1>2, Parts DEF IInv, Contexts
<1>5. TypeOK'
  BY <1>1, <1>3, <1>4, Kept, Parts, TypeMade DEF IInv
<1>6. \A u \in Volumes : Untouched(u)
  BY <1>1, <1>4 DEF Untouched, mounts
<1>7. HandlerOK(h)'
  BY <1>1, <1>2, <1>3, <1>4 DEF HandlerOK, ShapeOf, Knows
<1> QED
  BY <1>1, <1>3, <1>5, <1>6, <1>7, OneMoves

(* What the plugin does is in the sense of the call that is waited for. *)
LEMMA Served ==
  ASSUME IInv, NEW h \in Handlers, call[h].pc = "forward", call[h].live,
         PluginServes(h), UNCHANGED <<cache, kube, leftover>>
  PROVE  LET v == call[h].v IN
         /\ MountsOK'
         /\ \A u \in Volumes : Untouched(u) \/ (u = v /\ VolumeOK(u)')
         /\ call[h].op = "unstage" => staged'[v] = None
         /\ call[h].op = "unpublish" => mounted'[v] = None
<1> DEFINE v == call[h].v
           s == CASE call[h].op = "stage" /\ staged[v] = None -> call[h].ctx
                  [] call[h].op = "unstage" -> None
                  [] OTHER -> staged[v]
           m == CASE call[h].op = "publish" /\ mounted[v] = None -> call[h].ctx
                  [] call[h].op = "unpublish" -> None
                  [] OTHER -> mounted[v]
<1>1. /\ v \in Volumes /\ call[h].ctx \in Contexts
      /\ call[h].op \in {"stage", "publish", "unpublish", "unstage"}
      /\ v \notin leftover => Knows(h) /\ VolumeOK(v)
  BY Place DEF Calls
<1>2. MountsOK
  BY Parts DEF IInv
<1>3. staged' = [staged EXCEPT ![v] = s] /\ mounted' = [mounted EXCEPT ![v] = m]
  BY <1>1, <1>2 DEF PluginServes, MountsOK
<1>4. s \in {None, call[h].ctx, staged[v]} /\ m \in {None, call[h].ctx, mounted[v]}
  BY <1>1
<1>5. /\ call[h].op # "stage" => s \in {None, staged[v]}
      /\ call[h].op # "publish" => m \in {None, mounted[v]}
      /\ call[h].op = "unstage" => s = None
      /\ call[h].op = "unpublish" => m = None
  BY <1>1
<1> HIDE DEF s, m
<1>6. s \in Contexts /\ m \in Contexts
  BY <1>1, <1>2, <1>4 DEF MountsOK, Contexts
<1>7. /\ MountsOK' /\ staged'[v] = s /\ mounted'[v] = m
      /\ \A u \in Volumes : u # v => staged'[u] = staged[u] /\ mounted'[u] = mounted[u]
  BY <1>1, <1>2, <1>3, <1>6 DEF MountsOK
<1>8. \A u \in Volumes : u # v \/ u \in leftover => Untouched(u)
  BY <1>7 DEF Untouched
<1>9. ASSUME NEW u \in Volumes, u = v, v \notin leftover PROVE VolumeOK(u)'
  <2>1. Knows(h) /\ VolumeOK(v)
    BY <1>1, <1>9
  <2>2. /\ s \in {None, kube[v].ctx} /\ (kube[v].dev = "no" => s = None)
    BY <1>4, <1>5, <2>1 DEF Knows, VolumeOK
  <2>3. /\ m \in {None, kube[v].ctx} /\ (kube[v].tgt = "no" => m = None)
    BY <1>4, <1>5, <2>1 DEF Knows, VolumeOK
  <2> QED
    BY <1>7, <1>9, <2>1, <2>2, <2>3 DEF VolumeOK
<1> QED
  <2>1. \A u \in Volumes : Untouched(u) \/ (u = v /\ VolumeOK(u)')
    BY <1>8, <1>9
  <2> QED
    BY <1>5, <1>7, <2>1

LEMMA PassOnInv == ASSUME NEW h \in Handlers PROVE IInv /\ PassOn(h) => IInv'
<1> SUFFICES ASSUME IInv, PassOn(h) PROVE IInv'
  OBVIOUS
<1> DEFINE v == call[h].v
<1>1. /\ call[h].pc = "forward"
      /\ UNCHANGED environment /\ UNCHANGED cache /\ UNCHANGED <<cache, kube, leftover>> /\ CountersOK'
  BY Kept DEF PassOn
<1>2. CASE Return(h) /\ UNCHANGED mounts
  <2>1. CallsOK' /\ \A g \in Handlers : Rests(g)
    BY <1>2, Returned
  <2>2. UNCHANGED <<mounts, kube, leftover>>
    BY <1>1, <1>2
  <2> QED
    BY <1>1, <2>1, <2>2, Kept, CacheSame, QuietStep
<1>3. CASE call[h].live /\ PluginServes(h) /\ call' = [call EXCEPT ![h].pc = "reply"]
  <2>1. /\ MountsOK'
        /\ \A u \in Volumes : Untouched(u) \/ (u = v /\ VolumeOK(u)')
        /\ call[h].op = "unstage" => staged'[v] = None
        /\ call[h].op = "unpublish" => mounted'[v] = None
    BY <1>1, <1>3, Served
  <2>2. /\ CallsOK'
        /\ call'[h].pc = "reply" /\ call'[h].op = call[h].op
        /\ call'[h].v = v /\ call'[h].live = call[h].live
        /\ \A g \in Handlers \ {h} : Rests(g)
    BY <1>3, GoneOn
  <2>3. TypeOK'
    BY <1>1, <2>1, <2>2, Kept, CacheSame, Parts, TypeMade DEF IInv
  <2>4. HandlerOK(h)'
    <3>1. /\ ShapeOf(h) /\ v \in Volumes
          /\ v \notin leftover => Knows(h)
      BY <1>1, <1>3, Place
    <3>2. ShapeOf(h)'
      BY <1>1, <2>2, <3>1 DEF ShapeOf
    <3>3. v \notin leftover => Knows(h)'
      BY <1>1, <2>1, <2>2, <3>1 DEF Knows
    <3> QED
      BY <1>1, <2>2, <3>2, <3>3 DEF HandlerOK
  <2> QED
    BY <1>1, <1>3, <2>1, <2>2, <2>3, <2>4, OneMoves
<1> QED
  BY <1>2, <1>3 DEF PassOn

LEMMA AnswerLostInv == ASSUME NEW h \in Handlers PROVE IInv /\ AnswerLost(h) => IInv'
<1> SUFFICES ASSUME IInv, AnswerLost(h) PROVE IInv'
  OBVIOUS
<1>1. /\ call[h].pc = "forward" /\ call[h].live /\ PluginServes(h) /\ Return(h)
      /\ UNCHANGED environment /\ UNCHANGED cache /\ UNCHANGED <<cache, kube, leftover>> /\ CountersOK'
  BY Kept DEF AnswerLost
<1>2. MountsOK' /\ \A u \in Volumes : Untouched(u) \/ (u = call[h].v /\ VolumeOK(u)')
  BY <1>1, Served
<1>3. CallsOK' /\ HandlerOK(h)' /\ ~ call'[h].live /\ \A g \in Handlers : Rests(g)
  BY <1>1, Returned
<1>4. TypeOK'
  BY <1>1, <1>2, <1>3, Kept, CacheSame, Parts, TypeMade DEF IInv
<1> QED
  BY <1>1, <1>2, <1>3, <1>4, OneMoves

(* A refusal that the kubelet takes for final is about what is not mounted. *)
LEMMA PluginRefusesInv == ASSUME NEW h \in Handlers PROVE IInv /\ PluginRefuses(h) => IInv'
<1> SUFFICES ASSUME IInv, PluginRefuses(h) PROVE IInv'
  OBVIOUS
<1> DEFINE v == call[h].v
<1>1. /\ call[h].pc = "forward" /\ call[h].live /\ Return(h) /\ Tell(h, "no")
      /\ UNCHANGED environment /\ UNCHANGED mounts /\ UNCHANGED cache /\ CountersOK'
  BY Kept DEF PluginRefuses
<1>2. \/ call[h].op = "stage" /\ leftover' = leftover \union {v}
      \/ call[h].op = "publish" /\ mounted[v] = None /\ leftover' = leftover
  BY DEF PluginRefuses
<1>3. /\ v \in Volumes /\ leftover \subseteq Volumes
      /\ v \notin leftover => Knows(h) /\ VolumeOK(v)
  BY <1>1, Place, Parts DEF IInv
<1>4. CallsOK' /\ HandlerOK(h)' /\ ~ call'[h].live /\ \A g \in Handlers : Rests(g)
  BY <1>1, Returned
<1>5. /\ kube' \in [Volumes -> Records]
      /\ \A u \in Volumes : kube'[u].ctx = kube[u].ctx
      /\ \A u \in Volumes : u # v => kube'[u] = kube[u]
      /\ call[h].op = "publish" => kube'[v].tgt = "no" /\ kube'[v].dev = kube[v].dev
  BY <1>1, Told
<1>6. leftover \subseteq leftover' /\ leftover' \subseteq Volumes
  BY <1>2, <1>3
<1>7. TypeOK'
  BY <1>1, <1>4, <1>5, <1>6, Kept, CacheSame, TypeMade
<1>8. \A u \in Volumes : u # v \/ u \in leftover' => Untouched(u)
  BY <1>1, <1>5 DEF Untouched, mounts
<1>9. ASSUME NEW u \in Volumes, u = v, v \notin leftover' PROVE VolumeOK(u)'
  <2>1. VolumeOK(u) /\ call[h].op = "publish" /\ mounted[u] = None
    BY <1>2, <1>3, <1>9
  <2>2. staged' = staged /\ mounted' = mounted /\ cache' = cache
    BY <1>1 DEF mounts
  <2> QED
    BY <1>5, <1>9, <2>1, <2>2 DEF VolumeOK
<1>10. \A u \in Volumes : Untouched(u) \/ (call[h].live /\ u = v /\ VolumeOK(u)')
  BY <1>1, <1>8, <1>9
<1>11. call'[h].live => call[h].live /\ call'[h].v = call[h].v
  BY <1>4
<1> QED
  BY <1>4, <1>6, <1>7, <1>10, <1>11, OneMoves

LEMMA ReplyInv == ASSUME NEW h \in Handlers PROVE IInv /\ Reply(h) => IInv'
<1> SUFFICES ASSUME IInv, Reply(h) PROVE IInv'
  OBVIOUS
<1> DEFINE v == call[h].v
           a == IF call[h].op \in {"stage", "publish"} THEN "yes" ELSE "no"
<1>1. /\ call[h].pc = "reply" /\ Return(h) /\ Tell(h, a) /\ a \in {"no", "uncertain", "yes"}
      /\ UNCHANGED environment /\ UNCHANGED mounts /\ UNCHANGED <<cache, leftover>> /\ CountersOK'
  BY Kept DEF Reply
<1>2. /\ v \in Volumes
      /\ call[h].op \in {"stage", "publish", "unpublish", "unstage"}
      /\ call[h].live /\ v \notin leftover => Knows(h) /\ VolumeOK(v)
  BY <1>1, Place
<1>3. CallsOK' /\ HandlerOK(h)' /\ ~ call'[h].live /\ \A g \in Handlers : Rests(g)
  BY <1>1, Returned
<1>4. a = "no" => call[h].op \in {"unpublish", "unstage"}
  BY <1>2
<1> HIDE DEF a
<1>5. /\ kube' \in [Volumes -> Records]
      /\ \A u \in Volumes : kube'[u].ctx = kube[u].ctx
      /\ \A u \in Volumes : u # v \/ ~ call[h].live => kube'[u] = kube[u]
      /\ call[h].live /\ call[h].op \in {"stage", "unstage"} =>
           kube'[v].dev = a /\ kube'[v].tgt = kube[v].tgt
      /\ call[h].live /\ call[h].op \in {"publish", "unpublish"} =>
           kube'[v].tgt = a /\ kube'[v].dev = kube[v].dev
  BY <1>1, Told
<1>6. TypeOK'
  BY <1>1, <1>3, <1>5, Kept, CacheSame, Parts, TypeMade DEF IInv
<1>7. \A u \in Volumes : u # v \/ ~ call[h].live \/ u \in leftover => Untouched(u)
  BY <1>1, <1>5 DEF Untouched, mounts
<1>8. ASSUME NEW u \in Volumes, u = v, call[h].live, v \notin leftover PROVE VolumeOK(u)'
  <2>1. Knows(h) /\ VolumeOK(u)
    BY <1>2, <1>8
  <2>2. staged' = staged /\ mounted' = mounted /\ cache' = cache
    BY <1>1 DEF mounts
  <2>3. CASE call[h].op \in {"stage", "unstage"}
    <3>1. kube'[u].dev = "no" => cache[u] = None /\ staged[u] = None
      BY <1>1, <1>4, <1>5, <1>8, <2>1, <2>3 DEF Knows
    <3> QED
      BY <1>5, <1>8, <2>1, <2>2, <2>3, <3>1 DEF VolumeOK
  <2>4. CASE call[h].op \in {"publish", "unpublish"}
    <3>1. kube'[u].tgt = "no" => mounted[u] = None
      BY <1>1, <1>4, <1>5, <1>8, <2>1, <2>4 DEF Knows
    <3> QED
      BY <1>5, <1>8, <2>1, <2>2, <2>4, <3>1 DEF VolumeOK
  <2> QED
    BY <1>2, <2>3, <2>4
<1>9. \A u \in Volumes : Untouched(u) \/ (call[h].live /\ u = v /\ VolumeOK(u)')
  BY <1>7, <1>8
<1>10. leftover \subseteq leftover' /\ (call'[h].live => call[h].live /\ call'[h].v = call[h].v)
  BY <1>1, <1>3
<1> QED
  BY <1>3, <1>6, <1>9, <1>10, OneMoves
-----------------------------------------------------------------------------
(* Every step of the specification keeps the invariant. *)
LEMMA InvNext == IInv /\ [Next]_vars => IInv'
<1> SUFFICES ASSUME IInv, [Next]_vars PROVE IInv'
  OBVIOUS
<1>1. CASE UNCHANGED vars
  <2>1. /\ UNCHANGED environment /\ UNCHANGED cache /\ UNCHANGED call
        /\ UNCHANGED <<mounts, kube, leftover>> /\ UNCHANGED <<faults, moves>>
    BY <1>1 DEF vars, environment, mounts
  <2> QED
    BY <2>1, Kept, CacheSame, QuietStep
<1>2. CASE PluginStarts \/ PluginStops \/ ProbeTooLong \/ Probe \/ DriverRestarts
  BY <1>2, PluginInv, DriverRestartsInv
<1>3. ASSUME NEW h \in Handlers,
             HandlerStep(h) \/ AnswerLost(h) \/ PluginRefuses(h) \/ Cancel(h)
      PROVE  IInv'
  BY <1>3, CacheInv, LookupInv, ClearInv, PassOnInv, ReplyInv,
     AnswerLostInv, PluginRefusesInv, CancelInv DEF HandlerStep
<1>4. ASSUME NEW h \in Handlers, NEW v \in Volumes, KubeletCall(h, v) PROVE IInv'
  BY <1>4, KubeletCallInv
<1>5. ASSUME NEW v \in Volumes, PodComesOrGoes(v) \/ VolumeMadeAnew(v) PROVE IInv'
  BY <1>5, PodComesOrGoesInv, VolumeMadeAnewInv
<1> QED
  BY <1>1, <1>2, <1>3, <1>4, <1>5, Zenon DEF Next

LEMMA Invariance == Spec => []IInv
  BY InvInit, InvNext, PTL DEF Spec

(* Every variable keeps its type; in particular no stage or publish call is
   passed on without server and share (nodeserver.go:73-92, 136-152). *)
THEOREM TypeCorrect == Spec => []TypeOK
<1>1. IInv => TypeOK
  BY DEF IInv
<1> QED
  BY <1>1, Invariance, PTL

(* A volume is mounted from its own server and share, unless a stage call of it
   failed or ran too late (nodeserver.go:73-92, 136-145, 169-171). *)
THEOREM OwnContext == Spec => []MountedFromOwnContext
<1>1. IInv => MountedFromOwnContext
  BY DEF IInv, VolumeOK, MountedFromOwnContext
<1> QED
  BY <1>1, Invariance, PTL

(* With the same exception, what the kubelet is done with is mounted nowhere
   (nodeserver.go:110-122, 163-180). *)
THEOREM NothingStaysMounted == Spec => []DoneIsUnmounted
<1>1. IInv => DoneIsUnmounted
  BY DEF IInv, VolumeOK, DoneIsUnmounted
<1> QED
  BY <1>1, Invariance, PTL
-----------------------------------------------------------------------------
(* The refinement of the abstract node service *)

Places == {"staging", "pod"}

(* Maps of maps that differ in one place, or in one volume's part. *)
LEMMA NestedChange ==
  ASSUME NEW V, NEW P, NEW f, NEW g, NEW v \in V, NEW p \in P,
         f = [w \in V |-> [q \in P |-> f[w][q]]],
         g = [w \in V |-> [q \in P |-> g[w][q]]],
         \A w \in V, q \in P : w # v \/ q # p => g[w][q] = f[w][q]
  PROVE  g = [f EXCEPT ![v][p] = g[v][p]]
<1> DEFINE k == [f EXCEPT ![v][p] = g[v][p]]
<1>1. k = [w \in V |-> IF w = v THEN [f[v] EXCEPT ![p] = g[v][p]] ELSE f[w]]
  OBVIOUS
<1>2. [f[v] EXCEPT ![p] = g[v][p]] = g[v]
  <2>1. f[v] = [q \in P |-> f[v][q]] /\ g[v] = [q \in P |-> g[v][q]]
    OBVIOUS
  <2>2. \A q \in P : q # p => g[v][q] = f[v][q]
    OBVIOUS
  <2> QED
    BY <2>1, <2>2
<1>3. ASSUME NEW w \in V, w # v PROVE f[w] = g[w]
  <2>1. f[w] = [q \in P |-> f[w][q]] /\ g[w] = [q \in P |-> g[w][q]]
    OBVIOUS
  <2>2. \A q \in P : g[w][q] = f[w][q]
    BY <1>3
  <2> QED
    BY <2>1, <2>2
<1> QED
  BY <1>1, <1>2, <1>3

LEMMA OuterChange ==
  ASSUME NEW V, NEW P, NEW f, NEW g, NEW v \in V,
         f = [w \in V |-> [q \in P |-> f[w][q]]],
         g = [w \in V |-> [q \in P |-> g[w][q]]],
         \A w \in V, q \in P : w # v => g[w][q] = f[w][q]
  PROVE  g = [f EXCEPT ![v] = g[v]]
<1>1. ASSUME NEW w \in V, w # v PROVE f[w] = g[w]
  <2>1. f[w] = [q \in P |-> f[w][q]] /\ g[w] = [q \in P |-> g[w][q]]
    OBVIOUS
  <2>2. \A q \in P : g[w][q] = f[w][q]
    BY <1>1
  <2> QED
    BY <2>1, <2>2
<1> QED
  BY <1>1

(* The mapped variables. *)
OwnMap == [v \in Volumes |-> kube[v].ctx]
SeenMap == [v \in Volumes |-> [p \in Places |-> Seen(v, p)]]
KnownMap == [v \in Volumes |-> [p \in Places |-> Known(v, p)]]

Still(v) == \A p \in Places : UNCHANGED <<Seen(v, p), Known(v, p)>>
SameOwn == \A v \in Volumes : kube'[v].ctx = kube[v].ctx

(* The path a call is about. *)
About(h, v, p) ==
  /\ call[h].pc # "idle" /\ v = call[h].v
  /\ p = IF call[h].op \in {"stage", "unstage"} THEN "staging" ELSE "pod"

(* What the refinement needs beyond the invariant.  A volume is published after
   it has been staged, if the plugin stages volumes; what the kubelet takes for
   mounted, or is going to be told is, is mounted. *)
Truth ==
  \A v \in Volumes \ leftover :
    /\ stages /\ Known(v, "pod") # "no" => Known(v, "staging") = "yes"
    /\ \A p \in Places : Known(v, p) = "yes" => Seen(v, p) # None

Replied ==
  \A h \in Handlers, v \in Volumes \ leftover, p \in Places :
    About(h, v, p) /\ call[h].live /\ call[h].pc = "reply" /\ call[h].op \in {"stage", "publish"}
      => Seen(v, p) # None

SeenOK ==
  \A v \in Volumes, p \in Places :
    /\ Seen(v, p) \in Mounts!Seen /\ Known(v, p) \in Mounts!Records
    /\ v \notin leftover => Seen(v, p) \in {None, kube[v].ctx}
    /\ v \notin leftover /\ Known(v, p) = "no" => Seen(v, p) = None

LEMMA SeenTypes == IInv => SeenOK
<1> SUFFICES ASSUME IInv, NEW v \in Volumes, NEW p \in Places
             PROVE  /\ Seen(v, p) \in Mounts!Seen /\ Known(v, p) \in Mounts!Records
                    /\ v \notin leftover => Seen(v, p) \in {None, kube[v].ctx}
                    /\ v \notin leftover /\ Known(v, p) = "no" => Seen(v, p) = None
  BY DEF SeenOK
<1>1. MountsOK /\ kube[v] \in Records
  BY Parts DEF IInv
<1>2. staged[v] \in Contexts /\ mounted[v] \in Contexts
  BY <1>1 DEF MountsOK
<1>3. kube[v].dev \in Mounts!Records /\ kube[v].tgt \in Mounts!Records
  BY <1>1 DEF Records, Mounts!Records
<1>4. v \notin leftover => VolumeOK(v)
  BY DEF IInv
<1> QED
  BY <1>2, <1>3, <1>4 DEF VolumeOK, Seen, Known, Places, Contexts, Mounts!Seen

LEMMA MountsInit == Init => Mounts!Init /\ Truth /\ Replied
<1> SUFFICES ASSUME Init PROVE Mounts!Init /\ Truth /\ Replied
  OBVIOUS
<1>1. IInv
  BY InvInit
<1>2. \A v \in Volumes : kube[v].dev = "no" /\ kube[v].tgt = "no"
  <2> DEFINE R == {[pod |-> TRUE, ctx |-> c, dev |-> "no", tgt |-> "no"] : c \in Contexts}
  <2>1. kube \in [Volumes -> R] /\ \A r \in R : r.dev = "no" /\ r.tgt = "no"
    BY DEF Init
  <2> HIDE DEF R
  <2> QED
    BY <2>1
<1>3. \A v \in Volumes, p \in Places : Seen(v, p) = None /\ Known(v, p) = "no"
  BY <1>2 DEF Init, Seen, Known
<1>4. Truth /\ Replied
  <2>1. \A h \in Handlers : call[h].pc = "idle"
    BY DEF Init, Idle
  <2> QED
    BY <1>3, <2>1 DEF Truth, Replied, About, Places
<1>5. \A v \in Volumes : kube[v].ctx \in Contexts
  BY <1>1, Parts DEF IInv, Records
<1>6. OwnMap \in [Volumes -> Mounts!Seen]
  BY <1>5 DEF OwnMap, Contexts, Mounts!Seen
<1>7. leftover \in SUBSET Volumes /\ stages \in BOOLEAN
  <2>1. leftover \in SUBSET Volumes
    BY DEF Init
  <2>2. stages \in BOOLEAN
    BY Zenon DEF Init
  <2> QED
    BY <2>1, <2>2
<1>8. /\ SeenMap = [v \in Volumes |-> [p \in Places |-> None]]
      /\ KnownMap = [v \in Volumes |-> [p \in Places |-> "no"]]
  BY <1>3 DEF SeenMap, KnownMap
<1>9. Mounts!Init
  BY <1>6, <1>7, <1>8, Zenon DEF Mounts!Init, Mounts!Paths, Places, SeenMap, KnownMap, OwnMap
<1> QED
  BY <1>4, <1>9

LEMMA MountsStill ==
  ASSUME \A v \in Volumes : Still(v), UNCHANGED <<stages, leftover>>, SameOwn
  PROVE  UNCHANGED Mounts!vars
<1>1. SeenMap' = SeenMap /\ KnownMap' = KnownMap
  BY DEF SeenMap, KnownMap, Still
<1>2. OwnMap' = OwnMap
  BY DEF OwnMap, SameOwn
<1> QED
  BY <1>1, <1>2, Zenon DEF Mounts!vars, SeenMap, KnownMap, OwnMap, Places

(* A volume that is excused by now. *)
LEMMA MountsStray ==
  ASSUME IInv', NEW v \in Volumes, \A u \in Volumes \ {v} : Still(u), UNCHANGED stages, SameOwn,
         leftover' = leftover \union {v}
  PROVE  Mounts!Stray(v)
<1>1. SeenMap' = [SeenMap EXCEPT ![v] = SeenMap'[v]]
  <2>1. \A w \in Volumes, q \in Places : w # v => SeenMap'[w][q] = SeenMap[w][q]
    BY DEF SeenMap, Still
  <2>2. /\ SeenMap = [w \in Volumes |-> [q \in Places |-> SeenMap[w][q]]]
        /\ SeenMap' = [w \in Volumes |-> [q \in Places |-> SeenMap'[w][q]]]
    BY DEF SeenMap
  <2> QED
    BY <2>1, <2>2, OuterChange
<1>2. KnownMap' = [KnownMap EXCEPT ![v] = KnownMap'[v]]
  <2>1. \A w \in Volumes, q \in Places : w # v => KnownMap'[w][q] = KnownMap[w][q]
    BY DEF KnownMap, Still
  <2>2. /\ KnownMap = [w \in Volumes |-> [q \in Places |-> KnownMap[w][q]]]
        /\ KnownMap' = [w \in Volumes |-> [q \in Places |-> KnownMap'[w][q]]]
    BY DEF KnownMap
  <2> QED
    BY <2>1, <2>2, OuterChange
<1>3. SeenOK'
  BY SeenTypes, PTL
<1>4. SeenMap'[v] \in [Places -> Mounts!Seen] /\ KnownMap'[v] \in [Places -> Mounts!Records]
  BY <1>3 DEF SeenOK, SeenMap, KnownMap
<1> DEFINE m == SeenMap'[v]
           r == KnownMap'[v]
<1>5. m \in [Places -> Mounts!Seen] /\ SeenMap' = [SeenMap EXCEPT ![v] = m]
  BY <1>1, <1>4
<1>6. r \in [Places -> Mounts!Records] /\ KnownMap' = [KnownMap EXCEPT ![v] = r]
  BY <1>2, <1>4
<1>7. OwnMap' = OwnMap
  BY DEF OwnMap, SameOwn
<1> HIDE DEF m, r
<1> QED
  BY <1>5, <1>6, <1>7, Zenon DEF Mounts!Stray, Mounts!Paths, Places, SeenMap, KnownMap, OwnMap

(* The mount at one path changes, while a call on it is under way. *)
LEMMA MountsPut ==
  ASSUME IInv, IInv', Truth, NEW v \in Volumes \ leftover, NEW p \in Places,
         \A u \in Volumes \ {v} : Still(u), UNCHANGED <<stages, leftover>>, SameOwn,
         \A q \in Places : UNCHANGED Known(v, q),
         \A q \in Places \ {p} : UNCHANGED Seen(v, q),
         Known(v, p) = "uncertain"
  PROVE  [Mounts!Next]_(Mounts!vars)
<1>1. CASE UNCHANGED Seen(v, p)
  <2>1. \A u \in Volumes : Still(u)
    BY <1>1 DEF Still
  <2> QED
    BY <2>1, MountsStill
<1>2. CASE ~ UNCHANGED Seen(v, p)
  <2>1. SeenMap' = [SeenMap EXCEPT ![v][p] = SeenMap'[v][p]]
    <3>1. \A w \in Volumes, q \in Places : w # v \/ q # p => SeenMap'[w][q] = SeenMap[w][q]
      BY DEF SeenMap, Still
    <3>2. /\ SeenMap = [w \in Volumes |-> [q \in Places |-> SeenMap[w][q]]]
          /\ SeenMap' = [w \in Volumes |-> [q \in Places |-> SeenMap'[w][q]]]
      BY DEF SeenMap
    <3> QED
      BY <3>1, <3>2, NestedChange
  <2>2. KnownMap' = KnownMap /\ OwnMap' = OwnMap /\ OwnMap[v] = kube[v].ctx
    BY DEF KnownMap, Still, OwnMap, SameOwn
  <2>3. Seen(v, p)' \in {None, kube[v].ctx} /\ Seen(v, p) \in {None, kube[v].ctx}
    <3>1. SeenOK /\ SeenOK'
      BY SeenTypes, PTL
    <3> QED
      BY <3>1 DEF SeenOK, SameOwn
  <2>4. SeenMap'[v][p] = Seen(v, p)' /\ SeenMap[v][p] = Seen(v, p) /\ KnownMap[v][p] = "uncertain"
    BY DEF SeenMap, KnownMap
  <2>5. CASE Seen(v, p)' = None
    <3>1. SeenMap' = [SeenMap EXCEPT ![v][p] = None]
      BY <2>1, <2>4, <2>5
    <3>2. Mounts!Unmount(v, p)
      BY <2>2, <2>4, <3>1, Zenon DEF Mounts!Unmount, Mounts!Put, SeenMap, KnownMap, OwnMap, Places
    <3> QED
      BY <3>2 DEF Mounts!Next, Mounts!Paths, Places
  <2>6. CASE Seen(v, p)' = kube[v].ctx /\ Seen(v, p)' # None
    <3>1. SeenMap' = [SeenMap EXCEPT ![v][p] = OwnMap[v]] /\ SeenMap[v][p] = None
      BY <1>2, <2>1, <2>2, <2>3, <2>4, <2>6
    <3>2. p = "pod" /\ stages => KnownMap[v]["staging"] = "yes"
      BY DEF Truth, KnownMap, Places
    <3>3. v \in Volumes
      OBVIOUS
    <3>4. Mounts!Mount(v, p)
      BY <2>2, <2>4, <3>1, <3>2, <3>3, Zenon
         DEF Mounts!Mount, Mounts!Put, SeenMap, KnownMap, OwnMap, Places
    <3> QED
      BY <3>4 DEF Mounts!Next, Mounts!Paths, Places
  <2> QED
    BY <2>3, <2>5, <2>6
<1> QED
  BY <1>1, <1>2

(* What the kubelet has recorded of one path changes: a call on it starts, or
   ends, and then the answer is true. *)
LEMMA MountsWrite ==
  ASSUME IInv, IInv', Truth', NEW v \in Volumes \ leftover, NEW p \in Places,
         \A u \in Volumes \ {v} : Still(u), UNCHANGED <<stages, leftover>>, SameOwn,
         \A q \in Places : UNCHANGED Seen(v, q),
         \A q \in Places \ {p} : UNCHANGED Known(v, q),
         \/ Known(v, p) = "uncertain"
         \/ /\ Known(v, p)' = "uncertain"
            /\ p = "pod" /\ stages => Known(v, "staging") = "yes"
            /\ p = "staging" => Known(v, "pod") = "no"
  PROVE  [Mounts!Next]_(Mounts!vars)
<1>1. CASE UNCHANGED Known(v, p)
  <2>1. \A u \in Volumes : Still(u)
    BY <1>1 DEF Still
  <2> QED
    BY <2>1, MountsStill
<1>2. CASE ~ UNCHANGED Known(v, p)
  <2>1. KnownMap' = [KnownMap EXCEPT ![v][p] = KnownMap'[v][p]]
    <3>1. \A w \in Volumes, q \in Places : w # v \/ q # p => KnownMap'[w][q] = KnownMap[w][q]
      BY DEF KnownMap, Still
    <3>2. /\ KnownMap = [w \in Volumes |-> [q \in Places |-> KnownMap[w][q]]]
          /\ KnownMap' = [w \in Volumes |-> [q \in Places |-> KnownMap'[w][q]]]
      BY DEF KnownMap
    <3> QED
      BY <3>1, <3>2, NestedChange
  <2>2. SeenMap' = SeenMap /\ OwnMap' = OwnMap /\ OwnMap[v] = kube[v].ctx
    BY DEF SeenMap, Still, OwnMap, SameOwn
  <2>3. /\ KnownMap'[v][p] = Known(v, p)' /\ SeenMap[v][p] = Seen(v, p)
        /\ \A q \in Places : KnownMap[v][q] = Known(v, q)
    BY DEF SeenMap, KnownMap
  <2>4. SeenOK /\ SeenOK'
    BY SeenTypes, PTL
  <2>5. Known(v, p)' \in {"no", "uncertain", "yes"}
    BY <2>4 DEF SeenOK, Mounts!Records
  <2>6. CASE Known(v, p)' = "uncertain"
    <3>1. KnownMap' = [KnownMap EXCEPT ![v][p] = "uncertain"]
      BY <2>1, <2>3, <2>6
    <3>2. /\ p = "staging" => KnownMap[v]["pod"] = "no"
          /\ p = "pod" /\ stages => KnownMap[v]["staging"] = "yes"
      BY <1>2, <2>6 DEF KnownMap, Places
    <3>3. Mounts!Ask(v, p)
      BY <2>2, <3>1, <3>2, Zenon DEF Mounts!Ask, Mounts!Write, SeenMap, KnownMap, OwnMap, Places
    <3> QED
      BY <3>3 DEF Mounts!Next, Mounts!Paths, Places
  <2>7. CASE Known(v, p)' = "yes"
    <3>1. KnownMap' = [KnownMap EXCEPT ![v][p] = "yes"] /\ KnownMap[v][p] = "uncertain"
      BY <2>1, <2>3, <2>7
    <3>2. Seen(v, p) = kube[v].ctx /\ Seen(v, p) # None
      BY <2>4, <2>7 DEF SeenOK, Truth
    <3>3. SeenMap[v][p] = OwnMap[v] /\ OwnMap[v] # None
      BY <2>2, <2>3, <3>2
    <3>4. Mounts!Done(v, p)
      BY <2>2, <3>1, <3>3, Zenon DEF Mounts!Done, Mounts!Write, SeenMap, KnownMap, OwnMap, Places
    <3> QED
      BY <3>4 DEF Mounts!Next, Mounts!Paths, Places
  <2>8. CASE Known(v, p)' = "no"
    <3>1. KnownMap' = [KnownMap EXCEPT ![v][p] = "no"] /\ KnownMap[v][p] = "uncertain"
      BY <2>1, <2>3, <2>8
    <3>2. SeenMap[v][p] = None
      <4>1. Seen(v, p)' = None
        BY <2>4, <2>8 DEF SeenOK
      <4> QED
        BY <2>3, <4>1
    <3>3. Mounts!Undone(v, p)
      BY <2>2, <3>1, <3>2, Zenon DEF Mounts!Undone, Mounts!Write, SeenMap, KnownMap, OwnMap, Places
    <3> QED
      BY <3>3 DEF Mounts!Next, Mounts!Paths, Places
  <2> QED
    BY <2>5, <2>6, <2>7, <2>8
<1> QED
  BY <1>1, <1>2
-----------------------------------------------------------------------------
(* A step of a handler, for the volume and the path its call is about. *)
Works(h, v, p) ==
  /\ UNCHANGED stages /\ SameOwn
  /\ leftover' \in {leftover, leftover \union {v}}
  /\ \A u \in Volumes, q \in Places : u # v \/ q # p => UNCHANGED <<Seen(u, q), Known(u, q)>>
  /\ \/ v \in leftover'
     \/ UNCHANGED <<Seen(v, p), Known(v, p)>>
     \/ call[h].live /\ (UNCHANGED Seen(v, p) \/ UNCHANGED Known(v, p))

(* What it answers, or is about to, is true. *)
Reports(h, v, p) ==
  /\ \A g \in Handlers \ {h} : call'[g] = call[g]
  /\ Known(v, p)' = "yes" => v \in leftover' \/ Known(v, p) = "yes" \/ Seen(v, p)' # None
  /\ \/ call'[h].pc # "reply"
     \/ call'[h].v = v /\ call'[h].op = call[h].op /\
          (call[h].op \in {"stage", "publish"} => Seen(v, p)' # None)

LEMMA UncertainPart ==
  ASSUME IInv, NEW h \in Handlers, NEW v \in Volumes, NEW p, About(h, v, p),
         call[h].live, v \notin leftover
  PROVE  Known(v, p) = "uncertain"
<1>1. Knows(h) /\ call[h].op \in {"stage", "publish", "unpublish", "unstage"}
  BY Place DEF About
<1> QED
  BY <1>1 DEF About, Knows, Known

LEMMA TruthKept ==
  ASSUME IInv, Truth, NEW h \in Handlers, NEW v \in Volumes, NEW p \in Places,
         About(h, v, p), Works(h, v, p), Reports(h, v, p)
  PROVE  Truth'
<1> SUFFICES ASSUME NEW u \in Volumes, u \notin leftover'
             PROVE  /\ stages' /\ Known(u, "pod")' # "no" => Known(u, "staging")' = "yes"
                    /\ \A q \in Places : Known(u, q)' = "yes" => Seen(u, q)' # None
  BY DEF Truth
<1>1. /\ u \notin leftover /\ UNCHANGED stages
      /\ stages /\ Known(u, "pod") # "no" => Known(u, "staging") = "yes"
      /\ \A q \in Places : Known(u, q) = "yes" => Seen(u, q) # None
  BY DEF Works, Truth
<1>2. CASE \A q \in Places : UNCHANGED Seen(u, q) /\ UNCHANGED Known(u, q)
  <2>1. UNCHANGED Known(u, "staging") /\ UNCHANGED Known(u, "pod")
    BY <1>2 DEF Places
  <2>2. \A q \in Places : Known(u, q)' = Known(u, q) /\ Seen(u, q)' = Seen(u, q)
    BY <1>2
  <2> QED
    BY <1>1, <2>1, <2>2
<1>3. CASE u # v
  BY <1>2, <1>3 DEF Works
<1>4. CASE u = v
  <2>1. \A q \in Places : q # p => UNCHANGED Seen(v, q) /\ UNCHANGED Known(v, q)
    BY DEF Works
  <2>2. CASE UNCHANGED <<Seen(v, p), Known(v, p)>>
    BY <1>2, <1>4, <2>1, <2>2
  <2>3. CASE call[h].live /\ (UNCHANGED Seen(v, p) \/ UNCHANGED Known(v, p))
    <3>1. Known(v, p) = "uncertain"
      BY <1>1, <1>4, <2>3, UncertainPart
    <3>2. stages' /\ Known(u, "pod")' # "no" => Known(u, "staging")' = "yes"
      <4>1. CASE p = "staging"
        <5>1. UNCHANGED Known(u, "pod")
          BY <1>4, <2>1, <4>1 DEF Places
        <5> QED
          BY <1>1, <1>4, <3>1, <4>1, <5>1
      <4>2. CASE p = "pod"
        <5>1. UNCHANGED Known(u, "staging")
          BY <1>4, <2>1, <4>2 DEF Places
        <5> QED
          BY <1>1, <1>4, <3>1, <4>2, <5>1
      <4> QED
        BY <4>1, <4>2 DEF Places
    <3>3. ASSUME NEW q \in Places, Known(u, q)' = "yes" PROVE Seen(u, q)' # None
      <4>1. CASE q = p
        BY <1>4, <3>1, <3>3, <4>1 DEF Reports
      <4>2. CASE q # p
        BY <1>1, <1>4, <2>1, <3>3, <4>2
      <4> QED
        BY <4>1, <4>2
    <3> QED
      BY <3>2, <3>3
  <2> QED
    BY <1>4, <2>2, <2>3 DEF Works
<1> QED
  BY <1>3, <1>4

LEMMA RepliedKept ==
  ASSUME IInv, Replied, NEW h \in Handlers, NEW v \in Volumes, NEW p \in Places,
         About(h, v, p), Works(h, v, p), Reports(h, v, p)
  PROVE  Replied'
<1> SUFFICES ASSUME NEW g \in Handlers, NEW u \in Volumes, u \notin leftover', NEW q \in Places,
                    About(g, u, q)', call'[g].live, call'[g].pc = "reply",
                    call'[g].op \in {"stage", "publish"}
             PROVE  Seen(u, q)' # None
  BY DEF Replied
<1>1. CASE g = h
  <2>1. call'[h].v = v /\ call'[h].op = call[h].op /\ Seen(v, p)' # None
    BY <1>1 DEF Reports
  <2>2. u = v /\ q = p
    BY <1>1, <2>1 DEF About
  <2> QED
    BY <2>1, <2>2
<1>2. CASE g # h
  <2>1. call'[g] = call[g]
    BY <1>2 DEF Reports
  <2>2. About(g, u, q) /\ call[g].live /\ u \notin leftover
    BY <2>1 DEF About, Works
  <2>3. Seen(u, q) # None
    BY <2>1, <2>2 DEF Replied
  <2>4. ~ (call[h].live /\ u = v)
    BY <1>2, <2>2 DEF IInv, Serial, About
  <2>5. UNCHANGED Seen(u, q)
    BY <2>4 DEF Works
  <2> QED
    BY <2>3, <2>5
<1> QED
  BY <1>1, <1>2

LEMMA MountsHandler ==
  ASSUME IInv, IInv', Truth, Truth', NEW h \in Handlers, NEW v \in Volumes, NEW p \in Places,
         About(h, v, p), Works(h, v, p)
  PROVE  [Mounts!Next]_(Mounts!vars)
<1>1. \A u \in Volumes \ {v} : Still(u)
  BY DEF Works, Still
<1>2. UNCHANGED stages /\ SameOwn /\ leftover' \in {leftover, leftover \union {v}}
  BY DEF Works
<1>3. \A q \in Places \ {p} : UNCHANGED Seen(v, q) /\ UNCHANGED Known(v, q)
  BY DEF Works
<1>4. CASE v \in leftover'
  <2>1. leftover' = leftover \union {v}
    BY <1>2, <1>4
  <2>2. Mounts!Stray(v)
    BY <1>1, <1>2, <2>1, MountsStray
  <2> QED
    BY <2>2 DEF Mounts!Next
<1>5. CASE v \notin leftover'
  <2>1. UNCHANGED leftover /\ v \notin leftover
    BY <1>2, <1>5
  <2>2. CASE UNCHANGED <<Seen(v, p), Known(v, p)>>
    <3>1. \A u \in Volumes : Still(u)
      BY <2>2, <1>1, <1>3 DEF Still
    <3> QED
      BY <1>2, <2>1, <3>1, MountsStill
  <2>3. CASE call[h].live /\ UNCHANGED Known(v, p)
    <3>1. Known(v, p) = "uncertain" /\ \A q \in Places : UNCHANGED Known(v, q)
      BY <1>3, <2>1, <2>3, UncertainPart
    <3>2. \A q \in Places \ {p} : UNCHANGED Seen(v, q)
      BY <1>3
    <3> QED
      BY <1>1, <1>2, <2>1, <3>1, <3>2, MountsPut
  <2>4. CASE call[h].live /\ UNCHANGED Seen(v, p)
    <3>1. Known(v, p) = "uncertain" /\ \A q \in Places : UNCHANGED Seen(v, q)
      BY <1>3, <2>1, <2>4, UncertainPart
    <3>2. \A q \in Places \ {p} : UNCHANGED Known(v, q)
      BY <1>3
    <3> QED
      BY <1>1, <1>2, <2>1, <3>1, <3>2, MountsWrite
  <2> QED
    BY <1>5, <2>2, <2>3, <2>4 DEF Works
<1> QED
  BY <1>4, <1>5
-----------------------------------------------------------------------------
(* The handlers keep to the abstract node service. *)
Abides == Truth' /\ Replied' /\ [Mounts!Next]_(Mounts!vars)

LEMMA HandlerAbides ==
  ASSUME IInv, IInv', Truth, Replied, NEW h \in Handlers, NEW v \in Volumes, NEW p \in Places,
         About(h, v, p), Works(h, v, p), Reports(h, v, p)
  PROVE  Abides
<1>1. Truth' /\ Replied'
  BY TruthKept, RepliedKept
<1> QED
  BY <1>1, MountsHandler DEF Abides

(* The calls of the others stay; the handler's own ends, or goes on. *)
LEMMA CallEnds ==
  ASSUME IInv, NEW h \in Handlers, Return(h)
  PROVE  call'[h] = Idle /\ call'[h].pc # "reply" /\ \A g \in Handlers \ {h} : call'[g] = call[g]
<1>1. call'[h] = Idle /\ \A g \in Handlers \ {h} : call'[g] = call[g]
  BY Parts DEF Return, IInv, CallsOK
<1> QED
  BY <1>1 DEF Idle

LEMMA CallMoves ==
  ASSUME IInv, NEW h \in Handlers, NEW pc,
         \/ call' = [call EXCEPT ![h].pc = pc]
         \/ \E c : call' = [call EXCEPT ![h].pc = pc, ![h].ctx = c]
  PROVE  /\ call'[h].pc = pc /\ call'[h].v = call[h].v /\ call'[h].op = call[h].op
         /\ \A g \in Handlers \ {h} : call'[g] = call[g]
<1>1. call \in [Handlers -> Calls] /\ call[h] \in Calls
  BY Parts DEF IInv, CallsOK
<1>2. CASE call' = [call EXCEPT ![h].pc = pc]
  <2> DEFINE d == [call[h] EXCEPT !.pc = pc]
  <2>1. d.pc = pc /\ d.v = call[h].v /\ d.op = call[h].op /\ call' = [call EXCEPT ![h] = d]
    BY <1>1, <1>2 DEF Calls
  <2> HIDE DEF d
  <2> QED
    BY <1>1, <2>1
<1>3. CASE \E c : call' = [call EXCEPT ![h].pc = pc, ![h].ctx = c]
  <2>1. PICK c : call' = [call EXCEPT ![h].pc = pc, ![h].ctx = c]
    BY <1>3
  <2> DEFINE d == [call[h] EXCEPT !.pc = pc, !.ctx = c]
  <2>2. d.pc = pc /\ d.v = call[h].v /\ d.op = call[h].op /\ call' = [call EXCEPT ![h] = d]
    BY <1>1, <2>1 DEF Calls
  <2> HIDE DEF d
  <2> QED
    BY <1>1, <2>2
<1> QED
  BY <1>2, <1>3

(* A handler that changes no mount and no record. *)
LEMMA PlainAbides ==
  ASSUME IInv, IInv', Truth, Replied, NEW h \in Handlers, NEW v \in Volumes, NEW p \in Places,
         About(h, v, p), UNCHANGED stages, UNCHANGED mounts, UNCHANGED kube,
         leftover' \in {leftover, leftover \union {v}},
         call'[h].pc # "reply", \A g \in Handlers \ {h} : call'[g] = call[g]
  PROVE  Abides
<1>1. SameOwn /\ \A u \in Volumes, q \in Places : UNCHANGED Seen(u, q) /\ UNCHANGED Known(u, q)
  BY DEF SameOwn, Seen, Known, mounts
<1>2. Works(h, v, p) /\ Reports(h, v, p)
  BY <1>1 DEF Works, Reports
<1> QED
  BY <1>2, HandlerAbides

(* The kubelet is told how the call has ended. *)
LEMMA AnswerAbides ==
  ASSUME IInv, IInv', Truth, Replied, NEW h \in Handlers, NEW v \in Volumes, NEW p \in Places,
         About(h, v, p), UNCHANGED stages, UNCHANGED mounts,
         leftover' \in {leftover, leftover \union {v}},
         NEW a \in {"no", "uncertain", "yes"}, Tell(h, a), Return(h),
         a = "yes" => call[h].pc = "reply" /\ call[h].op \in {"stage", "publish"}
  PROVE  Abides
<1>1. /\ \A u \in Volumes : u # v \/ ~ call[h].live => kube'[u] = kube[u]
      /\ call[h].live /\ p = "staging" => kube'[v].dev = a /\ kube'[v].tgt = kube[v].tgt
      /\ call[h].live /\ p = "pod" => kube'[v].tgt = a /\ kube'[v].dev = kube[v].dev
      /\ SameOwn
  <2>1. call[h].op \in {"stage", "publish", "unpublish", "unstage"} /\ call[h].pc # "idle"
    BY Place DEF About
  <2> QED
    BY <2>1, Told DEF About, SameOwn
<1>2. \A u \in Volumes, q \in Places : UNCHANGED Seen(u, q)
  BY DEF Seen, mounts
<1>3. \A u \in Volumes, q \in Places : u # v \/ ~ call[h].live => UNCHANGED Known(u, q)
  BY <1>1 DEF Known
<1>4. \A q \in Places : q # p => UNCHANGED Known(v, q)
  BY <1>1, <1>3 DEF Known, Places
<1>5. call[h].live => Known(v, p)' = a
  BY <1>1 DEF Known, Places
<1>6. Works(h, v, p)
  BY <1>1, <1>2, <1>3, <1>4 DEF Works
<1>7. Reports(h, v, p)
  <2>1. call'[h].pc # "reply" /\ \A g \in Handlers \ {h} : call'[g] = call[g]
    BY CallEnds
  <2>2. ASSUME Known(v, p)' = "yes", v \notin leftover', Known(v, p) # "yes"
        PROVE  Seen(v, p)' # None
    <3>1. call[h].live /\ a = "yes"
      BY <1>3, <1>5, <2>2
    <3>2. Seen(v, p) # None
      BY <2>2, <3>1 DEF Replied
    <3> QED
      BY <1>2, <3>2
  <2> QED
    BY <2>1, <2>2 DEF Reports
<1> QED
  BY <1>6, <1>7, HandlerAbides

(* The plugin changes the mount the call is about. *)
LEMMA ServedAbides ==
  ASSUME IInv, IInv', Truth, Replied, NEW h \in Handlers, NEW v \in Volumes, NEW p \in Places,
         About(h, v, p), UNCHANGED <<stages, leftover>>, UNCHANGED kube,
         call[h].pc = "forward", call[h].live, PluginServes(h),
         \A g \in Handlers \ {h} : call'[g] = call[g],
         \/ call'[h].pc # "reply"
         \/ call'[h].v = v /\ call'[h].op = call[h].op
  PROVE  Abides
<1> DEFINE s == CASE call[h].op = "stage" /\ staged[v] = None -> call[h].ctx
                  [] call[h].op = "unstage" -> None
                  [] OTHER -> staged[v]
           m == CASE call[h].op = "publish" /\ mounted[v] = None -> call[h].ctx
                  [] call[h].op = "unpublish" -> None
                  [] OTHER -> mounted[v]
<1>1. /\ v = call[h].v /\ call[h].op \in {"stage", "publish", "unpublish", "unstage"}
      /\ call[h].op \in {"stage", "publish"} => call[h].ctx # None
  BY Place DEF About, CallOK
<1>2. MountsOK
  BY Parts DEF IInv
<1>3. staged' = [staged EXCEPT ![v] = s] /\ mounted' = [mounted EXCEPT ![v] = m]
  BY <1>1, <1>2 DEF PluginServes, MountsOK
<1>4. /\ p = "pod" => s = staged[v]
      /\ p = "staging" => m = mounted[v]
      /\ call[h].op = "stage" => s # None
      /\ call[h].op = "publish" => m # None
  BY <1>1 DEF About
<1> HIDE DEF s, m
<1>5. /\ staged'[v] = s /\ mounted'[v] = m
      /\ \A u \in Volumes : u # v => staged'[u] = staged[u] /\ mounted'[u] = mounted[u]
  BY <1>2, <1>3 DEF MountsOK
<1>6. SameOwn /\ \A u \in Volumes, q \in Places : UNCHANGED Known(u, q)
  BY DEF SameOwn, Known
<1>7. \A u \in Volumes, q \in Places : u # v \/ q # p => UNCHANGED Seen(u, q)
  BY <1>4, <1>5 DEF Seen, Places
<1>8. call[h].op \in {"stage", "publish"} => Seen(v, p)' # None
  BY <1>4, <1>5 DEF Seen, About
<1>9. Works(h, v, p)
  BY <1>6, <1>7 DEF Works
<1>10. Reports(h, v, p)
  BY <1>6, <1>8 DEF Reports
<1> QED
  BY <1>9, <1>10, HandlerAbides

LEMMA CacheAbides ==
  ASSUME IInv, IInv', Truth, Replied, NEW h \in Handlers, Cache(h) PROVE Abides
<1>1. PICK v \in Volumes : v = call[h].v
  BY Place DEF Cache
<1>2. PICK c : /\ leftover' = IF call[h].live \/ c = None THEN leftover ELSE leftover \union {v}
               /\ \/ Forward(h, c) /\ UNCHANGED kube
                  \/ Return(h) /\ Tell(h, "no")
  BY <1>1 DEF Cache
<1>3. UNCHANGED stages /\ UNCHANGED mounts
  BY DEF Cache, environment
<1>4. About(h, v, "staging")
  BY <1>1, Place DEF Cache, About, ShapeOf
<1>5. CASE Forward(h, c) /\ UNCHANGED kube
  <2>1. call'[h].pc = "forward" /\ \A g \in Handlers \ {h} : call'[g] = call[g]
    BY <1>5, CallMoves DEF Forward
  <2>2. call'[h].pc # "reply"
    BY <2>1
  <2> QED
    BY <1>2, <1>3, <1>4, <1>5, <2>1, <2>2, PlainAbides DEF Places
<1>6. CASE Return(h) /\ Tell(h, "no")
  BY <1>2, <1>3, <1>4, <1>6, AnswerAbides DEF Places
<1> QED
  BY <1>2, <1>5, <1>6

LEMMA LookupAbides ==
  ASSUME IInv, IInv', Truth, Replied, NEW h \in Handlers, Lookup(h) PROVE Abides
<1>1. PICK v \in Volumes : v = call[h].v
  BY Place DEF Lookup
<1>2. /\ UNCHANGED stages /\ UNCHANGED mounts /\ UNCHANGED leftover
      /\ \/ (\E c : Forward(h, c)) /\ UNCHANGED kube
         \/ Return(h) /\ Tell(h, "no")
  BY DEF Lookup, environment
<1>3. About(h, v, "pod")
  BY <1>1, Place DEF Lookup, About, ShapeOf
<1>4. CASE (\E c : Forward(h, c)) /\ UNCHANGED kube
  <2>1. call'[h].pc = "forward" /\ \A g \in Handlers \ {h} : call'[g] = call[g]
    BY <1>4, CallMoves DEF Forward
  <2>2. call'[h].pc # "reply"
    BY <2>1
  <2> QED
    BY <1>2, <1>3, <1>4, <2>1, <2>2, PlainAbides DEF Places
<1>5. CASE Return(h) /\ Tell(h, "no")
  BY <1>2, <1>3, <1>5, AnswerAbides DEF Places
<1> QED
  BY <1>2, <1>4, <1>5

LEMMA ClearAbides ==
  ASSUME IInv, IInv', Truth, Replied, NEW h \in Handlers, Clear(h) PROVE Abides
<1>1. PICK v \in Volumes : v = call[h].v
  BY Place DEF Clear
<1>2. /\ UNCHANGED stages /\ UNCHANGED mounts /\ UNCHANGED leftover /\ UNCHANGED kube
      /\ call' = [call EXCEPT ![h].pc = "forward"]
  BY DEF Clear, environment
<1>3. About(h, v, "staging")
  BY <1>1, Place DEF Clear, About, ShapeOf
<1>4. call'[h].pc = "forward" /\ \A g \in Handlers \ {h} : call'[g] = call[g]
  BY <1>2, CallMoves
<1>5. call'[h].pc # "reply"
  BY <1>4
<1> QED
  BY <1>2, <1>3, <1>4, <1>5, PlainAbides DEF Places

LEMMA PluginAbides ==
  ASSUME IInv, IInv', Truth, Replied, NEW h \in Handlers,
         PassOn(h) \/ AnswerLost(h) \/ PluginRefuses(h)
  PROVE  Abides
<1>1. call[h].pc = "forward" /\ UNCHANGED stages
  BY DEF PassOn, AnswerLost, PluginRefuses, environment
<1>2. PICK v \in Volumes : v = call[h].v
  BY <1>1, Place
<1>3. PICK p \in Places : About(h, v, p)
  BY <1>1, <1>2 DEF About, Places
<1>4. \/ /\ call[h].live /\ PluginServes(h) /\ UNCHANGED kube /\ UNCHANGED leftover
         /\ Return(h) \/ call' = [call EXCEPT ![h].pc = "reply"]
      \/ Return(h) /\ UNCHANGED mounts /\ UNCHANGED kube /\ UNCHANGED leftover
      \/ /\ Return(h) /\ Tell(h, "no") /\ UNCHANGED mounts
         /\ leftover' \in {leftover, leftover \union {v}}
  BY <1>2 DEF PassOn, AnswerLost, PluginRefuses
<1>5. CASE /\ call[h].live /\ PluginServes(h) /\ UNCHANGED kube /\ UNCHANGED leftover
           /\ Return(h) \/ call' = [call EXCEPT ![h].pc = "reply"]
  <2>1. /\ \A g \in Handlers \ {h} : call'[g] = call[g]
        /\ call'[h].pc # "reply" \/ (call'[h].v = v /\ call'[h].op = call[h].op)
    BY <1>2, <1>5, CallEnds, CallMoves
  <2> QED
    BY <1>1, <1>3, <1>5, <2>1, ServedAbides
<1>6. CASE Return(h) /\ UNCHANGED mounts /\ UNCHANGED kube /\ UNCHANGED leftover
  <2>1. call'[h].pc # "reply" /\ \A g \in Handlers \ {h} : call'[g] = call[g]
    BY <1>6, CallEnds
  <2> QED
    BY <1>1, <1>3, <1>6, <2>1, PlainAbides
<1>7. CASE /\ Return(h) /\ Tell(h, "no") /\ UNCHANGED mounts
           /\ leftover' \in {leftover, leftover \union {v}}
  BY <1>1, <1>3, <1>7, AnswerAbides
<1> QED
  BY <1>4, <1>5, <1>6, <1>7

LEMMA ReplyAbides ==
  ASSUME IInv, IInv', Truth, Replied, NEW h \in Handlers, Reply(h) PROVE Abides
<1> DEFINE a == IF call[h].op \in {"stage", "publish"} THEN "yes" ELSE "no"
<1>1. /\ call[h].pc = "reply" /\ UNCHANGED stages /\ UNCHANGED mounts /\ UNCHANGED leftover
      /\ Tell(h, a) /\ Return(h)
  BY DEF Reply, environment
<1>2. a \in {"no", "uncertain", "yes"} /\ (a = "yes" => call[h].op \in {"stage", "publish"})
  OBVIOUS
<1> HIDE DEF a
<1>3. PICK v \in Volumes : v = call[h].v
  BY <1>1, Place
<1>4. PICK p \in Places : About(h, v, p)
  BY <1>1, <1>3 DEF About, Places
<1> QED
  BY <1>1, <1>2, <1>4, AnswerAbides
-----------------------------------------------------------------------------
(* The kubelet, the user and the programs keep to the abstract node service. *)

(* A step that changes no mount, and of the records only which pods there are;
   calls may lose their caller or end with the program. *)
LEMMA QuietAbides ==
  ASSUME Truth, Replied, UNCHANGED <<stages, leftover>>, UNCHANGED mounts, SameOwn,
         \A u \in Volumes : kube'[u].dev = kube[u].dev /\ kube'[u].tgt = kube[u].tgt,
         \A g \in Handlers :
           \/ ~ call'[g].live
           \/ /\ call[g].live /\ call'[g].pc = call[g].pc
              /\ call'[g].op = call[g].op /\ call'[g].v = call[g].v
  PROVE  Abides
<1>1. \A u \in Volumes, q \in Places : Seen(u, q)' = Seen(u, q) /\ Known(u, q)' = Known(u, q)
  BY DEF Seen, Known, mounts
<1>2. \A u \in Volumes : Still(u)
  BY <1>1 DEF Still
<1>3. UNCHANGED Mounts!vars
  BY <1>2, MountsStill
<1>4. Truth'
  BY <1>1 DEF Truth, Places
<1>5. Replied'
  <2> SUFFICES ASSUME NEW g \in Handlers, NEW u \in Volumes, u \notin leftover, NEW q \in Places,
                      About(g, u, q)', call'[g].live, call'[g].pc = "reply",
                      call'[g].op \in {"stage", "publish"}
               PROVE  Seen(u, q)' # None
    BY DEF Replied
  <2>1. About(g, u, q) /\ call[g].live /\ call[g].pc = "reply" /\ call[g].op \in {"stage", "publish"}
    BY DEF About
  <2> QED
    BY <1>1, <2>1 DEF Replied
<1> QED
  BY <1>3, <1>4, <1>5 DEF Abides

LEMMA ProgramAbides ==
  ASSUME Truth, Replied,
         PluginStarts \/ PluginStops \/ ProbeTooLong \/ Probe \/ UNCHANGED vars
  PROVE  Abides
<1>1. UNCHANGED <<stages, leftover>> /\ UNCHANGED mounts /\ UNCHANGED kube /\ UNCHANGED call
  BY DEF PluginStarts, PluginStops, ProbeTooLong, Probe, vars, mounts
<1>2. SameOwn
  BY <1>1 DEF SameOwn
<1> QED
  BY <1>1, <1>2, QuietAbides

LEMMA RestartAbides ==
  ASSUME Truth, Replied, DriverRestarts PROVE Abides
<1>1. /\ UNCHANGED <<stages, leftover>> /\ UNCHANGED mounts /\ UNCHANGED kube
      /\ \A g \in Handlers : ~ call'[g].live
  BY DEF DriverRestarts, Idle
<1>2. SameOwn
  BY <1>1 DEF SameOwn
<1> QED
  BY <1>1, <1>2, QuietAbides

LEMMA CancelAbides ==
  ASSUME IInv, Truth, Replied, NEW h \in Handlers, Cancel(h) PROVE Abides
<1> DEFINE c == [call[h] EXCEPT !.live = FALSE]
<1>1. call \in [Handlers -> Calls] /\ call[h] \in Calls
  BY Parts DEF IInv, CallsOK
<1>2. ~ c.live /\ call' = [call EXCEPT ![h] = c]
  BY <1>1 DEF Calls, Cancel
<1> HIDE DEF c
<1>3. ~ call'[h].live /\ \A g \in Handlers \ {h} : call'[g] = call[g]
  BY <1>1, <1>2
<1>4. UNCHANGED <<stages, leftover>> /\ UNCHANGED mounts /\ UNCHANGED kube
  BY DEF Cancel, environment
<1>5. SameOwn
  BY <1>4 DEF SameOwn
<1> QED
  BY <1>3, <1>4, <1>5, QuietAbides

LEMMA PodAbides ==
  ASSUME IInv, Truth, Replied, NEW v \in Volumes, PodComesOrGoes(v) PROVE Abides
<1> DEFINE r == [kube[v] EXCEPT !.pod = ~ @]
<1>1. kube[v] \in Records
  BY Parts DEF IInv
<1>2. /\ r \in Records /\ r.ctx = kube[v].ctx /\ r.dev = kube[v].dev /\ r.tgt = kube[v].tgt
      /\ kube' = [kube EXCEPT ![v] = r]
  BY <1>1 DEF Records, PodComesOrGoes
<1> HIDE DEF r
<1>3. kube'[v] = r /\ \A u \in Volumes \ {v} : kube'[u] = kube[u]
  BY <1>2, Recorded
<1>4. SameOwn /\ \A u \in Volumes : kube'[u].dev = kube[u].dev /\ kube'[u].tgt = kube[u].tgt
  BY <1>2, <1>3 DEF SameOwn
<1>5. UNCHANGED <<stages, leftover>> /\ UNCHANGED mounts /\ UNCHANGED call
  BY DEF PodComesOrGoes, environment
<1> QED
  BY <1>4, <1>5, QuietAbides

(* A volume made anew gets another context of its own, while nothing of it is
   recorded. *)
LEMMA AnewAbides ==
  ASSUME IInv, Truth, Replied, NEW v \in Volumes, VolumeMadeAnew(v) PROVE Abides
<1>1. PICK c \in Contexts : kube' = [kube EXCEPT ![v].ctx = c]
  BY DEF VolumeMadeAnew
<1> DEFINE r == [kube[v] EXCEPT !.ctx = c]
<1>2. kube[v] \in Records
  BY Parts DEF IInv
<1>3. /\ r \in Records /\ r.ctx = c /\ r.dev = kube[v].dev /\ r.tgt = kube[v].tgt
      /\ kube' = [kube EXCEPT ![v] = r]
  BY <1>1, <1>2 DEF Records
<1> HIDE DEF r
<1>4. kube'[v] = r /\ \A u \in Volumes \ {v} : kube'[u] = kube[u]
  BY <1>3, Recorded
<1>5. /\ UNCHANGED <<stages, leftover>> /\ UNCHANGED mounts /\ UNCHANGED call
      /\ kube[v].dev = "no" /\ kube[v].tgt = "no"
  BY DEF VolumeMadeAnew, Unused, environment
<1>6. \A u \in Volumes, q \in Places : Seen(u, q)' = Seen(u, q) /\ Known(u, q)' = Known(u, q)
  BY <1>3, <1>4, <1>5 DEF Seen, Known, mounts
<1>7. SeenMap' = SeenMap /\ KnownMap' = KnownMap
  BY <1>6 DEF SeenMap, KnownMap
<1>8. OwnMap' = [OwnMap EXCEPT ![v] = c]
  <2>1. \A u \in Volumes : kube'[u].ctx = IF u = v THEN c ELSE kube[u].ctx
    BY <1>3, <1>4
  <2>2. OwnMap' = [u \in Volumes |-> IF u = v THEN c ELSE kube[u].ctx]
    BY <2>1 DEF OwnMap
  <2> QED
    BY <2>2 DEF OwnMap
<1>9. c \in Mounts!Seen /\ \A p \in Places : KnownMap[v][p] = "no"
  BY <1>5 DEF Contexts, Mounts!Seen, KnownMap, Known
<1>10. Mounts!Renew(v)
  <2>1. \E d \in Mounts!Seen : OwnMap' = [OwnMap EXCEPT ![v] = d]
    BY <1>8, <1>9
  <2> QED
    BY <1>5, <1>7, <1>9, <2>1, Zenon DEF Mounts!Renew, Mounts!Paths, SeenMap, KnownMap, OwnMap, Places
<1>11. Truth'
  BY <1>5, <1>6 DEF Truth, Places
<1>12. Replied'
  BY <1>5, <1>6 DEF Replied, About
<1> QED
  BY <1>10, <1>11, <1>12 DEF Abides, Mounts!Next

(* A call starts: what is recorded of the path it is about becomes uncertain. *)
LEMMA StartAbides ==
  ASSUME IInv, IInv', Truth, Replied, NEW h \in Handlers, NEW v \in Volumes, NEW p \in Places,
         NEW op, NEW pc, pc # "reply", NEW r \in Records, Start(h, op, pc, v, r),
         r.ctx = kube[v].ctx,
         \/ p = "staging" /\ r.dev = "uncertain" /\ r.tgt = kube[v].tgt
         \/ p = "pod" /\ r.tgt = "uncertain" /\ r.dev = kube[v].dev,
         v \notin leftover =>
           /\ p = "pod" /\ stages => kube[v].dev = "yes"
           /\ p = "staging" => kube[v].tgt = "no"
  PROVE  Abides
<1> DEFINE c == [op |-> op, pc |-> pc, v |-> v, ctx |-> None, live |-> TRUE]
<1>1. /\ UNCHANGED <<stages, leftover>> /\ UNCHANGED mounts
      /\ kube' = [kube EXCEPT ![v] = r] /\ call' = [call EXCEPT ![h] = c]
  BY DEF Start, environment
<1>2. kube'[v] = r /\ \A u \in Volumes \ {v} : kube'[u] = kube[u]
  BY <1>1, Recorded
<1>3. call'[h].pc = pc /\ \A g \in Handlers \ {h} : call'[g] = call[g]
  BY <1>1, Parts DEF IInv, CallsOK
<1> HIDE DEF c
<1>4. SameOwn
  BY <1>2 DEF SameOwn
<1>5. \A u \in Volumes, q \in Places : UNCHANGED Seen(u, q)
  BY <1>1 DEF Seen, mounts
<1>6. \A u \in Volumes \ {v} : Still(u)
  BY <1>2, <1>5 DEF Still, Known
<1>7. /\ \A q \in Places \ {p} : UNCHANGED Known(v, q)
      /\ Known(v, p)' = "uncertain"
  BY <1>2 DEF Known, Places
<1>8. Truth'
  <2> SUFFICES ASSUME NEW u \in Volumes, u \notin leftover'
               PROVE  /\ stages' /\ Known(u, "pod")' # "no" => Known(u, "staging")' = "yes"
                      /\ \A q \in Places : Known(u, q)' = "yes" => Seen(u, q)' # None
    BY DEF Truth
  <2>1. /\ u \notin leftover /\ stages' = stages
        /\ stages /\ Known(u, "pod") # "no" => Known(u, "staging") = "yes"
        /\ \A q \in Places : Known(u, q) = "yes" => Seen(u, q) # None
    BY <1>1 DEF Truth
  <2>2. \A q \in Places : Seen(u, q)' = Seen(u, q)
    BY <1>5
  <2>3. CASE u # v
    <3>1. \A q \in Places : Known(u, q)' = Known(u, q)
      BY <1>6, <2>3 DEF Still
    <3> QED
      BY <2>1, <2>2, <3>1 DEF Places
  <2>4. CASE u = v
    <3>1. \A q \in Places : Known(u, q)' = "yes" => Known(u, q) = "yes"
      BY <1>7, <2>4
    <3>2. stages' /\ Known(u, "pod")' # "no" => Known(u, "staging")' = "yes"
      BY <1>2, <2>1, <2>4 DEF Known
    <3> QED
      BY <2>1, <2>2, <3>1, <3>2
  <2> QED
    BY <2>3, <2>4
<1>9. Replied'
  <2> SUFFICES ASSUME NEW g \in Handlers, NEW u \in Volumes, u \notin leftover', NEW q \in Places,
                      About(g, u, q)', call'[g].live, call'[g].pc = "reply",
                      call'[g].op \in {"stage", "publish"}
               PROVE  Seen(u, q)' # None
    BY DEF Replied
  <2>1. call'[g] = call[g] /\ u \notin leftover
    BY <1>1, <1>3
  <2>2. Seen(u, q) # None
    BY <2>1 DEF Replied, About
  <2> QED
    BY <1>5, <2>2
<1>10. CASE v \in leftover
  <2>1. Mounts!Stray(v)
    BY <1>1, <1>4, <1>6, <1>10, MountsStray
  <2> QED
    BY <1>8, <1>9, <2>1 DEF Abides, Mounts!Next
<1>11. CASE v \notin leftover
  <2>1. /\ p = "pod" /\ stages => Known(v, "staging") = "yes"
        /\ p = "staging" => Known(v, "pod") = "no"
    BY <1>11 DEF Known
  <2>2. [Mounts!Next]_(Mounts!vars)
    BY <1>1, <1>4, <1>5, <1>6, <1>7, <1>8, <1>11, <2>1, MountsWrite
  <2> QED
    BY <1>8, <1>9, <2>2 DEF Abides
<1> QED
  BY <1>10, <1>11

LEMMA KubeletAbides ==
  ASSUME IInv, IInv', Truth, Replied, NEW h \in Handlers, NEW v \in Volumes, KubeletCall(h, v)
  PROVE  Abides
<1> DEFINE d == [kube[v] EXCEPT !.dev = "uncertain"]
           t == [kube[v] EXCEPT !.tgt = "uncertain"]
<1>1. kube[v] \in Records
  BY Parts DEF IInv
<1>2. /\ d \in Records /\ d.ctx = kube[v].ctx /\ d.dev = "uncertain" /\ d.tgt = kube[v].tgt
      /\ t \in Records /\ t.ctx = kube[v].ctx /\ t.tgt = "uncertain" /\ t.dev = kube[v].dev
  BY <1>1 DEF Records
<1>3. \/ Start(h, "stage", "cache", v, d) /\ stages /\ kube[v].dev # "yes"
      \/ Start(h, "publish", "lookup", v, t) /\ (stages => kube[v].dev = "yes")
      \/ Start(h, "unpublish", "forward", v, t) /\ kube[v].tgt # "no"
      \/ Start(h, "unstage", "clear", v, d) /\ kube[v].tgt = "no"
  BY DEF KubeletCall, CallStage, CallPublish, CallUnpublish, CallUnstage
<1> HIDE DEF d, t
<1>4. v \notin leftover => (stages /\ kube[v].tgt # "no" => kube[v].dev = "yes")
  BY DEF Truth, Known
<1>5. "staging" \in Places /\ "pod" \in Places
  BY DEF Places
<1>6. CASE Start(h, "stage", "cache", v, d) /\ stages /\ kube[v].dev # "yes"
  BY <1>2, <1>4, <1>5, <1>6, StartAbides
<1>7. CASE Start(h, "publish", "lookup", v, t) /\ (stages => kube[v].dev = "yes")
  BY <1>2, <1>4, <1>5, <1>7, StartAbides
<1>8. CASE Start(h, "unpublish", "forward", v, t) /\ kube[v].tgt # "no"
  BY <1>2, <1>4, <1>5, <1>8, StartAbides
<1>9. CASE Start(h, "unstage", "clear", v, d) /\ kube[v].tgt = "no"
  BY <1>2, <1>4, <1>5, <1>9, StartAbides
<1> QED
  BY <1>3, <1>6, <1>7, <1>8, <1>9

LEMMA NextAbides == IInv /\ IInv' /\ Truth /\ Replied /\ [Next]_vars => Abides
<1> SUFFICES ASSUME IInv, IInv', Truth, Replied, [Next]_vars PROVE Abides
  OBVIOUS
<1>1. CASE UNCHANGED vars \/ PluginStarts \/ PluginStops \/ ProbeTooLong \/ Probe
  BY <1>1, ProgramAbides
<1>2. CASE DriverRestarts
  BY <1>2, RestartAbides
<1>3. ASSUME NEW h \in Handlers,
             HandlerStep(h) \/ AnswerLost(h) \/ PluginRefuses(h) \/ Cancel(h)
      PROVE  Abides
  BY <1>3, CacheAbides, LookupAbides, ClearAbides, PluginAbides, ReplyAbides, CancelAbides
     DEF HandlerStep
<1>4. ASSUME NEW h \in Handlers, NEW v \in Volumes, KubeletCall(h, v) PROVE Abides
  BY <1>4, KubeletAbides
<1>5. ASSUME NEW v \in Volumes, PodComesOrGoes(v) \/ VolumeMadeAnew(v) PROVE Abides
  BY <1>5, PodAbides, AnewAbides
<1> QED
  BY <1>1, <1>2, <1>3, <1>4, <1>5, Zenon DEF Next

(* The service with its cache and the plugin behind it keeps to the abstract
   node service, but for the volumes with a left entry: the kubelet's records
   are true, a plugin that stages volumes is asked to publish what it has staged
   and to unstage what it does not publish any more (nodeserver.go:72-180). *)
THEOREM ImplementsMounts == Spec => RefinesMounts
<1>1. IInv /\ IInv' /\ Truth /\ Replied /\ [Next]_vars
        => Truth' /\ Replied' /\ [Mounts!Next]_(Mounts!vars)
  BY NextAbides DEF Abides
<1> QED
  BY <1>1, MountsInit, Invariance, PTL DEF Spec, RefinesMounts, Mounts!Spec
=============================================================================
