-------------------------- MODULE BlockNode_proofs --------------------------
(***************************************************************************)
(* Proofs about the block storage node service, for any handlers, volumes  *)
(* and bounds.                                                             *)
(***************************************************************************)
EXTENDS BlockNode, SequenceTheorems, TLAPS

(* The inductive invariant.  It leaves out the volumes of which a call the
   kubelet had given up changed the mounts (overtaken).  For the others, what
   the kubelet believes of a mount is so, and nothing is mounted that it takes
   for undone. *)

Full(v) == target[v].mounts # <<>>
Staged(v) == staging[v] = "mounted"
Shows(m) == \A i \in 1..Len(m) : m[i] = "volume"

VolumeOK(v) ==
  /\ Shows(target[v].mounts)
  /\ kube[v].tgt = "yes" => Full(v)
  /\ v \notin raw =>
       /\ Len(target[v].mounts) <= 1
       /\ Staged(v) => kube[v].dev # "no" /\ v \in device
       /\ Full(v) => kube[v].tgt # "no" /\ v \in device
       /\ kube[v].dev = "yes" => Staged(v)

ShapeOf(h) ==
  /\ call[h].pc = "idle" => ~ call[h].live
  /\ call[h].pc # "idle" => call[h].op # "none" /\ call[h].v \in Volumes
  /\ call[h].pc \in {"check", "mount"} => call[h].op \in {"stage", "publish"}
  /\ call[h].pc = "unmount" => call[h].op \in {"unstage", "unpublish"}

(* What a call the kubelet waits for knows. *)
Knows(h) ==
  LET v == call[h].v IN
  /\ call[h].op \in {"stage", "unstage"} => kube[v].dev = "uncertain"
  /\ call[h].op \in {"publish", "unpublish"} => kube[v].tgt = "uncertain"
  /\ call[h].op = "publish" /\ v \notin raw => kube[v].dev = "yes"
  /\ call[h].op = "stage" /\ call[h].pc = "mount" /\ v \notin raw => ~ Staged(v)
  /\ call[h].op = "stage" /\ call[h].pc = "reply" /\ v \notin raw => Staged(v)
  /\ call[h].op = "publish" /\ call[h].pc = "mount" /\ v \notin raw => ~ Full(v)
  /\ call[h].op = "publish" /\ call[h].pc = "reply" => Full(v)
  /\ call[h].op = "unstage" /\ call[h].pc = "reply" => ~ Staged(v)
  /\ call[h].op = "unpublish" /\ call[h].pc = "reply" => ~ Full(v)

HandlerOK(h) == ShapeOf(h) /\ (call[h].live /\ call[h].v \notin overtaken => Knows(h))

Serial == \A g, h \in Handlers : call[g].live /\ call[h].live /\ call[g].v = call[h].v => g = h

IInv ==
  /\ TypeOK
  /\ \A v \in Volumes \ overtaken : VolumeOK(v)
  /\ \A h \in Handlers : HandlerOK(h)
  /\ Serial

(* The parts of TypeOK. *)
SetsOK == raw \subseteq Volumes /\ device \subseteq Volumes /\ overtaken \subseteq Volumes

Targets == [there : BOOLEAN, mounts : Stacks]

PathsOK ==
  /\ staging \in [Volumes -> {"absent", "dir", "mounted"}]
  /\ target \in [Volumes -> Targets]
  /\ \A v \in Volumes : target[v].mounts # <<>> => target[v].there

CountersOK == faults \in 0..MaxFaults /\ moves \in 0..MaxMoves

LEMMA Parts ==
  TypeOK <=> /\ SetsOK /\ PathsOK /\ CountersOK
             /\ call \in [Handlers -> Calls] /\ kube \in [Volumes -> Records]
  BY Zenon DEF TypeOK, SetsOK, Targets, PathsOK, CountersOK

LEMMA TypeMade ==
  ASSUME SetsOK', PathsOK', CountersOK',
         call' \in [Handlers -> Calls], kube' \in [Volumes -> Records]
  PROVE  TypeOK'
  BY Zenon DEF TypeOK, SetsOK, Targets, PathsOK, CountersOK
-----------------------------------------------------------------------------
(* Stacks of mounts *)

Marks == {"volume", "empty dir"}

LEMMA StackIsSeq ==
  ASSUME NEW m
  PROVE  m \in Stacks <=> m \in Seq(Marks) /\ Len(m) \in 0..MaxMounts
<1>1. ASSUME m \in Stacks PROVE m \in Seq(Marks) /\ Len(m) \in 0..MaxMounts
  <2>1. PICK n \in 0..MaxMounts : m \in [1..n -> Marks]
    BY <1>1 DEF Stacks, Marks
  <2>2. n \in Nat
    BY BoundsAssumption
  <2>3. m \in Seq(Marks)
    BY <2>1, <2>2
  <2>4. Len(m) = n
    BY <2>1, <2>2, <2>3, LenProperties
  <2> QED
    BY <2>3, <2>4
<1>2. ASSUME m \in Seq(Marks), Len(m) \in 0..MaxMounts PROVE m \in Stacks
  <2>1. m \in [1..Len(m) -> Marks]
    BY <1>2, LenProperties
  <2> QED
    BY <1>2, <2>1 DEF Stacks, Marks
<1> QED
  BY <1>1, <1>2

LEMMA NoMounts == <<>> \in Stacks /\ Shows(<<>>) /\ Len(<<>>) = 0
<1> DEFINE e == <<>>
<1>1. Len(e) = 0 /\ e \in Seq(Marks)
  BY EmptySeq
<1> HIDE DEF e
<1>2. e \in Stacks
  <2>1. Len(e) \in 0..MaxMounts
    BY <1>1, BoundsAssumption
  <2> QED
    BY <1>1, <2>1, StackIsSeq
<1>3. Shows(e)
  <2> SUFFICES ASSUME NEW i \in 1..Len(e) PROVE e[i] = "volume"
    BY DEF Shows
  <2> QED
    BY <1>1
<1> QED
  BY <1>1, <1>2, <1>3 DEF e

LEMMA StackLen == ASSUME NEW m \in Stacks PROVE Len(m) \in Nat /\ (m # <<>> => Len(m) # 0)
<1>1. m \in Seq(Marks)
  BY StackIsSeq
<1> QED
  BY <1>1, EmptySeq, LenProperties

LEMMA Pushed ==
  ASSUME NEW m \in Stacks, NEW x \in Marks, Len(m) < MaxMounts
  PROVE  /\ <<x>> \o m \in Stacks /\ <<x>> \o m # <<>>
         /\ Len(<<x>> \o m) = Len(m) + 1
         /\ x = "volume" /\ Shows(m) => Shows(<<x>> \o m)
<1> DEFINE one == <<x>>
           k == one \o m
<1>1. m \in Seq(Marks) /\ Len(m) \in Nat
  BY StackIsSeq, LenProperties
<1>2. one \in Seq(Marks) /\ Len(one) = 1 /\ one[1] = x
  <2>1. one \in [1..1 -> Marks] /\ one[1] = x
    OBVIOUS
  <2>2. one \in Seq(Marks)
    BY <2>1
  <2>3. Len(one) = 1
    OBVIOUS
  <2> QED
    BY <2>1, <2>2, <2>3
<1> HIDE DEF one
<1>3. /\ k \in Seq(Marks) /\ Len(k) = 1 + Len(m)
      /\ \A i \in 1..(1 + Len(m)) : k[i] = IF i <= 1 THEN one[i] ELSE m[i - 1]
  <2>1. /\ k \in Seq(Marks) /\ Len(k) = Len(one) + Len(m)
        /\ \A i \in 1..(Len(one) + Len(m)) :
             k[i] = IF i <= Len(one) THEN one[i] ELSE m[i - Len(one)]
    BY <1>1, <1>2, ConcatProperties, Zenon
  <2> HIDE DEF k
  <2> QED
    BY <1>2, <2>1
<1> HIDE DEF k
<1>4. Len(k) \in 0..MaxMounts
  BY <1>1, <1>3, BoundsAssumption
<1>5. k \in Stacks
  BY <1>3, <1>4, StackIsSeq
<1>6. k # <<>>
  BY <1>1, <1>3
<1>7. ASSUME x = "volume", Shows(m) PROVE Shows(k)
  <2> SUFFICES ASSUME NEW i \in 1..Len(k) PROVE k[i] = "volume"
    BY DEF Shows
  <2>1. i \in 1..(1 + Len(m)) /\ (i <= 1 => i = 1) /\ (~ i <= 1 => i - 1 \in 1..Len(m))
    BY <1>1, <1>3
  <2>2. k[i] = IF i <= 1 THEN one[i] ELSE m[i - 1]
    BY <1>3, <2>1
  <2> QED
    BY <1>2, <1>7, <2>1, <2>2 DEF Shows
<1> QED
  BY <1>1, <1>3, <1>5, <1>6, <1>7 DEF k, one

LEMMA Popped ==
  ASSUME NEW m \in Stacks, m # <<>>
  PROVE  /\ Tail(m) \in Stacks /\ Len(Tail(m)) = Len(m) - 1
         /\ Shows(m) => Shows(Tail(m))
<1>1. m \in Seq(Marks) /\ Len(m) \in 0..MaxMounts /\ Len(m) \in Nat \ {0}
  BY StackIsSeq, StackLen
<1> DEFINE t == Tail(m)
<1>2. /\ t \in Seq(Marks) /\ Len(t) = Len(m) - 1
      /\ \A i \in 1..Len(t) : t[i] = m[i + 1]
  BY <1>1, HeadTailProperties
<1> HIDE DEF t
<1>3. Len(t) \in 0..MaxMounts
  BY <1>1, <1>2, BoundsAssumption
<1>4. t \in Stacks
  BY <1>2, <1>3, StackIsSeq
<1>5. ASSUME Shows(m) PROVE Shows(t)
  <2> SUFFICES ASSUME NEW i \in 1..Len(t) PROVE t[i] = "volume"
    BY DEF Shows
  <2>1. i + 1 \in 1..Len(m)
    BY <1>1, <1>2
  <2> QED
    BY <1>2, <1>5, <2>1 DEF Shows
<1> QED
  BY <1>2, <1>4, <1>5 DEF t

LEMMA ShownOnTop == ASSUME NEW m \in Stacks, m # <<>>, Shows(m) PROVE Head(m) = "volume"
<1>1. m \in Seq(Marks) /\ Len(m) \in Nat \ {0}
  BY StackIsSeq, StackLen
<1>2. Head(m) = m[1] /\ 1 \in 1..Len(m)
  BY <1>1, HeadTailProperties
<1> QED
  BY <1>2 DEF Shows
-----------------------------------------------------------------------------
LEMMA InvInit == Init => IInv
<1> SUFFICES ASSUME Init PROVE IInv
  OBVIOUS
<1>1. SetsOK /\ kube \in [Volumes -> Records]
  BY DEF Init, SetsOK, Records
<1>2. /\ staging \in [Volumes -> {"absent", "dir", "mounted"}]
      /\ \A v \in Volumes : ~ Staged(v)
  BY DEF Init, Staged
<1>3. /\ target \in [Volumes -> Targets]
      /\ \A v \in Volumes : target[v].mounts = <<>>
  <2> DEFINE t == [there |-> FALSE, mounts |-> <<>>]
  <2>1. t \in Targets /\ t.mounts = <<>>
    BY NoMounts DEF Targets
  <2>2. target = [v \in Volumes |-> t]
    BY DEF Init
  <2> HIDE DEF t
  <2> QED
    BY <2>1, <2>2
<1>4. call \in [Handlers -> Calls] /\ \A h \in Handlers : call[h].pc = "idle" /\ ~ call[h].live
  BY DEF Init, Idle, Calls
<1>5. CountersOK
  BY BoundsAssumption DEF Init, CountersOK
<1>6. TypeOK
  BY <1>1, <1>2, <1>3, <1>4, <1>5, Parts DEF PathsOK
<1>7. ASSUME NEW v \in Volumes PROVE VolumeOK(v)
  <2>1. kube[v].dev = "no" /\ kube[v].tgt = "no"
    BY DEF Init
  <2>2. target[v].mounts = <<>> /\ Shows(target[v].mounts) /\ Len(target[v].mounts) = 0
    BY <1>3, NoMounts, Zenon
  <2> QED
    BY <1>2, <2>1, <2>2 DEF VolumeOK, Full
<1>8. Serial /\ \A h \in Handlers : HandlerOK(h)
  BY <1>4 DEF Serial, HandlerOK, ShapeOf
<1> QED
  BY <1>6, <1>7, <1>8 DEF IInv
-----------------------------------------------------------------------------
(* What a step leaves to the handlers it is not about *)

Untouched(v) ==
  \/ v \in overtaken'
  \/ /\ kube'[v].dev = kube[v].dev /\ kube'[v].tgt = kube[v].tgt
     /\ target'[v].mounts = target[v].mounts
     /\ staging'[v] = "mounted" <=> staging[v] = "mounted"
     /\ v \in device => v \in device'

(* A handler that goes on, with or without its caller, or that has ended. *)
Rests(h) ==
  \/ call'[h] = Idle
  \/ /\ call'[h].op = call[h].op /\ call'[h].pc = call[h].pc /\ call'[h].v = call[h].v
     /\ call[h].pc = "idle" => ~ call'[h].live
     /\ call'[h].live => call[h].live

LEMMA RestingHandler ==
  ASSUME IInv, UNCHANGED raw, overtaken \subseteq overtaken', NEW h \in Handlers, Rests(h),
         call[h].live => Untouched(call[h].v)
  PROVE  HandlerOK(h)'
<1>1. CASE call'[h] = Idle
  BY <1>1 DEF HandlerOK, ShapeOf, Idle
<1>2. CASE call'[h] # Idle
  <2>1. /\ call'[h].op = call[h].op /\ call'[h].pc = call[h].pc /\ call'[h].v = call[h].v
        /\ call[h].pc = "idle" => ~ call'[h].live
        /\ call'[h].live => call[h].live
    BY <1>2 DEF Rests
  <2>2. HandlerOK(h)
    BY DEF IInv
  <2>3. ShapeOf(h)'
    BY <2>1, <2>2 DEF HandlerOK, ShapeOf
  <2>4. ASSUME call'[h].live, call'[h].v \notin overtaken' PROVE Knows(h)'
    <3>1. Knows(h) /\ Untouched(call[h].v) /\ call[h].v \notin overtaken'
      BY <2>1, <2>2, <2>4 DEF HandlerOK
    <3> QED
      BY <2>1, <3>1 DEF Knows, Untouched, Full, Staged
  <2> QED
    BY <2>3, <2>4 DEF HandlerOK
<1> QED
  BY <1>1, <1>2

LEMMA UntouchedVolume ==
  ASSUME IInv, UNCHANGED raw, NEW v \in Volumes, Untouched(v),
         overtaken \subseteq overtaken', v \notin overtaken'
  PROVE  VolumeOK(v)'
<1>1. VolumeOK(v)
  BY DEF IInv
<1>2. target'[v].mounts = target[v].mounts
  BY DEF Untouched
<1>3. Shows(target'[v].mounts) /\ (v \notin raw => Len(target'[v].mounts) <= 1)
  BY <1>1, <1>2 DEF VolumeOK
<1> QED
  BY <1>1, <1>2, <1>3 DEF VolumeOK, Untouched, Full, Staged

(* A handler the kubelet waits for has its volume to itself; the others change
   no mount, unless their caller has given up. *)
LEMMA OneMoves ==
  ASSUME IInv, TypeOK', UNCHANGED raw, NEW h \in Handlers, overtaken \subseteq overtaken',
         HandlerOK(h)', \A g \in Handlers \ {h} : Rests(g),
         call'[h].live => call[h].live /\ call'[h].v = call[h].v,
         \A u \in Volumes : Untouched(u) \/ (call[h].live /\ u = call[h].v /\ VolumeOK(u)')
  PROVE  IInv'
<1>1. ASSUME NEW g \in Handlers \ {h} PROVE HandlerOK(g)'
  <2>1. call[g].live => call[g].v \in Volumes /\ ~ (call[h].live /\ call[g].v = call[h].v)
    BY DEF IInv, HandlerOK, ShapeOf, Serial
  <2> QED
    BY <2>1, RestingHandler
<1>2. \A g \in Handlers : call'[g].live => call[g].live /\ call'[g].v = call[g].v
  BY DEF Rests, Idle
<1>3. Serial'
  BY <1>2 DEF IInv, Serial
<1>4. \A u \in Volumes \ overtaken' : VolumeOK(u)'
  BY UntouchedVolume
<1> QED
  BY <1>1, <1>3, <1>4 DEF IInv

LEMMA AllRest ==
  ASSUME IInv, TypeOK', UNCHANGED raw, overtaken \subseteq overtaken',
         \A g \in Handlers : Rests(g), \A u \in Volumes : Untouched(u)
  PROVE  IInv'
<1>1. \A g \in Handlers : HandlerOK(g)'
  <2>1. \A g \in Handlers : call[g].live => call[g].v \in Volumes
    BY DEF IInv, HandlerOK, ShapeOf
  <2> QED
    BY <2>1, RestingHandler
<1>2. \A g \in Handlers : call'[g].live => call[g].live /\ call'[g].v = call[g].v
  BY DEF Rests, Idle
<1>3. Serial'
  BY <1>2 DEF IInv, Serial
<1>4. \A u \in Volumes \ overtaken' : VolumeOK(u)'
  BY UntouchedVolume
<1> QED
  BY <1>1, <1>3, <1>4 DEF IInv

(* What a step that leaves parts of the state alone keeps. *)
LEMMA Kept ==
  ASSUME IInv
  PROVE  /\ SetsOK /\ PathsOK /\ CountersOK
         /\ call \in [Handlers -> Calls] /\ kube \in [Volumes -> Records]
         /\ UNCHANGED <<raw, device, overtaken>> => SetsOK'
         /\ UNCHANGED <<staging, target>> => PathsOK'
         /\ UNCHANGED call => call' \in [Handlers -> Calls] /\ \A g \in Handlers : Rests(g)
         /\ UNCHANGED kube => kube' \in [Volumes -> Records]
         /\ UNCHANGED <<faults, moves>> => CountersOK'
         /\ Fault /\ UNCHANGED moves => CountersOK'
<1>1. /\ SetsOK /\ PathsOK /\ CountersOK
      /\ call \in [Handlers -> Calls] /\ kube \in [Volumes -> Records]
  BY Parts DEF IInv
<1>2. UNCHANGED <<raw, device, overtaken>> => SetsOK'
  BY <1>1 DEF SetsOK
<1>3. UNCHANGED <<staging, target>> => PathsOK'
  BY <1>1 DEF PathsOK
<1>4. UNCHANGED call => call' \in [Handlers -> Calls] /\ \A g \in Handlers : Rests(g)
  BY <1>1 DEF Rests, IInv, HandlerOK, ShapeOf
<1>5. /\ UNCHANGED <<faults, moves>> => CountersOK'
      /\ Fault /\ UNCHANGED moves => CountersOK'
  BY <1>1, BoundsAssumption DEF CountersOK, Fault
<1> QED
  BY <1>1, <1>2, <1>3, <1>4, <1>5

(* A step that changes no mount and no record of the kubelet. *)
LEMMA QuietStep ==
  ASSUME IInv, UNCHANGED <<raw, overtaken, staging, target, kube>>,
         device \subseteq device', device' \subseteq Volumes, CountersOK',
         call' \in [Handlers -> Calls], \A g \in Handlers : Rests(g)
  PROVE  IInv'
<1>1. SetsOK'
  BY Kept DEF SetsOK
<1>2. TypeOK'
  BY <1>1, Kept, TypeMade
<1>3. \A u \in Volumes : Untouched(u)
  BY DEF Untouched
<1> QED
  BY <1>2, <1>3, AllRest
-----------------------------------------------------------------------------
(* Kubernetes, the program and the node *)

LEMMA AttachInv == ASSUME NEW v \in Volumes PROVE IInv /\ Attach(v) => IInv'
<1> SUFFICES ASSUME IInv, Attach(v) PROVE IInv'
  OBVIOUS
<1>1. device \subseteq device' /\ device' \subseteq Volumes
  BY Kept DEF Attach, SetsOK
<1>2. UNCHANGED <<raw, overtaken, staging, target, kube>> /\ UNCHANGED call /\ CountersOK'
  BY Kept DEF Attach
<1> QED
  BY <1>1, <1>2, Kept, QuietStep

(* A volume that is detached is not in use: it is not mounted either. *)
LEMMA DetachInv == ASSUME NEW v \in Volumes PROVE IInv /\ Detach(v) => IInv'
<1> SUFFICES ASSUME IInv, Detach(v) PROVE IInv'
  OBVIOUS
<1>1. /\ device' = device \ {v} /\ kube[v].dev = "no" /\ kube[v].tgt = "no"
      /\ \A g \in Handlers : ~ (call[g].live /\ call[g].v = v)
      /\ UNCHANGED <<raw, overtaken, staging, target, kube>> /\ UNCHANGED call /\ CountersOK'
  BY Kept DEF Detach, Unused, Busy
<1>2. SetsOK'
  BY <1>1, Kept DEF SetsOK
<1>3. TypeOK'
  BY <1>1, <1>2, Kept, TypeMade
<1>4. \A u \in Volumes \ {v} : Untouched(u)
  BY <1>1 DEF Untouched
<1>5. ASSUME NEW u \in Volumes \ overtaken' PROVE VolumeOK(u)'
  <2>1. CASE u = v
    <3>1. VolumeOK(u)
      BY <1>1, <1>5 DEF IInv
    <3> QED
      BY <1>1, <2>1, <3>1 DEF VolumeOK, Shows, Full, Staged
  <2>2. CASE u # v
    BY <1>1, <1>4, <1>5, <2>2, UntouchedVolume
  <2> QED
    BY <2>1, <2>2
<1>6. ASSUME NEW g \in Handlers PROVE HandlerOK(g)'
  <2>1. call[g].live => call[g].v \in Volumes \ {v}
    BY <1>1 DEF IInv, HandlerOK, ShapeOf
  <2> QED
    BY <1>1, <1>4, <2>1, Kept, RestingHandler
<1>7. Serial'
  BY <1>1 DEF IInv, Serial
<1> QED
  BY <1>3, <1>5, <1>6, <1>7 DEF IInv

(* The kubelet's record of one volume changes. *)
LEMMA Recorded ==
  ASSUME IInv, NEW v \in Volumes, NEW r \in Records, kube' = [kube EXCEPT ![v] = r]
  PROVE  /\ kube' \in [Volumes -> Records] /\ kube'[v] = r
         /\ \A u \in Volumes \ {v} : kube'[u] = kube[u]
  BY Kept

LEMMA PodComesOrGoesInv == ASSUME NEW v \in Volumes PROVE IInv /\ PodComesOrGoes(v) => IInv'
<1> SUFFICES ASSUME IInv, PodComesOrGoes(v) PROVE IInv'
  OBVIOUS
<1> DEFINE r == [kube[v] EXCEPT !.pod = ~ @]
<1>1. kube[v] \in Records
  BY Kept
<1>2. /\ r \in Records /\ r.dev = kube[v].dev /\ r.tgt = kube[v].tgt
      /\ kube' = [kube EXCEPT ![v] = r]
  BY <1>1 DEF Records, PodComesOrGoes
<1> HIDE DEF r
<1>3. /\ UNCHANGED <<raw, device, staging, target, overtaken>> /\ UNCHANGED call
  BY DEF PodComesOrGoes
<1>4. CountersOK'
  BY Kept, BoundsAssumption DEF PodComesOrGoes, CountersOK
<1>5. /\ kube' \in [Volumes -> Records]
      /\ \A u \in Volumes : kube'[u].dev = kube[u].dev /\ kube'[u].tgt = kube[u].tgt
  BY <1>2, Recorded
<1>6. TypeOK'
  BY <1>3, <1>4, <1>5, Kept, TypeMade
<1>7. \A u \in Volumes : Untouched(u)
  BY <1>3, <1>5 DEF Untouched
<1> QED
  BY <1>3, <1>6, <1>7, Kept, AllRest

LEMMA DriverRestartsInv == IInv /\ DriverRestarts => IInv'
<1> SUFFICES ASSUME IInv, DriverRestarts PROVE IInv'
  OBVIOUS
<1>1. call' \in [Handlers -> Calls] /\ \A g \in Handlers : Rests(g)
  BY DEF DriverRestarts, Rests, Idle, Calls
<1>2. UNCHANGED <<raw, overtaken, staging, target, kube>> /\ UNCHANGED device /\ CountersOK'
  BY Kept DEF DriverRestarts
<1> QED
  BY <1>1, <1>2, Kept, QuietStep DEF SetsOK

(* After a restart of the node nothing is mounted, and the kubelet knows it. *)
LEMMA NodeRestartsInv == IInv /\ NodeRestarts => IInv'
<1> SUFFICES ASSUME IInv, NodeRestarts PROVE IInv'
  OBVIOUS
<1>1. call' \in [Handlers -> Calls] /\ \A g \in Handlers : call'[g].pc = "idle" /\ ~ call'[g].live
  BY DEF NodeRestarts, Idle, Calls
<1>2. /\ staging' \in [Volumes -> {"absent", "dir", "mounted"}]
      /\ \A v \in Volumes : staging'[v] # "mounted"
  BY Kept DEF NodeRestarts, PathsOK
<1>3. target' \in [Volumes -> Targets] /\ \A v \in Volumes : target'[v].mounts = <<>>
  <2>1. ASSUME NEW t \in Targets
        PROVE  [t EXCEPT !.mounts = <<>>] \in Targets /\ [t EXCEPT !.mounts = <<>>].mounts = <<>>
    BY NoMounts DEF Targets
  <2>2. target' = [v \in Volumes |-> [target[v] EXCEPT !.mounts = <<>>]]
        /\ \A v \in Volumes : target[v] \in Targets
    BY Kept DEF NodeRestarts, PathsOK
  <2> QED
    BY <2>1, <2>2
<1>4. kube' \in [Volumes -> Records] /\ \A v \in Volumes : kube'[v].dev = "no" /\ kube'[v].tgt = "no"
  <2>1. ASSUME NEW k \in Records
        PROVE  /\ [k EXCEPT !.dev = "no", !.tgt = "no"] \in Records
               /\ [k EXCEPT !.dev = "no", !.tgt = "no"].dev = "no"
               /\ [k EXCEPT !.dev = "no", !.tgt = "no"].tgt = "no"
    BY DEF Records
  <2>2. kube' = [v \in Volumes |-> [kube[v] EXCEPT !.dev = "no", !.tgt = "no"]]
        /\ \A v \in Volumes : kube[v] \in Records
    BY Kept DEF NodeRestarts
  <2> QED
    BY <2>1, <2>2
<1>5. SetsOK' /\ CountersOK'
  BY Kept DEF NodeRestarts, SetsOK
<1>6. TypeOK'
  BY <1>1, <1>2, <1>3, <1>4, <1>5, TypeMade DEF PathsOK
<1>7. ASSUME NEW v \in Volumes PROVE VolumeOK(v)'
  <2>1. target'[v].mounts = <<>> /\ Shows(target'[v].mounts) /\ Len(target'[v].mounts) = 0
    BY <1>3, NoMounts, Zenon
  <2> QED
    BY <1>2, <1>4, <2>1 DEF VolumeOK, Full, Staged
<1>8. Serial' /\ \A h \in Handlers : HandlerOK(h)'
  BY <1>1 DEF Serial, HandlerOK, ShapeOf
<1> QED
  BY <1>6, <1>7, <1>8 DEF IInv
-----------------------------------------------------------------------------
(* Calls come, lose their caller, and end *)

(* What a step of one handler does to the calls. *)
LEMMA CallOfHandler ==
  ASSUME IInv, NEW h \in Handlers, NEW c \in Calls, call' = [call EXCEPT ![h] = c]
  PROVE  /\ call' \in [Handlers -> Calls] /\ call'[h] = c
         /\ \A g \in Handlers \ {h} : Rests(g)
<1>1. /\ call' \in [Handlers -> Calls] /\ call'[h] = c
      /\ \A g \in Handlers \ {h} : call'[g] = call[g]
  BY Kept
<1>2. \A g \in Handlers \ {h} : Rests(g)
  BY <1>1 DEF Rests, IInv, HandlerOK, ShapeOf
<1> QED
  BY <1>1, <1>2

LEMMA Returned ==
  ASSUME IInv, NEW h \in Handlers, Return(h)
  PROVE  /\ call' \in [Handlers -> Calls] /\ HandlerOK(h)' /\ ~ call'[h].live
         /\ \A g \in Handlers : Rests(g)
<1>1. call' = [call EXCEPT ![h] = Idle] /\ Idle \in Calls
  BY DEF Return, Idle, Calls
<1>2. /\ call' \in [Handlers -> Calls] /\ call'[h] = Idle
      /\ \A g \in Handlers \ {h} : Rests(g)
  BY <1>1, CallOfHandler
<1>3. HandlerOK(h)' /\ ~ call'[h].live
  BY <1>2 DEF HandlerOK, ShapeOf, Idle
<1> QED
  BY <1>2, <1>3 DEF Rests

(* A handler that goes on to another step. *)
LEMMA GoneTo ==
  ASSUME IInv, NEW h \in Handlers, NEW pc \in {"mount", "reply"}, Goto(h, pc)
  PROVE  /\ call' \in [Handlers -> Calls]
         /\ call'[h].pc = pc /\ call'[h].op = call[h].op
         /\ call'[h].v = call[h].v /\ call'[h].live = call[h].live
         /\ \A g \in Handlers \ {h} : Rests(g)
<1> DEFINE c == [call[h] EXCEPT !.pc = pc]
<1>1. call[h] \in Calls
  BY Kept
<1>2. c \in Calls /\ call' = [call EXCEPT ![h] = c]
  BY <1>1 DEF Calls, Goto
<1>3. c.pc = pc /\ c.op = call[h].op /\ c.v = call[h].v /\ c.live = call[h].live
  BY <1>1 DEF Calls
<1> HIDE DEF c
<1> QED
  BY <1>2, <1>3, CallOfHandler

LEMMA CancelInv == ASSUME NEW h \in Handlers PROVE IInv /\ Cancel(h) => IInv'
<1> SUFFICES ASSUME IInv, Cancel(h) PROVE IInv'
  OBVIOUS
<1> DEFINE c == [call[h] EXCEPT !.live = FALSE]
<1>1. call[h] \in Calls
  BY Kept
<1>2. c \in Calls /\ call' = [call EXCEPT ![h] = c]
  BY <1>1 DEF Calls, Cancel
<1>3. c.pc = call[h].pc /\ c.op = call[h].op /\ c.v = call[h].v /\ ~ c.live
  BY <1>1 DEF Calls
<1> HIDE DEF c
<1>4. call' \in [Handlers -> Calls] /\ \A g \in Handlers : Rests(g)
  <2>1. call' \in [Handlers -> Calls] /\ call'[h] = c /\ \A g \in Handlers \ {h} : Rests(g)
    BY <1>2, CallOfHandler
  <2> QED
    BY <1>3, <2>1 DEF Rests
<1>5. UNCHANGED <<raw, overtaken, staging, target, kube>> /\ UNCHANGED device /\ CountersOK'
  BY Kept DEF Cancel
<1> QED
  BY <1>4, <1>5, Kept, QuietStep DEF SetsOK

(* A call that comes is the only one on its volume that is waited for, and the
   kubelet is uncertain of what it is about. *)
LEMMA StartInv ==
  ASSUME NEW h \in Handlers, NEW v \in Volumes,
         NEW op \in {"stage", "publish", "unpublish", "unstage"},
         NEW pc \in {"check", "unmount"}, NEW r \in Records,
         IInv, Start(h, op, pc, v, r),
         pc = "check" <=> op \in {"stage", "publish"},
         r.dev \in {"uncertain", kube[v].dev}, r.tgt \in {"uncertain", kube[v].tgt},
         op \in {"stage", "unstage"} => r.dev = "uncertain",
         op \in {"publish", "unpublish"} => r.tgt = "uncertain",
         op = "publish" => r.dev = "yes"
  PROVE  IInv'
<1> DEFINE c == [op |-> op, pc |-> pc, v |-> v, live |-> TRUE]
<1>1. c \in Calls
  BY DEF Calls
<1>2. /\ call' = [call EXCEPT ![h] = c] /\ kube' = [kube EXCEPT ![v] = r]
      /\ UNCHANGED <<raw, device, overtaken>> /\ UNCHANGED <<staging, target>>
      /\ \A g \in Handlers : ~ (call[g].live /\ call[g].v = v)
      /\ CountersOK'
  BY Kept DEF Start, Busy
<1>3. c.op = op /\ c.pc = pc /\ c.v = v /\ c.live
  OBVIOUS
<1> HIDE DEF c
<1>4. call' \in [Handlers -> Calls] /\ call'[h] = c /\ \A g \in Handlers \ {h} : Rests(g)
  BY <1>1, <1>2, CallOfHandler
<1>5. /\ kube' \in [Volumes -> Records] /\ kube'[v] = r
      /\ \A u \in Volumes \ {v} : kube'[u] = kube[u]
  BY <1>2, Recorded
<1>6. TypeOK'
  BY <1>2, <1>4, <1>5, Kept, TypeMade
<1>7. \A u \in Volumes \ {v} : Untouched(u)
  BY <1>2, <1>5 DEF Untouched
<1>8. ASSUME NEW u \in Volumes \ overtaken' PROVE VolumeOK(u)'
  <2>1. CASE u = v
    <3>1. VolumeOK(u)
      BY <1>2, <1>8 DEF IInv
    <3> QED
      BY <1>2, <1>5, <2>1, <3>1 DEF VolumeOK, Shows, Full, Staged
  <2>2. CASE u # v
    BY <1>2, <1>7, <1>8, <2>2, UntouchedVolume
  <2> QED
    BY <2>1, <2>2
<1>9. HandlerOK(h)'
  BY <1>3, <1>4, <1>5 DEF HandlerOK, ShapeOf, Knows
<1>10. ASSUME NEW g \in Handlers \ {h} PROVE HandlerOK(g)'
  <2>1. call[g].live => call[g].v \in Volumes \ {v}
    BY <1>2 DEF IInv, HandlerOK, ShapeOf
  <2> QED
    BY <1>2, <1>4, <1>7, <2>1, RestingHandler
<1>11. Serial'
  <2>1. \A g \in Handlers \ {h} : call'[g].live => call[g].live /\ call'[g].v = call[g].v
    BY <1>4 DEF Rests, Idle
  <2> QED
    BY <1>2, <1>3, <1>4, <2>1 DEF IInv, Serial
<1> QED
  BY <1>6, <1>8, <1>9, <1>10, <1>11 DEF IInv

LEMMA KubeletCallInv ==
  ASSUME NEW h \in Handlers, NEW v \in Volumes PROVE IInv /\ KubeletCall(h, v) => IInv'
<1> SUFFICES ASSUME IInv, KubeletCall(h, v) PROVE IInv'
  OBVIOUS
<1> DEFINE d == [kube[v] EXCEPT !.dev = "uncertain"]
           t == [kube[v] EXCEPT !.tgt = "uncertain"]
<1>1. kube[v] \in Records
  BY Kept
<1>2. /\ d \in Records /\ d.dev = "uncertain" /\ d.tgt = kube[v].tgt
      /\ t \in Records /\ t.tgt = "uncertain" /\ t.dev = kube[v].dev
  BY <1>1 DEF Records
<1>3. \/ Start(h, "stage", "check", v, d)
      \/ Start(h, "publish", "check", v, t) /\ kube[v].dev = "yes"
      \/ Start(h, "unpublish", "unmount", v, t)
      \/ Start(h, "unstage", "unmount", v, d)
  BY DEF KubeletCall, CallStage, CallPublish, CallUnpublish, CallUnstage
<1> HIDE DEF d, t
<1>4. CASE Start(h, "stage", "check", v, d)
  BY <1>2, <1>4, StartInv
<1>5. CASE Start(h, "publish", "check", v, t) /\ kube[v].dev = "yes"
  BY <1>2, <1>5, StartInv
<1>6. CASE Start(h, "unpublish", "unmount", v, t)
  BY <1>2, <1>6, StartInv
<1>7. CASE Start(h, "unstage", "unmount", v, d)
  BY <1>2, <1>7, StartInv
<1> QED
  BY <1>3, <1>4, <1>5, <1>6, <1>7
-----------------------------------------------------------------------------
(* The steps of the handlers *)

(* Where a handler is. *)
LEMMA Place ==
  ASSUME IInv, NEW h \in Handlers, call[h].pc # "idle"
  PROVE  /\ call[h] \in Calls /\ ShapeOf(h) /\ call[h].v \in Volumes
         /\ call[h].op \in {"stage", "publish", "unpublish", "unstage"}
         /\ call[h].live /\ call[h].v \notin overtaken => Knows(h) /\ VolumeOK(call[h].v)
  BY Kept DEF IInv, HandlerOK, ShapeOf, Calls

(* What the kubelet is told. *)
LEMMA Told ==
  ASSUME IInv, NEW h \in Handlers, call[h].pc # "idle",
         NEW a \in {"no", "uncertain", "yes"}, Tell(h, a)
  PROVE  LET v == call[h].v IN
         /\ kube' \in [Volumes -> Records]
         /\ \A u \in Volumes : u # v \/ ~ call[h].live => kube'[u] = kube[u]
         /\ call[h].live /\ call[h].op \in {"stage", "unstage"} =>
              kube'[v].dev = a /\ kube'[v].tgt = kube[v].tgt
         /\ call[h].live /\ call[h].op \in {"publish", "unpublish"} =>
              kube'[v].tgt = a /\ kube'[v].dev = kube[v].dev
<1> DEFINE v == call[h].v
           d == [kube[v] EXCEPT !.dev = a]
           t == [kube[v] EXCEPT !.tgt = a]
<1>1. v \in Volumes /\ kube \in [Volumes -> Records] /\ kube[v] \in Records
      /\ call[h].op \in {"stage", "publish", "unpublish", "unstage"}
  BY Place, Kept
<1>2. /\ d \in Records /\ d.dev = a /\ d.tgt = kube[v].tgt
      /\ t \in Records /\ t.tgt = a /\ t.dev = kube[v].dev
  BY <1>1 DEF Records
<1>3. kube' = IF ~ call[h].live THEN kube
              ELSE IF call[h].op \in {"stage", "unstage"} THEN [kube EXCEPT ![v] = d]
              ELSE [kube EXCEPT ![v] = t]
  BY <1>1 DEF Tell
<1> HIDE DEF d, t
<1>4. CASE ~ call[h].live
  BY <1>1, <1>3, <1>4
<1>5. CASE call[h].live /\ call[h].op \in {"stage", "unstage"}
  BY <1>1, <1>2, <1>3, <1>5
<1>6. CASE call[h].live /\ call[h].op \in {"publish", "unpublish"}
  BY <1>1, <1>2, <1>3, <1>6
<1> QED
  BY <1>1, <1>4, <1>5, <1>6

(* A call that fails changes no mount.  What the kubelet takes for undone was
   not done. *)
LEMMA FailInv ==
  ASSUME IInv, NEW h \in Handlers, call[h].pc # "idle", Fail(h),
         UNCHANGED <<raw, device, staging, overtaken>>, PathsOK', CountersOK',
         \A u \in Volumes : target'[u].mounts = target[u].mounts,
         call[h].live /\ call[h].v \notin overtaken /\ call[h].v \notin raw =>
           /\ call[h].op = "stage" => ~ Staged(call[h].v)
           /\ call[h].op = "publish" => ~ Full(call[h].v)
  PROVE  IInv'
<1> DEFINE v == call[h].v
           a == IF call[h].op \in {"stage", "publish"} THEN "no" ELSE "uncertain"
<1>1. /\ v \in Volumes
      /\ call[h].op \in {"stage", "publish", "unpublish", "unstage"}
      /\ call[h].live /\ v \notin overtaken => Knows(h) /\ VolumeOK(v)
  BY Place
<1>2. Return(h) /\ Tell(h, a) /\ a \in {"no", "uncertain", "yes"}
  BY DEF Fail
<1>3. \/ a = "no" /\ call[h].op \in {"stage", "publish"}
      \/ a = "uncertain" /\ call[h].op \in {"unstage", "unpublish"}
  BY <1>1
<1> HIDE DEF a
<1>4. /\ call' \in [Handlers -> Calls] /\ HandlerOK(h)' /\ ~ call'[h].live
      /\ \A g \in Handlers : Rests(g)
  BY <1>2, Returned
<1>5. /\ kube' \in [Volumes -> Records]
      /\ \A u \in Volumes : u # v \/ ~ call[h].live => kube'[u] = kube[u]
      /\ call[h].live /\ call[h].op \in {"stage", "unstage"} =>
           kube'[v].dev = a /\ kube'[v].tgt = kube[v].tgt
      /\ call[h].live /\ call[h].op \in {"publish", "unpublish"} =>
           kube'[v].tgt = a /\ kube'[v].dev = kube[v].dev
  BY <1>2, Told
<1>6. TypeOK'
  BY <1>4, <1>5, Kept, TypeMade
<1>7. \A u \in Volumes : u # v \/ ~ call[h].live \/ u \in overtaken => Untouched(u)
  BY <1>5 DEF Untouched
<1>8. ASSUME NEW u \in Volumes, u = v, call[h].live, v \notin overtaken PROVE VolumeOK(u)'
  <2>1. Knows(h) /\ VolumeOK(u) /\ target'[u].mounts = target[u].mounts
    BY <1>1, <1>8
  <2>2. Shows(target'[u].mounts) /\ (u \notin raw => Len(target'[u].mounts) <= 1)
    BY <2>1 DEF VolumeOK
  <2>3. kube'[u].tgt = "yes" => kube[u].tgt = "yes"
    BY <1>1, <1>3, <1>5, <1>8
  <2>4. u \notin raw => /\ Staged(u) => kube'[u].dev # "no"
                        /\ Full(u) => kube'[u].tgt # "no"
                        /\ kube'[u].dev = "yes" => kube[u].dev = "yes"
    BY <1>1, <1>3, <1>5, <1>8, <2>1 DEF VolumeOK
  <2> QED
    BY <2>1, <2>2, <2>3, <2>4 DEF VolumeOK, Staged, Full
<1>9. \A u \in Volumes : Untouched(u) \/ (call[h].live /\ u = v /\ VolumeOK(u)')
  BY <1>7, <1>8
<1> QED
  BY <1>4, <1>6, <1>9, OneMoves

LEMMA NoDeviceInv == ASSUME NEW h \in Handlers PROVE IInv /\ NoDevice(h) => IInv'
<1> SUFFICES ASSUME IInv, NoDevice(h) PROVE IInv'
  OBVIOUS
<1> DEFINE v == call[h].v
<1>1. /\ call[h].pc = "check" /\ v \notin device /\ (call[h].op = "stage" \/ v \in raw) /\ Fail(h)
      /\ UNCHANGED <<raw, device, staging, overtaken>> /\ UNCHANGED target
      /\ PathsOK' /\ CountersOK'
  BY Kept DEF NoDevice
<1>2. call[h].live /\ v \notin overtaken /\ v \notin raw => call[h].op = "stage" /\ ~ Staged(v)
  BY <1>1, Place DEF VolumeOK
<1> QED
  BY <1>1, <1>2, FailInv

LEMMA UnmountFailsInv == ASSUME NEW h \in Handlers PROVE IInv /\ UnmountFails(h) => IInv'
<1> SUFFICES ASSUME IInv, UnmountFails(h) PROVE IInv'
  OBVIOUS
<1>1. /\ call[h].pc = "unmount" /\ Fail(h)
      /\ UNCHANGED <<raw, device, staging, overtaken>> /\ UNCHANGED target
      /\ PathsOK' /\ CountersOK'
  BY Kept DEF UnmountFails
<1>2. call[h].op \in {"unstage", "unpublish"}
  BY <1>1, Place DEF ShapeOf
<1> QED
  BY <1>1, <1>2, FailInv

(* The path of a volume is made or removed: its mounts stay. *)
LEMMA PathMade ==
  ASSUME IInv, NEW v \in Volumes, NEW b \in BOOLEAN, target[v].mounts # <<>> => b,
         target' = [target EXCEPT ![v].there = b]
  PROVE  /\ target' \in [Volumes -> Targets]
         /\ \A u \in Volumes : target'[u].mounts = target[u].mounts
         /\ \A u \in Volumes : target'[u].mounts # <<>> => target'[u].there
<1> DEFINE t == [target[v] EXCEPT !.there = b]
<1>1. target \in [Volumes -> Targets] /\ target[v] \in Targets
      /\ \A u \in Volumes : target[u].mounts # <<>> => target[u].there
  BY Kept DEF PathsOK
<1>2. t \in Targets /\ t.mounts = target[v].mounts /\ t.there = b
  BY <1>1 DEF Targets
<1>3. target' = [target EXCEPT ![v] = t]
  BY <1>1
<1> HIDE DEF t
<1>4. target' \in [Volumes -> Targets] /\ target'[v] = t
      /\ \A u \in Volumes : u # v => target'[u] = target[u]
  BY <1>1, <1>2, <1>3
<1> QED
  BY <1>1, <1>2, <1>4

LEMMA MountFailsInv == ASSUME NEW h \in Handlers PROVE IInv /\ MountFails(h) => IInv'
<1> SUFFICES ASSUME IInv, MountFails(h) PROVE IInv'
  OBVIOUS
<1> DEFINE v == call[h].v
<1>1. /\ call[h].pc = "mount" /\ Fail(h)
      /\ UNCHANGED <<raw, device, staging, overtaken>> /\ CountersOK'
  BY Kept DEF MountFails
<1>2. v \in Volumes /\ (call[h].live /\ v \notin overtaken => Knows(h))
  BY <1>1, Place
<1>3. PathsOK' /\ \A u \in Volumes : target'[u].mounts = target[u].mounts
  <2>1. \/ target[v].mounts = <<>> /\ target' = [target EXCEPT ![v].there = FALSE]
        \/ target' = target
    BY DEF MountFails
  <2>2. CASE target' = target
    BY <1>1, <2>2, Kept
  <2>3. CASE target[v].mounts = <<>> /\ target' = [target EXCEPT ![v].there = FALSE]
    <3>1. /\ target' \in [Volumes -> Targets]
          /\ \A u \in Volumes : target'[u].mounts = target[u].mounts
          /\ \A u \in Volumes : target'[u].mounts # <<>> => target'[u].there
      BY <1>2, <2>3, PathMade
    <3> QED
      BY <1>1, <3>1, Kept DEF PathsOK
  <2> QED
    BY <2>1, <2>2, <2>3
<1>4. call[h].live /\ v \notin overtaken /\ v \notin raw =>
        /\ call[h].op = "stage" => ~ Staged(v)
        /\ call[h].op = "publish" => ~ Full(v)
  BY <1>1, <1>2 DEF Knows
<1> QED
  BY <1>1, <1>3, <1>4, FailInv

(* A handler that goes on, and changes at most the mounts of its volume. *)
LEMMA WorkInv ==
  ASSUME IInv, NEW h \in Handlers, NEW pc \in {"mount", "reply"}, Goto(h, pc),
         call[h].pc # "idle", pc = "mount" => call[h].op \in {"stage", "publish"},
         UNCHANGED <<raw, device>>, UNCHANGED kube, PathsOK', CountersOK',
         overtaken \subseteq overtaken', overtaken' \subseteq Volumes,
         \A u \in Volumes : Untouched(u) \/ (call[h].live /\ u = call[h].v /\ VolumeOK(u)'),
         \A u \in Volumes : call[h].live /\ u = call[h].v /\ u \notin overtaken /\ Knows(h) =>
           /\ call[h].op = "stage" /\ pc = "mount" /\ u \notin raw => staging'[u] # "mounted"
           /\ call[h].op = "stage" /\ pc = "reply" /\ u \notin raw => staging'[u] = "mounted"
           /\ call[h].op = "publish" /\ pc = "mount" /\ u \notin raw => target'[u].mounts = <<>>
           /\ call[h].op = "publish" /\ pc = "reply" => target'[u].mounts # <<>>
           /\ call[h].op = "unstage" /\ pc = "reply" => staging'[u] # "mounted"
           /\ call[h].op = "unpublish" /\ pc = "reply" => target'[u].mounts = <<>>
  PROVE  IInv'
<1> DEFINE v == call[h].v
<1>1. /\ v \in Volumes
      /\ call[h].op \in {"stage", "publish", "unpublish", "unstage"}
      /\ call[h].live /\ v \notin overtaken => Knows(h)
  BY Place
<1>2. /\ call' \in [Handlers -> Calls]
      /\ call'[h].pc = pc /\ call'[h].op = call[h].op
      /\ call'[h].v = v /\ call'[h].live = call[h].live
      /\ \A g \in Handlers \ {h} : Rests(g)
  BY GoneTo
<1>3. TypeOK'
  BY <1>2, Kept, TypeMade DEF SetsOK
<1>4. ShapeOf(h)'
  BY <1>1, <1>2 DEF ShapeOf
<1>5. ASSUME call[h].live, v \notin overtaken PROVE Knows(h)'
  <2>1. Knows(h)
    BY <1>1, <1>5
  <2> QED
    BY <1>1, <1>2, <1>5, <2>1 DEF Knows, Staged, Full
<1>6. HandlerOK(h)'
  BY <1>2, <1>4, <1>5 DEF HandlerOK
<1> QED
  BY <1>2, <1>3, <1>6, OneMoves

(* An effect of a call that nobody waits for is remembered. *)
LEMMA Remembered ==
  ASSUME IInv, NEW h \in Handlers, call[h].pc # "idle", Effect(h) \/ UNCHANGED overtaken
  PROVE  /\ overtaken \subseteq overtaken' /\ overtaken' \subseteq Volumes
         /\ Effect(h) /\ ~ call[h].live => call[h].v \in overtaken'
  BY Place, Kept DEF Effect, SetsOK

(* The staging path of a volume changes. *)
LEMMA StagingSet ==
  ASSUME IInv, NEW v \in Volumes, NEW x \in {"absent", "dir", "mounted"},
         staging' = [staging EXCEPT ![v] = x], UNCHANGED target
  PROVE  /\ PathsOK' /\ staging'[v] = x
         /\ \A u \in Volumes : u # v => staging'[u] = staging[u]
  BY Kept DEF PathsOK

LEMMA StageCheckInv == ASSUME NEW h \in Handlers PROVE IInv /\ StageCheck(h) => IInv'
<1> SUFFICES ASSUME IInv, StageCheck(h) PROVE IInv'
  OBVIOUS
<1> DEFINE v == call[h].v
           pc == IF v \in raw \/ staging[v] = "mounted" THEN "reply" ELSE "mount"
<1>1. /\ call[h].op = "stage" /\ call[h].pc = "check" /\ v \in Volumes
      /\ pc \in {"mount", "reply"} /\ Goto(h, pc)
      /\ UNCHANGED <<raw, device>> /\ UNCHANGED kube /\ UNCHANGED <<target, overtaken>> /\ CountersOK'
  BY Kept, Place DEF StageCheck
<1>2. /\ pc = "mount" => v \notin raw /\ staging[v] # "mounted"
      /\ pc = "reply" => v \in raw \/ staging[v] = "mounted"
  OBVIOUS
<1> HIDE DEF pc
<1>3. PathsOK' /\ \A u \in Volumes : staging'[u] = "mounted" <=> staging[u] = "mounted"
  <2>1. CASE UNCHANGED staging
    BY <1>1, <2>1, Kept
  <2>2. CASE EnsureDir(v)
    <3> DEFINE x == IF staging[v] = "absent" THEN "dir" ELSE staging[v]
    <3>1. staging' = [staging EXCEPT ![v] = x]
      BY <1>1, <2>2, Kept DEF EnsureDir, PathsOK
    <3>2. x \in {"absent", "dir", "mounted"} /\ (x = "mounted" <=> staging[v] = "mounted")
      BY <1>1, Kept DEF PathsOK
    <3> HIDE DEF x
    <3> QED
      BY <1>1, <3>1, <3>2, StagingSet
  <2> QED
    BY <2>1, <2>2 DEF StageCheck
<1>4. \A u \in Volumes : Untouched(u)
  BY <1>1, <1>3 DEF Untouched
<1>5. overtaken \subseteq overtaken' /\ overtaken' \subseteq Volumes
  BY <1>1, Kept DEF SetsOK
<1> QED
  BY <1>1, <1>2, <1>3, <1>4, <1>5, WorkInv

LEMMA StageMountInv == ASSUME NEW h \in Handlers PROVE IInv /\ StageMount(h) => IInv'
<1> SUFFICES ASSUME IInv, StageMount(h) PROVE IInv'
  OBVIOUS
<1> DEFINE v == call[h].v
<1>1. /\ call[h].op = "stage" /\ call[h].pc = "mount" /\ v \in Volumes
      /\ call[h].live /\ v \notin overtaken => Knows(h) /\ VolumeOK(v)
      /\ UNCHANGED <<raw, device>> /\ UNCHANGED target /\ CountersOK'
  BY Kept, Place DEF StageMount
<1>2. CASE /\ v \in device /\ staging' = [staging EXCEPT ![v] = "mounted"]
           /\ Goto(h, "reply") /\ Effect(h) /\ UNCHANGED kube
  <2>1. /\ PathsOK' /\ staging'[v] = "mounted"
        /\ \A u \in Volumes : u # v => staging'[u] = staging[u]
    BY <1>1, <1>2, StagingSet
  <2>2. /\ overtaken \subseteq overtaken' /\ overtaken' \subseteq Volumes
        /\ ~ call[h].live => v \in overtaken'
    BY <1>1, <1>2, Remembered
  <2>3. \A u \in Volumes : u # v \/ ~ call[h].live \/ u \in overtaken => Untouched(u)
    BY <1>1, <1>2, <2>1, <2>2 DEF Untouched
  <2>4. ASSUME NEW u \in Volumes, u = v, call[h].live, v \notin overtaken PROVE VolumeOK(u)'
    <3>1. VolumeOK(u) /\ kube[u].dev = "uncertain"
      BY <1>1, <2>4 DEF Knows
    <3> QED
      BY <1>1, <1>2, <2>1, <2>4, <3>1 DEF VolumeOK, Shows, Staged, Full
  <2>5. \A u \in Volumes : Untouched(u) \/ (call[h].live /\ u = v /\ VolumeOK(u)')
    BY <2>3, <2>4
  <2> QED
    BY <1>1, <1>2, <2>1, <2>2, <2>5, WorkInv
<1>3. CASE Fail(h) /\ UNCHANGED <<staging, overtaken>>
  <2>1. call[h].live /\ v \notin overtaken /\ v \notin raw => ~ Staged(v)
    BY <1>1 DEF Knows
  <2> QED
    BY <1>1, <1>3, <2>1, Kept, FailInv
<1> QED
  BY <1>2, <1>3 DEF StageMount

LEMMA UnstageInv == ASSUME NEW h \in Handlers PROVE IInv /\ Unstage(h) => IInv'
<1> SUFFICES ASSUME IInv, Unstage(h) PROVE IInv'
  OBVIOUS
<1> DEFINE v == call[h].v
<1>1. /\ call[h].op = "unstage" /\ call[h].pc = "unmount" /\ v \in Volumes
      /\ call[h].live /\ v \notin overtaken => Knows(h) /\ VolumeOK(v)
      /\ UNCHANGED <<raw, device>> /\ UNCHANGED kube /\ UNCHANGED target /\ CountersOK'
      /\ staging' = [staging EXCEPT ![v] = "absent"] /\ Goto(h, "reply")
      /\ IF staging[v] = "mounted" THEN Effect(h) ELSE UNCHANGED overtaken
  BY Kept, Place DEF Unstage
<1>2. /\ PathsOK' /\ staging'[v] = "absent"
      /\ \A u \in Volumes : u # v => staging'[u] = staging[u]
  BY <1>1, StagingSet
<1>3. /\ overtaken \subseteq overtaken' /\ overtaken' \subseteq Volumes
      /\ staging[v] = "mounted" /\ ~ call[h].live => v \in overtaken'
  BY <1>1, Remembered
<1>4. \A u \in Volumes : u # v \/ ~ call[h].live \/ u \in overtaken => Untouched(u)
  BY <1>1, <1>2, <1>3 DEF Untouched
<1>5. ASSUME NEW u \in Volumes, u = v, call[h].live, v \notin overtaken PROVE VolumeOK(u)'
  <2>1. VolumeOK(u) /\ kube[u].dev = "uncertain"
    BY <1>1, <1>5 DEF Knows
  <2> QED
    BY <1>1, <1>2, <1>5, <2>1 DEF VolumeOK, Shows, Staged, Full
<1>6. \A u \in Volumes : Untouched(u) \/ (call[h].live /\ u = v /\ VolumeOK(u)')
  BY <1>4, <1>5
<1> QED
  BY <1>1, <1>2, <1>3, <1>6, WorkInv

(* What is mounted on the path of a pod is detected, unless a call given up has
   bound a directory. *)
LEMMA Seeing ==
  ASSUME IInv, NEW v \in Volumes, VolumeOK(v), target[v].mounts # <<>> PROVE Detected(v)
<1>1. target[v].mounts \in Stacks /\ Shows(target[v].mounts)
  BY Kept DEF PathsOK, Targets, VolumeOK
<1> QED
  BY <1>1, ShownOnTop DEF Detected

LEMMA PublishCheckInv == ASSUME NEW h \in Handlers PROVE IInv /\ PublishCheck(h) => IInv'
<1> SUFFICES ASSUME IInv, PublishCheck(h) PROVE IInv'
  OBVIOUS
<1> DEFINE v == call[h].v
           pc == IF AlreadyMounted(v) THEN "reply" ELSE "mount"
<1>1. /\ call[h].op = "publish" /\ call[h].pc = "check" /\ v \in Volumes
      /\ pc \in {"mount", "reply"} /\ Goto(h, pc)
      /\ target' = [target EXCEPT ![v].there = TRUE]
      /\ UNCHANGED <<raw, device>> /\ UNCHANGED kube /\ UNCHANGED <<staging, overtaken>> /\ CountersOK'
  BY Kept, Place DEF PublishCheck, EnsureTarget
<1>2. /\ call[h].live /\ v \notin overtaken /\ pc = "mount" => v \in raw \/ target[v].mounts = <<>>
      /\ pc = "reply" => target[v].mounts # <<>>
  BY <1>1, Place, Seeing DEF AlreadyMounted, Detected
<1> HIDE DEF pc
<1>3. /\ PathsOK' /\ \A u \in Volumes : target'[u].mounts = target[u].mounts
  <2>1. /\ target' \in [Volumes -> Targets]
        /\ \A u \in Volumes : target'[u].mounts = target[u].mounts
        /\ \A u \in Volumes : target'[u].mounts # <<>> => target'[u].there
    BY <1>1, PathMade
  <2> QED
    BY <1>1, <2>1, Kept DEF PathsOK
<1>4. \A u \in Volumes : Untouched(u)
  BY <1>1, <1>3 DEF Untouched
<1>5. overtaken \subseteq overtaken' /\ overtaken' \subseteq Volumes
  BY <1>1, Kept DEF SetsOK
<1> QED
  BY <1>1, <1>2, <1>3, <1>4, <1>5, WorkInv

(* The mounts on the path of a pod change. *)
LEMMA TargetSet ==
  ASSUME IInv, NEW v \in Volumes, NEW t \in Targets, t.mounts # <<>> => t.there,
         target' = [target EXCEPT ![v] = t], UNCHANGED staging
  PROVE  /\ PathsOK' /\ target'[v] = t
         /\ \A u \in Volumes : u # v => target'[u] = target[u]
<1>1. /\ target' \in [Volumes -> Targets] /\ target'[v] = t
      /\ \A u \in Volumes : u # v => target'[u] = target[u]
  BY Kept DEF PathsOK
<1>2. \A u \in Volumes : target'[u].mounts # <<>> => target'[u].there
  BY <1>1, Kept DEF PathsOK
<1> QED
  BY <1>1, <1>2, Kept DEF PathsOK

LEMMA PublishMountInv == ASSUME NEW h \in Handlers PROVE IInv /\ PublishMount(h) => IInv'
<1> SUFFICES ASSUME IInv, PublishMount(h) PROVE IInv'
  OBVIOUS
<1> DEFINE v == call[h].v
           shown == IF v \in raw \/ staging[v] = "mounted" THEN "volume" ELSE "empty dir"
           m == target[v].mounts
           k == <<shown>> \o m
<1>1. /\ call[h].op = "publish" /\ call[h].pc = "mount" /\ v \in Volumes
      /\ call[h].live /\ v \notin overtaken => Knows(h) /\ VolumeOK(v)
      /\ UNCHANGED <<raw, device>> /\ UNCHANGED staging /\ CountersOK'
  BY Kept, Place DEF PublishMount
<1>2. target[v] \in Targets /\ m \in Stacks
  BY <1>1, Kept DEF PathsOK, Targets
<1>3. CASE /\ target[v].there /\ Len(m) < MaxMounts
           /\ target' = [target EXCEPT ![v].mounts = k]
           /\ Goto(h, "reply") /\ Effect(h) /\ UNCHANGED kube
           /\ IF v \in raw THEN v \in device ELSE staging[v] # "absent"
  <2>1. /\ k \in Stacks /\ k # <<>> /\ Len(k) = Len(m) + 1
        /\ shown = "volume" /\ Shows(m) => Shows(k)
    BY <1>2, <1>3, Pushed DEF Marks
  <2>2. shown = "volume" <=> v \in raw \/ staging[v] = "mounted"
    OBVIOUS
  <2> HIDE DEF k, shown
  <2> DEFINE t == [target[v] EXCEPT !.mounts = k]
  <2>3. t \in Targets /\ t.mounts = k /\ t.there
    BY <1>2, <1>3, <2>1 DEF Targets
  <2>4. target' = [target EXCEPT ![v] = t]
    BY <1>1, <1>3, Kept DEF PathsOK
  <2> HIDE DEF t
  <2>5. /\ PathsOK' /\ target'[v].mounts = k
        /\ \A u \in Volumes : u # v => target'[u] = target[u]
    BY <1>1, <2>3, <2>4, TargetSet
  <2>6. /\ overtaken \subseteq overtaken' /\ overtaken' \subseteq Volumes
        /\ ~ call[h].live => v \in overtaken'
    BY <1>1, <1>3, Remembered
  <2>7. \A u \in Volumes : u # v \/ ~ call[h].live \/ u \in overtaken => Untouched(u)
    BY <1>1, <1>3, <2>5, <2>6 DEF Untouched
  <2>8. ASSUME NEW u \in Volumes, u = v, call[h].live, v \notin overtaken PROVE VolumeOK(u)'
    <3>1. VolumeOK(u) /\ kube[u].tgt = "uncertain"
          /\ (u \notin raw => kube[u].dev = "yes" /\ m = <<>>)
      BY <1>1, <2>8 DEF Knows, Full
    <3>2. Shows(m) /\ (u \notin raw => Staged(u) /\ u \in device)
      BY <2>8, <3>1 DEF VolumeOK
    <3>3. Shows(target'[u].mounts)
      BY <2>1, <2>2, <2>5, <2>8, <3>2 DEF Staged
    <3>4. u \notin raw => Len(target'[u].mounts) <= 1
      <4>1. u \notin raw => Len(m) = 0
        BY <3>1, NoMounts
      <4> QED
        BY <2>1, <2>5, <2>8, <4>1
    <3>5. target'[u].mounts # <<>>
      BY <2>1, <2>5, <2>8
    <3> HIDE DEF m
    <3> QED
      BY <1>1, <1>3, <3>1, <3>2, <3>3, <3>4, <3>5 DEF VolumeOK, Staged, Full
  <2>9. \A u \in Volumes : Untouched(u) \/ (call[h].live /\ u = v /\ VolumeOK(u)')
    BY <2>7, <2>8
  <2>10. target'[v].mounts # <<>>
    BY <2>1, <2>5
  <2> QED
    BY <1>1, <1>3, <2>5, <2>6, <2>9, <2>10, WorkInv
<1>4. CASE /\ target' = [target EXCEPT ![v].there = (v \notin raw \/ target[v].mounts # <<>>) /\ @]
           /\ Fail(h) /\ UNCHANGED overtaken
  <2> DEFINE b == (v \notin raw \/ target[v].mounts # <<>>) /\ target[v].there
  <2>1. target' = [target EXCEPT ![v].there = b]
    BY <1>1, <1>4, Kept DEF PathsOK
  <2>2. b \in BOOLEAN /\ (target[v].mounts # <<>> => b)
    BY <1>1, Kept DEF PathsOK
  <2> HIDE DEF b
  <2>3. /\ target' \in [Volumes -> Targets]
        /\ \A u \in Volumes : target'[u].mounts = target[u].mounts
        /\ \A u \in Volumes : target'[u].mounts # <<>> => target'[u].there
    BY <1>1, <2>1, <2>2, PathMade
  <2>4. PathsOK'
    BY <1>1, <2>3, Kept DEF PathsOK
  <2>5. call[h].live /\ v \notin overtaken /\ v \notin raw => ~ Full(v)
    BY <1>1 DEF Knows
  <2> QED
    BY <1>1, <1>4, <2>3, <2>4, <2>5, FailInv
<1> QED
  BY <1>3, <1>4 DEF PublishMount

LEMMA UnpublishInv == ASSUME NEW h \in Handlers PROVE IInv /\ Unpublish(h) => IInv'
<1> SUFFICES ASSUME IInv, Unpublish(h) PROVE IInv'
  OBVIOUS
<1> DEFINE v == call[h].v
           m == target[v].mounts
           left == IF Detected(v) THEN Tail(m) ELSE m
           t == [there |-> left # <<>>, mounts |-> left]
<1>1. /\ call[h].op = "unpublish" /\ call[h].pc = "unmount" /\ v \in Volumes
      /\ call[h].live /\ v \notin overtaken => Knows(h) /\ VolumeOK(v)
      /\ UNCHANGED <<raw, device>> /\ UNCHANGED staging /\ CountersOK'
      /\ target' = [target EXCEPT ![v] = t]
  BY Kept, Place DEF Unpublish
<1>2. m \in Stacks /\ Len(m) \in Nat /\ (m # <<>> => Len(m) # 0)
  BY <1>1, Kept, StackLen DEF PathsOK, Targets
<1>3. /\ left \in Stacks /\ (Shows(m) => Shows(left))
      /\ ~ Detected(v) => left = m
      /\ VolumeOK(v) /\ Len(m) <= 1 => left = <<>>
  <2>1. CASE Detected(v)
    <3>1. m # <<>> /\ left = Tail(m)
      BY <2>1 DEF Detected
    <3>2. /\ left \in Stacks /\ Len(left) = Len(m) - 1 /\ (Shows(m) => Shows(left))
      BY <1>2, <3>1, Popped
    <3> HIDE DEF left, m
    <3>3. Len(m) <= 1 => Len(left) = 0
      BY <1>2, <3>1, <3>2
    <3> QED
      BY <2>1, <3>2, <3>3, StackLen
  <2>2. CASE ~ Detected(v)
    BY <1>1, <1>2, <2>2, Seeing
  <2> QED
    BY <2>1, <2>2
<1>4. \/ left = <<>> /\ Goto(h, "reply") /\ UNCHANGED kube
      \/ left # <<>> /\ Fail(h)
  BY DEF Unpublish
<1>5. IF Detected(v) THEN Effect(h) ELSE UNCHANGED overtaken
  BY DEF Unpublish
<1> HIDE DEF left
<1>6. t \in Targets /\ t.mounts = left /\ (t.mounts # <<>> => t.there)
  BY <1>3 DEF Targets
<1> HIDE DEF t
<1>7. /\ PathsOK' /\ target'[v].mounts = left
      /\ \A u \in Volumes : u # v => target'[u] = target[u]
  BY <1>1, <1>6, TargetSet
<1>8. /\ overtaken \subseteq overtaken' /\ overtaken' \subseteq Volumes
      /\ Detected(v) /\ ~ call[h].live => v \in overtaken'
  BY <1>1, <1>5, Remembered
<1> HIDE DEF m
<1>9. CASE left = <<>> /\ Goto(h, "reply") /\ UNCHANGED kube
  <2>1. \A u \in Volumes : u # v \/ ~ call[h].live \/ u \in overtaken => Untouched(u)
    BY <1>1, <1>3, <1>7, <1>8, <1>9 DEF Untouched, m
  <2>2. ASSUME NEW u \in Volumes, u = v, call[h].live, v \notin overtaken PROVE VolumeOK(u)'
    <3>1. VolumeOK(u) /\ kube[u].tgt = "uncertain"
      BY <1>1, <2>2 DEF Knows
    <3>2. /\ target'[u].mounts = <<>> /\ Shows(target'[u].mounts) /\ Len(target'[u].mounts) = 0
      BY <1>7, <1>9, <2>2, NoMounts
    <3> QED
      BY <1>1, <1>9, <3>1, <3>2 DEF VolumeOK, Staged, Full
  <2>3. \A u \in Volumes : Untouched(u) \/ (call[h].live /\ u = v /\ VolumeOK(u)')
    BY <2>1, <2>2
  <2> QED
    BY <1>1, <1>7, <1>8, <1>9, <2>3, WorkInv
<1>10. CASE left # <<>> /\ Fail(h)
  <2>1. Return(h) /\ Tell(h, "uncertain")
    BY <1>1, <1>10 DEF Fail
  <2>2. /\ call' \in [Handlers -> Calls] /\ HandlerOK(h)' /\ ~ call'[h].live
        /\ \A g \in Handlers : Rests(g)
    BY <2>1, Returned
  <2>3. /\ kube' \in [Volumes -> Records]
        /\ \A u \in Volumes : u # v \/ ~ call[h].live => kube'[u] = kube[u]
        /\ call[h].live => kube'[v].tgt = "uncertain" /\ kube'[v].dev = kube[v].dev
    BY <1>1, <2>1, Told
  <2>4. TypeOK'
    BY <1>1, <1>7, <1>8, <2>2, <2>3, Kept, TypeMade DEF SetsOK
  <2>5. \A u \in Volumes : u # v \/ ~ call[h].live \/ u \in overtaken => Untouched(u)
    BY <1>1, <1>3, <1>7, <1>8, <2>3 DEF Untouched, m
  <2>6. ASSUME NEW u \in Volumes, u = v, call[h].live, v \notin overtaken PROVE VolumeOK(u)'
    <3>1. VolumeOK(u) /\ (u \notin raw => Len(m) <= 1) /\ Shows(m)
      BY <1>1, <2>6 DEF VolumeOK, m
    <3>2. u \in raw /\ Shows(target'[u].mounts)
      BY <1>3, <1>7, <1>10, <2>6, <3>1
    <3>3. kube'[u].tgt = "uncertain"
      BY <2>3, <2>6
    <3> QED
      BY <1>1, <3>2, <3>3 DEF VolumeOK
  <2>7. \A u \in Volumes : Untouched(u) \/ (call[h].live /\ u = v /\ VolumeOK(u)')
    BY <2>5, <2>6
  <2> QED
    BY <1>1, <1>8, <2>2, <2>4, <2>7, OneMoves
<1> QED
  BY <1>4, <1>9, <1>10

LEMMA ReplyInv == ASSUME NEW h \in Handlers PROVE IInv /\ Reply(h) => IInv'
<1> SUFFICES ASSUME IInv, Reply(h) PROVE IInv'
  OBVIOUS
<1> DEFINE v == call[h].v
           a == IF call[h].op \in {"stage", "publish"} THEN "yes" ELSE "no"
<1>1. /\ call[h].pc = "reply" /\ Return(h) /\ Tell(h, a) /\ a \in {"no", "uncertain", "yes"}
      /\ UNCHANGED <<raw, device, overtaken>> /\ UNCHANGED <<staging, target>> /\ CountersOK'
  BY Kept DEF Reply
<1>2. /\ v \in Volumes
      /\ call[h].op \in {"stage", "publish", "unpublish", "unstage"}
      /\ call[h].live /\ v \notin overtaken => Knows(h) /\ VolumeOK(v)
  BY <1>1, Place
<1>3. \/ a = "yes" /\ call[h].op \in {"stage", "publish"}
      \/ a = "no" /\ call[h].op \in {"unstage", "unpublish"}
  BY <1>2
<1> HIDE DEF a
<1>4. /\ call' \in [Handlers -> Calls] /\ HandlerOK(h)' /\ ~ call'[h].live
      /\ \A g \in Handlers : Rests(g)
  BY <1>1, Returned
<1>5. /\ kube' \in [Volumes -> Records]
      /\ \A u \in Volumes : u # v \/ ~ call[h].live => kube'[u] = kube[u]
      /\ call[h].live /\ call[h].op \in {"stage", "unstage"} =>
           kube'[v].dev = a /\ kube'[v].tgt = kube[v].tgt
      /\ call[h].live /\ call[h].op \in {"publish", "unpublish"} =>
           kube'[v].tgt = a /\ kube'[v].dev = kube[v].dev
  BY <1>1, Told
<1>6. TypeOK'
  BY <1>1, <1>4, <1>5, Kept, TypeMade
<1>7. \A u \in Volumes : u # v \/ ~ call[h].live \/ u \in overtaken => Untouched(u)
  BY <1>1, <1>5 DEF Untouched
<1>8. ASSUME NEW u \in Volumes, u = v, call[h].live, v \notin overtaken PROVE VolumeOK(u)'
  <2>1. Knows(h) /\ VolumeOK(u)
    BY <1>2, <1>8
  <2>2. kube'[u].tgt = "yes" => Full(u)
    BY <1>1, <1>3, <1>5, <1>8, <2>1 DEF Knows, VolumeOK
  <2>3. u \notin raw => /\ Staged(u) => kube'[u].dev # "no"
                        /\ Full(u) => kube'[u].tgt # "no"
                        /\ kube'[u].dev = "yes" => Staged(u)
    BY <1>1, <1>3, <1>5, <1>8, <2>1 DEF Knows, VolumeOK
  <2> QED
    BY <1>1, <2>1, <2>2, <2>3 DEF VolumeOK, Shows, Staged, Full
<1>9. \A u \in Volumes : Untouched(u) \/ (call[h].live /\ u = v /\ VolumeOK(u)')
  BY <1>7, <1>8
<1> QED
  BY <1>1, <1>4, <1>6, <1>9, OneMoves
-----------------------------------------------------------------------------
(* Every step of the specification keeps the invariant. *)
LEMMA InvNext == IInv /\ [Next]_vars => IInv'
<1> SUFFICES ASSUME IInv, [Next]_vars PROVE IInv'
  OBVIOUS
<1>1. CASE UNCHANGED vars
  <2>1. /\ UNCHANGED <<raw, overtaken, staging, target, kube>> /\ UNCHANGED device
        /\ UNCHANGED call /\ UNCHANGED <<faults, moves>>
    BY <1>1 DEF vars
  <2> QED
    BY <2>1, Kept, QuietStep DEF SetsOK
<1>2. CASE DriverRestarts \/ NodeRestarts
  BY <1>2, DriverRestartsInv, NodeRestartsInv
<1>3. ASSUME NEW h \in Handlers,
             HandlerStep(h) \/ MountFails(h) \/ UnmountFails(h) \/ Cancel(h)
      PROVE  IInv'
  BY <1>3, StageCheckInv, StageMountInv, PublishCheckInv, PublishMountInv, NoDeviceInv,
     UnstageInv, UnpublishInv, ReplyInv, MountFailsInv, UnmountFailsInv, CancelInv DEF HandlerStep
<1>4. ASSUME NEW h \in Handlers, NEW v \in Volumes, KubeletCall(h, v) PROVE IInv'
  BY <1>4, KubeletCallInv
<1>5. ASSUME NEW v \in Volumes, Attach(v) \/ Detach(v) \/ PodComesOrGoes(v) PROVE IInv'
  BY <1>5, AttachInv, DetachInv, PodComesOrGoesInv
<1> QED
  BY <1>1, <1>2, <1>3, <1>4, <1>5, Zenon DEF Next

LEMMA Invariance == Spec => []IInv
  BY InvInit, InvNext, PTL DEF Spec

(* Every variable keeps its type: in particular there is no mount on a path
   that is not there (nodeserver.go:45-241). *)
THEOREM TypeCorrect == Spec => []TypeOK
<1>1. IInv => TypeOK
  BY DEF IInv
<1> QED
  BY <1>1, Invariance, PTL

(* A pod that has its volume sees it, unless a call given up ran too late
   (nodeserver.go:80-142). *)
THEOREM PodSees == Spec => []PodSeesVolume
<1>1. ASSUME IInv PROVE PodSeesVolume
  <2> SUFFICES ASSUME NEW v \in Volumes \ overtaken, kube[v].tgt = "yes"
               PROVE  target[v].mounts # <<>> /\ Head(target[v].mounts) = "volume"
    BY DEF PodSeesVolume
  <2>1. target[v].mounts \in Stacks /\ target[v].mounts # <<>> /\ Shows(target[v].mounts)
    BY <1>1, Kept DEF IInv, VolumeOK, Full, PathsOK, Targets
  <2> QED
    BY <2>1, ShownOnTop
<1> QED
  BY <1>1, Invariance, PTL

(* A file system is on the path of a pod at most once, unless a call given up
   ran too late (nodeserver.go:80-98, 194-216). *)
THEOREM OnePerPod == Spec => []MountedOnce
<1>1. IInv => MountedOnce
  BY DEF IInv, VolumeOK, MountedOnce
<1> QED
  BY <1>1, Invariance, PTL

(* With the same exception, no file system stays mounted of a device that has
   left the node (nodeserver.go:144-162, 222-241). *)
THEOREM LeavesUnmounted == Spec => []MountedWhileAttached
<1>1. IInv => MountedWhileAttached
  BY DEF IInv, VolumeOK, Staged, Full, MountedWhileAttached
<1> QED
  BY <1>1, Invariance, PTL
-----------------------------------------------------------------------------
(* The refinement of the abstract node service *)

Places == {"staging", "pod"}

(* Maps of maps that differ in one place, or in one volume's part. *)
LEMMA NestedChange ==
  ASSUME NEW V, NEW P, NEW f, NEW g, NEW v \in V, NEW p \in P,
         f = [w \in V |-> [q \in P |-> f[w][q]]],
         g = [w \in V |-> [q \in P |-> g[w][q]]],
         \A w \in V, q \in P : w # v \/ q # p => g[w][q] = f[w][q]
  PROVE  g = [f EXCEPT ![v][p] = g[v][p]]
<1> DEFINE k == [f EXCEPT ![v][p] = g[v][p]]
<1>1. k = [w \in V |-> IF w = v THEN [f[v] EXCEPT ![p] = g[v][p]] ELSE f[w]]
  OBVIOUS
<1>2. [f[v] EXCEPT ![p] = g[v][p]] = g[v]
  <2>1. f[v] = [q \in P |-> f[v][q]] /\ g[v] = [q \in P |-> g[v][q]]
    OBVIOUS
  <2>2. \A q \in P : q # p => g[v][q] = f[v][q]
    OBVIOUS
  <2> QED
    BY <2>1, <2>2
<1>3. ASSUME NEW w \in V, w # v PROVE f[w] = g[w]
  <2>1. f[w] = [q \in P |-> f[w][q]] /\ g[w] = [q \in P |-> g[w][q]]
    OBVIOUS
  <2>2. \A q \in P : g[w][q] = f[w][q]
    BY <1>3
  <2> QED
    BY <2>1, <2>2
<1> QED
  BY <1>1, <1>2, <1>3

LEMMA OuterChange ==
  ASSUME NEW V, NEW P, NEW f, NEW g, NEW v \in V,
         f = [w \in V |-> [q \in P |-> f[w][q]]],
         g = [w \in V |-> [q \in P |-> g[w][q]]],
         \A w \in V, q \in P : w # v => g[w][q] = f[w][q]
  PROVE  g = [f EXCEPT ![v] = g[v]]
<1>1. ASSUME NEW w \in V, w # v PROVE f[w] = g[w]
  <2>1. f[w] = [q \in P |-> f[w][q]] /\ g[w] = [q \in P |-> g[w][q]]
    OBVIOUS
  <2>2. \A q \in P : g[w][q] = f[w][q]
    BY <1>1
  <2> QED
    BY <2>1, <2>2
<1> QED
  BY <1>1

(* The mapped variables. *)
SeenMap == [v \in Volumes |-> [p \in Places |-> Seen(v, p)]]
KnownMap == [v \in Volumes |-> [p \in Places |-> Known(v, p)]]

Still(v) == \A p \in Places : UNCHANGED <<Seen(v, p), Known(v, p)>>

(* What is mounted for the pod has been staged before: the pod's record leaves
   "no" only while that of the staging path is "yes". *)
Ordered == \A v \in Volumes \ (overtaken \union raw) : kube[v].tgt # "no" => kube[v].dev = "yes"

LEMMA MapTypes ==
  ASSUME IInv, NEW v \in Volumes
  PROVE  /\ \A p \in Places : Seen(v, p) \in Mounts!Seen /\ Known(v, p) \in Mounts!Records
         /\ v # None
         /\ v \notin overtaken \union raw =>
              /\ \A p \in Places : Seen(v, p) \in {v, None}
              /\ Full(v) => Seen(v, "pod") = v
<1>1. Seen(v, "staging") \in {v, None} /\ Known(v, "staging") = kube[v].dev
  BY DEF Seen, Known
<1>2. Seen(v, "pod") \in {v, None, "empty dir"} /\ Known(v, "pod") = kube[v].tgt
  BY DEF Seen, Known
<1>3. kube[v].dev \in Mounts!Records /\ kube[v].tgt \in Mounts!Records
  BY DEF IInv, TypeOK, Records, Mounts!Records
<1>4. v # None
  BY NoneAssumption
<1>5. ASSUME v \notin overtaken \union raw PROVE Seen(v, "pod") = IF Full(v) THEN v ELSE None
  <2> DEFINE m == target[v].mounts
  <2>1. m \in Stacks /\ Shows(m)
    BY <1>5, Parts DEF IInv, VolumeOK, PathsOK, Targets
  <2> HIDE DEF m
  <2>2. CASE m = <<>>
    BY <2>2 DEF Seen, Full, m
  <2>3. CASE m # <<>>
    <3>1. Head(m) = "volume"
      BY <2>1, <2>3, ShownOnTop
    <3> QED
      BY <2>3, <3>1 DEF Seen, Full, m
  <2> QED
    BY <2>2, <2>3
<1> QED
  BY <1>1, <1>2, <1>3, <1>4, <1>5 DEF Places, Mounts!Seen

SeenOK == \A v \in Volumes, p \in Places : Seen(v, p) \in Mounts!Seen /\ Known(v, p) \in Mounts!Records

LEMMA SeenTypes == IInv => SeenOK
  BY MapTypes DEF SeenOK

OwnOK ==
  \A v \in Volumes \ (overtaken \union raw) :
    /\ \A p \in Places : Seen(v, p) \in {v, None}
    /\ Full(v) => Seen(v, "pod") = v

LEMMA OwnSeen == IInv => OwnOK
  BY MapTypes DEF OwnOK

LEMMA MountsInit == Init => Mounts!Init
<1> SUFFICES ASSUME Init PROVE Mounts!Init
  OBVIOUS
<1>1. \A v \in Volumes, p \in Places : Seen(v, p) = None /\ Known(v, p) = "no"
  BY DEF Init, Seen, Known
<1> QED
  BY <1>1 DEF Init, Mounts!Init, Mounts!Paths, Mounts!Seen, Places

LEMMA MountsStill ==
  ASSUME \A v \in Volumes : Still(v), UNCHANGED <<raw, device, overtaken>>
  PROVE  UNCHANGED Mounts!vars
<1>1. SeenMap' = SeenMap
  BY DEF SeenMap, Still
<1>2. KnownMap' = KnownMap
  BY DEF KnownMap, Still
<1> QED
  BY <1>1, <1>2 DEF Mounts!vars, SeenMap, KnownMap, Places

(* A volume that is excused by now. *)
LEMMA MountsStray ==
  ASSUME IInv', NEW v \in Volumes, \A u \in Volumes \ {v} : Still(u), UNCHANGED <<raw, device>>,
         overtaken' \union raw = overtaken \union raw \union {v}
  PROVE  Mounts!Stray(v)
<1>1. SeenMap' = [SeenMap EXCEPT ![v] = SeenMap'[v]]
  <2>1. \A w \in Volumes, q \in Places : w # v => SeenMap'[w][q] = SeenMap[w][q]
    BY DEF SeenMap, Still
  <2>2. /\ SeenMap = [w \in Volumes |-> [q \in Places |-> SeenMap[w][q]]]
        /\ SeenMap' = [w \in Volumes |-> [q \in Places |-> SeenMap'[w][q]]]
    BY DEF SeenMap
  <2> QED
    BY <2>1, <2>2, OuterChange
<1>2. KnownMap' = [KnownMap EXCEPT ![v] = KnownMap'[v]]
  <2>1. \A w \in Volumes, q \in Places : w # v => KnownMap'[w][q] = KnownMap[w][q]
    BY DEF KnownMap, Still
  <2>2. /\ KnownMap = [w \in Volumes |-> [q \in Places |-> KnownMap[w][q]]]
        /\ KnownMap' = [w \in Volumes |-> [q \in Places |-> KnownMap'[w][q]]]
    BY DEF KnownMap
  <2> QED
    BY <2>1, <2>2, OuterChange
<1>3. SeenOK'
  BY SeenTypes, PTL
<1>4. SeenMap'[v] \in [Places -> Mounts!Seen] /\ KnownMap'[v] \in [Places -> Mounts!Records]
  BY <1>3 DEF SeenOK, SeenMap, KnownMap
<1> DEFINE m == SeenMap'[v]
           r == KnownMap'[v]
<1>5. m \in [Places -> Mounts!Seen] /\ SeenMap' = [SeenMap EXCEPT ![v] = m]
  BY <1>1, <1>4
<1>6. r \in [Places -> Mounts!Records] /\ KnownMap' = [KnownMap EXCEPT ![v] = r]
  BY <1>2, <1>4
<1> HIDE DEF m, r
<1> QED
  BY <1>5, <1>6 DEF Mounts!Stray, Mounts!Paths, Places, SeenMap, KnownMap

(* The mount at one path changes, while a call on it is under way. *)
LEMMA MountsPut ==
  ASSUME IInv, IInv', Ordered, NEW v \in Volumes \ (overtaken \union raw), NEW p \in Places,
         \A u \in Volumes \ {v} : Still(u), UNCHANGED <<raw, device, overtaken>>,
         \A q \in Places : UNCHANGED Known(v, q),
         \A q \in Places \ {p} : UNCHANGED Seen(v, q),
         Known(v, p) = "uncertain"
  PROVE  [Mounts!Next]_(Mounts!vars)
<1>1. CASE UNCHANGED Seen(v, p)
  <2>1. Still(v)
    BY <1>1 DEF Still
  <2> QED
    BY <2>1, MountsStill
<1>2. CASE ~ UNCHANGED Seen(v, p)
  <2>1. SeenMap' = [SeenMap EXCEPT ![v][p] = SeenMap'[v][p]]
    <3>1. \A w \in Volumes, q \in Places : w # v \/ q # p => SeenMap'[w][q] = SeenMap[w][q]
      BY DEF SeenMap, Still
    <3>2. /\ SeenMap = [w \in Volumes |-> [q \in Places |-> SeenMap[w][q]]]
          /\ SeenMap' = [w \in Volumes |-> [q \in Places |-> SeenMap'[w][q]]]
      BY DEF SeenMap
    <3> QED
      BY <3>1, <3>2, NestedChange
  <2>2. KnownMap' = KnownMap
    BY DEF KnownMap, Still
  <2>3. Seen(v, p)' \in {v, None} /\ Seen(v, p) \in {v, None}
    <3>1. OwnOK /\ OwnOK'
      BY OwnSeen, PTL
    <3> QED
      BY <3>1 DEF OwnOK
  <2>4. SeenMap'[v][p] = Seen(v, p)' /\ SeenMap[v][p] = Seen(v, p) /\ KnownMap[v][p] = "uncertain"
    BY DEF SeenMap, KnownMap
  <2>5. CASE Seen(v, p)' = None
    <3>1. SeenMap' = [SeenMap EXCEPT ![v][p] = None]
      BY <2>1, <2>4, <2>5
    <3>2. Mounts!Unmount(v, p)
      BY <2>2, <2>4, <3>1 DEF Mounts!Unmount, Mounts!Put, SeenMap, KnownMap, Places
    <3> QED
      BY <3>2 DEF Mounts!Next, Mounts!Paths, Places
  <2>6. CASE Seen(v, p)' = v
    <3>1. SeenMap' = [SeenMap EXCEPT ![v][p] = v] /\ SeenMap[v][p] = None
      BY <1>2, <2>1, <2>3, <2>4, <2>6
    <3>2. v \in device
      <4>1. VolumeOK(v)' /\ v # None
        BY NoneAssumption DEF IInv
      <4> QED
        BY <2>6, <4>1 DEF VolumeOK, Seen, Staged, Full
    <3>3. p = "pod" => KnownMap[v]["staging"] = "yes"
      BY DEF Ordered, Known, KnownMap, Places
    <3>4. [w \in Volumes |-> w][v] = v
      OBVIOUS
    <3>5. Mounts!Mount(v, p)
      BY <2>2, <2>4, <3>1, <3>2, <3>3, <3>4
         DEF Mounts!Mount, Mounts!Put, SeenMap, KnownMap, Places
    <3> QED
      BY <3>5 DEF Mounts!Next, Mounts!Paths, Places
  <2> QED
    BY <2>3, <2>5, <2>6
<1> QED
  BY <1>1, <1>2

(* What the kubelet has recorded of one path changes: a call on it starts, or
   ends, and then the answer is true. *)
LEMMA MountsWrite ==
  ASSUME IInv, IInv', NEW v \in Volumes \ (overtaken \union raw), NEW p \in Places,
         \A u \in Volumes \ {v} : Still(u), UNCHANGED <<raw, device, overtaken>>,
         \A q \in Places : UNCHANGED Seen(v, q),
         \A q \in Places \ {p} : UNCHANGED Known(v, q),
         \/ Known(v, p) = "uncertain"
         \/ /\ Known(v, p)' = "uncertain"
            /\ IF p = "pod" THEN kube[v].dev = "yes" ELSE kube[v].tgt = "no"
  PROVE  [Mounts!Next]_(Mounts!vars)
<1>1. CASE UNCHANGED Known(v, p)
  <2>1. Still(v)
    BY <1>1 DEF Still
  <2> QED
    BY <2>1, MountsStill
<1>2. CASE ~ UNCHANGED Known(v, p)
  <2>1. KnownMap' = [KnownMap EXCEPT ![v][p] = KnownMap'[v][p]]
    <3>1. \A w \in Volumes, q \in Places : w # v \/ q # p => KnownMap'[w][q] = KnownMap[w][q]
      BY DEF KnownMap, Still
    <3>2. /\ KnownMap = [w \in Volumes |-> [q \in Places |-> KnownMap[w][q]]]
          /\ KnownMap' = [w \in Volumes |-> [q \in Places |-> KnownMap'[w][q]]]
      BY DEF KnownMap
    <3> QED
      BY <3>1, <3>2, NestedChange
  <2>2. SeenMap' = SeenMap
    BY DEF SeenMap, Still
  <2>3. /\ KnownMap'[v][p] = Known(v, p)' /\ SeenMap[v][p] = Seen(v, p)
        /\ \A q \in Places : KnownMap[v][q] = Known(v, q)
    BY DEF SeenMap, KnownMap
  <2>4. Known(v, p)' \in {"no", "uncertain", "yes"} /\ Seen(v, p) \in {v, None} /\ v # None
    <3>1. OwnOK /\ SeenOK'
      BY OwnSeen, SeenTypes, PTL
    <3> QED
      BY <3>1, NoneAssumption DEF OwnOK, SeenOK, Mounts!Records
  <2>5. CASE Known(v, p)' = "uncertain"
    <3>1. KnownMap' = [KnownMap EXCEPT ![v][p] = "uncertain"]
      BY <2>1, <2>3, <2>5
    <3>2. /\ p = "staging" => KnownMap[v]["pod"] = "no"
          /\ p = "pod" => KnownMap[v]["staging"] = "yes"
      BY <1>2, <2>5 DEF KnownMap, Known, Places
    <3>3. Mounts!Ask(v, p)
      BY <2>2, <3>1, <3>2 DEF Mounts!Ask, Mounts!Write, SeenMap, KnownMap, Places
    <3> QED
      BY <3>3 DEF Mounts!Next, Mounts!Paths, Places
  <2>6. CASE Known(v, p)' = "yes"
    <3>1. KnownMap' = [KnownMap EXCEPT ![v][p] = "yes"] /\ KnownMap[v][p] = "uncertain"
      BY <2>1, <2>3, <2>6
    <3>2. Seen(v, p) = v
      <4>1. VolumeOK(v)'
        BY DEF IInv
      <4>2. CASE p = "staging"
        BY <2>6, <4>1, <4>2 DEF VolumeOK, Seen, Known, Staged
      <4>3. CASE p = "pod"
        <5>1. OwnOK'
          BY OwnSeen, PTL
        <5>2. Full(v)'
          BY <2>6, <4>1, <4>3 DEF VolumeOK, Known
        <5> QED
          BY <4>3, <5>1, <5>2 DEF OwnOK
      <4> QED
        BY <4>2, <4>3 DEF Places
    <3>3. [w \in Volumes |-> w][v] = v
      OBVIOUS
    <3>4. Mounts!Done(v, p)
      BY <2>2, <2>3, <2>4, <3>1, <3>2, <3>3 DEF Mounts!Done, Mounts!Write, SeenMap, KnownMap, Places
    <3> QED
      BY <3>4 DEF Mounts!Next, Mounts!Paths, Places
  <2>7. CASE Known(v, p)' = "no"
    <3>1. KnownMap' = [KnownMap EXCEPT ![v][p] = "no"] /\ KnownMap[v][p] = "uncertain"
      BY <2>1, <2>3, <2>7
    <3>2. Seen(v, p) = None
      <4>1. VolumeOK(v)'
        BY DEF IInv
      <4>2. Seen(v, p)' = None
        BY <2>7, <4>1 DEF VolumeOK, Seen, Known, Staged, Full, Places
      <4> QED
        BY <4>2
    <3>3. Mounts!Undone(v, p)
      BY <2>2, <2>3, <3>1, <3>2 DEF Mounts!Undone, Mounts!Write, SeenMap, KnownMap, Places
    <3> QED
      BY <3>3 DEF Mounts!Next, Mounts!Paths, Places
  <2> QED
    BY <2>4, <2>5, <2>6, <2>7
<1> QED
  BY <1>1, <1>2

(* A step of a handler, for the volume and the path its call is about. *)
Works(h, v, p) ==
  /\ UNCHANGED <<raw, device>>
  /\ overtaken' \in {overtaken, overtaken \union {v}}
  /\ \A u \in Volumes, q \in Places : u # v \/ q # p => UNCHANGED <<Seen(u, q), Known(u, q)>>
  /\ \/ v \in overtaken' \union raw
     \/ UNCHANGED <<Seen(v, p), Known(v, p)>>
     \/ call[h].live /\ (UNCHANGED Seen(v, p) \/ UNCHANGED Known(v, p))

(* The path a call is about. *)
About(h, v, p) ==
  /\ call[h].pc # "idle" /\ v = call[h].v
  /\ p = IF call[h].op \in {"stage", "unstage"} THEN "staging" ELSE "pod"

LEMMA UncertainPart ==
  ASSUME IInv, NEW h \in Handlers, NEW v \in Volumes, NEW p, About(h, v, p),
         call[h].live, v \notin overtaken
  PROVE  Known(v, p) = "uncertain"
<1>1. Knows(h) /\ call[h].op \in {"stage", "publish", "unpublish", "unstage"}
  BY Place DEF About
<1> QED
  BY <1>1 DEF About, Knows, Known

LEMMA MountsHandler ==
  ASSUME IInv, IInv', Ordered, NEW h \in Handlers, NEW v \in Volumes, NEW p \in Places,
         About(h, v, p), Works(h, v, p)
  PROVE  [Mounts!Next]_(Mounts!vars)
<1>1. \A u \in Volumes \ {v} : Still(u)
  BY DEF Works, Still
<1>2. UNCHANGED <<raw, device>> /\ overtaken' \in {overtaken, overtaken \union {v}}
  BY DEF Works
<1>3. \A q \in Places \ {p} : UNCHANGED Seen(v, q) /\ UNCHANGED Known(v, q)
  BY DEF Works
<1>4. CASE v \in overtaken' \union raw
  <2>1. CASE overtaken' \union raw = overtaken \union raw \union {v}
    <3>1. Mounts!Stray(v)
      BY <1>1, <1>2, <2>1, MountsStray
    <3> QED
      BY <3>1 DEF Mounts!Next
  <2>2. CASE overtaken' \union raw # overtaken \union raw \union {v}
    BY <1>2, <1>4, <2>2
  <2> QED
    BY <2>1, <2>2
<1>5. CASE v \notin overtaken' \union raw
  <2>1. UNCHANGED overtaken /\ v \notin overtaken \union raw
    BY <1>2, <1>5
  <2>2. CASE UNCHANGED <<Seen(v, p), Known(v, p)>>
    <3>1. \A u \in Volumes : Still(u)
      BY <2>2, <1>1, <1>3 DEF Still
    <3> QED
      BY <1>2, <2>1, <3>1, MountsStill
  <2>3. CASE call[h].live /\ UNCHANGED Known(v, p)
    <3>1. Known(v, p) = "uncertain" /\ \A q \in Places : UNCHANGED Known(v, q)
      BY <1>3, <2>1, <2>3, UncertainPart
    <3>2. \A q \in Places \ {p} : UNCHANGED Seen(v, q)
      BY <1>3
    <3> QED
      BY <1>1, <1>2, <2>1, <3>1, <3>2, MountsPut
  <2>4. CASE call[h].live /\ UNCHANGED Seen(v, p)
    <3>1. Known(v, p) = "uncertain" /\ \A q \in Places : UNCHANGED Seen(v, q)
      BY <1>3, <2>1, <2>4, UncertainPart
    <3>2. \A q \in Places \ {p} : UNCHANGED Known(v, q)
      BY <1>3
    <3> QED
      BY <1>1, <1>2, <2>1, <3>1, <3>2, MountsWrite
  <2> QED
    BY <1>5, <2>2, <2>3, <2>4 DEF Works
<1> QED
  BY <1>4, <1>5

LEMMA OrderedHandler ==
  ASSUME IInv, Ordered, NEW h \in Handlers, NEW v \in Volumes, NEW p \in Places,
         About(h, v, p), Works(h, v, p)
  PROVE  Ordered'
<1> SUFFICES ASSUME NEW u \in Volumes, u \notin overtaken' \union raw', kube'[u].tgt # "no"
             PROVE  kube'[u].dev = "yes"
  BY DEF Ordered
<1>1. u \notin overtaken \union raw /\ (kube[u].tgt # "no" => kube[u].dev = "yes")
  BY DEF Works, Ordered
<1>2. /\ UNCHANGED Known(u, "staging") => kube'[u].dev = kube[u].dev
      /\ UNCHANGED Known(u, "pod") => kube'[u].tgt = kube[u].tgt
  BY DEF Known
<1>3. CASE u # v
  <2>1. UNCHANGED Known(u, "staging") /\ UNCHANGED Known(u, "pod")
    BY <1>3 DEF Works, Places
  <2> QED
    BY <1>1, <1>2, <2>1
<1>4. CASE u = v
  <2>1. \A q \in Places : q # p => UNCHANGED Known(v, q)
    BY DEF Works
  <2>2. CASE UNCHANGED Known(v, p)
    <3>1. UNCHANGED Known(u, "staging") /\ UNCHANGED Known(u, "pod")
      BY <1>4, <2>1, <2>2 DEF Places
    <3> QED
      BY <1>1, <1>2, <3>1
  <2>3. CASE ~ UNCHANGED Known(v, p)
    <3>1. call[h].live
      BY <1>4, <2>3 DEF Works
    <3>2. Known(v, p) = "uncertain"
      BY <1>1, <1>4, <3>1, UncertainPart
    <3>3. CASE p = "staging"
      <4>1. kube[v].dev = "uncertain" /\ UNCHANGED Known(v, "pod")
        BY <2>1, <3>2, <3>3 DEF Known, Places
      <4> QED
        BY <1>1, <1>2, <1>4, <4>1
    <3>4. CASE p = "pod"
      <4>1. kube[v].tgt = "uncertain" /\ UNCHANGED Known(v, "staging")
        BY <2>1, <3>2, <3>4 DEF Known, Places
      <4> QED
        BY <1>1, <1>2, <1>4, <4>1
    <3> QED
      BY <3>3, <3>4 DEF Places
  <2> QED
    BY <2>2, <2>3
<1> QED
  BY <1>3, <1>4

LEMMA Sames ==
  ASSUME NEW u
  PROVE  /\ (staging'[u] = "mounted" <=> staging[u] = "mounted") => UNCHANGED Seen(u, "staging")
         /\ target'[u].mounts = target[u].mounts => UNCHANGED Seen(u, "pod")
         /\ kube'[u].dev = kube[u].dev => UNCHANGED Known(u, "staging")
         /\ kube'[u].tgt = kube[u].tgt => UNCHANGED Known(u, "pod")
  BY DEF Seen, Known

(* The three kinds of steps: the mount at the staging path changes, the mounts
   at the pod's path do, or the kubelet is told. *)
LEMMA StagingWorks ==
  ASSUME IInv, NEW h \in Handlers, NEW v \in Volumes,
         UNCHANGED <<raw, device>>, UNCHANGED target, UNCHANGED kube,
         overtaken' \in {overtaken, overtaken \union {v}},
         \A u \in Volumes : u # v => (staging'[u] = "mounted" <=> staging[u] = "mounted"),
         \/ v \in overtaken' \/ call[h].live
         \/ staging'[v] = "mounted" <=> staging[v] = "mounted"
  PROVE  Works(h, v, "staging")
<1>1. \A u \in Volumes, q \in Places : UNCHANGED Known(u, q) /\ UNCHANGED Seen(u, "pod")
  BY DEF Known, Seen
<1>2. \A u \in Volumes : u # v => UNCHANGED Seen(u, "staging")
  BY Sames
<1>3. v \in overtaken' \/ call[h].live \/ UNCHANGED Seen(v, "staging")
  BY Sames
<1>4. \A u \in Volumes, q \in Places : u # v \/ q # "staging" => UNCHANGED <<Seen(u, q), Known(u, q)>>
  BY <1>1, <1>2 DEF Places
<1>5. UNCHANGED Known(v, "staging")
  BY <1>1 DEF Places
<1> QED
  BY <1>3, <1>4, <1>5 DEF Works

LEMMA PodWorks ==
  ASSUME IInv, NEW h \in Handlers, NEW v \in Volumes,
         UNCHANGED <<raw, device>>, UNCHANGED staging, UNCHANGED kube,
         overtaken' \in {overtaken, overtaken \union {v}},
         \A u \in Volumes : u # v => target'[u].mounts = target[u].mounts,
         v \in overtaken' \/ call[h].live \/ target'[v].mounts = target[v].mounts
  PROVE  Works(h, v, "pod")
<1>1. \A u \in Volumes, q \in Places : UNCHANGED Known(u, q) /\ UNCHANGED Seen(u, "staging")
  BY DEF Known, Seen
<1>2. \A u \in Volumes : u # v => UNCHANGED Seen(u, "pod")
  BY Sames
<1>3. v \in overtaken' \/ call[h].live \/ UNCHANGED Seen(v, "pod")
  BY Sames
<1>4. \A u \in Volumes, q \in Places : u # v \/ q # "pod" => UNCHANGED <<Seen(u, q), Known(u, q)>>
  BY <1>1, <1>2 DEF Places
<1>5. UNCHANGED Known(v, "pod")
  BY <1>1 DEF Places
<1> QED
  BY <1>3, <1>4, <1>5 DEF Works

LEMMA AnswerWorks ==
  ASSUME IInv, NEW h \in Handlers, NEW v \in Volumes, NEW p \in Places, About(h, v, p),
         NEW a \in {"no", "uncertain", "yes"}, Tell(h, a),
         UNCHANGED <<raw, device>>, UNCHANGED staging,
         overtaken' \in {overtaken, overtaken \union {v}},
         \A u \in Volumes : u # v => target'[u].mounts = target[u].mounts,
         p = "staging" \/ v \notin overtaken' \union raw => target'[v].mounts = target[v].mounts
  PROVE  Works(h, v, p)
<1>1. /\ \A u \in Volumes : u # v \/ ~ call[h].live => kube'[u] = kube[u]
      /\ call[h].live /\ p = "staging" => kube'[v].tgt = kube[v].tgt
      /\ call[h].live /\ p = "pod" => kube'[v].dev = kube[v].dev
  <2>1. call[h].op \in {"stage", "publish", "unpublish", "unstage"} /\ call[h].pc # "idle"
    BY Place DEF About
  <2> QED
    BY <2>1, Told DEF About
<1>2. \A u \in Volumes : UNCHANGED Seen(u, "staging") /\ (u # v => UNCHANGED Seen(u, "pod"))
  BY Sames
<1>3. p = "staging" \/ v \notin overtaken' \union raw => UNCHANGED Seen(v, "pod")
  BY Sames
<1>4. \A u \in Volumes : u # v \/ ~ call[h].live => UNCHANGED Known(u, "staging") /\ UNCHANGED Known(u, "pod")
  BY <1>1, Sames
<1>5. /\ p = "staging" => UNCHANGED Known(v, "pod")
      /\ p = "pod" => UNCHANGED Known(v, "staging")
  BY <1>1, <1>4, Sames
<1>6. \A u \in Volumes, q \in Places : u # v \/ q # p => UNCHANGED Seen(u, q) /\ UNCHANGED Known(u, q)
  BY <1>2, <1>3, <1>4, <1>5 DEF Places
<1>7. v \in overtaken' \union raw \/ UNCHANGED Seen(v, p)
  BY <1>2, <1>3 DEF Places
<1>8. call[h].live \/ UNCHANGED Known(v, p)
  BY <1>4 DEF Places
<1> QED
  BY <1>6, <1>7, <1>8 DEF Works
-----------------------------------------------------------------------------
(* The handlers keep to the abstract node service. *)
Abides == Ordered' /\ [Mounts!Next]_(Mounts!vars)

LEMMA HandlerAbides ==
  ASSUME IInv, IInv', Ordered, NEW h \in Handlers, NEW v \in Volumes, NEW p \in Places,
         About(h, v, p), Works(h, v, p)
  PROVE  Abides
  BY MountsHandler, OrderedHandler DEF Abides

LEMMA StageCheckAbides ==
  ASSUME IInv, IInv', Ordered, NEW h \in Handlers, StageCheck(h) PROVE Abides
<1>1. PICK v \in Volumes : v = call[h].v
  BY Place DEF StageCheck
<1>2. /\ About(h, v, "staging") /\ UNCHANGED <<raw, device>> /\ UNCHANGED target
      /\ UNCHANGED kube /\ UNCHANGED overtaken
  BY <1>1 DEF StageCheck, About
<1>3. \A u \in Volumes : staging'[u] = "mounted" <=> staging[u] = "mounted"
  BY <1>1, Kept DEF StageCheck, EnsureDir, PathsOK
<1>4. Works(h, v, "staging")
  BY <1>2, <1>3, StagingWorks
<1> QED
  BY <1>2, <1>4, HandlerAbides DEF Places

LEMMA StageMountAbides ==
  ASSUME IInv, IInv', Ordered, NEW h \in Handlers, StageMount(h) PROVE Abides
<1>1. PICK v \in Volumes : v = call[h].v
  BY Place DEF StageMount
<1>2. About(h, v, "staging") /\ UNCHANGED <<raw, device>> /\ UNCHANGED target
  BY <1>1 DEF StageMount, About
<1>3. CASE staging' = [staging EXCEPT ![v] = "mounted"] /\ Effect(h) /\ UNCHANGED kube
  <2>1. \A u \in Volumes : u # v => staging'[u] = staging[u]
    BY <1>2, <1>3, StagingSet
  <2>2. overtaken' \in {overtaken, overtaken \union {v}} /\ (v \in overtaken' \/ call[h].live)
    BY <1>1, <1>3 DEF Effect
  <2>3. Works(h, v, "staging")
    BY <1>2, <1>3, <2>1, <2>2, StagingWorks
  <2> QED
    BY <1>2, <2>3, HandlerAbides DEF Places
<1>4. CASE Fail(h) /\ UNCHANGED <<staging, overtaken>>
  <2>1. PICK a \in {"no", "uncertain", "yes"} : Tell(h, a)
    BY <1>4 DEF Fail
  <2>2. Works(h, v, "staging")
    BY <1>2, <1>4, <2>1, AnswerWorks DEF Places
  <2> QED
    BY <1>2, <2>2, HandlerAbides DEF Places
<1> QED
  BY <1>1, <1>3, <1>4 DEF StageMount

LEMMA UnstageAbides ==
  ASSUME IInv, IInv', Ordered, NEW h \in Handlers, Unstage(h) PROVE Abides
<1>1. PICK v \in Volumes : v = call[h].v
  BY Place DEF Unstage
<1>2. /\ About(h, v, "staging") /\ UNCHANGED <<raw, device>> /\ UNCHANGED target /\ UNCHANGED kube
      /\ staging' = [staging EXCEPT ![v] = "absent"]
      /\ IF staging[v] = "mounted" THEN Effect(h) ELSE UNCHANGED overtaken
  BY <1>1 DEF Unstage, About
<1>3. staging'[v] = "absent" /\ \A u \in Volumes : u # v => staging'[u] = staging[u]
  BY <1>2, StagingSet
<1>4. /\ overtaken' \in {overtaken, overtaken \union {v}}
      /\ v \in overtaken' \/ call[h].live \/ staging[v] # "mounted"
  BY <1>1, <1>2 DEF Effect
<1>5. Works(h, v, "staging")
  BY <1>2, <1>3, <1>4, StagingWorks
<1> QED
  BY <1>2, <1>5, HandlerAbides DEF Places

LEMMA PublishCheckAbides ==
  ASSUME IInv, IInv', Ordered, NEW h \in Handlers, PublishCheck(h) PROVE Abides
<1>1. PICK v \in Volumes : v = call[h].v
  BY Place DEF PublishCheck
<1>2. /\ About(h, v, "pod") /\ UNCHANGED <<raw, device>> /\ UNCHANGED staging
      /\ UNCHANGED kube /\ UNCHANGED overtaken
      /\ target' = [target EXCEPT ![v].there = TRUE]
  BY <1>1 DEF PublishCheck, EnsureTarget, About
<1>3. \A u \in Volumes : target'[u].mounts = target[u].mounts
  BY <1>2, PathMade
<1>4. Works(h, v, "pod")
  BY <1>2, <1>3, PodWorks
<1> QED
  BY <1>2, <1>4, HandlerAbides DEF Places

LEMMA PublishMountAbides ==
  ASSUME IInv, IInv', Ordered, NEW h \in Handlers, PublishMount(h) PROVE Abides
<1>1. PICK v \in Volumes : v = call[h].v
  BY Place DEF PublishMount
<1>2. About(h, v, "pod") /\ UNCHANGED <<raw, device>> /\ UNCHANGED staging
  BY <1>1 DEF PublishMount, About
<1>3. \/ Effect(h) /\ UNCHANGED kube
         /\ \E k : target' = [target EXCEPT ![v].mounts = k]
      \/ Fail(h) /\ UNCHANGED overtaken
         /\ \E b \in BOOLEAN : (target[v].mounts # <<>> => b) /\ target' = [target EXCEPT ![v].there = b]
  <2>1. CASE Effect(h) /\ UNCHANGED kube /\ \E k : target' = [target EXCEPT ![v].mounts = k]
    BY <2>1
  <2>2. CASE /\ target' = [target EXCEPT ![v].there = (v \notin raw \/ target[v].mounts # <<>>) /\ @]
             /\ Fail(h) /\ UNCHANGED overtaken
    <3> DEFINE b == (v \notin raw \/ target[v].mounts # <<>>) /\ target[v].there
    <3>1. target' = [target EXCEPT ![v].there = b]
      BY <2>2, Kept DEF PathsOK
    <3>2. b \in BOOLEAN /\ (target[v].mounts # <<>> => b)
      BY Kept DEF PathsOK
    <3> HIDE DEF b
    <3> QED
      BY <2>2, <3>1, <3>2
  <2> QED
    BY <1>1, <2>1, <2>2 DEF PublishMount
<1>4. CASE Effect(h) /\ UNCHANGED kube /\ \E k : target' = [target EXCEPT ![v].mounts = k]
  <2>1. \A u \in Volumes : u # v => target'[u].mounts = target[u].mounts
    BY <1>4, Kept DEF PathsOK
  <2>2. overtaken' \in {overtaken, overtaken \union {v}} /\ (v \in overtaken' \/ call[h].live)
    BY <1>1, <1>4 DEF Effect
  <2>3. Works(h, v, "pod")
    BY <1>2, <1>4, <2>1, <2>2, PodWorks
  <2> QED
    BY <1>2, <2>3, HandlerAbides DEF Places
<1>5. CASE Fail(h) /\ UNCHANGED overtaken
           /\ \E b \in BOOLEAN : (target[v].mounts # <<>> => b) /\ target' = [target EXCEPT ![v].there = b]
  <2>1. PICK a \in {"no", "uncertain", "yes"} : Tell(h, a)
    BY <1>5 DEF Fail
  <2>2. \A u \in Volumes : target'[u].mounts = target[u].mounts
    BY <1>5, PathMade
  <2>3. Works(h, v, "pod")
    BY <1>2, <1>5, <2>1, <2>2, AnswerWorks DEF Places
  <2> QED
    BY <1>2, <2>3, HandlerAbides DEF Places
<1> QED
  BY <1>3, <1>4, <1>5

(* A file system has one mount at most, unless a call given up ran too late:
   what is left below the mount that goes is a raw device's. *)
LEMMA UnpublishAbides ==
  ASSUME IInv, IInv', Ordered, NEW h \in Handlers, Unpublish(h) PROVE Abides
<1>1. PICK v \in Volumes : v = call[h].v
  BY Place DEF Unpublish
<1> DEFINE left == IF Detected(v) THEN Tail(target[v].mounts) ELSE target[v].mounts
<1>2. /\ target' = [target EXCEPT ![v] = [there |-> left # <<>>, mounts |-> left]]
      /\ Detected(v) => left = Tail(target[v].mounts)
      /\ ~ Detected(v) => left = target[v].mounts
      /\ \/ left = <<>> /\ UNCHANGED kube
         \/ left # <<>> /\ Fail(h)
  BY <1>1 DEF Unpublish
<1> HIDE DEF left
<1>3. /\ About(h, v, "pod") /\ UNCHANGED <<raw, device>> /\ UNCHANGED staging
      /\ IF Detected(v) THEN Effect(h) ELSE UNCHANGED overtaken
  BY <1>1 DEF Unpublish, About
<1>4. \A u \in Volumes : u # v => target'[u].mounts = target[u].mounts
  BY <1>2, Kept DEF PathsOK
<1>5. target'[v].mounts = left
  BY <1>2, Kept DEF PathsOK
<1>6. /\ overtaken' \in {overtaken, overtaken \union {v}}
      /\ v \in overtaken' \/ call[h].live \/ target'[v].mounts = target[v].mounts
  BY <1>1, <1>2, <1>3, <1>5 DEF Effect
<1>7. CASE left = <<>> /\ UNCHANGED kube
  <2>1. Works(h, v, "pod")
    BY <1>3, <1>4, <1>6, <1>7, PodWorks
  <2> QED
    BY <1>3, <2>1, HandlerAbides DEF Places
<1>8. CASE left # <<>> /\ Fail(h)
  <2>1. PICK a \in {"no", "uncertain", "yes"} : Tell(h, a)
    BY <1>8 DEF Fail
  <2>2. v \in overtaken' \union raw
    <3> SUFFICES ASSUME v \notin overtaken' \union raw PROVE FALSE
      OBVIOUS
    <3> DEFINE m == target[v].mounts
    <3>1. VolumeOK(v) /\ m \in Stacks /\ Len(m) <= 1
      BY <1>6, Kept DEF PathsOK, Targets, IInv, VolumeOK
    <3>2. m # <<>> /\ left = Tail(m)
      BY <1>2, <1>8, <3>1, Seeing DEF Detected
    <3> HIDE DEF m
    <3>3. left \in Stacks /\ Len(left) = Len(m) - 1 /\ Len(m) \in Nat /\ Len(m) # 0
      BY <3>1, <3>2, Popped, StackLen
    <3>4. Len(left) # 0
      BY <1>8, <3>3, StackLen
    <3> QED
      BY <3>1, <3>3, <3>4
  <2>3. Works(h, v, "pod")
    BY <1>3, <1>4, <1>6, <2>1, <2>2, AnswerWorks DEF Places
  <2> QED
    BY <1>3, <2>3, HandlerAbides DEF Places
<1> QED
  BY <1>2, <1>7, <1>8

(* The steps that change no mount. *)
LEMMA ToldAbides ==
  ASSUME IInv, IInv', Ordered, NEW h \in Handlers, call[h].pc # "idle",
         NEW a \in {"no", "uncertain", "yes"}, Tell(h, a),
         UNCHANGED <<raw, device>>, UNCHANGED staging, UNCHANGED overtaken,
         \A u \in Volumes : target'[u].mounts = target[u].mounts
  PROVE  Abides
<1>1. PICK v \in Volumes : v = call[h].v
  BY Place
<1>2. PICK p \in Places : About(h, v, p)
  BY <1>1 DEF About, Places
<1>3. Works(h, v, p)
  BY <1>2, AnswerWorks
<1> QED
  BY <1>2, <1>3, HandlerAbides

LEMMA EndAbides ==
  ASSUME IInv, IInv', Ordered, NEW h \in Handlers,
         NoDevice(h) \/ UnmountFails(h) \/ Reply(h)
  PROVE  Abides
<1>1. PICK a \in {"no", "uncertain", "yes"} : Tell(h, a)
  BY DEF NoDevice, UnmountFails, Reply, Fail
<1>2. /\ call[h].pc # "idle" /\ UNCHANGED <<raw, device>> /\ UNCHANGED staging
      /\ UNCHANGED overtaken /\ UNCHANGED target
  BY DEF NoDevice, UnmountFails, Reply
<1> QED
  BY <1>1, <1>2, ToldAbides

LEMMA MountFailsAbides ==
  ASSUME IInv, IInv', Ordered, NEW h \in Handlers, MountFails(h) PROVE Abides
<1>1. PICK a \in {"no", "uncertain", "yes"} : Tell(h, a)
  BY DEF MountFails, Fail
<1>2. /\ call[h].pc # "idle" /\ UNCHANGED <<raw, device>> /\ UNCHANGED staging
      /\ UNCHANGED overtaken
  BY DEF MountFails
<1>3. PICK v \in Volumes : v = call[h].v
  BY <1>2, Place
<1>4. \/ target[v].mounts = <<>> /\ target' = [target EXCEPT ![v].there = FALSE]
      \/ target' = target
  BY <1>3 DEF MountFails
<1>5. \A u \in Volumes : target'[u].mounts = target[u].mounts
  BY <1>4, PathMade
<1> QED
  BY <1>1, <1>2, <1>5, ToldAbides
-----------------------------------------------------------------------------
(* Kubernetes, the program and the node keep to the abstract node service. *)

LEMMA QuietAbides ==
  ASSUME Ordered, \A u \in Volumes : Still(u), UNCHANGED <<raw, device, overtaken>>
  PROVE  Abides
<1>1. Ordered'
  <2>1. \A u \in Volumes : kube'[u].dev = kube[u].dev /\ kube'[u].tgt = kube[u].tgt
    BY DEF Still, Places, Known
  <2> QED
    BY <2>1 DEF Ordered
<1>2. UNCHANGED Mounts!vars
  BY MountsStill
<1> QED
  BY <1>1, <1>2 DEF Abides

LEMMA UnmovedAbides ==
  ASSUME Ordered, UNCHANGED <<raw, device, overtaken>>, UNCHANGED staging, UNCHANGED target,
         \A u \in Volumes : kube'[u].dev = kube[u].dev /\ kube'[u].tgt = kube[u].tgt
  PROVE  Abides
<1>1. \A u \in Volumes : Still(u)
  BY DEF Still, Seen, Known, Places
<1> QED
  BY <1>1, QuietAbides

LEMMA PodAbides ==
  ASSUME IInv, Ordered, NEW v \in Volumes, PodComesOrGoes(v) PROVE Abides
<1> DEFINE r == [kube[v] EXCEPT !.pod = ~ @]
<1>1. kube[v] \in Records
  BY Kept
<1>2. r \in Records /\ r.dev = kube[v].dev /\ r.tgt = kube[v].tgt /\ kube' = [kube EXCEPT ![v] = r]
  BY <1>1 DEF Records, PodComesOrGoes
<1> HIDE DEF r
<1>3. \A u \in Volumes : kube'[u].dev = kube[u].dev /\ kube'[u].tgt = kube[u].tgt
  BY <1>2, Recorded
<1>4. UNCHANGED <<raw, device, overtaken>> /\ UNCHANGED staging /\ UNCHANGED target
  BY DEF PodComesOrGoes
<1> QED
  BY <1>3, <1>4, UnmovedAbides

LEMMA AttachAbides ==
  ASSUME Ordered, NEW v \in Volumes, Attach(v) PROVE Abides
<1>1. /\ UNCHANGED <<raw, staging, target, kube, overtaken>> /\ device' = device \union {v}
      /\ \A u \in Volumes : Still(u)
  BY DEF Attach, Still, Seen, Known, Places
<1>2. SeenMap' = SeenMap /\ KnownMap' = KnownMap
  BY <1>1 DEF SeenMap, KnownMap, Still
<1>3. Mounts!Arrive(v)
  BY <1>1, <1>2 DEF Mounts!Arrive, SeenMap, KnownMap, Places
<1>4. Ordered'
  BY <1>1 DEF Ordered
<1> QED
  BY <1>3, <1>4 DEF Abides, Mounts!Next

LEMMA DetachAbides ==
  ASSUME IInv, Ordered, NEW v \in Volumes, Detach(v) PROVE Abides
<1>1. /\ UNCHANGED <<raw, staging, target, kube, overtaken>> /\ device' = device \ {v}
      /\ kube[v].dev = "no" /\ kube[v].tgt = "no"
      /\ \A u \in Volumes : Still(u)
  BY DEF Detach, Unused, Still, Seen, Known, Places
<1>2. SeenMap' = SeenMap /\ KnownMap' = KnownMap
  BY <1>1 DEF SeenMap, KnownMap, Still
<1>3. v \notin overtaken \union raw => \A p \in Places : KnownMap[v][p] = "no" /\ SeenMap[v][p] = None
  <2>1. v \notin overtaken \union raw => ~ Staged(v) /\ ~ Full(v)
    BY <1>1 DEF IInv, VolumeOK
  <2> QED
    BY <1>1, <2>1 DEF KnownMap, SeenMap, Known, Seen, Staged, Full, Places
<1>4. Mounts!Leave(v)
  BY <1>1, <1>2, <1>3 DEF Mounts!Leave, Mounts!Paths, SeenMap, KnownMap, Places
<1>5. Ordered'
  BY <1>1 DEF Ordered
<1> QED
  BY <1>4, <1>5 DEF Abides, Mounts!Next

LEMMA RebootAbides ==
  ASSUME IInv, NodeRestarts PROVE Abides
<1>1. /\ UNCHANGED <<raw, device>> /\ overtaken' = {}
      /\ \A v \in Volumes : staging'[v] # "mounted"
  BY Kept DEF NodeRestarts, PathsOK
<1>2. \A v \in Volumes : target'[v].mounts = <<>>
  <2>1. ASSUME NEW t \in Targets PROVE [t EXCEPT !.mounts = <<>>].mounts = <<>>
    BY DEF Targets
  <2>2. target' = [v \in Volumes |-> [target[v] EXCEPT !.mounts = <<>>]]
        /\ \A v \in Volumes : target[v] \in Targets
    BY Kept DEF NodeRestarts, PathsOK
  <2> QED
    BY <2>1, <2>2
<1>3. \A v \in Volumes : kube'[v].dev = "no" /\ kube'[v].tgt = "no"
  <2>1. ASSUME NEW r \in Records
        PROVE  [r EXCEPT !.dev = "no", !.tgt = "no"].dev = "no"
               /\ [r EXCEPT !.dev = "no", !.tgt = "no"].tgt = "no"
    BY DEF Records
  <2>2. kube' = [v \in Volumes |-> [kube[v] EXCEPT !.dev = "no", !.tgt = "no"]]
    BY DEF NodeRestarts
  <2>3. \A v \in Volumes : kube[v] \in Records
    BY Kept
  <2> QED
    BY <2>1, <2>2, <2>3
<1>4. SeenMap' = [v \in Volumes |-> [p \in Places |-> None]]
  BY <1>1, <1>2 DEF SeenMap, Seen, Places
<1>5. KnownMap' = [v \in Volumes |-> [p \in Places |-> "no"]]
  BY <1>3 DEF KnownMap, Known, Places
<1>6. Mounts!Reboot
  BY <1>1, <1>4, <1>5 DEF Mounts!Reboot, Mounts!Paths, SeenMap, KnownMap, Places
<1>7. Ordered'
  BY <1>3 DEF Ordered
<1> QED
  BY <1>6, <1>7 DEF Abides, Mounts!Next

(* A call starts: what is recorded of the path it is about becomes uncertain. *)
LEMMA StartAbides ==
  ASSUME IInv, IInv', Ordered, NEW h \in Handlers, NEW v \in Volumes, NEW p \in Places,
         NEW op, NEW pc, NEW r \in Records, Start(h, op, pc, v, r),
         \/ p = "staging" /\ r.dev = "uncertain" /\ r.tgt = kube[v].tgt
         \/ p = "pod" /\ r.tgt = "uncertain" /\ r.dev = kube[v].dev,
         v \notin overtaken \union raw =>
           IF p = "pod" THEN kube[v].dev = "yes" ELSE kube[v].tgt = "no"
  PROVE  Abides
<1>1. /\ UNCHANGED <<raw, device, overtaken>> /\ UNCHANGED staging /\ UNCHANGED target
      /\ kube' = [kube EXCEPT ![v] = r]
  BY DEF Start
<1>2. kube'[v] = r /\ \A u \in Volumes \ {v} : kube'[u] = kube[u]
  BY <1>1, Recorded
<1>3. \A u \in Volumes, q \in Places : UNCHANGED Seen(u, q)
  BY <1>1 DEF Seen
<1>4. \A u \in Volumes \ {v} : Still(u)
  BY <1>2, <1>3 DEF Still, Known
<1>5. /\ \A q \in Places \ {p} : UNCHANGED Known(v, q)
      /\ Known(v, p)' = "uncertain"
  BY <1>2 DEF Known, Places
<1>6. Ordered'
  BY <1>1, <1>2 DEF Ordered
<1>7. CASE v \in overtaken \union raw
  <2>1. Mounts!Stray(v)
    BY <1>1, <1>4, <1>7, MountsStray
  <2> QED
    BY <1>6, <2>1 DEF Abides, Mounts!Next
<1>8. CASE v \notin overtaken \union raw
  <2>1. [Mounts!Next]_(Mounts!vars)
    BY <1>1, <1>3, <1>4, <1>5, <1>8, MountsWrite
  <2> QED
    BY <1>6, <2>1 DEF Abides
<1> QED
  BY <1>7, <1>8

LEMMA KubeletAbides ==
  ASSUME IInv, IInv', Ordered, NEW h \in Handlers, NEW v \in Volumes, KubeletCall(h, v)
  PROVE  Abides
<1> DEFINE d == [kube[v] EXCEPT !.dev = "uncertain"]
           t == [kube[v] EXCEPT !.tgt = "uncertain"]
<1>1. kube[v] \in Records
  BY Kept
<1>2. /\ d \in Records /\ d.dev = "uncertain" /\ d.tgt = kube[v].tgt
      /\ t \in Records /\ t.tgt = "uncertain" /\ t.dev = kube[v].dev
  BY <1>1 DEF Records
<1>3. \/ Start(h, "stage", "check", v, d) /\ kube[v].dev # "yes"
      \/ Start(h, "publish", "check", v, t) /\ kube[v].dev = "yes"
      \/ Start(h, "unpublish", "unmount", v, t) /\ kube[v].tgt # "no"
      \/ Start(h, "unstage", "unmount", v, d) /\ kube[v].tgt = "no"
  BY DEF KubeletCall, CallStage, CallPublish, CallUnpublish, CallUnstage
<1> HIDE DEF d, t
<1>4. v \notin overtaken \union raw => (kube[v].tgt # "no" => kube[v].dev = "yes")
  BY DEF Ordered
<1>5. "staging" \in Places /\ "pod" \in Places
  BY DEF Places
<1>6. CASE Start(h, "stage", "check", v, d) /\ kube[v].dev # "yes"
  BY <1>2, <1>4, <1>5, <1>6, StartAbides
<1>7. CASE Start(h, "publish", "check", v, t) /\ kube[v].dev = "yes"
  BY <1>2, <1>4, <1>5, <1>7, StartAbides
<1>8. CASE Start(h, "unpublish", "unmount", v, t) /\ kube[v].tgt # "no"
  BY <1>2, <1>4, <1>5, <1>8, StartAbides
<1>9. CASE Start(h, "unstage", "unmount", v, d) /\ kube[v].tgt = "no"
  BY <1>2, <1>4, <1>5, <1>9, StartAbides
<1> QED
  BY <1>3, <1>6, <1>7, <1>8, <1>9

LEMMA NextAbides == IInv /\ IInv' /\ Ordered /\ [Next]_vars => Abides
<1> SUFFICES ASSUME IInv, IInv', Ordered, [Next]_vars PROVE Abides
  OBVIOUS
<1>1. CASE UNCHANGED vars \/ DriverRestarts \/ \E h \in Handlers : Cancel(h)
  BY <1>1, UnmovedAbides DEF vars, DriverRestarts, Cancel
<1>2. CASE NodeRestarts
  BY <1>2, RebootAbides
<1>3. ASSUME NEW h \in Handlers, HandlerStep(h) \/ MountFails(h) \/ UnmountFails(h)
      PROVE  Abides
  BY <1>3, StageCheckAbides, StageMountAbides, PublishCheckAbides, PublishMountAbides,
     UnstageAbides, UnpublishAbides, EndAbides, MountFailsAbides DEF HandlerStep
<1>4. ASSUME NEW h \in Handlers, NEW v \in Volumes, KubeletCall(h, v) PROVE Abides
  BY <1>4, KubeletAbides
<1>5. ASSUME NEW v \in Volumes, Attach(v) \/ Detach(v) \/ PodComesOrGoes(v) PROVE Abides
  BY <1>5, AttachAbides, DetachAbides, PodAbides
<1> QED
  BY <1>1, <1>2, <1>3, <1>4, <1>5, Zenon DEF Next

LEMMA OrderedInit == Init => Ordered
  BY DEF Init, Ordered

(* For a file system the handlers keep to the abstract node service: the
   kubelet's records are true, a file system is mounted for the pod only after
   it has been staged and unstaged only after the pod's mount has gone, and the
   device leaves with no mount, unless a call given up ran too late
   (nodeserver.go:45-241). *)
THEOREM ImplementsMounts == Spec => RefinesMounts
<1>1. IInv /\ IInv' /\ Ordered /\ [Next]_vars => Ordered' /\ [Mounts!Next]_(Mounts!vars)
  BY NextAbides DEF Abides
<1> QED
  BY <1>1, MountsInit, OrderedInit, Invariance, PTL DEF Spec, RefinesMounts, Mounts!Spec
=============================================================================
