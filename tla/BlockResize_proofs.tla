------------------------- MODULE BlockResize_proofs -------------------------
(***************************************************************************)
(* Proofs about the expansion of a block volume, for any GiB, handlers,    *)
(* requests, limits and bounds.                                            *)
(***************************************************************************)
EXTENDS BlockResize, TLAPS

(* Rounding up asks for enough, and for less than a GiB too much. *)
LEMMA Quotient ==
  ASSUME NEW b \in Nat
  PROVE  /\ b \div GiB \in Nat /\ b % GiB \in Nat
         /\ b % GiB < GiB
         /\ b = GiB * (b \div GiB) + (b % GiB)
  BY GiBAssumption

LEMMA Rounding ==
  ASSUME NEW b \in Nat
  PROVE  /\ RoundUpSize(b) \in Nat
         /\ b <= InBytes(RoundUpSize(b))
         /\ InBytes(RoundUpSize(b)) < b + GiB
         /\ b > 0 => RoundUpSize(b) > 0
<1> DEFINE q == b \div GiB
           r == b % GiB
<1>1. q \in Nat /\ r \in Nat /\ r < GiB /\ b = GiB * q + r
  BY Quotient
<1>2. GiB \in Nat \ {0} /\ RoundUpSize(b) = q + (IF r > 0 THEN 1 ELSE 0)
  BY GiBAssumption DEF RoundUpSize
<1> HIDE DEF q, r
<1>3. (q + 1) * GiB = GiB * q + GiB /\ q * GiB = GiB * q
  BY <1>1, <1>2
<1>4. CASE r > 0
  BY <1>1, <1>2, <1>3, <1>4 DEF InBytes
<1>5. CASE r = 0
  BY <1>1, <1>2, <1>3, <1>5 DEF InBytes
<1> QED
  BY <1>1, <1>4, <1>5

LEMMA BytesType == ASSUME NEW s \in Nat PROVE InBytes(s) \in Nat
  BY GiBAssumption DEF InBytes

LEMMA BytesGrow == ASSUME NEW s \in Nat, NEW t \in Nat, s <= t PROVE InBytes(s) <= InBytes(t)
<1>1. PICK d \in Nat : t = s + d
  <2>1. t - s \in Nat /\ t = s + (t - s)
    OBVIOUS
  <2> QED
    BY <2>1
<1>2. (s + d) * GiB = s * GiB + d * GiB /\ d * GiB \in Nat /\ s * GiB \in Nat
  BY GiBAssumption
<1> QED
  BY <1>1, <1>2 DEF InBytes
-----------------------------------------------------------------------------
(* The inductive invariant.  Sizes never shrink on the way from the API to the
   device to the file system, and each step of a handler keeps, until the
   answer, what the answer needs. *)

Volumes == [status : {"available", "extending"}, size : Nat \ {0}, target : Nat \ {0}]

Expands(h) == call[h].op = "expand"

ShapeOf(h) ==
  /\ call[h].pc \in {"get", "extend"} => Expands(h)
  /\ call[h].pc \in {"find", "rescan", "resize"} => call[h].op = "node"
  /\ call[h].pc = "reply" => call[h].op # "none"
  /\ Expands(h) => call[h].bytes > 0

(* What a call of the node knows. *)
NodeKnows(h) ==
  /\ call[h].pc = "resize" => call[h].bytes <= InBytes(device)
  /\ call[h].pc = "reply" /\ call[h].op = "node" => fs # 0 /\ call[h].bytes <= InBytes(fs)

(* What a call of the controller knows. *)
ControllerKnows(h) ==
  Expands(h) =>
    /\ call[h].bytes <= claim.want
    /\ call[h].pc = "reply" => call[h].bytes <= InBytes(volume.target) \/ lapsed

HandlerOK(h) == ShapeOf(h) /\ NodeKnows(h) /\ ControllerKnows(h)

SizesShrink ==
  /\ device <= volume.size
  /\ fs <= volume.size
  /\ mounted => fs # 0

ToldOK == claim.told <= InBytes(IF fs = 0 THEN volume.size ELSE fs)

RangeOK ==
  /\ InBytes(volume.target) < claim.want + GiB
  /\ claim.pv <= InBytes(volume.target) \/ lapsed

StateOK == SizesShrink /\ ToldOK /\ RangeOK

IInv == TypeOK /\ StateOK /\ \A h \in Handlers : HandlerOK(h)

LEMMA IdleType == Idle \in Calls
  BY DEF Idle, Calls

LEMMA InvInit == Init => IInv
<1> SUFFICES ASSUME Init PROVE IInv
  OBVIOUS
<1>1. PICK r \in Requests :
        /\ volume = [status |-> "available", size |-> RoundUpSize(r), target |-> RoundUpSize(r)]
        /\ claim = [want |-> r, pv |-> InBytes(RoundUpSize(r)), told |-> InBytes(RoundUpSize(r))]
  BY DEF Init
<1>2. r \in Nat \ {0}
  BY RequestsAssumption
<1>3. /\ RoundUpSize(r) \in Nat \ {0}
      /\ InBytes(RoundUpSize(r)) < r + GiB
      /\ InBytes(RoundUpSize(r)) \in Nat
  <2>1. RoundUpSize(r) \in Nat \ {0}
    BY <1>2, Rounding
  <2> QED
    BY <2>1, <1>2, Rounding, BytesType
<1>4. TypeOK
  <2>1. /\ volume \in Volumes
        /\ volume.size <= volume.target
        /\ volume.status = "available" => volume.size = volume.target
    BY <1>1, <1>3 DEF Volumes
  <2>2. claim \in [want : Requests, pv : Nat, told : Nat]
    BY <1>1, <1>3
  <2>3. call \in [Handlers -> Calls]
    BY IdleType DEF Init
  <2>4. mounted \in BOOLEAN /\ lapsed \in BOOLEAN
    BY Zenon DEF Init
  <2>5. device \in Nat /\ fs \in Nat /\ fs <= device
    BY DEF Init
  <2>6. faults \in 0..MaxFaults /\ moves \in 0..MaxMoves
    BY BoundsAssumption DEF Init
  <2> QED
    BY <2>1, <2>2, <2>3, <2>4, <2>5, <2>6 DEF TypeOK, Volumes
<1>5. StateOK
  BY <1>1, <1>3 DEF Init, StateOK, SizesShrink, ToldOK, RangeOK
<1>6. ASSUME NEW h \in Handlers PROVE HandlerOK(h)
  BY DEF Init, HandlerOK, ShapeOf, NodeKnows, ControllerKnows, Expands, Idle
<1> QED
  BY <1>4, <1>5, <1>6 DEF IInv
-----------------------------------------------------------------------------
(* What every step does: nothing shrinks. *)
Grows ==
  /\ device <= device' /\ fs <= fs'
  /\ claim.want <= claim'.want
  /\ volume.target <= volume'.target \/ lapsed'
  /\ lapsed => lapsed'

(* A handler that a step leaves alone, but for its context, or that ends. *)
Rests(h) ==
  \/ call'[h] = Idle
  \/ /\ call'[h].op = call[h].op /\ call'[h].pc = call[h].pc
     /\ call'[h].bytes = call[h].bytes

LEMMA RestingHandler ==
  ASSUME IInv, TypeOK', Grows, NEW h \in Handlers, Rests(h)
  PROVE  HandlerOK(h)'
<1>1. /\ device \in Nat /\ device' \in Nat /\ fs \in Nat /\ fs' \in Nat
      /\ volume.target \in Nat /\ volume'.target \in Nat
      /\ claim.want \in Nat /\ claim'.want \in Nat
      /\ call[h].bytes \in Nat
  BY RequestsAssumption DEF IInv, TypeOK, Calls
<1>2. CASE call'[h] = Idle
  BY <1>2 DEF HandlerOK, ShapeOf, NodeKnows, ControllerKnows, Expands, Idle
<1>3. CASE /\ call'[h].op = call[h].op /\ call'[h].pc = call[h].pc
           /\ call'[h].bytes = call[h].bytes
  <2>1. HandlerOK(h)
    BY DEF IInv
  <2>2. ShapeOf(h)'
    BY <1>3, <2>1 DEF HandlerOK, ShapeOf, Expands
  <2>3. NodeKnows(h)'
    <3>1. InBytes(device) <= InBytes(device') /\ InBytes(fs) <= InBytes(fs')
      BY <1>1, BytesGrow DEF Grows
    <3>2. InBytes(device) \in Nat /\ InBytes(device') \in Nat /\ InBytes(fs) \in Nat /\ InBytes(fs') \in Nat
      BY <1>1, BytesType
    <3> QED
      BY <1>1, <1>3, <2>1, <3>1, <3>2 DEF HandlerOK, NodeKnows, Grows
  <2>4. ControllerKnows(h)'
    <3>1. InBytes(volume.target) \in Nat /\ InBytes(volume'.target) \in Nat
      BY <1>1, BytesType
    <3>2. InBytes(volume.target) <= InBytes(volume'.target) \/ lapsed'
      BY <1>1, BytesGrow DEF Grows
    <3> QED
      BY <1>1, <1>3, <2>1, <3>1, <3>2 DEF HandlerOK, ControllerKnows, Expands, Grows
  <2> QED
    BY <2>2, <2>3, <2>4 DEF HandlerOK
<1> QED
  BY <1>2, <1>3 DEF Rests

CountersOK == faults \in 0..MaxFaults /\ moves \in 0..MaxMoves

LEMMA CountersKept ==
  ASSUME IInv
  PROVE  /\ UNCHANGED counters => CountersOK'
         /\ Fault => CountersOK'
  BY BoundsAssumption DEF IInv, TypeOK, counters, Fault, CountersOK

(* What a step of one handler does to the calls. *)
LEMMA CallOfHandler ==
  ASSUME IInv, NEW h \in Handlers, NEW c \in Calls, call' = [call EXCEPT ![h] = c]
  PROVE  /\ call' \in [Handlers -> Calls]
         /\ call'[h] = c
         /\ \A g \in Handlers \ {h} : Rests(g)
  BY DEF IInv, TypeOK, Rests

LEMMA ReturnOrGoto ==
  ASSUME IInv, NEW h \in Handlers
  PROVE  /\ Return(h) =>
              /\ call' \in [Handlers -> Calls]
              /\ \A g \in Handlers : Rests(g)
         /\ \A pc \in {"get", "extend", "find", "rescan", "resize", "reply"} : Goto(h, pc) =>
              /\ call' \in [Handlers -> Calls]
              /\ call'[h] = [call[h] EXCEPT !.pc = pc]
              /\ \A g \in Handlers \ {h} : Rests(g)
<1>1. call \in [Handlers -> Calls] /\ call[h] \in Calls
  BY DEF IInv, TypeOK
<1>2. ASSUME Return(h)
      PROVE  call' \in [Handlers -> Calls] /\ \A g \in Handlers : Rests(g)
  <2>1. call' = [call EXCEPT ![h] = Idle]
    BY <1>2 DEF Return
  <2> QED
    BY <2>1, IdleType, CallOfHandler DEF Rests
<1>3. ASSUME NEW pc \in {"get", "extend", "find", "rescan", "resize", "reply"}, Goto(h, pc)
      PROVE  /\ call' \in [Handlers -> Calls]
             /\ call'[h] = [call[h] EXCEPT !.pc = pc]
             /\ \A g \in Handlers \ {h} : Rests(g)
  <2> DEFINE c == [call[h] EXCEPT !.pc = pc]
  <2>1. c \in Calls
    BY <1>1 DEF Calls
  <2>2. call' = [call EXCEPT ![h] = c]
    BY <1>3 DEF Goto
  <2> HIDE DEF c
  <2>3. call' \in [Handlers -> Calls] /\ call'[h] = c /\ \A g \in Handlers \ {h} : Rests(g)
    BY <2>1, <2>2, CallOfHandler
  <2> QED
    BY <2>3 DEF c
<1> QED
  BY <1>2, <1>3

(* A step that changes nothing but calls and counters. *)
LEMMA CallsOnly ==
  ASSUME IInv, UNCHANGED <<volume, node, claim, lapsed>>, CountersOK',
         call' \in [Handlers -> Calls]
  PROVE  TypeOK' /\ StateOK' /\ Grows
<1>1. TypeOK'
  BY DEF IInv, TypeOK, node, CountersOK
<1>2. StateOK'
  BY DEF IInv, StateOK, SizesShrink, ToldOK, RangeOK, node
<1>3. Grows
  <2>1. /\ device \in Nat /\ fs \in Nat
        /\ volume.target \in Nat /\ claim.want \in Nat
    BY RequestsAssumption DEF IInv, TypeOK
  <2>2. device' = device /\ fs' = fs /\ volume' = volume /\ claim' = claim
    BY DEF node
  <2>3. lapsed => lapsed'
    BY Zenon
  <2>4. /\ device <= device' /\ fs <= fs' /\ claim.want <= claim'.want
        /\ volume.target <= volume'.target
    BY <2>1, <2>2
  <2> QED
    BY <2>3, <2>4, Zenon DEF Grows
<1> QED
  BY <1>1, <1>2, <1>3

LEMMA AllRest ==
  ASSUME IInv, UNCHANGED <<volume, node, claim, lapsed>>, CountersOK',
         call' \in [Handlers -> Calls], \A g \in Handlers : Rests(g)
  PROVE  IInv'
<1>1. TypeOK' /\ StateOK' /\ Grows
  BY CallsOnly
<1>2. \A g \in Handlers : HandlerOK(g)'
  BY <1>1, RestingHandler
<1> QED
  BY <1>1, <1>2 DEF IInv

LEMMA OneMoves ==
  ASSUME IInv, TypeOK', StateOK', Grows, NEW h \in Handlers,
         \A g \in Handlers \ {h} : Rests(g), HandlerOK(h)'
  PROVE  IInv'
<1>1. \A g \in Handlers : HandlerOK(g)'
  BY RestingHandler
<1> QED
  BY <1>1 DEF IInv

LEMMA NoneMoves ==
  ASSUME IInv, TypeOK', StateOK', Grows, UNCHANGED call
  PROVE  IInv'
<1>1. \A g \in Handlers : Rests(g)
  BY DEF Rests
<1>2. \A g \in Handlers : HandlerOK(g)'
  BY <1>1, RestingHandler
<1> QED
  BY <1>2 DEF IInv

(* The types in a form that is quick to use. *)
Types ==
  /\ volume.size \in Nat \ {0} /\ volume.target \in Nat \ {0}
  /\ volume.size <= volume.target
  /\ device \in Nat /\ fs \in Nat
  /\ claim.want \in Nat \ {0} /\ claim.pv \in Nat /\ claim.told \in Nat

LEMMA TypesHold == IInv => Types
  BY RequestsAssumption DEF IInv, TypeOK, Types
-----------------------------------------------------------------------------
(* The steps of the API, of Kubernetes and of the pods *)

LEMMA ExtensionDoneInv == IInv /\ ExtensionDone => IInv'
<1> SUFFICES ASSUME IInv, ExtensionDone PROVE IInv'
  OBVIOUS
<1>1. Types
  BY TypesHold
<1>2. /\ volume' = [volume EXCEPT !.status = "available", !.size = volume.target]
      /\ mounted' = mounted /\ device' = device /\ fs' = fs
      /\ call' = call /\ claim' = claim /\ faults' = faults /\ moves' = moves
  BY DEF ExtensionDone, node, counters
<1>3. lapsed' = lapsed
  BY DEF ExtensionDone
<1>4. /\ volume' \in Volumes /\ volume'.status = "available"
      /\ volume'.size = volume.target /\ volume'.target = volume.target
  BY <1>2 DEF IInv, TypeOK, Volumes
<1>5. TypeOK'
  BY <1>1, <1>2, <1>3, <1>4 DEF IInv, TypeOK, Volumes
<1>6. Grows
  <2>1. /\ device <= device' /\ fs <= fs' /\ claim.want <= claim'.want
        /\ volume.target <= volume'.target
    BY <1>1, <1>2, <1>4 DEF Types
  <2> QED
    BY <1>3, <2>1, Zenon DEF Grows
<1>7. StateOK'
  <2>1. SizesShrink'
    BY <1>1, <1>2, <1>4 DEF IInv, StateOK, SizesShrink, Types
  <2>2. ToldOK'
    <3>1. InBytes(volume.size) <= InBytes(volume.target)
      BY <1>1, BytesGrow DEF Types
    <3>2. InBytes(volume.size) \in Nat /\ InBytes(volume.target) \in Nat /\ InBytes(fs) \in Nat
      BY <1>1, BytesType DEF Types
    <3> QED
      BY <1>1, <1>2, <1>4, <3>1, <3>2 DEF IInv, StateOK, ToldOK, Types
  <2>3. RangeOK'
    BY <1>2, <1>3, <1>4 DEF IInv, StateOK, RangeOK
  <2> QED
    BY <2>1, <2>2, <2>3 DEF StateOK
<1> QED
  BY <1>2, <1>5, <1>6, <1>7, NoneMoves

LEMMA ExtensionFailsInv == IInv /\ ExtensionFails => IInv'
<1> SUFFICES ASSUME IInv, ExtensionFails PROVE IInv'
  OBVIOUS
<1>1. Types
  BY TypesHold
<1>2. /\ volume' = [volume EXCEPT !.status = "available", !.target = volume.size]
      /\ mounted' = mounted /\ device' = device /\ fs' = fs
      /\ call' = call /\ claim' = claim
  BY DEF ExtensionFails, node
<1>3. lapsed'
  BY DEF ExtensionFails
<1>4. CountersOK'
  BY CountersKept DEF ExtensionFails
<1>5. /\ volume' \in Volumes /\ volume'.status = "available"
      /\ volume'.size = volume.size /\ volume'.target = volume.size
  BY <1>2 DEF IInv, TypeOK, Volumes
<1>6. TypeOK'
  <2>1. lapsed' \in BOOLEAN
    BY Zenon DEF ExtensionFails
  <2> QED
    BY <1>1, <1>2, <1>4, <1>5, <2>1 DEF IInv, TypeOK, Volumes, CountersOK, Types
<1>7. Grows
  <2>1. device <= device' /\ fs <= fs' /\ claim.want <= claim'.want
    BY <1>1, <1>2 DEF Types
  <2> QED
    BY <1>3, <2>1, Zenon DEF Grows
<1>8. StateOK'
  <2>1. SizesShrink' /\ ToldOK'
    BY <1>2, <1>5 DEF IInv, StateOK, SizesShrink, ToldOK
  <2>2. RangeOK'
    <3>1. InBytes(volume.size) <= InBytes(volume.target)
      BY <1>1, BytesGrow DEF Types
    <3>2. InBytes(volume.size) \in Nat /\ InBytes(volume.target) \in Nat /\ GiB \in Nat
      BY <1>1, BytesType, GiBAssumption DEF Types
    <3>3. InBytes(volume'.target) < claim'.want + GiB
      BY <1>1, <1>2, <1>5, <3>1, <3>2 DEF IInv, StateOK, RangeOK, Types
    <3> QED
      BY <1>3, <3>3 DEF RangeOK
  <2> QED
    BY <2>1, <2>2 DEF StateOK
<1> QED
  BY <1>2, <1>6, <1>7, <1>8, NoneMoves

LEMMA UserGrowsInv == ASSUME NEW r \in Requests PROVE IInv /\ UserGrows(r) => IInv'
<1> SUFFICES ASSUME IInv, UserGrows(r) PROVE IInv'
  OBVIOUS
<1>1. Types /\ r \in Nat /\ GiB \in Nat
  BY TypesHold, RequestsAssumption, GiBAssumption
<1>2. /\ r > claim.want /\ claim' = [claim EXCEPT !.want = r]
      /\ mounted' = mounted /\ device' = device /\ fs' = fs
      /\ call' = call /\ volume' = volume /\ faults' = faults /\ moves' = moves
  BY DEF UserGrows, node, counters
<1>3. lapsed' = lapsed
  BY DEF UserGrows
<1>4. /\ claim' \in [want : Requests, pv : Nat, told : Nat]
      /\ claim'.want = r /\ claim'.pv = claim.pv /\ claim'.told = claim.told
  BY <1>2 DEF IInv, TypeOK
<1>5. TypeOK'
  BY <1>2, <1>3, <1>4 DEF IInv, TypeOK
<1>6. Grows
  <2>1. /\ device <= device' /\ fs <= fs' /\ claim.want <= claim'.want
        /\ volume.target <= volume'.target
    BY <1>1, <1>2, <1>4 DEF Types
  <2> QED
    BY <1>3, <2>1, Zenon DEF Grows
<1>7. StateOK'
  <2>1. SizesShrink' /\ ToldOK'
    BY <1>2, <1>4 DEF IInv, StateOK, SizesShrink, ToldOK
  <2>2. InBytes(volume.target) \in Nat
    BY <1>1, BytesType DEF Types
  <2>3. InBytes(volume'.target) < claim'.want + GiB
    BY <1>1, <1>2, <1>4, <2>2 DEF IInv, StateOK, RangeOK, Types
  <2>4. RangeOK'
    BY <1>2, <1>3, <1>4, <2>3 DEF IInv, StateOK, RangeOK
  <2> QED
    BY <2>1, <2>4 DEF StateOK
<1> QED
  BY <1>2, <1>5, <1>6, <1>7, NoneMoves

LEMMA PodComesInv == IInv /\ PodComes => IInv'
<1> SUFFICES ASSUME IInv, PodComes PROVE IInv'
  OBVIOUS
<1>1. Types
  BY TypesHold
<1>2. /\ device' = volume.size /\ fs' = IF fs = 0 THEN volume.size ELSE fs
      /\ call' = call /\ volume' = volume /\ claim' = claim
      /\ faults' = faults /\ moves' = moves + 1 /\ moves < MaxMoves
  BY DEF PodComes
<1>3. lapsed' = lapsed /\ mounted' = TRUE
  BY DEF PodComes
<1>4. fs' \in Nat \ {0} /\ fs' <= device' /\ device' \in Nat /\ fs <= fs'
  BY <1>1, <1>2 DEF IInv, StateOK, SizesShrink, Types
<1>5. TypeOK'
  <2>1. mounted' \in BOOLEAN
    BY <1>3
  <2>2. moves' \in 0..MaxMoves
    BY <1>2, BoundsAssumption DEF IInv, TypeOK
  <2> QED
    BY <1>2, <1>3, <1>4, <2>1, <2>2 DEF IInv, TypeOK
<1>6. Grows
  <2>1. /\ device <= device' /\ fs <= fs' /\ claim.want <= claim'.want
        /\ volume.target <= volume'.target
    BY <1>1, <1>2, <1>4 DEF IInv, StateOK, SizesShrink, Types
  <2> QED
    BY <1>3, <2>1, Zenon DEF Grows
<1>7. StateOK'
  <2>1. SizesShrink'
    BY <1>1, <1>2, <1>4 DEF IInv, StateOK, SizesShrink, Types
  <2>2. ToldOK'
    BY <1>1, <1>2 DEF IInv, StateOK, ToldOK, Types
  <2>3. RangeOK'
    BY <1>2, <1>3 DEF IInv, StateOK, RangeOK
  <2> QED
    BY <2>1, <2>2, <2>3 DEF StateOK
<1> QED
  BY <1>2, <1>5, <1>6, <1>7, NoneMoves

LEMMA PodGoesInv == IInv /\ PodGoes => IInv'
<1> SUFFICES ASSUME IInv, PodGoes PROVE IInv'
  OBVIOUS
<1>1. Types
  BY TypesHold
<1>2. /\ device' = device /\ fs' = fs /\ call' = call /\ volume' = volume /\ claim' = claim
      /\ faults' = faults /\ moves' = moves
  BY DEF PodGoes, counters
<1>3. lapsed' = lapsed /\ mounted' = FALSE
  BY DEF PodGoes
<1>4. TypeOK'
  <2>1. mounted' \in BOOLEAN /\ ~ mounted'
    BY <1>3
  <2> QED
    BY <1>2, <1>3, <2>1 DEF IInv, TypeOK
<1>5. Grows
  <2>1. /\ device <= device' /\ fs <= fs' /\ claim.want <= claim'.want
        /\ volume.target <= volume'.target
    BY <1>1, <1>2 DEF Types
  <2> QED
    BY <1>3, <2>1, Zenon DEF Grows
<1>6. StateOK'
  <2>1. SizesShrink'
    BY <1>2, <1>3 DEF IInv, StateOK, SizesShrink
  <2>2. ToldOK' /\ RangeOK'
    BY <1>2, <1>3 DEF IInv, StateOK, ToldOK, RangeOK
  <2> QED
    BY <2>1, <2>2 DEF StateOK
<1> QED
  BY <1>2, <1>4, <1>5, <1>6, NoneMoves

LEMMA RestartInv == ASSUME NEW op \in {"expand", "node"} PROVE IInv /\ Restart(op) => IInv'
<1> SUFFICES ASSUME IInv, Restart(op) PROVE IInv'
  OBVIOUS
<1>1. call' = [h \in Handlers |-> IF call[h].op = op THEN Idle ELSE call[h]]
  BY DEF Restart
<1>2. call' \in [Handlers -> Calls]
  BY <1>1, IdleType DEF IInv, TypeOK
<1>3. \A g \in Handlers : Rests(g)
  BY <1>1 DEF Rests
<1>4. CountersOK'
  BY CountersKept DEF Restart
<1>5. UNCHANGED <<volume, node, claim, lapsed>>
  BY DEF Restart
<1> QED
  BY <1>2, <1>3, <1>4, <1>5, AllRest
-----------------------------------------------------------------------------
(* Calls come, lose their caller, and end without a result *)

LEMMA CancelInv == ASSUME NEW h \in Handlers PROVE IInv /\ Cancel(h) => IInv'
<1> SUFFICES ASSUME IInv, Cancel(h) PROVE IInv'
  OBVIOUS
<1>1. call' = [call EXCEPT ![h].live = FALSE]
  BY DEF Cancel
<1>2. call \in [Handlers -> Calls]
  BY DEF IInv, TypeOK
<1>3. call' \in [Handlers -> Calls]
  BY <1>1, <1>2 DEF Calls
<1>4. \A g \in Handlers : Rests(g)
  BY <1>1, <1>2 DEF Rests, Calls
<1>5. CountersOK'
  BY CountersKept DEF Cancel
<1>6. UNCHANGED <<volume, node, claim, lapsed>>
  BY DEF Cancel
<1> QED
  BY <1>3, <1>4, <1>5, <1>6, AllRest

LEMMA ReturnsInv ==
  ASSUME NEW h \in Handlers, IInv, Return(h), UNCHANGED counters \/ Fault,
         UNCHANGED <<volume, node, claim, lapsed>>
  PROVE  IInv'
<1>1. CountersOK'
  BY CountersKept
<1>2. call' \in [Handlers -> Calls] /\ \A g \in Handlers : Rests(g)
  BY ReturnOrGoto
<1> QED
  BY <1>1, <1>2, AllRest

LEMMA ExpireInv == ASSUME NEW h \in Handlers PROVE IInv /\ Expire(h) => IInv'
<1>1. Expire(h) => Return(h) /\ UNCHANGED counters /\ UNCHANGED <<volume, node, claim, lapsed>>
  BY DEF Expire
<1> QED
  BY <1>1, ReturnsInv

LEMMA NodeFailsInv == ASSUME NEW h \in Handlers PROVE IInv /\ NodeFails(h) => IInv'
<1>1. NodeFails(h) => Return(h) /\ Fault /\ UNCHANGED <<volume, node, claim, lapsed>>
  BY DEF NodeFails
<1> QED
  BY <1>1, ReturnsInv

(* A call that comes has to fit the claim. *)
LEMMA StartInv ==
  ASSUME NEW h \in Handlers, NEW op \in {"expand", "node"}, NEW pc \in {"get", "find"},
         NEW bytes \in Nat \ {0}, NEW limit \in Nat,
         IInv, Start(h, op, pc, bytes, limit),
         op = "expand" <=> pc = "get",
         op = "expand" => bytes <= claim.want
  PROVE  IInv'
<1> DEFINE c == [op |-> op, pc |-> pc, bytes |-> bytes, limit |-> limit, live |-> TRUE]
<1>1. c \in Calls
  BY DEF Calls
<1>2. call' = [call EXCEPT ![h] = c] /\ UNCHANGED <<volume, node, claim, lapsed, counters>>
  BY DEF Start
<1>3. c.op = op /\ c.pc = pc /\ c.bytes = bytes
  OBVIOUS
<1> HIDE DEF c
<1>4. call' \in [Handlers -> Calls] /\ call'[h] = c /\ \A g \in Handlers \ {h} : Rests(g)
  BY <1>1, <1>2, CallOfHandler
<1>5. TypeOK' /\ StateOK' /\ Grows
  BY <1>2, <1>4, CountersKept, CallsOnly
<1>6. HandlerOK(h)'
  BY <1>2, <1>3, <1>4 DEF HandlerOK, ShapeOf, NodeKnows, ControllerKnows, Expands
<1> QED
  BY <1>4, <1>5, <1>6, OneMoves

LEMMA CallExpandInv ==
  ASSUME NEW h \in Handlers, NEW limit \in Limits PROVE IInv /\ CallExpand(h, limit) => IInv'
<1> SUFFICES ASSUME IInv, CallExpand(h, limit) PROVE IInv'
  OBVIOUS
<1>1. Types /\ limit \in Nat
  BY TypesHold, RequestsAssumption
<1>2. claim.want \in Nat \ {0} /\ claim.want <= claim.want
  BY <1>1 DEF Types
<1>3. Start(h, "expand", "get", claim.want, limit)
  BY DEF CallExpand
<1> QED
  BY <1>1, <1>2, <1>3, StartInv

LEMMA CallNodeExpandInv == ASSUME NEW h \in Handlers PROVE IInv /\ CallNodeExpand(h) => IInv'
<1> SUFFICES ASSUME IInv, CallNodeExpand(h) PROVE IInv'
  OBVIOUS
<1>1. claim.pv \in Nat \ {0} /\ 0 \in Nat
  BY TypesHold DEF Types, CallNodeExpand
<1>2. Start(h, "node", "find", claim.pv, 0)
  BY DEF CallNodeExpand
<1> QED
  BY <1>1, <1>2, StartInv
-----------------------------------------------------------------------------
(* The steps of ControllerExpandVolume *)

(* A call that goes on, and knows no more than before. *)
LEMMA GoesOnInv ==
  ASSUME NEW h \in Handlers, NEW pc \in {"extend", "rescan"}, IInv, Goto(h, pc),
         UNCHANGED <<volume, node, claim, lapsed, counters>>,
         pc = "extend" => call[h].op = "expand",
         pc = "rescan" => call[h].op = "node"
  PROVE  IInv'
<1>1. /\ call' \in [Handlers -> Calls]
      /\ call'[h] = [call[h] EXCEPT !.pc = pc]
      /\ \A g \in Handlers \ {h} : Rests(g)
  BY ReturnOrGoto
<1>2. TypeOK' /\ StateOK' /\ Grows
  BY <1>1, CountersKept, CallsOnly
<1>3. call[h] \in Calls /\ HandlerOK(h)
  BY DEF IInv, TypeOK
<1>4. /\ call'[h].pc = pc /\ call'[h].op = call[h].op
      /\ call'[h].bytes = call[h].bytes
  BY <1>1, <1>3 DEF Calls
<1>5. HandlerOK(h)'
  BY <1>3, <1>4 DEF HandlerOK, ShapeOf, NodeKnows, ControllerKnows, Expands
<1> QED
  BY <1>1, <1>2, <1>5, OneMoves

LEMMA GetInv == ASSUME NEW h \in Handlers PROVE IInv /\ Get(h) => IInv'
<1> SUFFICES ASSUME IInv, Get(h) PROVE IInv'
  OBVIOUS
<1>1. Goto(h, "extend") /\ UNCHANGED <<volume, node, claim, lapsed, counters>>
  BY DEF Get
<1>2. call[h].op = "expand"
  BY DEF Get, ReachesAPI, IInv, HandlerOK, ShapeOf, Expands
<1> QED
  BY <1>1, <1>2, GoesOnInv

(* An extension that the API accepts, whether or not its answer arrives. *)
LEMMA Extended ==
  ASSUME NEW h \in Handlers, IInv, call[h].op = "expand",
         Extendable(RoundUpSize(call[h].bytes)), StartExtend(RoundUpSize(call[h].bytes)),
         UNCHANGED <<node, claim, lapsed>>, CountersOK', call' \in [Handlers -> Calls]
  PROVE  /\ TypeOK' /\ StateOK' /\ Grows
         /\ call[h].bytes <= InBytes(volume'.target)
<1> DEFINE b == call[h].bytes
           s == RoundUpSize(b)
<1>1. Types /\ GiB \in Nat
  BY TypesHold, GiBAssumption
<1>2. b \in Nat \ {0} /\ b <= claim.want
  BY DEF IInv, TypeOK, Calls, HandlerOK, ShapeOf, ControllerKnows, Expands
<1>3. s \in Nat \ {0} /\ b <= InBytes(s) /\ InBytes(s) < b + GiB
  BY <1>2, Rounding
<1>4. /\ volume.status = "available" /\ volume.size <= s
      /\ volume' = [volume EXCEPT !.status = "extending", !.target = s]
  BY <1>1, <1>3 DEF Extendable, StartExtend, Types
<1> HIDE DEF s
<1>5. /\ volume' \in Volumes /\ volume'.status = "extending"
      /\ volume'.size = volume.size /\ volume'.target = s
  BY <1>3, <1>4 DEF IInv, TypeOK, Volumes
<1>6. volume.size = volume.target
  BY <1>4 DEF IInv, TypeOK
<1>7. mounted' = mounted /\ device' = device /\ fs' = fs /\ claim' = claim /\ lapsed' = lapsed
  BY DEF node
<1>8. TypeOK'
  BY <1>4, <1>5, <1>7 DEF IInv, TypeOK, Volumes, CountersOK
<1>9. Grows
  <2>1. /\ device <= device' /\ fs <= fs' /\ claim.want <= claim'.want
        /\ volume.target <= volume'.target
    BY <1>1, <1>4, <1>5, <1>6, <1>7 DEF Types
  <2>2. lapsed => lapsed'
    BY Zenon
  <2> QED
    BY <2>1, <2>2, Zenon DEF Grows
<1>10. StateOK'
  <2>1. SizesShrink' /\ ToldOK'
    BY <1>5, <1>7 DEF IInv, StateOK, SizesShrink, ToldOK
  <2>2. InBytes(volume.target) <= InBytes(s)
    BY <1>1, <1>3, <1>4, <1>6, BytesGrow DEF Types
  <2>3. InBytes(volume.target) \in Nat /\ InBytes(s) \in Nat
    BY <1>1, <1>3, BytesType DEF Types
  <2>4. InBytes(volume'.target) < claim'.want + GiB
    BY <1>1, <1>2, <1>3, <1>5, <1>7, <2>3 DEF Types
  <2>5. claim'.pv <= InBytes(volume'.target) \/ lapsed'
    BY <1>1, <1>5, <1>7, <2>2, <2>3 DEF IInv, StateOK, RangeOK, Types
  <2>6. RangeOK'
    BY <2>4, <2>5 DEF RangeOK
  <2> QED
    BY <2>1, <2>6 DEF StateOK
<1>11. b <= InBytes(volume'.target)
  BY <1>3, <1>5
<1> QED
  BY <1>8, <1>9, <1>10, <1>11

LEMMA ExtendInv == ASSUME NEW h \in Handlers PROVE IInv /\ Extend(h) => IInv'
<1> SUFFICES ASSUME IInv, Extend(h) PROVE IInv'
  OBVIOUS
<1>1. call[h].op = "expand"
  BY DEF Extend, ReachesAPI, IInv, HandlerOK, ShapeOf, Expands
<1>2. CASE UNCHANGED volume /\ Return(h)
  BY <1>2, ReturnsInv DEF Extend
<1>3. CASE /\ Extendable(RoundUpSize(call[h].bytes))
           /\ StartExtend(RoundUpSize(call[h].bytes))
           /\ Goto(h, "reply")
  <2>1. /\ call' \in [Handlers -> Calls]
        /\ call'[h] = [call[h] EXCEPT !.pc = "reply"]
        /\ \A g \in Handlers \ {h} : Rests(g)
    BY <1>3, ReturnOrGoto
  <2>2. UNCHANGED <<node, claim, lapsed>> /\ CountersOK'
    BY CountersKept DEF Extend
  <2>3. TypeOK' /\ StateOK' /\ Grows /\ call[h].bytes <= InBytes(volume'.target)
    BY <1>1, <1>3, <2>1, <2>2, Extended
  <2>4. call[h] \in Calls /\ HandlerOK(h)
    BY DEF IInv, TypeOK
  <2>5. /\ call'[h].pc = "reply" /\ call'[h].op = "expand"
        /\ call'[h].bytes = call[h].bytes
    BY <1>1, <2>1, <2>4 DEF Calls
  <2>6. HandlerOK(h)'
    BY <1>1, <2>2, <2>3, <2>4, <2>5 DEF HandlerOK, ShapeOf, NodeKnows, ControllerKnows, Expands
  <2> QED
    BY <2>1, <2>3, <2>6, OneMoves
<1> QED
  BY <1>2, <1>3 DEF Extend

LEMMA ApiFailsInv == ASSUME NEW h \in Handlers PROVE IInv /\ ApiFails(h) => IInv'
<1> SUFFICES ASSUME IInv, ApiFails(h) PROVE IInv'
  OBVIOUS
<1>1. call[h].op = "expand"
  BY DEF ApiFails, IInv, HandlerOK, ShapeOf, Expands
<1>2. CASE UNCHANGED volume
  BY <1>2, ReturnsInv DEF ApiFails
<1>3. CASE /\ Extendable(RoundUpSize(call[h].bytes))
           /\ StartExtend(RoundUpSize(call[h].bytes))
  <2>1. call' \in [Handlers -> Calls] /\ \A g \in Handlers : Rests(g)
    BY ReturnOrGoto DEF ApiFails
  <2>2. UNCHANGED <<node, claim, lapsed>> /\ CountersOK'
    BY CountersKept DEF ApiFails
  <2>3. TypeOK' /\ StateOK' /\ Grows
    BY <1>1, <1>3, <2>1, <2>2, Extended
  <2>4. HandlerOK(h)'
    BY <2>1, <2>3, RestingHandler
  <2> QED
    BY <2>1, <2>3, <2>4, OneMoves
<1> QED
  BY <1>2, <1>3 DEF ApiFails
-----------------------------------------------------------------------------
(* The steps of NodeExpandVolume *)

LEMMA FindInv == ASSUME NEW h \in Handlers PROVE IInv /\ Find(h) => IInv'
<1> SUFFICES ASSUME IInv, Find(h) PROVE IInv'
  OBVIOUS
<1>1. call[h].op = "node" /\ UNCHANGED <<volume, node, claim, lapsed, counters>>
  BY DEF Find, IInv, HandlerOK, ShapeOf
<1>2. CASE Goto(h, "rescan")
  BY <1>1, <1>2, GoesOnInv
<1>3. CASE Return(h)
  BY <1>1, <1>3, ReturnsInv
<1> QED
  BY <1>2, <1>3 DEF Find

(* The device has the volume's size, which is not less than before. *)
LEMMA Rescanned ==
  ASSUME IInv, device' = volume.size, UNCHANGED <<volume, mounted, fs, claim, lapsed>>,
         CountersOK', call' \in [Handlers -> Calls]
  PROVE  TypeOK' /\ StateOK' /\ Grows
<1>1. Types /\ device <= volume.size /\ fs <= volume.size
  BY TypesHold DEF IInv, StateOK, SizesShrink
<1>2. TypeOK'
  BY <1>1 DEF IInv, TypeOK, CountersOK, Types
<1>3. Grows
  <2>1. /\ device <= device' /\ fs <= fs' /\ claim.want <= claim'.want
        /\ volume.target <= volume'.target
    BY <1>1 DEF Types
  <2>2. lapsed => lapsed'
    BY Zenon
  <2> QED
    BY <2>1, <2>2, Zenon DEF Grows
<1>4. StateOK'
  BY <1>1 DEF IInv, StateOK, SizesShrink, ToldOK, RangeOK, Types
<1> QED
  BY <1>2, <1>3, <1>4

LEMMA RescanInv == ASSUME NEW h \in Handlers PROVE IInv /\ Rescan(h) => IInv'
<1> SUFFICES ASSUME IInv, Rescan(h) PROVE IInv'
  OBVIOUS
<1>1. /\ call[h].pc = "rescan" /\ call[h].op = "node" /\ call[h] \in Calls
      /\ UNCHANGED <<volume, mounted, fs, claim, lapsed>> /\ CountersOK'
  BY CountersKept DEF Rescan, IInv, TypeOK, HandlerOK, ShapeOf
<1>2. CASE UNCHANGED device /\ Return(h)
  BY <1>1, <1>2, ReturnsInv DEF node, Rescan
<1>3. CASE device' = volume.size /\ Return(h)
  <2>1. call' \in [Handlers -> Calls] /\ \A g \in Handlers : Rests(g)
    BY <1>3, ReturnOrGoto
  <2>2. TypeOK' /\ StateOK' /\ Grows
    BY <1>1, <1>3, <2>1, Rescanned
  <2>3. HandlerOK(h)'
    BY <2>1, <2>2, RestingHandler
  <2> QED
    BY <2>1, <2>2, <2>3, OneMoves
<1>4. CASE /\ device' = volume.size /\ Goto(h, "resize")
           /\ call[h].bytes <= InBytes(volume.size)
  <2>1. /\ call' \in [Handlers -> Calls]
        /\ call'[h] = [call[h] EXCEPT !.pc = "resize"]
        /\ \A g \in Handlers \ {h} : Rests(g)
    BY <1>4, ReturnOrGoto
  <2>2. TypeOK' /\ StateOK' /\ Grows
    BY <1>1, <1>4, <2>1, Rescanned
  <2>3. call'[h].pc = "resize" /\ call'[h].op = "node" /\ call'[h].bytes = call[h].bytes
    BY <1>1, <2>1 DEF Calls
  <2>4. HandlerOK(h)'
    BY <1>4, <2>3 DEF HandlerOK, ShapeOf, NodeKnows, ControllerKnows, Expands
  <2> QED
    BY <2>1, <2>2, <2>4, OneMoves
<1> QED
  BY <1>2, <1>3, <1>4 DEF Rescan

LEMMA ResizeInv == ASSUME NEW h \in Handlers PROVE IInv /\ Resize(h) => IInv'
<1> SUFFICES ASSUME IInv, Resize(h) PROVE IInv'
  OBVIOUS
<1>1. /\ call[h].pc = "resize" /\ call[h].op = "node" /\ call[h] \in Calls
      /\ UNCHANGED <<volume, mounted, device, claim, lapsed>> /\ CountersOK'
      /\ call[h].bytes <= InBytes(device)
  BY CountersKept DEF Resize, IInv, TypeOK, HandlerOK, ShapeOf, NodeKnows
<1>2. CASE UNCHANGED fs /\ Return(h)
  BY <1>1, <1>2, ReturnsInv DEF node, Resize
<1>3. CASE mounted /\ fs' = device /\ Goto(h, "reply")
  <2>1. /\ call' \in [Handlers -> Calls]
        /\ call'[h] = [call[h] EXCEPT !.pc = "reply"]
        /\ \A g \in Handlers \ {h} : Rests(g)
    BY <1>3, ReturnOrGoto
  <2>2. Types /\ device <= volume.size /\ fs # 0 /\ fs <= device
    BY <1>3, TypesHold DEF IInv, TypeOK, StateOK, SizesShrink
  <2>3. fs' \in Nat \ {0} /\ fs <= fs' /\ fs' <= device' /\ fs' <= volume'.size
    BY <1>1, <1>3, <2>2 DEF Types
  <2>4. TypeOK'
    BY <1>1, <2>1, <2>3 DEF IInv, TypeOK, CountersOK
  <2>5. Grows
    <3>1. /\ device <= device' /\ fs <= fs' /\ claim.want <= claim'.want
          /\ volume.target <= volume'.target
      BY <1>1, <2>2, <2>3 DEF Types
    <3>2. lapsed => lapsed'
      BY <1>1, Zenon
    <3> QED
      BY <3>1, <3>2, Zenon DEF Grows
  <2>6. StateOK'
    <3>1. SizesShrink'
      BY <1>1, <2>2, <2>3 DEF SizesShrink
    <3>2. ToldOK'
      <4>1. InBytes(fs) <= InBytes(fs') /\ InBytes(fs) \in Nat /\ InBytes(fs') \in Nat
        BY <2>2, <2>3, BytesGrow, BytesType DEF Types
      <4> QED
        BY <1>1, <2>2, <2>3, <4>1 DEF IInv, StateOK, ToldOK, Types
    <3>3. RangeOK'
      BY <1>1 DEF IInv, StateOK, RangeOK
    <3> QED
      BY <3>1, <3>2, <3>3 DEF StateOK
  <2>7. call'[h].pc = "reply" /\ call'[h].op = "node" /\ call'[h].bytes = call[h].bytes
    BY <1>1, <2>1 DEF Calls
  <2>8. HandlerOK(h)'
    BY <1>1, <1>3, <2>3, <2>7 DEF HandlerOK, ShapeOf, NodeKnows, ControllerKnows, Expands
  <2> QED
    BY <2>1, <2>4, <2>5, <2>6, <2>8, OneMoves
<1> QED
  BY <1>2, <1>3 DEF Resize
-----------------------------------------------------------------------------
(* The answers *)

LEMMA ReplyInv == ASSUME NEW h \in Handlers PROVE IInv /\ Reply(h) => IInv'
<1> SUFFICES ASSUME IInv, Reply(h) PROVE IInv'
  OBVIOUS
<1>1. /\ Return(h) /\ CountersOK'
      /\ volume' = volume /\ mounted' = mounted /\ device' = device /\ fs' = fs
  BY CountersKept DEF Reply, node
<1>2. lapsed' = lapsed
  BY DEF Reply
<1>3. call' \in [Handlers -> Calls] /\ \A g \in Handlers : Rests(g)
  BY <1>1, ReturnOrGoto
<1>4. Types /\ call[h].bytes \in Nat /\ call[h].op \in {"expand", "node"} /\ HandlerOK(h)
  BY TypesHold DEF Reply, IInv, TypeOK, Calls, HandlerOK, ShapeOf
<1>5. /\ claim' \in [want : Requests, pv : Nat, told : Nat]
      /\ claim'.want = claim.want
      /\ claim'.pv = claim.pv \/ (claim'.pv = call[h].bytes /\ call[h].op = "expand")
      /\ claim'.told = claim.told \/ (claim'.told = call[h].bytes /\ call[h].op = "node")
  <2>1. claim \in [want : Requests, pv : Nat, told : Nat]
    BY DEF IInv, TypeOK
  <2>2. CASE claim' = claim
    BY <2>1, <2>2
  <2>3. CASE call[h].op = "expand" /\ claim' = [claim EXCEPT !.pv = Larger(call[h].bytes, @)]
    BY <1>4, <2>1, <2>3 DEF Larger
  <2>4. CASE call[h].op = "node" /\ claim' = [claim EXCEPT !.told = Larger(call[h].bytes, @)]
    BY <1>4, <2>1, <2>4 DEF Larger
  <2> QED
    BY <1>4, <2>2, <2>3, <2>4 DEF Reply
<1>6. TypeOK'
  BY <1>1, <1>2, <1>3, <1>5 DEF IInv, TypeOK, CountersOK
<1>7. Grows
  <2>1. /\ device <= device' /\ fs <= fs' /\ claim.want <= claim'.want
        /\ volume.target <= volume'.target
    BY <1>1, <1>4, <1>5 DEF Types
  <2>2. lapsed => lapsed'
    BY <1>2, Zenon
  <2> QED
    BY <2>1, <2>2, Zenon DEF Grows
<1>8. StateOK'
  <2>1. SizesShrink'
    BY <1>1 DEF IInv, StateOK, SizesShrink
  <2>2. ToldOK'
    BY <1>1, <1>4, <1>5 DEF Reply, IInv, StateOK, ToldOK, HandlerOK, NodeKnows
  <2>3. RangeOK'
    BY <1>1, <1>2, <1>4, <1>5
       DEF Reply, IInv, StateOK, RangeOK, HandlerOK, ControllerKnows, Expands
  <2> QED
    BY <2>1, <2>2, <2>3 DEF StateOK
<1>9. \A g \in Handlers : HandlerOK(g)'
  BY <1>3, <1>6, <1>7, RestingHandler
<1> QED
  BY <1>6, <1>8, <1>9 DEF IInv
-----------------------------------------------------------------------------
(* Every step of the specification keeps the invariant: in 18 cases, one for
   each kind of step. *)
LEMMA InvNext == IInv /\ [Next]_vars => IInv'
<1> SUFFICES ASSUME IInv, [Next]_vars PROVE IInv'
  OBVIOUS
<1>1. CASE UNCHANGED vars
  <2>1. /\ UNCHANGED <<volume, node, claim, lapsed>> /\ UNCHANGED call /\ UNCHANGED counters
    BY <1>1 DEF vars
  <2>2. CountersOK' /\ call' \in [Handlers -> Calls] /\ \A g \in Handlers : Rests(g)
    BY <2>1, CountersKept DEF IInv, TypeOK, Rests
  <2> QED
    BY <2>1, <2>2, AllRest
<1>2. ASSUME NEW h \in Handlers, HandlerStep(h) PROVE IInv'
  BY <1>2, GetInv, ExtendInv, ExpireInv, FindInv, RescanInv, ResizeInv, ReplyInv
     DEF HandlerStep
<1>3. ASSUME NEW h \in Handlers, HandlerFault(h) PROVE IInv'
  BY <1>3, ApiFailsInv, NodeFailsInv, CancelInv DEF HandlerFault
<1>4. ASSUME NEW h \in Handlers, CallNodeExpand(h) \/ \E limit \in Limits : CallExpand(h, limit)
      PROVE  IInv'
  BY <1>4, CallNodeExpandInv, CallExpandInv
<1>5. ASSUME NEW op \in {"expand", "node"}, Restart(op) PROVE IInv'
  BY <1>5, RestartInv
<1>6. CASE ExtensionDone \/ ExtensionFails
  BY <1>6, ExtensionDoneInv, ExtensionFailsInv
<1>7. CASE PodComes \/ PodGoes
  BY <1>7, PodComesInv, PodGoesInv
<1>8. ASSUME NEW r \in Requests, UserGrows(r) PROVE IInv'
  BY <1>8, UserGrowsInv
<1> QED
  BY <1>1, <1>2, <1>3, <1>4, <1>5, <1>6, <1>7, <1>8 DEF Next

LEMMA Invariance == Spec => []IInv
  BY InvInit, InvNext, PTL DEF Spec

(* Every variable keeps its type; in particular the file system of a mounted
   volume is no larger than its device. *)
THEOREM TypeCorrect == Spec => []TypeOK
<1>1. IInv => TypeOK
  BY DEF IInv
<1> QED
  BY <1>1, Invariance, PTL

(* The capacity a user is told is in the file system (nodeserver.go:339-349). *)
THEOREM ToldIsTrue == Spec => []ToldIsThere
<1>1. IInv => ToldIsThere
  BY DEF IInv, StateOK, ToldOK, ToldIsThere
<1> QED
  BY <1>1, Invariance, PTL

(* A volume has less than a GiB more than was asked for, and what was answered is there or on its way (controller.go:519-544). *)
THEOREM RangeIsKept == Spec => []VolumeInRange
<1>1. IInv => VolumeInRange
  BY DEF IInv, StateOK, RangeOK, VolumeInRange
<1> QED
  BY <1>1, Invariance, PTL
-----------------------------------------------------------------------------
(* The refinement of the abstract expansion.  Its operators on sizes are those
   of this module. *)
LEMMA SameSizes ==
  /\ \A s : Promise!InBytes(s) = InBytes(s)
  /\ \A b : Promise!RoundUpSize(b) = RoundUpSize(b)
BY DEF InBytes, RoundUpSize, Promise!InBytes, Promise!RoundUpSize

(* A size that is less than a GiB too large is at most the request rounded up. *)
LEMMA RoundedIsEnough ==
  ASSUME NEW b \in Nat, NEW t \in Nat, InBytes(t) < b + GiB
  PROVE  t <= RoundUpSize(b)
<1> DEFINE r == RoundUpSize(b)
<1>1. r \in Nat /\ b <= InBytes(r)
  BY Rounding
<1> HIDE DEF r
<1>2. SUFFICES ASSUME r + 1 <= t PROVE FALSE
  BY <1>1 DEF r
<1>3. InBytes(r + 1) <= InBytes(t)
  BY <1>1, <1>2, BytesGrow
<1>4. InBytes(r + 1) = InBytes(r) + GiB
  BY <1>1, GiBAssumption DEF InBytes
<1>5. InBytes(r) \in Nat /\ InBytes(t) \in Nat /\ GiB \in Nat
  BY <1>1, BytesType, GiBAssumption
<1> QED
  BY <1>1, <1>3, <1>4, <1>5

LEMMA PromiseInit == Init => Promise!Init
<1> SUFFICES ASSUME Init PROVE Promise!Init
  OBVIOUS
<1>1. PICK r \in Requests :
        /\ volume = [status |-> "available", size |-> RoundUpSize(r), target |-> RoundUpSize(r)]
        /\ claim = [want |-> r, pv |-> InBytes(RoundUpSize(r)), told |-> InBytes(RoundUpSize(r))]
  BY DEF Init
<1>2. /\ claim.want = r /\ volume.size = RoundUpSize(r)
      /\ claim.told = InBytes(volume.size) /\ fs = 0
  BY <1>1 DEF Init
<1> QED
  BY <1>2, SameSizes DEF Promise!Init

(* Most steps change nothing that the user sees. *)
LEMMA PromiseStutter ==
  ASSUME UNCHANGED <<claim, volume, fs>>
  PROVE  UNCHANGED Promise!vars
BY DEF Promise!vars

LEMMA PromiseUser ==
  ASSUME IInv, NEW r \in Requests, UserGrows(r)
  PROVE  Promise!Ask
<1>1. claim'.want = r /\ claim'.told = claim.told /\ r > claim.want
  BY DEF UserGrows, IInv, TypeOK
<1>2. volume' = volume /\ fs' = fs
  BY DEF UserGrows, node
<1> QED
  BY <1>1, <1>2 DEF Promise!Ask

(* What an accepted extension leads to was bounded when it was accepted. *)
LEMMA PromiseExtended ==
  ASSUME IInv, ExtensionDone
  PROVE  Promise!Extend \/ UNCHANGED Promise!vars
<1>1. volume'.size = volume.target /\ claim' = claim /\ fs' = fs
  BY DEF ExtensionDone, node, IInv, TypeOK
<1>2. Types /\ InBytes(volume.target) < claim.want + GiB
  BY TypesHold DEF IInv, StateOK, RangeOK
<1>3. RoundUpSize(claim.want) \in Nat /\ volume.target <= RoundUpSize(claim.want)
  BY <1>2, Rounding, RoundedIsEnough DEF Types
<1>4. CASE volume.target = volume.size
  BY <1>1, <1>4 DEF Promise!vars
<1>5. CASE volume.target # volume.size
  <2>1. volume'.size \in (volume.size + 1) .. RoundUpSize(claim.want)
    BY <1>1, <1>2, <1>3, <1>5 DEF Types
  <2> QED
    BY <1>1, <2>1, SameSizes DEF Promise!Extend
<1> QED
  BY <1>4, <1>5

LEMMA PromiseFailed ==
  ASSUME IInv, ExtensionFails
  PROVE  UNCHANGED Promise!vars
<1>1. volume'.size = volume.size /\ claim' = claim /\ fs' = fs
  BY DEF ExtensionFails, node, IInv, TypeOK
<1> QED
  BY <1>1 DEF Promise!vars

LEMMA PromiseAccepted ==
  ASSUME IInv, NEW s \in Nat, StartExtend(s), UNCHANGED <<claim, fs>>
  PROVE  UNCHANGED Promise!vars
<1>1. volume'.size = volume.size
  BY DEF StartExtend, IInv, TypeOK
<1> QED
  BY <1>1 DEF Promise!vars

LEMMA PromisePod ==
  ASSUME IInv, PodComes
  PROVE  Promise!Format \/ UNCHANGED Promise!vars
BY DEF PodComes, Promise!Format, Promise!vars

(* The file system is no larger than its device, the device no larger than the
   volume: it grows, if anything. *)
LEMMA PromiseResized ==
  ASSUME IInv, NEW h \in Handlers, Resize(h)
  PROVE  Promise!Grow \/ UNCHANGED Promise!vars
<1>1. UNCHANGED <<volume, claim>>
  BY DEF Resize
<1>2. CASE UNCHANGED fs
  BY <1>1, <1>2, PromiseStutter
<1>3. CASE mounted /\ fs' = device /\ fs' # fs
  <2>1. Types /\ fs <= device /\ device <= volume.size /\ fs # 0
    BY <1>3, TypesHold DEF IInv, TypeOK, StateOK, SizesShrink
  <2>2. fs' \in (fs + 1) .. volume.size
    BY <1>3, <2>1 DEF Types
  <2> QED
    BY <1>1, <2>1, <2>2 DEF Promise!Grow
<1> QED
  BY <1>2, <1>3 DEF Resize

(* What an answer of the node names was compared with the device before the file
   system was grown to it, and nothing has shrunk since. *)
LEMMA PromiseReplied ==
  ASSUME IInv, NEW h \in Handlers, Reply(h)
  PROVE  Promise!Tell \/ UNCHANGED Promise!vars
<1>1. volume' = volume /\ fs' = fs /\ call[h].pc = "reply"
  BY DEF Reply, node
<1>2. claim \in [want : Requests, pv : Nat, told : Nat]
  BY DEF IInv, TypeOK
<1>3. CASE claim' = claim
  BY <1>1, <1>3 DEF Promise!vars
<1>4. CASE claim' = [claim EXCEPT !.pv = Larger(call[h].bytes, @)]
  <2>1. claim'.want = claim.want /\ claim'.told = claim.told
    BY <1>2, <1>4
  <2> QED
    BY <1>1, <2>1 DEF Promise!vars
<1>5. CASE /\ call[h].op # "expand"
           /\ claim' = [claim EXCEPT !.told = Larger(call[h].bytes, @)]
  <2>1. claim'.want = claim.want /\ claim'.told = Larger(call[h].bytes, claim.told)
    BY <1>2, <1>5
  <2>2. call[h].op = "node"
    BY <1>1, <1>5 DEF IInv, TypeOK, Calls, HandlerOK, ShapeOf
  <2>3. fs # 0 /\ call[h].bytes <= InBytes(fs) /\ call[h].bytes \in Nat
    BY <1>1, <2>2 DEF IInv, TypeOK, Calls, HandlerOK, NodeKnows
  <2>4. InBytes(fs) \in Nat /\ claim.told \in Nat
    BY <1>2, BytesType DEF IInv, TypeOK
  <2>5. CASE claim.told >= call[h].bytes
    <3>1. claim'.told = claim.told
      BY <2>1, <2>3, <2>4, <2>5 DEF Larger
    <3> QED
      BY <1>1, <2>1, <3>1 DEF Promise!vars
  <2>6. CASE claim.told < call[h].bytes
    <3>1. claim'.told \in (claim.told + 1) .. InBytes(fs)
      BY <2>1, <2>3, <2>4, <2>6 DEF Larger
    <3> QED
      BY <1>1, <2>1, <2>3, <3>1, SameSizes DEF Promise!Tell
  <2> QED
    BY <2>3, <2>4, <2>5, <2>6
<1> QED
  BY <1>3, <1>4, <1>5 DEF Reply

LEMMA PromiseStep == IInv /\ [Next]_vars => [Promise!Next]_(Promise!vars)
<1> SUFFICES ASSUME IInv, [Next]_vars
             PROVE  Promise!Next \/ UNCHANGED Promise!vars
  OBVIOUS
<1>1. CASE UNCHANGED vars
  BY <1>1, PromiseStutter DEF vars, node
<1>2. ASSUME NEW h \in Handlers, HandlerStep(h)
      PROVE  Promise!Next \/ UNCHANGED Promise!vars
  <2>1. CASE Get(h) \/ Expire(h) \/ Find(h) \/ Rescan(h)
    BY <2>1, PromiseStutter DEF Get, Expire, Find, Rescan, node
  <2>2. CASE Extend(h)
    <3>1. RoundUpSize(call[h].bytes) \in Nat
      BY Rounding DEF IInv, TypeOK, Calls
    <3> QED
      BY <2>2, <3>1, PromiseAccepted, PromiseStutter DEF Extend, node
  <2>3. CASE Resize(h)
    BY <2>3, PromiseResized DEF Promise!Next
  <2>4. CASE Reply(h)
    BY <2>4, PromiseReplied DEF Promise!Next
  <2> QED
    BY <1>2, <2>1, <2>2, <2>3, <2>4 DEF HandlerStep
<1>3. ASSUME NEW h \in Handlers, HandlerFault(h)
      PROVE  UNCHANGED Promise!vars
  <2>1. CASE NodeFails(h) \/ Cancel(h)
    BY <2>1, PromiseStutter DEF NodeFails, Cancel, node
  <2>2. CASE ApiFails(h)
    <3>1. RoundUpSize(call[h].bytes) \in Nat
      BY Rounding DEF IInv, TypeOK, Calls
    <3> QED
      BY <2>2, <3>1, PromiseAccepted, PromiseStutter DEF ApiFails, node
  <2> QED
    BY <1>3, <2>1, <2>2 DEF HandlerFault
<1>4. ASSUME NEW h \in Handlers, CallNodeExpand(h) \/ \E limit \in Limits : CallExpand(h, limit)
      PROVE  UNCHANGED Promise!vars
  BY <1>4, PromiseStutter DEF CallNodeExpand, CallExpand, Start, node
<1>5. ASSUME NEW op \in {"expand", "node"}, Restart(op) PROVE UNCHANGED Promise!vars
  BY <1>5, PromiseStutter DEF Restart, node
<1>6. CASE ExtensionDone \/ ExtensionFails
  BY <1>6, PromiseExtended, PromiseFailed DEF Promise!Next
<1>7. CASE PodComes \/ PodGoes
  BY <1>7, PromisePod, PromiseStutter DEF PodGoes, Promise!Next
<1>8. ASSUME NEW r \in Requests, UserGrows(r) PROVE Promise!Next
  BY <1>8, PromiseUser DEF Promise!Next
<1> QED
  BY <1>1, <1>2, <1>3, <1>4, <1>5, <1>6, <1>7, <1>8 DEF Next

(* Controller and node together implement the abstract expansion: volume and
   file system only grow, the volume to what was asked for, and the user is told
   of what he can use (controller.go:506-545, nodeserver.go:317-349). *)
THEOREM ImplementsExpansion == Spec => RefinesExpansion
  BY PromiseInit, PromiseStep, Invariance, PTL DEF Spec, RefinesExpansion, Promise!Spec
=============================================================================
