------------------------ MODULE BlockVolumes_proofs ------------------------
(***************************************************************************)
(* Proofs about creation and deletion of block volumes, for any handlers,  *)
(* names, ids, sizes and bounds.                                           *)
(***************************************************************************)
EXTENDS BlockVolumes, TLAPS

(* The inductive invariant.  What a handler has seen of the API stays true
   while its caller waits: it is the only one at work on its claim, and the
   handlers of calls given up no longer reach the API. *)

Ended(id) == volumes[id].status \in {"deleting", "gone"}

ShapeOf(h) ==
  /\ call[h].pc = "idle" => ~ call[h].live
  /\ call[h].pc # "idle" => call[h].op \in {"create", "delete"} /\ call[h].n \in Names
  /\ call[h].pc \in {"list", "create"} => call[h].op = "create"
  /\ call[h].pc = "delete" => call[h].op = "delete"
  /\ call[h].op = "create" => call[h].size \in Sizes
  /\ call[h].op = "delete" \/ call[h].pc = "reply" => call[h].id \in Ids

(* What a create that is waited for knows. *)
CreateKnows(h) ==
  /\ claim[call[h].n].state = "pending"
  /\ call[h].pc = "create" =>
       call[h].n \in doubtful \/ \A id \in Ids : volumes[id].name # call[h].n
  /\ call[h].pc = "reply" =>
       volumes[call[h].id].name = call[h].n /\ volumes[call[h].id].size = call[h].size

(* What a delete that is waited for knows. *)
DeleteKnows(h) ==
  /\ claim[call[h].n].state = "released"
  /\ call[h].id = claim[call[h].n].id
  /\ call[h].pc = "reply" => Ended(call[h].id)

HandlerOK(h) ==
  /\ ShapeOf(h)
  /\ call[h].live /\ call[h].op = "create" => CreateKnows(h)
  /\ call[h].live /\ call[h].op = "delete" => DeleteKnows(h)

Serial == \A g, h \in Handlers : call[g].live /\ call[h].live /\ call[g].n = call[h].n => g = h

VolumesOK ==
  \A id \in Ids :
    /\ IF volumes[id].status = "none" THEN volumes[id].name = None ELSE volumes[id].name \in Names
    /\ Ended(id) => claim[volumes[id].name].state \in {"released", "deleted"}

LateOK == \A r \in late : r[1] \in doubtful

ClaimsOK ==
  \A n \in Names : claim[n].state # "pending" =>
    /\ claim[n].id \in Ids
    /\ volumes[claim[n].id].name = n /\ volumes[claim[n].id].size = claim[n].capacity
    /\ claim[n].state = "deleted" => Ended(claim[n].id)

Unique ==
  \A i, j \in Ids :
    volumes[i].name = volumes[j].name /\ volumes[i].name \in Names \ doubtful => i = j

StateOK == VolumesOK /\ LateOK /\ ClaimsOK /\ Unique

IInv == TypeOK /\ StateOK /\ Serial /\ \A h \in Handlers : HandlerOK(h)

LEMMA IdleType == Idle \in Calls
  BY DEF Idle, Calls

LEMMA InvInit == Init => IInv
<1> SUFFICES ASSUME Init PROVE IInv
  OBVIOUS
<1>1. /\ [name |-> None, status |-> "none", size |-> 0] \in Volumes
      /\ [state |-> "pending", id |-> None, capacity |-> 0] \in Claims
  BY DEF Volumes, Statuses, Claims
<1>2. TypeOK
  BY <1>1, IdleType, BoundsAssumption DEF Init, TypeOK
<1>3. StateOK
  BY NoneAssumption DEF Init, StateOK, VolumesOK, LateOK, ClaimsOK, Unique, Ended
<1>4. Serial /\ \A h \in Handlers : HandlerOK(h)
  BY DEF Init, Idle, Serial, HandlerOK, ShapeOf
<1> QED
  BY <1>2, <1>3, <1>4 DEF IInv
-----------------------------------------------------------------------------
(* What a step leaves to the handlers it is not about *)

(* No step renames or resizes a volume, or takes back a deletion. *)
Keeps ==
  /\ \A id \in Ids : volumes[id].status # "none" =>
       /\ volumes'[id].name = volumes[id].name /\ volumes'[id].size = volumes[id].size
       /\ Ended(id) => Ended(id)'
  /\ doubtful \subseteq doubtful'

(* A claim the step does not change, and for which it makes no volume. *)
Untouched(n) ==
  /\ claim'[n] = claim[n]
  /\ n \in doubtful' \/ \A id \in Ids : volumes'[id].name = n => volumes[id].name = n

(* A handler that goes on, with or without its caller, or that has ended. *)
Rests(h) ==
  \/ call'[h] = Idle
  \/ /\ call'[h].op = call[h].op /\ call'[h].pc = call[h].pc /\ call'[h].n = call[h].n
     /\ call'[h].id = call[h].id /\ call'[h].size = call[h].size
     /\ call[h].pc = "idle" => ~ call'[h].live
     /\ call'[h].live => call[h].live

LEMMA RestingHandler ==
  ASSUME IInv, Keeps, NEW h \in Handlers, Rests(h), call[h].live => Untouched(call[h].n)
  PROVE  HandlerOK(h)'
<1>1. CASE call'[h] = Idle
  BY <1>1 DEF HandlerOK, ShapeOf, Idle
<1>2. CASE call'[h] # Idle
  <2>1. /\ call'[h].op = call[h].op /\ call'[h].pc = call[h].pc /\ call'[h].n = call[h].n
        /\ call'[h].id = call[h].id /\ call'[h].size = call[h].size
        /\ call[h].pc = "idle" => ~ call'[h].live
        /\ call'[h].live => call[h].live
    BY <1>2 DEF Rests
  <2>2. HandlerOK(h) /\ VolumesOK /\ call[h] \in Calls
    BY DEF IInv, StateOK, TypeOK
  <2>3. ShapeOf(h)'
    BY <2>1, <2>2 DEF HandlerOK, ShapeOf
  <2>4. ASSUME call'[h].live, call'[h].op = "create" PROVE CreateKnows(h)'
    <3>1. CreateKnows(h) /\ Untouched(call[h].n) /\ ShapeOf(h) /\ call[h].pc # "idle"
      BY <2>1, <2>2, <2>4 DEF HandlerOK, ShapeOf
    <3>2. call[h].pc = "reply" => call[h].id \in Ids /\ volumes[call[h].id].status # "none"
      BY <2>2, <3>1, NoneAssumption DEF ShapeOf, CreateKnows, VolumesOK
    <3> QED
      BY <2>1, <3>1, <3>2 DEF CreateKnows, Untouched, Keeps
  <2>5. ASSUME call'[h].live, call'[h].op = "delete" PROVE DeleteKnows(h)'
    <3>1. DeleteKnows(h) /\ Untouched(call[h].n) /\ ShapeOf(h)
      BY <2>1, <2>2, <2>5 DEF HandlerOK
    <3>2. call[h].id \in Ids /\ (Ended(call[h].id) => volumes[call[h].id].status # "none")
      BY <2>1, <2>5, <3>1 DEF ShapeOf, Ended
    <3> QED
      BY <2>1, <3>1, <3>2 DEF DeleteKnows, Untouched, Keeps
  <2> QED
    BY <2>3, <2>4, <2>5 DEF HandlerOK
<1> QED
  BY <1>1, <1>2

(* A handler whose caller waits has its claim to itself. *)
LEMMA OneMoves ==
  ASSUME IInv, TypeOK', StateOK', Keeps, NEW h \in Handlers, HandlerOK(h)',
         \A g \in Handlers \ {h} : Rests(g),
         call'[h].live => call[h].live /\ call'[h].n = call[h].n,
         \A m \in Names : Untouched(m) \/ (call[h].live /\ m = call[h].n)
  PROVE  IInv'
<1>1. ASSUME NEW g \in Handlers \ {h} PROVE HandlerOK(g)'
  <2>1. call[g].live => call[g].n \in Names /\ ~ (call[h].live /\ call[g].n = call[h].n)
    BY DEF IInv, HandlerOK, ShapeOf, Serial
  <2> QED
    BY <2>1, RestingHandler
<1>2. \A g \in Handlers : call'[g].live => call[g].live /\ call'[g].n = call[g].n
  BY DEF Rests, Idle
<1>3. Serial'
  BY <1>2 DEF IInv, Serial
<1> QED
  BY <1>1, <1>3 DEF IInv

LEMMA AllRest ==
  ASSUME IInv, TypeOK', StateOK', Keeps, \A g \in Handlers : Rests(g),
         \A m \in Names : Untouched(m)
  PROVE  IInv'
<1>1. \A g \in Handlers : HandlerOK(g)'
  <2>1. \A g \in Handlers : call[g].live => call[g].n \in Names
    BY DEF IInv, HandlerOK, ShapeOf
  <2> QED
    BY <2>1, RestingHandler
<1>2. \A g \in Handlers : call'[g].live => call[g].live /\ call'[g].n = call[g].n
  BY DEF Rests, Idle
<1>3. Serial'
  BY <1>2 DEF IInv, Serial
<1> QED
  BY <1>1, <1>3 DEF IInv
-----------------------------------------------------------------------------
(* What a step can do to the API's state *)

(* Nothing, but for a name that becomes doubtful. *)
LEMMA SameState ==
  ASSUME IInv, UNCHANGED <<volumes, claim>>, doubtful \subseteq doubtful',
         \A r \in late' : r \in late \/ r[1] \in doubtful'
  PROVE  StateOK' /\ Keeps /\ \A m \in Names : Untouched(m)
<1>1. StateOK
  BY DEF IInv
<1>2. VolumesOK' /\ ClaimsOK'
  BY <1>1 DEF StateOK, VolumesOK, ClaimsOK, Ended
<1>3. LateOK' /\ Unique'
  BY <1>1 DEF StateOK, LateOK, Unique
<1>4. Keeps /\ \A m \in Names : Untouched(m)
  BY DEF Keeps, Untouched, Ended
<1> QED
  BY <1>2, <1>3, <1>4 DEF StateOK

(* A volume changes its status. *)
LEMMA StatusState ==
  ASSUME IInv, NEW id \in Ids, NEW x \in Statuses \ {"none"},
         volumes[id].status # "none", volumes' = [volumes EXCEPT ![id].status = x],
         Ended(id) => x \in {"deleting", "gone"},
         x \in {"deleting", "gone"} => claim[volumes[id].name].state \in {"released", "deleted"},
         UNCHANGED <<late, claim, doubtful>>
  PROVE  /\ volumes' \in [Ids -> Volumes]
         /\ StateOK' /\ Keeps /\ \A m \in Names : Untouched(m)
<1>0. volumes[id] \in Volumes /\ StateOK
  BY DEF IInv, TypeOK
<1>1. [volumes[id] EXCEPT !.status = x] \in Volumes
  BY <1>0 DEF Volumes
<1>2. volumes' \in [Ids -> Volumes]
  BY <1>1 DEF IInv, TypeOK
<1>3. /\ volumes'[id].status = x
      /\ volumes'[id].name = volumes[id].name /\ volumes'[id].size = volumes[id].size
      /\ \A i \in Ids \ {id} : volumes'[i] = volumes[i]
  BY <1>0 DEF IInv, TypeOK, Volumes
<1>4. \A i \in Ids : volumes'[i].name = volumes[i].name /\ volumes'[i].size = volumes[i].size
  BY <1>3
<1>5. \A i \in Ids : Ended(i) => Ended(i)'
  BY <1>3 DEF Ended
<1>6. VolumesOK'
  BY <1>0, <1>3 DEF StateOK, VolumesOK, Ended
<1>7. ClaimsOK'
  BY <1>0, <1>4, <1>5 DEF StateOK, ClaimsOK
<1>8. LateOK' /\ Unique'
  BY <1>0, <1>4 DEF StateOK, LateOK, Unique
<1>9. Keeps /\ \A m \in Names : Untouched(m)
  BY <1>4, <1>5 DEF Keeps, Untouched
<1> QED
  BY <1>2, <1>6, <1>7, <1>8, <1>9 DEF StateOK

(* A volume is made, of a name that has none or is doubtful. *)
LEMMA NewState ==
  ASSUME IInv, NEW id \in Ids, NEW n \in Names, NEW s \in Sizes, NewVolume(id, n, s),
         n \in doubtful \/ \A i \in Ids : volumes[i].name # n,
         late' \subseteq late, UNCHANGED <<claim, doubtful>>
  PROVE  /\ volumes' \in [Ids -> Volumes]
         /\ volumes'[id].name = n /\ volumes'[id].size = s
         /\ StateOK' /\ Keeps /\ \A m \in Names : Untouched(m) \/ m = n
<1>0. StateOK /\ volumes[id].status = "none" /\ volumes[id].name = None
  BY DEF IInv, StateOK, VolumesOK, NewVolume
<1>1. [name |-> n, status |-> "creating", size |-> s] \in Volumes
  BY DEF Volumes, Statuses
<1>2. /\ volumes' \in [Ids -> Volumes]
      /\ volumes'[id] = [name |-> n, status |-> "creating", size |-> s]
      /\ \A i \in Ids \ {id} : volumes'[i] = volumes[i]
  BY <1>1 DEF IInv, TypeOK, NewVolume
<1>3. VolumesOK'
  BY <1>0, <1>2 DEF StateOK, VolumesOK, Ended
<1>4. \A m \in Names : claim[m].state # "pending" => claim[m].id # id
  BY <1>0, NoneAssumption DEF StateOK, ClaimsOK
<1>5. ClaimsOK'
  BY <1>0, <1>2, <1>4 DEF StateOK, ClaimsOK, Ended
<1>6. LateOK' /\ Unique'
  BY <1>0, <1>2 DEF StateOK, LateOK, Unique
<1>7. Keeps
  BY <1>0, <1>2 DEF Keeps, Ended
<1>8. \A m \in Names : Untouched(m) \/ m = n
  BY <1>2 DEF Untouched
<1> QED
  BY <1>2, <1>3, <1>5, <1>6, <1>7, <1>8 DEF StateOK
-----------------------------------------------------------------------------
(* The steps of the API and of the user *)

LEMMA FaultType == ASSUME TypeOK PROVE UNCHANGED faults \/ Fault => faults' \in 0..MaxFaults
  BY BoundsAssumption DEF TypeOK, Fault

(* A change of status that the API makes by itself. *)
LEMMA ApiMoves ==
  ASSUME IInv, NEW id \in Ids, NEW from \in Statuses \ {"none"}, NEW to \in Statuses \ {"none"},
         Becomes(id, from, to), UNCHANGED <<late, call, claim, doubtful>>,
         UNCHANGED faults \/ Fault,
         to \in {"deleting", "gone"} <=> from \in {"deleting", "gone"}
  PROVE  IInv'
<1>1. volumes[id].status = from /\ volumes' = [volumes EXCEPT ![id].status = to]
  BY DEF Becomes
<1>2. to \in {"deleting", "gone"} => claim[volumes[id].name].state \in {"released", "deleted"}
  BY <1>1 DEF IInv, StateOK, VolumesOK, Ended
<1>3. /\ volumes' \in [Ids -> Volumes]
      /\ StateOK' /\ Keeps /\ \A m \in Names : Untouched(m)
  BY <1>1, <1>2, StatusState DEF Ended
<1>4. TypeOK'
  BY <1>3, FaultType DEF IInv, TypeOK
<1>5. \A g \in Handlers : Rests(g)
  BY DEF Rests, IInv, HandlerOK, ShapeOf
<1> QED
  BY <1>3, <1>4, <1>5, AllRest

LEMMA CloudInv ==
  ASSUME NEW id \in Ids
  PROVE  /\ IInv /\ VolumeReady(id) => IInv'
         /\ IInv /\ VolumeFails(id) => IInv'
         /\ IInv /\ VolumeGone(id) => IInv'
         /\ IInv /\ VolumeUsed(id) => IInv'
         /\ IInv /\ VolumeFreed(id) => IInv'
<1> {"creating", "available", "busy", "error", "deleting", "gone"} = Statuses \ {"none"}
  BY DEF Statuses
<1>1. IInv /\ VolumeReady(id) => IInv'
  BY ApiMoves DEF VolumeReady
<1>2. IInv /\ VolumeFails(id) => IInv'
  BY ApiMoves DEF VolumeFails
<1>3. IInv /\ VolumeGone(id) => IInv'
  BY ApiMoves DEF VolumeGone
<1>4. IInv /\ VolumeUsed(id) => IInv'
  BY ApiMoves DEF VolumeUsed
<1>5. IInv /\ VolumeFreed(id) => IInv'
  BY ApiMoves DEF VolumeFreed
<1> QED
  BY <1>1, <1>2, <1>3, <1>4, <1>5

LEMMA LateCreateInv ==
  ASSUME NEW n \in Names, NEW s \in Sizes PROVE IInv /\ LateCreate(n, s) => IInv'
<1> SUFFICES ASSUME IInv, LateCreate(n, s) PROVE IInv'
  OBVIOUS
<1>1. PICK id \in Ids : NewVolume(id, n, s)
  BY DEF LateCreate
<1>2. n \in doubtful /\ late' \subseteq late
  BY DEF LateCreate, IInv, StateOK, LateOK
<1>3. UNCHANGED <<call, claim, doubtful, faults>>
  BY DEF LateCreate
<1>4. /\ volumes' \in [Ids -> Volumes]
      /\ StateOK' /\ Keeps /\ \A m \in Names : Untouched(m) \/ m = n
  BY <1>1, <1>2, <1>3, NewState
<1>5. TypeOK'
  BY <1>2, <1>3, <1>4 DEF IInv, TypeOK
<1>6. \A m \in Names : Untouched(m)
  BY <1>2, <1>3, <1>4 DEF Untouched
<1>7. \A g \in Handlers : Rests(g)
  BY <1>3 DEF Rests, IInv, HandlerOK, ShapeOf
<1> QED
  BY <1>4, <1>5, <1>6, <1>7, AllRest

(* A claim is released when it is bound: no call on it is waited for then. *)
LEMMA UserReleasesInv == ASSUME NEW n \in Names PROVE IInv /\ UserReleases(n) => IInv'
<1> SUFFICES ASSUME IInv, UserReleases(n) PROVE IInv'
  OBVIOUS
<1>1. /\ claim[n].state = "bound" /\ claim' = [claim EXCEPT ![n].state = "released"]
      /\ volumes' = volumes /\ late' = late /\ call' = call
      /\ doubtful' = doubtful /\ faults' = faults
  BY DEF UserReleases, cloud
<1>2. /\ claim[n] \in Claims /\ claim' \in [Names -> Claims]
      /\ claim'[n].state = "released" /\ claim'[n].id = claim[n].id
      /\ claim'[n].capacity = claim[n].capacity
      /\ \A m \in Names \ {n} : claim'[m] = claim[m]
  BY <1>1 DEF IInv, TypeOK, Claims
<1>3. TypeOK'
  <2>1. \A m \in Names : claim'[m].state # "pending" => claim'[m].id # None
    BY <1>1, <1>2 DEF IInv, TypeOK
  <2> QED
    BY <1>1, <1>2, <2>1 DEF IInv, TypeOK
<1>4. StateOK'
  <2>1. VolumesOK'
    BY <1>1, <1>2 DEF IInv, StateOK, VolumesOK, Ended
  <2>2. ClaimsOK'
    BY <1>1, <1>2 DEF IInv, StateOK, ClaimsOK, Ended
  <2>3. LateOK' /\ Unique'
    BY <1>1 DEF IInv, StateOK, LateOK, Unique
  <2> QED
    BY <2>1, <2>2, <2>3 DEF StateOK
<1>5. Keeps
  BY <1>1 DEF Keeps, Ended
<1>6. ASSUME NEW g \in Handlers PROVE HandlerOK(g)'
  <2>1. call[g].live => call[g].n \in Names /\ call[g].n # n
    BY <1>1 DEF IInv, HandlerOK, ShapeOf, CreateKnows, DeleteKnows
  <2>2. Rests(g) /\ (call[g].live => Untouched(call[g].n))
    BY <1>1, <1>2, <2>1 DEF Rests, Untouched, IInv, HandlerOK, ShapeOf
  <2> QED
    BY <1>5, <2>2, RestingHandler
<1>7. Serial'
  BY <1>1 DEF IInv, Serial
<1> QED
  BY <1>3, <1>4, <1>6, <1>7 DEF IInv
-----------------------------------------------------------------------------
(* Calls come, lose their caller, and end without a result *)

(* What a step of one handler does to the calls. *)
LEMMA CallOfHandler ==
  ASSUME IInv, NEW h \in Handlers, NEW c \in Calls, call' = [call EXCEPT ![h] = c]
  PROVE  /\ call' \in [Handlers -> Calls]
         /\ call'[h] = c
         /\ \A g \in Handlers \ {h} : Rests(g)
  BY DEF IInv, TypeOK, Rests, HandlerOK, ShapeOf

LEMMA Returned ==
  ASSUME IInv, NEW h \in Handlers, Return(h)
  PROVE  /\ call' \in [Handlers -> Calls] /\ HandlerOK(h)'
         /\ call'[h] = Idle /\ ~ call'[h].live
         /\ \A g \in Handlers : Rests(g)
<1>1. call' = [call EXCEPT ![h] = Idle]
  BY DEF Return
<1>2. /\ call' \in [Handlers -> Calls] /\ call'[h] = Idle
      /\ \A g \in Handlers \ {h} : Rests(g)
  BY <1>1, IdleType, CallOfHandler
<1>3. HandlerOK(h)' /\ ~ call'[h].live
  BY <1>2 DEF HandlerOK, ShapeOf, Idle
<1> QED
  BY <1>2, <1>3 DEF Rests

LEMMA GoneTo ==
  ASSUME IInv, NEW h \in Handlers, NEW pc \in {"create", "reply"}, Goto(h, pc)
  PROVE  /\ call' \in [Handlers -> Calls]
         /\ call'[h].pc = pc /\ call'[h].op = call[h].op /\ call'[h].n = call[h].n
         /\ call'[h].id = call[h].id /\ call'[h].size = call[h].size
         /\ call'[h].live = call[h].live
         /\ \A g \in Handlers \ {h} : Rests(g)
<1> DEFINE c == [call[h] EXCEPT !.pc = pc]
<1>1. call[h] \in Calls
  BY DEF IInv, TypeOK
<1>2. c \in Calls /\ call' = [call EXCEPT ![h] = c]
  BY <1>1 DEF Calls, Goto
<1>3. /\ c.pc = pc /\ c.op = call[h].op /\ c.n = call[h].n
      /\ c.id = call[h].id /\ c.size = call[h].size /\ c.live = call[h].live
  BY <1>1 DEF Calls
<1> HIDE DEF c
<1> QED
  BY <1>2, <1>3, CallOfHandler

(* A step that changes nothing but calls, and that starts none. *)
LEMMA CallsOnly ==
  ASSUME IInv, UNCHANGED <<cloud, claim>>, doubtful' = doubtful, UNCHANGED faults \/ Fault,
         call' \in [Handlers -> Calls], \A g \in Handlers : Rests(g)
  PROVE  IInv'
<1>1. UNCHANGED <<volumes, late, claim>>
  BY DEF cloud
<1>2. StateOK' /\ Keeps /\ \A m \in Names : Untouched(m)
  BY <1>1, SameState
<1>3. TypeOK'
  BY <1>1, FaultType DEF IInv, TypeOK
<1> QED
  BY <1>2, <1>3, AllRest

LEMMA CancelInv == ASSUME NEW h \in Handlers PROVE IInv /\ Cancel(h) => IInv'
<1> SUFFICES ASSUME IInv, Cancel(h) PROVE IInv'
  OBVIOUS
<1>1. call \in [Handlers -> Calls] /\ call' = [call EXCEPT ![h].live = FALSE]
  BY DEF IInv, TypeOK, Cancel
<1>2. call' \in [Handlers -> Calls] /\ \A g \in Handlers : Rests(g)
  <2>1. call' \in [Handlers -> Calls]
    BY <1>1 DEF Calls
  <2>2. call[h] \in Calls /\ call'[h] = [call[h] EXCEPT !.live = FALSE]
    BY <1>1
  <2>3. Rests(h)
    BY <2>2 DEF Calls, Rests
  <2>4. \A g \in Handlers \ {h} : Rests(g)
    BY <1>1 DEF Rests, IInv, HandlerOK, ShapeOf
  <2> QED
    BY <2>1, <2>3, <2>4
<1> QED
  BY <1>2, CallsOnly DEF Cancel

LEMMA RestartInv == IInv /\ Restart => IInv'
<1> SUFFICES ASSUME IInv, Restart PROVE IInv'
  OBVIOUS
<1>1. call' \in [Handlers -> Calls] /\ \A g \in Handlers : Rests(g)
  BY IdleType DEF Restart, Rests
<1> QED
  BY <1>1, CallsOnly DEF Restart

LEMMA ReturnsInv ==
  ASSUME NEW h \in Handlers, IInv, Return(h), UNCHANGED <<cloud, claim, doubtful>>,
         UNCHANGED faults \/ Fault
  PROVE  IInv'
<1>1. call' \in [Handlers -> Calls] /\ \A g \in Handlers : Rests(g)
  BY Returned
<1> QED
  BY <1>1, CallsOnly

LEMMA ExpireInv == ASSUME NEW h \in Handlers PROVE IInv /\ Expire(h) => IInv'
  BY ReturnsInv DEF Expire

LEMMA QuotaExceededInv == ASSUME NEW h \in Handlers PROVE IInv /\ QuotaExceeded(h) => IInv'
  BY ReturnsInv DEF QuotaExceeded

(* A call that comes is the only one on its claim that is waited for. *)
LEMMA StartInv ==
  ASSUME NEW h \in Handlers, NEW op \in {"create", "delete"}, NEW pc \in {"list", "delete"},
         NEW n \in Names, NEW s \in Sizes \union {0},
         IInv, Start(h, op, pc, n, s),
         \A g \in Handlers : call[g].live => call[g].n # n,
         op = "create" => pc = "list" /\ s \in Sizes /\ claim[n].state = "pending",
         op = "delete" => pc = "delete" /\ claim[n].state = "released"
  PROVE  IInv'
<1> DEFINE c == [op |-> op, pc |-> pc, n |-> n, id |-> claim[n].id, size |-> s, live |-> TRUE]
<1>1. c \in Calls
  BY DEF Calls, Claims, IInv, TypeOK
<1>2. call' = [call EXCEPT ![h] = c] /\ UNCHANGED <<volumes, late, claim, doubtful, faults>>
  BY DEF Start, cloud
<1>3. c.op = op /\ c.pc = pc /\ c.n = n /\ c.id = claim[n].id /\ c.size = s /\ c.live
  OBVIOUS
<1> HIDE DEF c
<1>4. call' \in [Handlers -> Calls] /\ call'[h] = c /\ \A g \in Handlers \ {h} : Rests(g)
  BY <1>1, <1>2, CallOfHandler
<1>5. StateOK' /\ Keeps /\ \A m \in Names : Untouched(m)
  BY <1>2, SameState
<1>6. TypeOK'
  BY <1>2, <1>4 DEF IInv, TypeOK
<1>7. HandlerOK(h)'
  <2>1. op = "delete" => claim[n].id \in Ids
    BY DEF IInv, StateOK, ClaimsOK
  <2> QED
    BY <1>2, <1>3, <1>4, <2>1 DEF HandlerOK, ShapeOf, CreateKnows, DeleteKnows
<1>8. \A g \in Handlers \ {h} : HandlerOK(g)'
  <2>1. \A g \in Handlers : call[g].live => call[g].n \in Names
    BY DEF IInv, HandlerOK, ShapeOf
  <2> QED
    BY <1>4, <1>5, <2>1, RestingHandler
<1>9. Serial'
  <2>1. \A g \in Handlers \ {h} : call'[g].live => call[g].live /\ call'[g].n = call[g].n
    BY <1>4 DEF Rests, Idle
  <2> QED
    BY <1>3, <1>4, <2>1 DEF IInv, Serial
<1> QED
  BY <1>5, <1>6, <1>7, <1>8, <1>9 DEF IInv

LEMMA CallCreateInv ==
  ASSUME NEW h \in Handlers, NEW n \in Names, NEW s \in Sizes
  PROVE  IInv /\ CallCreate(h, n, s) => IInv'
<1> SUFFICES ASSUME IInv, CallCreate(h, n, s) PROVE IInv'
  OBVIOUS
<1>1. claim[n].state = "pending" /\ ~ Waiting(n, {"create"}) /\ Start(h, "create", "list", n, s)
  BY DEF CallCreate
<1>2. \A g \in Handlers : call[g].live => call[g].n # n
  BY <1>1 DEF Waiting, IInv, HandlerOK, ShapeOf, DeleteKnows
<1> QED
  BY <1>1, <1>2, StartInv

LEMMA CallDeleteInv ==
  ASSUME NEW h \in Handlers, NEW n \in Names PROVE IInv /\ CallDelete(h, n) => IInv'
<1> SUFFICES ASSUME IInv, CallDelete(h, n) PROVE IInv'
  OBVIOUS
<1>1. claim[n].state = "released" /\ ~ Waiting(n, {"delete"}) /\ Start(h, "delete", "delete", n, 0)
  BY DEF CallDelete
<1>2. \A g \in Handlers : call[g].live => call[g].n # n
  BY <1>1 DEF Waiting, IInv, HandlerOK, ShapeOf, CreateKnows
<1> QED
  BY <1>1, <1>2, StartInv
-----------------------------------------------------------------------------
(* The steps of CreateVolume *)

LEMMA Creates ==
  ASSUME IInv, NEW h \in Handlers, call[h].live, call[h].op = "create"
  PROVE  /\ call[h] \in Calls /\ ShapeOf(h) /\ CreateKnows(h)
         /\ call[h].n \in Names /\ call[h].size \in Sizes
  BY DEF IInv, TypeOK, HandlerOK, ShapeOf

(* Where the handler goes on and nothing else changes. *)
LEMMA GoesOnInv ==
  ASSUME IInv, NEW h \in Handlers, call' \in [Handlers -> Calls], HandlerOK(h)',
         \A g \in Handlers \ {h} : Rests(g), call[h].live, call'[h].n = call[h].n,
         UNCHANGED <<cloud, claim>>, doubtful \subseteq doubtful', doubtful' \subseteq Names,
         UNCHANGED faults \/ Fault
  PROVE  IInv'
<1>1. UNCHANGED <<volumes, late, claim>>
  BY DEF cloud
<1>2. StateOK' /\ Keeps /\ \A m \in Names : Untouched(m)
  BY <1>1, SameState
<1>3. TypeOK'
  BY <1>1, FaultType DEF IInv, TypeOK
<1> QED
  BY <1>2, <1>3, OneMoves

LEMMA ListInv == ASSUME NEW h \in Handlers PROVE IInv /\ List(h) => IInv'
<1> SUFFICES ASSUME IInv, List(h) PROVE IInv'
  OBVIOUS
<1> DEFINE n == call[h].n
<1>1. /\ call[h].pc = "list" /\ call[h].live /\ call[h].op = "create"
      /\ UNCHANGED <<cloud, claim, doubtful, faults>>
  BY DEF List, ReachesAPI, IInv, HandlerOK, ShapeOf
<1>2. call[h] \in Calls /\ n \in Names /\ call[h].size \in Sizes /\ CreateKnows(h)
  BY <1>1, Creates
<1>3. volumes' = volumes /\ claim' = claim /\ doubtful' = doubtful
  BY <1>1 DEF cloud
<1>4. CASE Return(h)
  BY <1>1, <1>4, ReturnsInv
<1>5. ASSUME NEW id \in NamedVolumes(n), volumes[id].size = call[h].size, Answer(h, id)
      PROVE  IInv'
  <2>1. id \in Ids /\ volumes[id].name = n
    BY <1>5 DEF NamedVolumes
  <2> DEFINE c == [call[h] EXCEPT !.pc = "reply", !.id = id, !.size = volumes[id].size]
  <2>2. c \in Calls /\ call' = [call EXCEPT ![h] = c]
    BY <1>2, <1>5, <2>1 DEF Calls, Answer
  <2>3. /\ c.pc = "reply" /\ c.id = id /\ c.size = call[h].size /\ c.live
        /\ c.n = n /\ c.op = "create"
    BY <1>1, <1>2, <1>5 DEF Calls
  <2> HIDE DEF c
  <2>4. call' \in [Handlers -> Calls] /\ call'[h] = c /\ \A g \in Handlers \ {h} : Rests(g)
    BY <2>2, CallOfHandler
  <2>5. HandlerOK(h)'
    BY <1>2, <1>3, <1>5, <2>1, <2>3, <2>4 DEF HandlerOK, ShapeOf, CreateKnows
  <2> QED
    BY <1>1, <1>3, <2>3, <2>4, <2>5, GoesOnInv DEF IInv, TypeOK
<1>6. CASE NamedVolumes(n) = {} /\ Goto(h, "create")
  <2>1. \A id \in Ids : volumes[id].name # n
    <3>1. ASSUME NEW id \in Ids, volumes[id].name = n PROVE FALSE
      <4>1. volumes[id].status \in {"none", "gone"}
        BY <1>6, <3>1 DEF NamedVolumes, Exists
      <4>2. volumes[id].status # "none"
        BY <1>2, <3>1, NoneAssumption DEF IInv, StateOK, VolumesOK
      <4> QED
        BY <1>2, <3>1, <4>1, <4>2 DEF IInv, StateOK, VolumesOK, Ended, CreateKnows
    <3> QED
      BY <3>1
  <2>2. /\ call' \in [Handlers -> Calls]
        /\ call'[h].pc = "create" /\ call'[h].op = call[h].op /\ call'[h].n = n
        /\ call'[h].id = call[h].id /\ call'[h].size = call[h].size
        /\ call'[h].live = call[h].live
        /\ \A g \in Handlers \ {h} : Rests(g)
    BY <1>6, GoneTo
  <2>3. HandlerOK(h)'
    BY <1>1, <1>2, <1>3, <2>1, <2>2 DEF HandlerOK, ShapeOf, CreateKnows
  <2> QED
    BY <1>1, <1>3, <2>2, <2>3, GoesOnInv DEF IInv, TypeOK
<1> QED
  BY <1>4, <1>5, <1>6 DEF List

LEMMA ListFailsInv == ASSUME NEW h \in Handlers PROVE IInv /\ ListFails(h) => IInv'
<1> SUFFICES ASSUME IInv, ListFails(h) PROVE IInv'
  OBVIOUS
<1> DEFINE n == call[h].n
<1>1. /\ call[h].pc = "list" /\ call[h].live /\ call[h].op = "create"
      /\ UNCHANGED <<cloud, claim>> /\ Fault /\ doubtful' = doubtful \union {n}
  BY DEF ListFails, ReachesAPI, IInv, HandlerOK, ShapeOf
<1>2. call[h] \in Calls /\ n \in Names /\ call[h].size \in Sizes /\ CreateKnows(h)
  BY <1>1, Creates
<1>3. /\ call' \in [Handlers -> Calls]
      /\ call'[h].pc = "create" /\ call'[h].op = call[h].op /\ call'[h].n = n
      /\ call'[h].id = call[h].id /\ call'[h].size = call[h].size
      /\ call'[h].live = call[h].live
      /\ \A g \in Handlers \ {h} : Rests(g)
  BY GoneTo DEF ListFails
<1>4. HandlerOK(h)'
  BY <1>1, <1>2, <1>3 DEF HandlerOK, ShapeOf, CreateKnows
<1>5. doubtful \subseteq doubtful' /\ doubtful' \subseteq Names
  BY <1>1, <1>2 DEF IInv, TypeOK
<1> QED
  BY <1>1, <1>3, <1>4, <1>5, GoesOnInv

(* A create that the API carries out, whether or not the answer arrives. *)
LEMMA Created ==
  ASSUME IInv, NEW h \in Handlers, call[h].pc = "create", call[h].live, call[h].op = "create",
         NEW id \in Ids, NewVolume(id, call[h].n, call[h].size),
         UNCHANGED <<late, claim, doubtful>>, UNCHANGED faults \/ Fault,
         call' \in [Handlers -> Calls]
  PROVE  /\ volumes'[id].name = call[h].n /\ volumes'[id].size = call[h].size
         /\ TypeOK' /\ StateOK' /\ Keeps
         /\ \A m \in Names : Untouched(m) \/ (call[h].live /\ m = call[h].n)
<1>1. CreateKnows(h) /\ call[h].n \in Names /\ call[h].size \in Sizes
  BY Creates
<1>2. call[h].n \in doubtful \/ \A i \in Ids : volumes[i].name # call[h].n
  BY <1>1 DEF CreateKnows
<1>3. /\ volumes' \in [Ids -> Volumes]
      /\ volumes'[id].name = call[h].n /\ volumes'[id].size = call[h].size
      /\ StateOK' /\ Keeps /\ \A m \in Names : Untouched(m) \/ m = call[h].n
  BY <1>1, <1>2, NewState
<1>4. TypeOK'
  BY <1>3, FaultType DEF IInv, TypeOK
<1> QED
  BY <1>3, <1>4

LEMMA CreateInv == ASSUME NEW h \in Handlers PROVE IInv /\ Create(h) => IInv'
<1> SUFFICES ASSUME IInv, Create(h) PROVE IInv'
  OBVIOUS
<1>1. PICK id \in Ids :
        /\ NewVolume(id, call[h].n, call[h].size)
        /\ call' = [call EXCEPT ![h].pc = "reply", ![h].id = id]
  BY DEF Create
<1>2. /\ call[h].pc = "create" /\ call[h].live /\ call[h].op = "create"
      /\ UNCHANGED <<late, claim, doubtful, faults>>
  BY DEF Create, ReachesAPI, IInv, HandlerOK, ShapeOf
<1>3. call[h] \in Calls /\ call[h].n \in Names /\ call[h].size \in Sizes /\ CreateKnows(h)
  BY <1>2, Creates
<1> DEFINE c == [call[h] EXCEPT !.pc = "reply", !.id = id]
<1>4. c \in Calls /\ call' = [call EXCEPT ![h] = c]
  BY <1>1, <1>3 DEF Calls
<1>5. /\ c.pc = "reply" /\ c.id = id /\ c.size = call[h].size /\ c.live
      /\ c.n = call[h].n /\ c.op = "create"
  BY <1>2, <1>3 DEF Calls
<1> HIDE DEF c
<1>6. call' \in [Handlers -> Calls] /\ call'[h] = c /\ \A g \in Handlers \ {h} : Rests(g)
  BY <1>4, CallOfHandler
<1>7. /\ volumes'[id].name = call[h].n /\ volumes'[id].size = call[h].size
      /\ TypeOK' /\ StateOK' /\ Keeps
      /\ \A m \in Names : Untouched(m) \/ (call[h].live /\ m = call[h].n)
  BY <1>1, <1>2, <1>6, Created
<1>8. HandlerOK(h)'
  BY <1>2, <1>3, <1>5, <1>6, <1>7 DEF HandlerOK, ShapeOf, CreateKnows
<1> QED
  BY <1>2, <1>5, <1>6, <1>7, <1>8, OneMoves

LEMMA CreateOverdueInv == ASSUME NEW h \in Handlers PROVE IInv /\ CreateOverdue(h) => IInv'
<1> SUFFICES ASSUME IInv, CreateOverdue(h) PROVE IInv'
  OBVIOUS
<1> DEFINE n == call[h].n
<1>1. call[h].pc = "create" /\ call[h].live /\ call[h].op = "create"
  BY DEF CreateOverdue, ReachesAPI, IInv, HandlerOK, ShapeOf
<1>2. n \in Names /\ call[h].size \in Sizes
  BY <1>1, Creates
<1>3. /\ late' = late \union {<<n, call[h].size>>} /\ doubtful' = doubtful \union {n}
      /\ Return(h) /\ Fault /\ UNCHANGED <<volumes, claim>>
  BY DEF CreateOverdue
<1>4. /\ call' \in [Handlers -> Calls]
      /\ \A g \in Handlers : Rests(g)
  BY <1>3, Returned
<1>5. \A r \in late' : r \in late \/ r[1] \in doubtful'
  BY <1>3
<1>6. StateOK' /\ Keeps /\ \A m \in Names : Untouched(m)
  BY <1>3, <1>5, SameState
<1>7. TypeOK'
  BY <1>2, <1>3, <1>4, FaultType DEF IInv, TypeOK
<1> QED
  BY <1>4, <1>6, <1>7, AllRest
-----------------------------------------------------------------------------
(* The steps of DeleteVolume *)

(* A delete that the API accepts, whether or not the answer arrives. *)
LEMMA Deleted ==
  ASSUME IInv, NEW h \in Handlers, call[h].pc = "delete", call[h].live,
         Deletable(call[h].id), StartDelete(call[h].id),
         UNCHANGED <<late, claim, doubtful>>, UNCHANGED faults \/ Fault,
         call' \in [Handlers -> Calls]
  PROVE  /\ volumes'[call[h].id].status = "deleting"
         /\ TypeOK' /\ StateOK' /\ Keeps /\ \A m \in Names : Untouched(m)
<1> DEFINE id == call[h].id
<1>1. id \in Ids /\ call[h].n \in Names /\ DeleteKnows(h)
  BY DEF IInv, HandlerOK, ShapeOf
<1>2. claim[call[h].n].state = "released" /\ volumes[id].name = call[h].n
  BY <1>1 DEF DeleteKnows, IInv, StateOK, ClaimsOK
<1>3. /\ volumes[id].status \in {"available", "error"}
      /\ volumes' = [volumes EXCEPT ![id].status = "deleting"]
  BY DEF Deletable, StartDelete
<1>4. "deleting" \in Statuses \ {"none"} /\ volumes[id].status # "none" /\ ~ Ended(id)
  BY <1>3 DEF Statuses, Ended
<1>5. /\ volumes' \in [Ids -> Volumes]
      /\ StateOK' /\ Keeps /\ \A m \in Names : Untouched(m)
  BY <1>1, <1>2, <1>3, <1>4, StatusState
<1>6. TypeOK'
  BY <1>5, FaultType DEF IInv, TypeOK
<1>7. volumes'[id].status = "deleting"
  BY <1>1, <1>3 DEF IInv, TypeOK, Volumes
<1> QED
  BY <1>5, <1>6, <1>7

LEMMA DeleteInv == ASSUME NEW h \in Handlers PROVE IInv /\ Delete(h) => IInv'
<1> SUFFICES ASSUME IInv, Delete(h) PROVE IInv'
  OBVIOUS
<1> DEFINE id == call[h].id
<1>1. /\ call[h].pc = "delete" /\ call[h].live /\ call[h].op = "delete"
      /\ UNCHANGED <<late, claim, doubtful, faults>>
  BY DEF Delete, ReachesAPI, IInv, HandlerOK, ShapeOf
<1>2. id \in Ids /\ call[h].n \in Names /\ DeleteKnows(h)
  BY <1>1 DEF IInv, HandlerOK, ShapeOf
<1>3. CASE UNCHANGED volumes /\ Return(h)
  BY <1>1, <1>3, ReturnsInv DEF cloud
<1>4. ASSUME Goto(h, "reply"), UNCHANGED volumes \/ (Deletable(id) /\ StartDelete(id)),
             ~ Exists(id) \/ (Deletable(id) /\ StartDelete(id))
      PROVE  IInv'
  <2>1. /\ call' \in [Handlers -> Calls]
        /\ call'[h].pc = "reply" /\ call'[h].op = call[h].op /\ call'[h].n = call[h].n
        /\ call'[h].id = id /\ call'[h].size = call[h].size
        /\ call'[h].live = call[h].live
        /\ \A g \in Handlers \ {h} : Rests(g)
    BY <1>4, GoneTo
  <2>2. /\ volumes'[id].status \in {"deleting", "gone"}
        /\ TypeOK' /\ StateOK' /\ Keeps /\ \A m \in Names : Untouched(m)
    <3>1. CASE Deletable(id) /\ StartDelete(id)
      BY <1>1, <2>1, <3>1, Deleted
    <3>2. CASE UNCHANGED volumes /\ ~ Exists(id)
      <4>1. volumes[id].name # None
        BY <1>2, NoneAssumption DEF DeleteKnows, IInv, StateOK, ClaimsOK
      <4>2. volumes[id].status = "gone"
        BY <1>2, <3>2, <4>1 DEF Exists, IInv, StateOK, VolumesOK
      <4>3. StateOK' /\ Keeps /\ \A m \in Names : Untouched(m)
        BY <1>1, <3>2, SameState
      <4>4. TypeOK'
        BY <1>1, <2>1, <3>2 DEF IInv, TypeOK
      <4> QED
        BY <3>2, <4>2, <4>3, <4>4
    <3> QED
      BY <1>4, <3>1, <3>2
  <2>3. HandlerOK(h)'
    BY <1>1, <1>2, <2>1, <2>2 DEF HandlerOK, ShapeOf, DeleteKnows, Ended
  <2> QED
    BY <1>1, <2>1, <2>2, <2>3, OneMoves
<1> QED
  BY <1>3, <1>4 DEF Delete

LEMMA ApiFailsInv == ASSUME NEW h \in Handlers PROVE IInv /\ ApiFails(h) => IInv'
<1> SUFFICES ASSUME IInv, ApiFails(h) PROVE IInv'
  OBVIOUS
<1>1. /\ call[h].pc \in {"create", "delete"} /\ call[h].live
      /\ Return(h) /\ Fault /\ UNCHANGED <<late, claim, doubtful>>
  BY DEF ApiFails
<1>2. /\ call' \in [Handlers -> Calls] /\ HandlerOK(h)' /\ ~ call'[h].live
      /\ \A g \in Handlers : Rests(g)
  BY <1>1, Returned
<1>3. CASE UNCHANGED volumes
  BY <1>1, <1>3, ReturnsInv DEF cloud
<1>4. ASSUME NEW id \in Ids, call[h].pc = "create", NewVolume(id, call[h].n, call[h].size)
      PROVE  IInv'
  <2>1. call[h].op = "create"
    BY <1>4 DEF IInv, HandlerOK, ShapeOf
  <2>2. /\ TypeOK' /\ StateOK' /\ Keeps
        /\ \A m \in Names : Untouched(m) \/ (call[h].live /\ m = call[h].n)
    BY <1>1, <1>2, <1>4, <2>1, Created
  <2> QED
    BY <1>2, <2>2, OneMoves
<1>5. CASE call[h].pc = "delete" /\ Deletable(call[h].id) /\ StartDelete(call[h].id)
  <2>1. TypeOK' /\ StateOK' /\ Keeps /\ \A m \in Names : Untouched(m)
    BY <1>1, <1>2, <1>5, Deleted
  <2> QED
    BY <1>2, <2>1, AllRest
<1> QED
  BY <1>3, <1>4, <1>5 DEF ApiFails
-----------------------------------------------------------------------------
(* The answers *)

LEMMA ReplyInv == ASSUME NEW h \in Handlers PROVE IInv /\ Reply(h) => IInv'
<1> SUFFICES ASSUME IInv, Reply(h) PROVE IInv'
  OBVIOUS
<1> DEFINE n == call[h].n
<1>1. /\ call[h].pc = "reply" /\ Return(h)
      /\ UNCHANGED <<volumes, late, doubtful, faults>>
  BY DEF Reply, cloud
<1>2. /\ call' \in [Handlers -> Calls] /\ HandlerOK(h)' /\ ~ call'[h].live
      /\ \A g \in Handlers : Rests(g)
  BY <1>1, Returned
<1>3. /\ n \in Names /\ call[h].id \in Ids /\ call[h] \in Calls
      /\ call[h].op \in {"create", "delete"} /\ HandlerOK(h) /\ StateOK
  BY <1>1 DEF IInv, TypeOK, HandlerOK, ShapeOf
<1>4. CASE ~ call[h].live
  BY <1>1, <1>4, ReturnsInv DEF Reply, cloud
<1>5. CASE call[h].live
  <2> DEFINE c == IF call[h].op = "create"
                    THEN [state |-> "bound", id |-> call[h].id, capacity |-> call[h].size]
                    ELSE [claim[n] EXCEPT !.state = "deleted"]
  <2>1. claim[n] \in Claims /\ claim' = [claim EXCEPT ![n] = c]
    BY <1>3, <1>5 DEF Reply, Record, IInv, TypeOK
  <2>2. c \in Claims
    BY <1>3, <2>1 DEF Claims, Calls
  <2>3. /\ claim' \in [Names -> Claims] /\ claim'[n] = c
        /\ \A m \in Names \ {n} : claim'[m] = claim[m]
    BY <2>1, <2>2, <1>3 DEF IInv, TypeOK
  <2>4. /\ c.state \in {"bound", "deleted"}
        /\ c.state = "bound" => claim[n].state = "pending"
        /\ c.state = "deleted" => claim[n].state = "released" /\ Ended(c.id)
        /\ c.id \in Ids
        /\ volumes[c.id].name = n /\ volumes[c.id].size = c.capacity
    <3>1. CASE call[h].op = "create"
      BY <1>1, <1>3, <1>5, <3>1 DEF HandlerOK, CreateKnows
    <3>2. CASE call[h].op = "delete"
      <4>1. DeleteKnows(h)
        BY <1>3, <1>5, <3>2 DEF HandlerOK
      <4>2. /\ claim[n].state = "released" /\ claim[n].id = call[h].id
            /\ Ended(call[h].id)
        BY <1>1, <4>1 DEF DeleteKnows
      <4>3. volumes[claim[n].id].name = n /\ volumes[claim[n].id].size = claim[n].capacity
        BY <1>3, <4>2 DEF StateOK, ClaimsOK
      <4>4. c.state = "deleted" /\ c.id = claim[n].id /\ c.capacity = claim[n].capacity
        BY <2>1, <3>2 DEF Claims
      <4> QED
        BY <1>3, <4>2, <4>3, <4>4
    <3> QED
      BY <1>3, <3>1, <3>2
  <2> HIDE DEF c
  <2>5. TypeOK'
    <3>1. \A m \in Names : claim'[m].state # "pending" => claim'[m].id # None
      BY <2>3, <2>4, NoneAssumption DEF IInv, TypeOK
    <3> QED
      BY <1>1, <1>2, <2>3, <3>1 DEF IInv, TypeOK
  <2>6. StateOK'
    <3>1. VolumesOK'
      BY <1>1, <1>3, <2>3, <2>4 DEF StateOK, VolumesOK, Ended
    <3>2. ClaimsOK'
      BY <1>1, <1>3, <2>3, <2>4 DEF StateOK, ClaimsOK, Ended
    <3>3. LateOK' /\ Unique'
      BY <1>1, <1>3 DEF StateOK, LateOK, Unique
    <3> QED
      BY <3>1, <3>2, <3>3 DEF StateOK
  <2>7. Keeps /\ \A m \in Names : Untouched(m) \/ m = n
    BY <1>1, <2>3 DEF Keeps, Untouched, Ended
  <2> QED
    BY <1>2, <1>5, <2>5, <2>6, <2>7, OneMoves
<1> QED
  BY <1>4, <1>5
-----------------------------------------------------------------------------
(* Every step of the specification keeps the invariant. *)
LEMMA InvNext == IInv /\ [Next]_vars => IInv'
<1> SUFFICES ASSUME IInv, [Next]_vars PROVE IInv'
  OBVIOUS
<1>1. CASE UNCHANGED vars
  <2>1. UNCHANGED <<cloud, claim, doubtful, faults>> /\ call' = call
    BY <1>1 DEF vars
  <2>2. call' \in [Handlers -> Calls] /\ \A g \in Handlers : Rests(g)
    BY <2>1 DEF IInv, TypeOK, Rests, HandlerOK, ShapeOf
  <2> QED
    BY <2>1, <2>2, CallsOnly
<1>2. ASSUME NEW h \in Handlers, HandlerStep(h) PROVE IInv'
  BY <1>2, ListInv, CreateInv, QuotaExceededInv, DeleteInv, ReplyInv, ExpireInv DEF HandlerStep
<1>3. ASSUME NEW h \in Handlers, HandlerFault(h) PROVE IInv'
  BY <1>3, ListFailsInv, CreateOverdueInv, ApiFailsInv, CancelInv DEF HandlerFault
<1>4. CASE ProvisionerStep
  <2>1. ASSUME NEW h \in Handlers, NEW n \in Names, CallDelete(h, n) PROVE IInv'
    BY <2>1, CallDeleteInv
  <2>2. ASSUME NEW h \in Handlers, NEW n \in Names, NEW s \in Sizes, CallCreate(h, n, s)
        PROVE  IInv'
    BY <2>2, CallCreateInv
  <2>3. ASSUME NEW n \in Names, UserReleases(n) PROVE IInv'
    BY <2>3, UserReleasesInv
  <2> QED
    BY <1>4, <2>1, <2>2, <2>3, Zenon DEF ProvisionerStep
<1>5. CASE CloudStep
  BY <1>5, CloudInv, LateCreateInv DEF CloudStep
<1>6. CASE Restart
  BY <1>6, RestartInv
<1> QED
  BY <1>1, <1>2, <1>3, <1>4, <1>5, <1>6 DEF Next

LEMMA Invariance == Spec => []IInv
  BY InvInit, InvNext, PTL DEF Spec

(* Every variable keeps its type; in particular a claim that is bound, released
   or deleted has the id of a volume (controller.go:95-130). *)
THEOREM TypeCorrect == Spec => []TypeOK
<1>1. IInv => TypeOK
  BY DEF IInv
<1> QED
  BY <1>1, Invariance, PTL

(* Without a lock there is one volume to a name, unless the listing failed before
   a create, or the API executed one after its deadline (controller.go:88-126). *)
THEOREM NamesAreUnique == Spec => []OneVolumePerName
<1>1. ASSUME IInv PROVE OneVolumePerName
  <2>1. \A i \in Ids : Exists(i) => volumes[i].name \in Names
    BY <1>1 DEF IInv, StateOK, VolumesOK, Exists
  <2> QED
    BY <1>1, <2>1 DEF IInv, StateOK, Unique, OneVolumePerName
<1> QED
  BY <1>1, Invariance, PTL

(* A bound claim has its own volume, of the capacity that was answered
   (controller.go:95-130). *)
THEOREM BoundIsThere == Spec => []BoundVolumeIsThere
<1>1. ASSUME IInv PROVE BoundVolumeIsThere
  <2>1. ASSUME NEW n \in Names, claim[n].state = "bound"
        PROVE  /\ volumes[claim[n].id].name = n
               /\ volumes[claim[n].id].status \in {"creating", "available", "busy", "error"}
               /\ claim[n].capacity = volumes[claim[n].id].size
    <3>1. /\ claim[n].id \in Ids /\ volumes[claim[n].id].name = n
          /\ volumes[claim[n].id].size = claim[n].capacity
      BY <1>1, <2>1 DEF IInv, StateOK, ClaimsOK
    <3>2. volumes[claim[n].id].status \in Statuses
      BY <1>1, <3>1 DEF IInv, TypeOK, Volumes
    <3>3. volumes[claim[n].id].status # "none" /\ ~ Ended(claim[n].id)
      BY <1>1, <2>1, <3>1, NoneAssumption DEF IInv, StateOK, VolumesOK
    <3> QED
      BY <3>1, <3>2, <3>3 DEF Statuses, Ended
  <2> QED
    BY <2>1 DEF BoundVolumeIsThere
<1> QED
  BY <1>1, Invariance, PTL

(* A claim that has been deleted leaves no volume, save that of a name the API
   may have created blindly or late (controller.go:121-153). *)
THEOREM NothingIsLeft == Spec => []NothingLeftBehind
<1>1. ASSUME IInv, NEW n \in Names \ doubtful, NEW id \in Ids,
             claim[n].state = "deleted", volumes[id].name = n
      PROVE  volumes[id].status \in {"deleting", "gone"}
  <2>1. claim[n].id \in Ids /\ volumes[claim[n].id].name = n /\ Ended(claim[n].id)
    BY <1>1 DEF IInv, StateOK, ClaimsOK
  <2>2. claim[n].id = id
    BY <1>1, <2>1 DEF IInv, StateOK, Unique
  <2> QED
    BY <2>1, <2>2 DEF Ended
<1>2. IInv => NothingLeftBehind
  BY <1>1 DEF NothingLeftBehind
<1> QED
  BY <1>2, Invariance, PTL
-----------------------------------------------------------------------------
(* Volumes as an orchestrator sees them: BlockVolumes implements
   VolumeRegistry. *)

Seen(id) == [name |-> volumes[id].name, size |-> volumes[id].size,
             state |-> RegistryState(volumes[id].status)]
SeenVolumes == [id \in Ids |-> Seen(id)]

LEMMA RegistryStates ==
  /\ RegistryState("none") = "absent"
  /\ RegistryState("creating") = "building" /\ RegistryState("error") = "building"
  /\ RegistryState("available") = "ready" /\ RegistryState("busy") = "ready"
  /\ RegistryState("deleting") = "removed" /\ RegistryState("gone") = "removed"
  BY DEF RegistryState

LEMMA SeenNames == \A i \in Ids : SeenVolumes[i].name = volumes[i].name
  BY DEF SeenVolumes, Seen

LEMMA RefinementInit == Init => Registry!Init
<1> SUFFICES ASSUME Init PROVE Registry!Init
  OBVIOUS
<1>1. \A id \in Ids : Granted(id) = 0
  BY DEF Init, Granted, HandedTo
<1> QED
  BY <1>1, RegistryStates DEF Init, Registry!Init

(* What was granted is the capacity of whatever claim holds the volume. *)
GrantedToHolder ==
  \A id \in Ids, n \in Names : HandedTo(id, n) => Granted(id) = claim[n].capacity

LEMMA HolderIsGranted == IInv => GrantedToHolder
<1> SUFFICES ASSUME IInv, NEW id \in Ids, NEW n \in Names, HandedTo(id, n)
             PROVE  Granted(id) = claim[n].capacity
  BY DEF GrantedToHolder
<1> DEFINE m == CHOOSE m \in Names : HandedTo(id, m)
<1>1. m \in Names /\ HandedTo(id, m)
  OBVIOUS
<1>2. Granted(id) = claim[m].capacity
  BY DEF Granted
<1> HIDE DEF m
<1>3. m = n
  BY <1>1 DEF IInv, StateOK, ClaimsOK, HandedTo
<1> QED
  BY <1>2, <1>3

LEMMA HolderIsGrantedNext == IInv' => GrantedToHolder'
  BY HolderIsGranted, PTL

LEMMA NothingGranted ==
  ASSUME NEW id \in Ids
  PROVE  /\ (\A n \in Names : ~ HandedTo(id, n)) => Granted(id) = 0
         /\ (\A n \in Names : ~ HandedTo(id, n)') => Granted(id)' = 0
  BY DEF Granted

(* Claims that keep their volumes keep what was granted. *)
LEMMA GrantsKept ==
  ASSUME IInv, IInv', NEW id \in Ids,
         \A n \in Names : HandedTo(id, n)' <=> HandedTo(id, n),
         \A n \in Names : HandedTo(id, n) => claim'[n].capacity = claim[n].capacity
  PROVE  Granted(id)' = Granted(id)
<1>1. CASE \E n \in Names : HandedTo(id, n)
  BY <1>1, HolderIsGranted, HolderIsGrantedNext DEF GrantedToHolder
<1>2. CASE \A n \in Names : ~ HandedTo(id, n)
  BY <1>2, NothingGranted
<1> QED
  BY <1>1, <1>2

(* Steps of the API touch one volume and grant nothing. *)
LEMMA RefinementVolume ==
  ASSUME IInv, NEW id \in Ids, UNCHANGED <<claim, doubtful>>,
         \A i \in Ids \ {id} : volumes'[i] = volumes[i],
         \/ Seen(id)' = Seen(id)
         \/ \E n \in Names, s \in Sizes :
              /\ volumes[id].status = "none"
              /\ n \in doubtful \/ \A i \in Ids : volumes[i].name # n
              /\ Seen(id)' = [name |-> n, size |-> s, state |-> "building"]
         \/ /\ Seen(id).state = "building"
            /\ Seen(id)' = [Seen(id) EXCEPT !.state = "ready"]
         \/ /\ Seen(id).state \in {"building", "ready"}
            /\ Seen(id)' = [Seen(id) EXCEPT !.state = "removed"]
  PROVE  [Registry!Next]_(Registry!vars)
<1>1. /\ \A i \in Ids : SeenVolumes[i] = Seen(i)
      /\ SeenVolumes' = [SeenVolumes EXCEPT ![id] = Seen(id)']
  <2>1. \A i \in Ids \ {id} : Seen(i)' = Seen(i)
    BY DEF Seen
  <2> QED
    BY <2>1 DEF SeenVolumes
<1>2. [i \in Ids |-> Granted(i)]' = [i \in Ids |-> Granted(i)]
  BY DEF Granted, HandedTo
<1>3. CASE Seen(id)' = Seen(id)
  <2>1. SeenVolumes' = SeenVolumes
    BY <1>1, <1>3 DEF SeenVolumes
  <2> QED
    BY <1>2, <2>1 DEF Registry!vars, SeenVolumes, Seen
<1>4. ASSUME NEW n \in Names, NEW s \in Sizes, volumes[id].status = "none",
             n \in doubtful \/ \A i \in Ids : volumes[i].name # n,
             Seen(id)' = [name |-> n, size |-> s, state |-> "building"]
      PROVE  Registry!Next
  <2>1. SeenVolumes[id].state = "absent"
    BY <1>1, <1>4, RegistryStates DEF Seen
  <2>2. n \in doubtful \/ \A i \in Ids : SeenVolumes[i].name # n
    BY <1>4, SeenNames
  <2>3. SeenVolumes' = [SeenVolumes EXCEPT ![id] = [name |-> n, state |-> "building", size |-> s]]
    BY <1>1, <1>4
  <2>4. Registry!Provision(id, n, s)
    BY <1>2, <2>1, <2>2, <2>3 DEF Registry!Provision, Registry!Standing, SeenVolumes, Seen
  <2> QED
    BY <2>4 DEF Registry!Next
<1>5. CASE Seen(id).state = "building" /\ Seen(id)' = [Seen(id) EXCEPT !.state = "ready"]
  <2>1. SeenVolumes' = [SeenVolumes EXCEPT ![id].state = "ready"]
    BY <1>1, <1>5
  <2>2. Registry!Finish(id)
    BY <1>1, <1>2, <1>5, <2>1 DEF Registry!Finish, SeenVolumes, Seen
  <2> QED
    BY <2>2 DEF Registry!Next
<1>6. CASE Seen(id).state \in {"building", "ready"} /\ Seen(id)' = [Seen(id) EXCEPT !.state = "removed"]
  <2>1. SeenVolumes' = [SeenVolumes EXCEPT ![id].state = "removed"]
    BY <1>1, <1>6
  <2>2. Registry!Remove(id)
    BY <1>1, <1>2, <1>6, <2>1 DEF Registry!Remove, Registry!Standing, SeenVolumes, Seen
  <2> QED
    BY <2>2 DEF Registry!Next
<1> QED
  BY <1>3, <1>4, <1>5, <1>6

(* A claim that goes from one state to the next with its volume. *)
LEMMA RefinementClaim ==
  ASSUME IInv, IInv', NEW n \in Names, NEW x \in {"released", "deleted"},
         claim[n].state # "pending", claim' = [claim EXCEPT ![n].state = x],
         UNCHANGED <<volumes, doubtful>>
  PROVE  [Registry!Next]_(Registry!vars)
<1>1. claim[n] \in Claims /\ claim \in [Names -> Claims]
  BY DEF IInv, TypeOK
<1>2. /\ claim'[n].state = x /\ claim'[n].id = claim[n].id
      /\ claim'[n].capacity = claim[n].capacity
      /\ \A m \in Names \ {n} : claim'[m] = claim[m]
  BY <1>1 DEF Claims
<1>3. ASSUME NEW id \in Ids PROVE Granted(id)' = Granted(id)
  <2>1. \A m \in Names : HandedTo(id, m)' <=> HandedTo(id, m)
    BY <1>2 DEF HandedTo
  <2>2. \A m \in Names : claim'[m].capacity = claim[m].capacity
    BY <1>2
  <2> QED
    BY <2>1, <2>2, GrantsKept
<1> QED
  BY <1>3 DEF Registry!vars

(* A creation that is answered grants its volume. *)
LEMMA RefinementGrant ==
  ASSUME IInv, IInv', NEW n \in Names, NEW id \in Ids, NEW s \in Sizes,
         claim[n].state = "pending", volumes[id].name = n, volumes[id].size = s,
         claim' = [claim EXCEPT ![n] = [state |-> "bound", id |-> id, capacity |-> s]],
         UNCHANGED <<volumes, doubtful>>
  PROVE  [Registry!Next]_(Registry!vars)
<1>1. /\ claim'[n].state = "bound" /\ claim'[n].id = id /\ claim'[n].capacity = s
      /\ \A m \in Names \ {n} : claim'[m] = claim[m]
  BY DEF IInv, TypeOK
<1>2. \A m \in Names : ~ HandedTo(id, m)
  BY DEF HandedTo, IInv, StateOK, ClaimsOK
<1>3. Granted(id) = 0 /\ Granted(id)' = s
  <2>1. HandedTo(id, n)'
    BY <1>1 DEF HandedTo
  <2>2. Granted(id)' = claim'[n].capacity
    BY <2>1, HolderIsGrantedNext DEF GrantedToHolder
  <2> QED
    BY <1>1, <1>2, <2>2, NothingGranted
<1>4. ASSUME NEW i \in Ids \ {id} PROVE Granted(i)' = Granted(i)
  <2>1. \A m \in Names : HandedTo(i, m)' <=> HandedTo(i, m)
    BY <1>1 DEF HandedTo
  <2>2. \A m \in Names : HandedTo(i, m) => claim'[m].capacity = claim[m].capacity
    BY <1>1 DEF HandedTo
  <2> QED
    BY <2>1, <2>2, GrantsKept
<1>5. [i \in Ids |-> Granted(i)]' = [[i \in Ids |-> Granted(i)] EXCEPT ![id] = s]
  BY <1>3, <1>4
<1>6. Seen(id).state \in {"building", "ready"} /\ Seen(id).size = s
  <2>1. volumes[id].status \in {"creating", "available", "busy", "error"}
    BY NoneAssumption DEF IInv, TypeOK, StateOK, VolumesOK, Ended, Volumes, Statuses
  <2> QED
    BY <2>1, RegistryStates DEF Seen
<1>7. SeenVolumes' = SeenVolumes /\ SeenVolumes[id] = Seen(id)
  BY DEF SeenVolumes, Seen
<1>8. s > 0 /\ s <= s
  BY SizesAssumption
<1>9. Registry!Grant(id, s)
  BY <1>3, <1>5, <1>6, <1>7, <1>8 DEF Registry!Grant, SeenVolumes, Seen
<1> QED
  BY <1>9 DEF Registry!Next

LEMMA RefinementStep == IInv /\ IInv' /\ [Next]_vars => [Registry!Next]_(Registry!vars)
<1> SUFFICES ASSUME IInv, IInv', [Next]_vars PROVE [Registry!Next]_(Registry!vars)
  OBVIOUS
<1>0. /\ volumes \in [Ids -> Volumes]
      /\ \A id \in Ids : Seen(id) = [name |-> volumes[id].name, size |-> volumes[id].size,
                                      state |-> RegistryState(volumes[id].status)]
  BY DEF IInv, TypeOK, Seen
<1>1. ASSUME UNCHANGED <<volumes, claim, doubtful>> PROVE [Registry!Next]_(Registry!vars)
  BY <1>1 DEF Registry!vars, Granted, HandedTo
<1>2. ASSUME NEW n \in Names, UNCHANGED <<volumes, claim>>, doubtful' = doubtful \union {n}
      PROVE  Registry!Next
  <2>1. Registry!Excuse(n)
    BY <1>2 DEF Registry!Excuse, Granted, HandedTo
  <2> QED
    BY <2>1 DEF Registry!Next
<1>3. ASSUME NEW id \in Ids, NEW n \in Names, NEW s \in Sizes, NewVolume(id, n, s),
             n \in doubtful \/ \A i \in Ids : volumes[i].name # n, UNCHANGED <<claim, doubtful>>
      PROVE  [Registry!Next]_(Registry!vars)
  <2>1. /\ \A i \in Ids \ {id} : volumes'[i] = volumes[i]
        /\ volumes[id].status = "none"
        /\ Seen(id)' = [name |-> n, size |-> s, state |-> "building"]
    BY <1>0, <1>3, RegistryStates DEF NewVolume, Seen
  <2> QED
    BY <1>3, <2>1, RefinementVolume
(* A change of status, as the registry sees it. *)
<1>4. ASSUME NEW id \in Ids, NEW from \in Statuses, NEW to \in Statuses,
             volumes[id].status = from, volumes' = [volumes EXCEPT ![id].status = to],
             UNCHANGED <<claim, doubtful>>,
             \/ RegistryState(to) = RegistryState(from)
             \/ RegistryState(from) = "building" /\ RegistryState(to) = "ready"
             \/ RegistryState(from) \in {"building", "ready"} /\ RegistryState(to) = "removed"
      PROVE  [Registry!Next]_(Registry!vars)
  <2>1. /\ \A i \in Ids \ {id} : volumes'[i] = volumes[i]
        /\ volumes'[id].name = volumes[id].name /\ volumes'[id].size = volumes[id].size
        /\ volumes'[id].status = to
    BY <1>0, <1>4 DEF Volumes
  <2>2. Seen(id)' = [Seen(id) EXCEPT !.state = RegistryState(to)]
    BY <1>0, <2>1 DEF Seen
  <2>3. Seen(id).state = RegistryState(from)
    BY <1>0, <1>4
  <2>4. RegistryState(to) = RegistryState(from) => Seen(id)' = Seen(id)
    BY <1>0, <2>2, <2>3
  <2> QED
    BY <1>4, <2>1, <2>2, <2>3, <2>4, RefinementVolume
<1>5. ASSUME NEW id \in Ids, Deletable(id), StartDelete(id), UNCHANGED <<claim, doubtful>>
      PROVE  [Registry!Next]_(Registry!vars)
  <2>1. PICK from \in {"available", "error"} :
          volumes[id].status = from /\ volumes' = [volumes EXCEPT ![id].status = "deleting"]
    BY <1>5 DEF Deletable, StartDelete
  <2> QED
    BY <1>4, <1>5, <2>1, RegistryStates DEF Statuses
<1>6. ASSUME NEW h \in Handlers, HandlerStep(h) PROVE [Registry!Next]_(Registry!vars)
  <2>1. CASE List(h) \/ QuotaExceeded(h) \/ Expire(h)
    BY <1>1, <2>1 DEF List, QuotaExceeded, Expire, cloud
  <2>2. CASE Create(h)
    <3>1. call[h].pc = "create" /\ call[h].live /\ call[h].op = "create"
      BY <2>2 DEF Create, ReachesAPI, IInv, HandlerOK, ShapeOf
    <3>2. CreateKnows(h) /\ call[h].n \in Names /\ call[h].size \in Sizes
      BY <3>1, Creates
    <3> QED
      BY <1>3, <2>2, <3>1, <3>2 DEF Create, CreateKnows
  <2>3. CASE Delete(h)
    <3>1. call[h].id \in Ids /\ UNCHANGED <<claim, doubtful>>
      BY <2>3 DEF Delete, ReachesAPI, IInv, HandlerOK, ShapeOf
    <3> QED
      BY <1>1, <1>5, <2>3, <3>1 DEF Delete
  <2>4. CASE Reply(h)
    <3>1. /\ call[h].n \in Names /\ call[h].id \in Ids /\ HandlerOK(h) /\ ShapeOf(h)
          /\ call[h].op \in {"create", "delete"}
      BY <2>4 DEF Reply, IInv, HandlerOK, ShapeOf
    <3>2. CASE call[h].live /\ call[h].op = "create"
      <4>1. /\ claim[call[h].n].state = "pending" /\ call[h].size \in Sizes
            /\ volumes[call[h].id].name = call[h].n
            /\ volumes[call[h].id].size = call[h].size
        BY <2>4, <3>1, <3>2 DEF Reply, HandlerOK, ShapeOf, CreateKnows
      <4> QED
        BY <2>4, <3>1, <3>2, <4>1, RefinementGrant DEF Reply, Record, cloud
    <3>3. CASE call[h].live /\ call[h].op = "delete"
      <4>1. claim[call[h].n].state = "released"
        BY <3>1, <3>3 DEF HandlerOK, DeleteKnows
      <4>2. claim' = [claim EXCEPT ![call[h].n].state = "deleted"]
        BY <2>4, <3>3 DEF Reply, Record
      <4> QED
        BY <2>4, <3>1, <4>1, <4>2, RefinementClaim DEF Reply, cloud
    <3>4. CASE ~ call[h].live
      BY <1>1, <2>4, <3>4 DEF Reply, cloud
    <3> QED
      BY <3>1, <3>2, <3>3, <3>4
  <2> QED
    BY <1>6, <2>1, <2>2, <2>3, <2>4 DEF HandlerStep
<1>7. ASSUME NEW h \in Handlers, HandlerFault(h) PROVE [Registry!Next]_(Registry!vars)
  <2>1. CASE ListFails(h) \/ CreateOverdue(h)
    <3>1. /\ call[h].n \in Names /\ UNCHANGED <<volumes, claim>>
          /\ doubtful' = doubtful \union {call[h].n}
      BY <2>1 DEF ListFails, CreateOverdue, ReachesAPI, cloud, IInv, HandlerOK, ShapeOf
    <3> QED
      BY <1>2, <3>1
  <2>2. CASE ApiFails(h)
    <3>1. call[h].live /\ UNCHANGED <<claim, doubtful>>
      BY <2>2 DEF ApiFails
    <3>2. CASE UNCHANGED volumes
      BY <1>1, <3>1, <3>2
    <3>3. ASSUME call[h].pc = "create", NEW id \in Ids, NewVolume(id, call[h].n, call[h].size)
          PROVE  [Registry!Next]_(Registry!vars)
      <4>1. call[h].op = "create"
        BY <3>3 DEF IInv, HandlerOK, ShapeOf
      <4>2. CreateKnows(h) /\ call[h].n \in Names /\ call[h].size \in Sizes
        BY <3>1, <4>1, Creates
      <4> QED
        BY <1>3, <3>1, <3>3, <4>2 DEF CreateKnows
    <3>4. CASE call[h].pc = "delete" /\ Deletable(call[h].id) /\ StartDelete(call[h].id)
      <4>1. call[h].id \in Ids
        BY <3>4 DEF IInv, HandlerOK, ShapeOf
      <4> QED
        BY <1>5, <3>1, <3>4, <4>1
    <3> QED
      BY <2>2, <3>2, <3>3, <3>4 DEF ApiFails
  <2>3. CASE Cancel(h)
    BY <1>1, <2>3 DEF Cancel, cloud
  <2> QED
    BY <1>7, <2>1, <2>2, <2>3 DEF HandlerFault
<1>8. CASE ProvisionerStep
  <2>1. ASSUME NEW h \in Handlers, NEW n \in Names, NEW s \in Sizes, CallCreate(h, n, s)
        PROVE  [Registry!Next]_(Registry!vars)
    BY <1>1, <2>1 DEF CallCreate, Start, cloud
  <2>2. ASSUME NEW h \in Handlers, NEW n \in Names, CallDelete(h, n)
        PROVE  [Registry!Next]_(Registry!vars)
    BY <1>1, <2>2 DEF CallDelete, Start, cloud
  <2>3. ASSUME NEW n \in Names, UserReleases(n) PROVE [Registry!Next]_(Registry!vars)
    BY <2>3, RefinementClaim DEF UserReleases, cloud
  <2> QED
    BY <1>8, <2>1, <2>2, <2>3, Zenon DEF ProvisionerStep
<1>9. CASE CloudStep
  <2>1. ASSUME NEW id \in Ids,
               VolumeReady(id) \/ VolumeFails(id) \/ VolumeGone(id) \/ VolumeUsed(id) \/ VolumeFreed(id)
        PROVE  [Registry!Next]_(Registry!vars)
    <3>1. CASE VolumeReady(id)
      BY <1>4, <3>1, RegistryStates DEF VolumeReady, Becomes, Statuses
    <3>2. CASE VolumeFails(id)
      BY <1>4, <3>2, RegistryStates DEF VolumeFails, Becomes, Statuses
    <3>3. CASE VolumeGone(id)
      BY <1>4, <3>3, RegistryStates DEF VolumeGone, Becomes, Statuses
    <3>4. CASE VolumeUsed(id)
      BY <1>4, <3>4, RegistryStates DEF VolumeUsed, Becomes, Statuses
    <3>5. CASE VolumeFreed(id)
      BY <1>4, <3>5, RegistryStates DEF VolumeFreed, Becomes, Statuses
    <3> QED
      BY <2>1, <3>1, <3>2, <3>3, <3>4, <3>5
  <2>2. ASSUME NEW n \in Names, NEW s \in Sizes, LateCreate(n, s)
        PROVE  [Registry!Next]_(Registry!vars)
    <3>1. n \in doubtful
      BY <2>2 DEF LateCreate, IInv, StateOK, LateOK
    <3> QED
      BY <1>3, <2>2, <3>1 DEF LateCreate
  <2> QED
    BY <1>9, <2>1, <2>2 DEF CloudStep
<1>10. CASE Restart \/ UNCHANGED vars
  BY <1>1, <1>10 DEF Restart, vars, cloud
<1> QED
  BY <1>6, <1>7, <1>8, <1>9, <1>10 DEF Next

(* CreateVolume and DeleteVolume, without a lock and answering while the volume
   is built, are a volume registry; what excuses a second volume of a name is a
   listing that failed or a creation executed late (controller.go:43-153). *)
THEOREM ImplementsRegistry == Spec => RefinesRegistry
  BY Invariance, RefinementInit, RefinementStep, PTL DEF Spec, RefinesRegistry, Registry!Spec
=============================================================================
