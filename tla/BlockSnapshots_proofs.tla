----------------------- MODULE BlockSnapshots_proofs -----------------------
(***************************************************************************)
(* Proofs about creation and deletion of snapshots, for any handlers,      *)
(* names, ids, polls and bounds.                                           *)
(***************************************************************************)
EXTENDS BlockSnapshots, TLAPS

(* The inductive invariant.  A handler whose caller waits is the only one at
   work on its snapshot, so that what it has seen stays true until it answers. *)

Ended(id) == snaps[id].status \in {"deleting", "gone"}

ShapeOf(h) ==
  /\ call[h].pc = "idle" => ~ call[h].live
  /\ call[h].pc # "idle" => call[h].op \in {"create", "delete"} /\ call[h].n \in Names
  /\ call[h].pc \in {"list", "create", "wait"} => call[h].op = "create"
  /\ call[h].pc = "delete" => call[h].op = "delete"
  /\ call[h].op = "delete" \/ call[h].pc \in {"wait", "reply"} => call[h].id \in Ids

(* What a create that is waited for knows. *)
CreateKnows(h) ==
  /\ content[call[h].n].state = "pending"
  /\ call[h].pc = "create" =>
       call[h].n \in doubtful \/ \A id \in Ids : snaps[id].name # call[h].n
  /\ call[h].pc \in {"wait", "reply"} => snaps[call[h].id].name = call[h].n
  /\ call[h].pc = "reply" => snaps[call[h].id].status = "available"

(* What a delete that is waited for knows. *)
DeleteKnows(h) ==
  /\ content[call[h].n].state = "released"
  /\ call[h].id = content[call[h].n].id
  /\ call[h].pc = "reply" => Ended(call[h].id)

HandlerOK(h) ==
  /\ ShapeOf(h)
  /\ call[h].live /\ call[h].op = "create" => CreateKnows(h)
  /\ call[h].live /\ call[h].op = "delete" => DeleteKnows(h)

Serial == \A g, h \in Handlers : call[g].live /\ call[h].live /\ call[g].n = call[h].n => g = h

SnapsOK ==
  \A id \in Ids :
    /\ IF snaps[id].status = "none" THEN snaps[id].name = None ELSE snaps[id].name \in Names
    /\ Ended(id) => content[snaps[id].name].state \in {"released", "deleted"}

ContentsOK ==
  \A n \in Names : content[n].state # "pending" =>
    /\ content[n].id \in Ids /\ snaps[content[n].id].name = n
    /\ content[n].state = "ready" => snaps[content[n].id].status = "available"
    /\ content[n].state = "deleted" => Ended(content[n].id)

Unique ==
  \A i, j \in Ids :
    snaps[i].name = snaps[j].name /\ snaps[i].name \in Names \ doubtful => i = j

(* A create that is still on its way is known to be. *)
LateOK == late \subseteq doubtful

StateOK == SnapsOK /\ ContentsOK /\ Unique /\ LateOK

IInv == TypeOK /\ StateOK /\ Serial /\ \A h \in Handlers : HandlerOK(h)

(* The part of TypeOK that is about the handlers. *)
CallsOK ==
  /\ call \in [Handlers -> Calls]
  /\ \A h \in Handlers : call[h].pc = "wait" => call[h].polls > 0 /\ call[h].id # None

LEMMA IdleType == Idle \in Calls
  BY BoundsAssumption DEF Idle, Calls

LEMMA InvInit == Init => IInv
<1> SUFFICES ASSUME Init PROVE IInv
  OBVIOUS
<1>1. /\ [name |-> None, status |-> "none"] \in Snapshots
      /\ [state |-> "pending", id |-> None] \in Contents
  BY DEF Snapshots, Contents
<1>2. \A h \in Handlers : call[h].pc = "idle"
  BY DEF Init, Idle
<1>3. TypeOK
  BY <1>1, <1>2, IdleType, BoundsAssumption DEF Init, TypeOK
<1>4. StateOK
  BY NoneAssumption DEF Init, StateOK, SnapsOK, ContentsOK, Unique, LateOK, Ended
<1>5. Serial /\ \A h \in Handlers : HandlerOK(h)
  BY DEF Init, Idle, Serial, HandlerOK, ShapeOf
<1> QED
  BY <1>3, <1>4, <1>5 DEF IInv
-----------------------------------------------------------------------------
(* What a step leaves to the handlers it is not about *)

(* No step renames a snapshot or takes back its deletion, and one that is
   available stays so until it is released. *)
Keeps ==
  /\ \A id \in Ids : snaps[id].status # "none" =>
       /\ snaps'[id].name = snaps[id].name
       /\ Ended(id) => Ended(id)'
       /\ snaps[id].status = "available" =>
            snaps'[id].status = "available" \/ content[snaps[id].name].state = "released"
  /\ doubtful \subseteq doubtful'

(* A content the step does not change, and for which it makes no snapshot. *)
Untouched(n) ==
  /\ content'[n] = content[n]
  /\ n \in doubtful' \/ \A id \in Ids : snaps'[id].name = n => snaps[id].name = n

(* A handler that goes on, with or without its caller, or that has ended. *)
Rests(h) ==
  \/ call'[h] = Idle
  \/ /\ call'[h].op = call[h].op /\ call'[h].pc = call[h].pc
     /\ call'[h].n = call[h].n /\ call'[h].id = call[h].id
     /\ call[h].pc = "idle" => ~ call'[h].live
     /\ call'[h].live => call[h].live

LEMMA RestingHandler ==
  ASSUME IInv, Keeps, NEW h \in Handlers, Rests(h), call[h].live => Untouched(call[h].n)
  PROVE  HandlerOK(h)'
<1>1. CASE call'[h] = Idle
  BY <1>1 DEF HandlerOK, ShapeOf, Idle
<1>2. CASE call'[h] # Idle
  <2>1. /\ call'[h].op = call[h].op /\ call'[h].pc = call[h].pc
        /\ call'[h].n = call[h].n /\ call'[h].id = call[h].id
        /\ call[h].pc = "idle" => ~ call'[h].live
        /\ call'[h].live => call[h].live
    BY <1>2 DEF Rests
  <2>2. HandlerOK(h) /\ SnapsOK /\ call[h] \in Calls
    BY DEF IInv, StateOK, TypeOK
  <2>3. ShapeOf(h)'
    BY <2>1, <2>2 DEF HandlerOK, ShapeOf
  <2>4. ASSUME call'[h].live, call'[h].op = "create" PROVE CreateKnows(h)'
    <3>1. CreateKnows(h) /\ Untouched(call[h].n) /\ ShapeOf(h) /\ call[h].pc # "idle"
      BY <2>1, <2>2, <2>4 DEF HandlerOK, ShapeOf
    <3>2. call[h].pc \in {"wait", "reply"} =>
            call[h].id \in Ids /\ snaps[call[h].id].status # "none"
      BY <2>2, <3>1, NoneAssumption DEF ShapeOf, CreateKnows, SnapsOK
    <3> QED
      BY <2>1, <3>1, <3>2 DEF CreateKnows, Untouched, Keeps
  <2>5. ASSUME call'[h].live, call'[h].op = "delete" PROVE DeleteKnows(h)'
    <3>1. DeleteKnows(h) /\ Untouched(call[h].n) /\ ShapeOf(h)
      BY <2>1, <2>2, <2>5 DEF HandlerOK
    <3>2. call[h].id \in Ids /\ (Ended(call[h].id) => snaps[call[h].id].status # "none")
      BY <2>1, <2>5, <3>1 DEF ShapeOf, Ended
    <3> QED
      BY <2>1, <3>1, <3>2 DEF DeleteKnows, Untouched, Keeps
  <2> QED
    BY <2>3, <2>4, <2>5 DEF HandlerOK
<1> QED
  BY <1>1, <1>2

(* A handler whose caller waits has its snapshot to itself. *)
LEMMA OneMoves ==
  ASSUME IInv, TypeOK', StateOK', Keeps, NEW h \in Handlers, HandlerOK(h)',
         \A g \in Handlers \ {h} : Rests(g),
         call'[h].live => call[h].live /\ call'[h].n = call[h].n,
         \A m \in Names : Untouched(m) \/ (call[h].live /\ m = call[h].n)
  PROVE  IInv'
<1>1. ASSUME NEW g \in Handlers \ {h} PROVE HandlerOK(g)'
  <2>1. call[g].live => call[g].n \in Names /\ ~ (call[h].live /\ call[g].n = call[h].n)
    BY DEF IInv, HandlerOK, ShapeOf, Serial
  <2> QED
    BY <2>1, RestingHandler
<1>2. \A g \in Handlers : call'[g].live => call[g].live /\ call'[g].n = call[g].n
  BY DEF Rests, Idle
<1>3. Serial'
  BY <1>2 DEF IInv, Serial
<1> QED
  BY <1>1, <1>3 DEF IInv

LEMMA AllRest ==
  ASSUME IInv, TypeOK', StateOK', Keeps, \A g \in Handlers : Rests(g),
         \A m \in Names : Untouched(m)
  PROVE  IInv'
<1>1. \A g \in Handlers : HandlerOK(g)'
  <2>1. \A g \in Handlers : call[g].live => call[g].n \in Names
    BY DEF IInv, HandlerOK, ShapeOf
  <2> QED
    BY <2>1, RestingHandler
<1>2. \A g \in Handlers : call'[g].live => call[g].live /\ call'[g].n = call[g].n
  BY DEF Rests, Idle
<1>3. Serial'
  BY <1>2 DEF IInv, Serial
<1> QED
  BY <1>1, <1>3 DEF IInv
-----------------------------------------------------------------------------
(* What a step can do to the API's state *)

LEMMA SameState ==
  ASSUME IInv, UNCHANGED <<snaps, content>>, doubtful \subseteq doubtful',
         late' \subseteq late \union doubtful'
  PROVE  StateOK' /\ Keeps /\ \A m \in Names : Untouched(m)
<1>1. StateOK
  BY DEF IInv
<1>2. SnapsOK' /\ ContentsOK'
  BY <1>1 DEF StateOK, SnapsOK, ContentsOK, Ended
<1>3. Unique' /\ LateOK'
  BY <1>1 DEF StateOK, Unique, LateOK
<1>4. Keeps /\ \A m \in Names : Untouched(m)
  BY DEF Keeps, Untouched, Ended
<1> QED
  BY <1>2, <1>3, <1>4 DEF StateOK

(* A snapshot changes its status. *)
LEMMA StatusState ==
  ASSUME IInv, NEW id \in Ids, NEW x \in {"creating", "available", "error", "deleting", "gone"},
         snaps[id].status # "none", snaps' = [snaps EXCEPT ![id].status = x],
         Ended(id) => x \in {"deleting", "gone"},
         x \in {"deleting", "gone"} => content[snaps[id].name].state \in {"released", "deleted"},
         snaps[id].status = "available" => content[snaps[id].name].state = "released",
         UNCHANGED <<late, content, doubtful>>
  PROVE  /\ snaps' \in [Ids -> Snapshots]
         /\ StateOK' /\ Keeps /\ \A m \in Names : Untouched(m)
<1>0. snaps[id] \in Snapshots /\ StateOK
  BY DEF IInv, TypeOK
<1>1. [snaps[id] EXCEPT !.status = x] \in Snapshots
  BY <1>0 DEF Snapshots
<1>2. snaps' \in [Ids -> Snapshots]
  BY <1>1 DEF IInv, TypeOK
<1>3. /\ snaps'[id].status = x /\ snaps'[id].name = snaps[id].name
      /\ \A i \in Ids \ {id} : snaps'[i] = snaps[i]
  BY <1>0 DEF IInv, TypeOK, Snapshots
<1>4. \A i \in Ids : snaps'[i].name = snaps[i].name
  BY <1>3
<1>5. \A i \in Ids : Ended(i) => Ended(i)'
  BY <1>3 DEF Ended
<1>6. SnapsOK'
  BY <1>0, <1>3 DEF StateOK, SnapsOK, Ended
<1>7. ContentsOK'
  BY <1>0, <1>3, <1>4, <1>5 DEF StateOK, ContentsOK
<1>8. Unique' /\ LateOK'
  BY <1>0, <1>4 DEF StateOK, Unique, LateOK
<1>9. Keeps /\ \A m \in Names : Untouched(m)
  BY <1>3, <1>4, <1>5 DEF Keeps, Untouched
<1> QED
  BY <1>2, <1>6, <1>7, <1>8, <1>9 DEF StateOK

(* A snapshot is made, of a name that has none or is doubtful. *)
LEMMA NewState ==
  ASSUME IInv, NEW id \in Ids, NEW n \in Names, NewSnapshot(id, n),
         n \in doubtful \/ \A i \in Ids : snaps[i].name # n,
         UNCHANGED <<content, doubtful>>, late' \subseteq late
  PROVE  /\ snaps' \in [Ids -> Snapshots] /\ snaps'[id].name = n
         /\ StateOK' /\ Keeps /\ \A m \in Names : Untouched(m) \/ m = n
<1>0. StateOK /\ snaps[id].status = "none" /\ snaps[id].name = None
  BY DEF IInv, StateOK, SnapsOK, NewSnapshot
<1>1. [name |-> n, status |-> "creating"] \in Snapshots
  BY DEF Snapshots
<1>2. /\ snaps' \in [Ids -> Snapshots]
      /\ snaps'[id] = [name |-> n, status |-> "creating"]
      /\ \A i \in Ids \ {id} : snaps'[i] = snaps[i]
  BY <1>1 DEF IInv, TypeOK, NewSnapshot
<1>3. SnapsOK'
  BY <1>0, <1>2 DEF StateOK, SnapsOK, Ended
<1>4. \A m \in Names : content[m].state # "pending" => content[m].id # id
  BY <1>0, NoneAssumption DEF StateOK, ContentsOK
<1>5. ContentsOK'
  BY <1>0, <1>2, <1>4 DEF StateOK, ContentsOK, Ended
<1>6. Unique' /\ LateOK'
  BY <1>0, <1>2 DEF StateOK, Unique, LateOK
<1>7. Keeps
  BY <1>0, <1>2 DEF Keeps, Ended
<1>8. \A m \in Names : Untouched(m) \/ m = n
  BY <1>2 DEF Untouched
<1> QED
  BY <1>2, <1>3, <1>5, <1>6, <1>7, <1>8 DEF StateOK
-----------------------------------------------------------------------------
(* The steps of the API and of the user *)

LEMMA TypeMade ==
  ASSUME IInv, CallsOK', snaps' \in [Ids -> Snapshots], content' \in [Names -> Contents],
         doubtful' \subseteq Names, LateOK', UNCHANGED faults \/ Fault
  PROVE  TypeOK'
  BY BoundsAssumption DEF IInv, TypeOK, CallsOK, LateOK, Fault

LEMMA CallsKept == ASSUME IInv, UNCHANGED call PROVE CallsOK' /\ \A g \in Handlers : Rests(g)
  BY DEF IInv, TypeOK, CallsOK, Rests, HandlerOK, ShapeOf

(* A change of status that the API makes by itself. *)
LEMMA ApiMoves ==
  ASSUME IInv, NEW id \in Ids, NEW from \in {"creating", "deleting"},
         NEW to \in {"available", "error", "gone"},
         Becomes(id, from, to), UNCHANGED faults \/ Fault,
         to = "gone" <=> from = "deleting"
  PROVE  IInv'
<1>1. /\ snaps[id].status = from /\ snaps' = [snaps EXCEPT ![id].status = to]
      /\ UNCHANGED <<late, call, content, doubtful>>
  BY DEF Becomes
<1>2. to = "gone" => content[snaps[id].name].state \in {"released", "deleted"}
  BY <1>1 DEF IInv, StateOK, SnapsOK, Ended
<1>3. /\ snaps' \in [Ids -> Snapshots]
      /\ StateOK' /\ Keeps /\ \A m \in Names : Untouched(m)
  BY <1>1, <1>2, StatusState DEF Ended
<1>4. CallsOK' /\ \A g \in Handlers : Rests(g)
  BY <1>1, CallsKept
<1>5. TypeOK'
  BY <1>1, <1>3, <1>4, TypeMade DEF IInv, TypeOK, StateOK
<1> QED
  BY <1>3, <1>4, <1>5, AllRest

(* A create that arrives late is of a name in doubt. *)
LEMMA LateCreateInv == ASSUME NEW n \in Names PROVE IInv /\ LateCreate(n) => IInv'
<1> SUFFICES ASSUME IInv, LateCreate(n) PROVE IInv'
  OBVIOUS
<1>1. /\ n \in doubtful /\ late' \subseteq late
      /\ UNCHANGED <<call, content, doubtful, faults>>
  BY DEF LateCreate, IInv, StateOK, LateOK
<1>2. PICK id \in Ids : NewSnapshot(id, n)
  BY DEF LateCreate
<1>3. /\ snaps' \in [Ids -> Snapshots]
      /\ StateOK' /\ Keeps /\ \A m \in Names : Untouched(m) \/ m = n
  BY <1>1, <1>2, NewState
<1>4. \A m \in Names : Untouched(m)
  BY <1>1, <1>3 DEF Untouched
<1>5. CallsOK' /\ \A g \in Handlers : Rests(g)
  BY <1>1, CallsKept
<1>6. TypeOK'
  BY <1>1, <1>3, <1>5, TypeMade DEF IInv, TypeOK, StateOK
<1> QED
  BY <1>3, <1>4, <1>5, <1>6, AllRest

LEMMA CloudInv ==
  ASSUME NEW id \in Ids
  PROVE  /\ IInv /\ SnapshotReady(id) => IInv'
         /\ IInv /\ SnapshotFails(id) => IInv'
         /\ IInv /\ SnapshotGone(id) => IInv'
<1>1. IInv /\ SnapshotReady(id) => IInv'
  BY ApiMoves DEF SnapshotReady
<1>2. IInv /\ SnapshotFails(id) => IInv'
  BY ApiMoves DEF SnapshotFails
<1>3. IInv /\ SnapshotGone(id) => IInv'
  BY ApiMoves DEF SnapshotGone
<1> QED
  BY <1>1, <1>2, <1>3

(* A content is released when it is ready: no call on it is waited for then. *)
LEMMA UserReleasesInv == ASSUME NEW n \in Names PROVE IInv /\ UserReleases(n) => IInv'
<1> SUFFICES ASSUME IInv, UserReleases(n) PROVE IInv'
  OBVIOUS
<1>1. /\ content[n].state = "ready" /\ content' = [content EXCEPT ![n].state = "released"]
      /\ snaps' = snaps /\ late' = late /\ call' = call /\ doubtful' = doubtful /\ faults' = faults
  BY DEF UserReleases, cloud
<1>2. /\ content[n] \in Contents /\ content' \in [Names -> Contents]
      /\ content'[n].state = "released" /\ content'[n].id = content[n].id
      /\ \A m \in Names \ {n} : content'[m] = content[m]
  BY <1>1 DEF IInv, TypeOK, Contents
<1>3. CallsOK' /\ \A g \in Handlers : Rests(g)
  BY <1>1, CallsKept
<1>4. StateOK'
  <2>1. SnapsOK'
    BY <1>1, <1>2 DEF IInv, StateOK, SnapsOK, Ended
  <2>2. ContentsOK'
    BY <1>1, <1>2 DEF IInv, StateOK, ContentsOK, Ended
  <2>3. Unique' /\ LateOK'
    BY <1>1 DEF IInv, StateOK, Unique, LateOK
  <2> QED
    BY <2>1, <2>2, <2>3 DEF StateOK
<1>5. TypeOK'
  BY <1>1, <1>2, <1>3, <1>4, TypeMade DEF IInv, TypeOK, StateOK
<1>6. Keeps
  BY <1>1 DEF Keeps, Ended
<1>7. ASSUME NEW g \in Handlers PROVE HandlerOK(g)'
  <2>1. call[g].live => call[g].n \in Names /\ call[g].n # n
    BY <1>1 DEF IInv, HandlerOK, ShapeOf, CreateKnows, DeleteKnows
  <2>2. call[g].live => Untouched(call[g].n)
    BY <1>1, <1>2, <2>1 DEF Untouched
  <2> QED
    BY <1>3, <1>6, <2>2, RestingHandler
<1>8. Serial'
  BY <1>1 DEF IInv, Serial
<1> QED
  BY <1>4, <1>5, <1>7, <1>8 DEF IInv
-----------------------------------------------------------------------------
(* Calls come, lose their caller, and end without a result *)

(* What a step of one handler does to the calls. *)
LEMMA CallOfHandler ==
  ASSUME IInv, NEW h \in Handlers, NEW c \in Calls, call' = [call EXCEPT ![h] = c],
         c.pc = "wait" => c.polls > 0 /\ c.id # None
  PROVE  CallsOK' /\ call'[h] = c /\ \A g \in Handlers \ {h} : Rests(g)
<1>1. call' \in [Handlers -> Calls] /\ call'[h] = c /\ \A g \in Handlers \ {h} : call'[g] = call[g]
  BY DEF IInv, TypeOK
<1>2. CallsOK'
  BY <1>1 DEF IInv, TypeOK, CallsOK
<1>3. \A g \in Handlers \ {h} : Rests(g)
  BY <1>1 DEF Rests, IInv, HandlerOK, ShapeOf
<1> QED
  BY <1>1, <1>2, <1>3

LEMMA Returned ==
  ASSUME IInv, NEW h \in Handlers, Return(h)
  PROVE  /\ CallsOK' /\ HandlerOK(h)' /\ ~ call'[h].live
         /\ \A g \in Handlers : Rests(g)
<1>1. call' = [call EXCEPT ![h] = Idle]
  BY DEF Return
<1>2. Idle.pc # "wait"
  BY DEF Idle
<1>3. CallsOK' /\ call'[h] = Idle /\ \A g \in Handlers \ {h} : Rests(g)
  BY <1>1, <1>2, IdleType, CallOfHandler
<1>4. HandlerOK(h)' /\ ~ call'[h].live
  BY <1>3 DEF HandlerOK, ShapeOf, Idle
<1> QED
  BY <1>3, <1>4 DEF Rests

LEMMA GoneTo ==
  ASSUME IInv, NEW h \in Handlers, NEW pc \in {"create", "reply"}, Goto(h, pc)
  PROVE  /\ CallsOK'
         /\ call'[h].pc = pc /\ call'[h].op = call[h].op /\ call'[h].n = call[h].n
         /\ call'[h].id = call[h].id /\ call'[h].live = call[h].live
         /\ \A g \in Handlers \ {h} : Rests(g)
<1> DEFINE c == [call[h] EXCEPT !.pc = pc]
<1>1. call[h] \in Calls
  BY DEF IInv, TypeOK
<1>2. c \in Calls /\ call' = [call EXCEPT ![h] = c]
  BY <1>1 DEF Calls, Goto
<1>3. /\ c.pc = pc /\ c.op = call[h].op /\ c.n = call[h].n
      /\ c.id = call[h].id /\ c.live = call[h].live
  BY <1>1 DEF Calls
<1> HIDE DEF c
<1> QED
  BY <1>2, <1>3, CallOfHandler

LEMMA GoneToWait ==
  ASSUME IInv, NEW h \in Handlers, NEW id \in Ids, WaitFor(h, id)
  PROVE  /\ CallsOK'
         /\ call'[h].pc = "wait" /\ call'[h].op = call[h].op /\ call'[h].n = call[h].n
         /\ call'[h].id = id /\ call'[h].live = call[h].live
         /\ \A g \in Handlers \ {h} : Rests(g)
<1> DEFINE c == [call[h] EXCEPT !.pc = "wait", !.id = id, !.polls = ReadyPolls]
<1>1. call[h] \in Calls /\ ReadyPolls \in 0..ReadyPolls /\ ReadyPolls > 0
  BY BoundsAssumption DEF IInv, TypeOK
<1>2. c \in Calls /\ call' = [call EXCEPT ![h] = c]
  BY <1>1 DEF Calls, WaitFor
<1>3. /\ c.pc = "wait" /\ c.op = call[h].op /\ c.n = call[h].n
      /\ c.id = id /\ c.live = call[h].live /\ c.polls = ReadyPolls
  BY <1>1 DEF Calls
<1> HIDE DEF c
<1> QED
  BY <1>1, <1>2, <1>3, CallOfHandler, NoneAssumption

(* A step that changes nothing but calls, and that starts none. *)
LEMMA CallsOnly ==
  ASSUME IInv, UNCHANGED <<snaps, late, content, doubtful>>, UNCHANGED faults \/ Fault,
         CallsOK', \A g \in Handlers : Rests(g)
  PROVE  IInv'
<1>1. StateOK' /\ Keeps /\ \A m \in Names : Untouched(m)
  BY SameState
<1>2. TypeOK'
  BY <1>1, TypeMade DEF IInv, TypeOK, StateOK
<1> QED
  BY <1>1, <1>2, AllRest

LEMMA CancelInv == ASSUME NEW h \in Handlers PROVE IInv /\ Cancel(h) => IInv'
<1> SUFFICES ASSUME IInv, Cancel(h) PROVE IInv'
  OBVIOUS
<1> DEFINE c == [call[h] EXCEPT !.live = FALSE]
<1>1. call[h] \in Calls /\ (call[h].pc = "wait" => call[h].polls > 0 /\ call[h].id # None)
  BY DEF IInv, TypeOK
<1>2. c \in Calls /\ call' = [call EXCEPT ![h] = c]
  BY <1>1 DEF Calls, Cancel, cloud
<1>3. /\ c.pc = call[h].pc /\ c.op = call[h].op /\ c.n = call[h].n
      /\ c.id = call[h].id /\ ~ c.live /\ c.polls = call[h].polls
  BY <1>1 DEF Calls
<1> HIDE DEF c
<1>4. CallsOK' /\ call'[h] = c /\ \A g \in Handlers \ {h} : Rests(g)
  BY <1>1, <1>2, <1>3, CallOfHandler
<1>5. Rests(h)
  BY <1>3, <1>4 DEF Rests
<1> QED
  BY <1>4, <1>5, CallsOnly DEF Cancel, cloud

LEMMA RestartInv == IInv /\ Restart => IInv'
<1> SUFFICES ASSUME IInv, Restart PROVE IInv'
  OBVIOUS
<1>1. \A g \in Handlers : call'[g] = Idle /\ call'[g].pc = "idle"
  BY DEF Restart, Idle, cloud
<1>2. CallsOK' /\ \A g \in Handlers : Rests(g)
  BY <1>1, IdleType DEF Restart, Rests, CallsOK, cloud
<1> QED
  BY <1>2, CallsOnly DEF Restart, cloud

LEMMA ReturnsInv ==
  ASSUME NEW h \in Handlers, IInv, Return(h), UNCHANGED <<snaps, late, content, doubtful>>,
         UNCHANGED faults \/ Fault
  PROVE  IInv'
<1>1. CallsOK' /\ \A g \in Handlers : Rests(g)
  BY Returned
<1> QED
  BY <1>1, CallsOnly

LEMMA ExpireInv == ASSUME NEW h \in Handlers PROVE IInv /\ Expire(h) => IInv'
  BY ReturnsInv DEF Expire, cloud

LEMMA QuotaExceededInv == ASSUME NEW h \in Handlers PROVE IInv /\ QuotaExceeded(h) => IInv'
  BY ReturnsInv DEF QuotaExceeded, cloud

(* A call that comes is the only one on its snapshot that is waited for. *)
LEMMA StartInv ==
  ASSUME NEW h \in Handlers, NEW op \in {"create", "delete"}, NEW pc \in {"list", "delete"},
         NEW n \in Names, IInv, Start(h, op, pc, n),
         op = "create" => pc = "list" /\ content[n].state = "pending",
         op = "delete" => pc = "delete" /\ content[n].state = "released"
  PROVE  IInv'
<1> DEFINE c == [op |-> op, pc |-> pc, n |-> n, id |-> content[n].id, polls |-> 0, live |-> TRUE]
<1>1. c \in Calls
  BY BoundsAssumption DEF Calls, Contents, IInv, TypeOK
<1>2. /\ call' = [call EXCEPT ![h] = c] /\ UNCHANGED <<snaps, late, content, doubtful, faults>>
      /\ \A g \in Handlers : ~ (call[g].live /\ call[g].n = n)
  BY DEF Start, cloud
<1>3. c.op = op /\ c.pc = pc /\ c.n = n /\ c.id = content[n].id /\ c.live
  OBVIOUS
<1> HIDE DEF c
<1>4. CallsOK' /\ call'[h] = c /\ \A g \in Handlers \ {h} : Rests(g)
  BY <1>1, <1>2, <1>3, CallOfHandler
<1>5. StateOK' /\ Keeps /\ \A m \in Names : Untouched(m)
  BY <1>2, SameState
<1>6. TypeOK'
  BY <1>2, <1>4, <1>5, TypeMade DEF IInv, TypeOK, StateOK
<1>7. HandlerOK(h)'
  <2>1. op = "delete" => content[n].id \in Ids
    BY DEF IInv, StateOK, ContentsOK
  <2> QED
    BY <1>2, <1>3, <1>4, <2>1 DEF HandlerOK, ShapeOf, CreateKnows, DeleteKnows
<1>8. \A g \in Handlers \ {h} : HandlerOK(g)'
  <2>1. \A g \in Handlers : call[g].live => call[g].n \in Names
    BY DEF IInv, HandlerOK, ShapeOf
  <2> QED
    BY <1>4, <1>5, <2>1, RestingHandler
<1>9. Serial'
  <2>1. \A g \in Handlers \ {h} : call'[g].live => call[g].live /\ call'[g].n = call[g].n
    BY <1>4 DEF Rests, Idle
  <2> QED
    BY <1>2, <1>3, <1>4, <2>1 DEF IInv, Serial
<1> QED
  BY <1>5, <1>6, <1>7, <1>8, <1>9 DEF IInv

LEMMA CallInv ==
  ASSUME NEW h \in Handlers, NEW n \in Names
  PROVE  /\ IInv /\ CallCreate(h, n) => IInv'
         /\ IInv /\ CallDelete(h, n) => IInv'
<1>1. IInv /\ CallCreate(h, n) => IInv'
  BY StartInv DEF CallCreate
<1>2. IInv /\ CallDelete(h, n) => IInv'
  BY StartInv DEF CallDelete
<1> QED
  BY <1>1, <1>2
-----------------------------------------------------------------------------
(* The steps of CreateSnapshot *)

LEMMA Creates ==
  ASSUME IInv, NEW h \in Handlers, call[h].live, call[h].op = "create"
  PROVE  call[h] \in Calls /\ ShapeOf(h) /\ CreateKnows(h) /\ call[h].n \in Names
  BY DEF IInv, TypeOK, HandlerOK, ShapeOf

(* Where the handler goes on and nothing else changes. *)
LEMMA GoesOnInv ==
  ASSUME IInv, NEW h \in Handlers, CallsOK', HandlerOK(h)',
         \A g \in Handlers \ {h} : Rests(g), call[h].live, call'[h].n = call[h].n,
         UNCHANGED <<snaps, late, content>>, doubtful \subseteq doubtful', doubtful' \subseteq Names,
         UNCHANGED faults \/ Fault
  PROVE  IInv'
<1>1. StateOK' /\ Keeps /\ \A m \in Names : Untouched(m)
  BY SameState
<1>2. TypeOK'
  BY <1>1, TypeMade DEF IInv, TypeOK, StateOK
<1> QED
  BY <1>1, <1>2, OneMoves

LEMMA ListInv == ASSUME NEW h \in Handlers PROVE IInv /\ List(h) => IInv'
<1> SUFFICES ASSUME IInv, List(h) PROVE IInv'
  OBVIOUS
<1> DEFINE n == call[h].n
<1>1. /\ call[h].pc = "list" /\ call[h].live /\ call[h].op = "create"
      /\ UNCHANGED <<snaps, late, content, doubtful, faults>>
  BY DEF List, ReachesAPI, IInv, HandlerOK, ShapeOf, cloud
<1>2. call[h] \in Calls /\ n \in Names /\ CreateKnows(h) /\ doubtful \subseteq Names
  BY <1>1, Creates DEF IInv, TypeOK
<1>3. CASE Return(h)
  BY <1>1, <1>3, ReturnsInv
<1>4. ASSUME NEW id \in NamedSnapshots(n), WaitFor(h, id) PROVE IInv'
  <2>1. id \in Ids /\ snaps[id].name = n
    BY <1>4 DEF NamedSnapshots
  <2>2. /\ CallsOK'
        /\ call'[h].pc = "wait" /\ call'[h].op = "create" /\ call'[h].n = n
        /\ call'[h].id = id /\ call'[h].live
        /\ \A g \in Handlers \ {h} : Rests(g)
    BY <1>1, <1>4, <2>1, GoneToWait
  <2>3. HandlerOK(h)'
    BY <1>1, <1>2, <2>1, <2>2 DEF HandlerOK, ShapeOf, CreateKnows
  <2> QED
    BY <1>1, <1>2, <2>2, <2>3, GoesOnInv
<1>5. CASE NamedSnapshots(n) = {} /\ Goto(h, "create")
  <2>1. ASSUME NEW id \in Ids, snaps[id].name = n PROVE FALSE
    <3>1. snaps[id].status \in {"none", "gone"}
      BY <1>5, <2>1 DEF NamedSnapshots, Exists
    <3>2. snaps[id].status # "none"
      BY <1>2, <2>1, NoneAssumption DEF IInv, StateOK, SnapsOK
    <3> QED
      BY <1>2, <2>1, <3>1, <3>2 DEF IInv, StateOK, SnapsOK, Ended, CreateKnows
  <2>2. /\ CallsOK'
        /\ call'[h].pc = "create" /\ call'[h].op = "create" /\ call'[h].n = n
        /\ call'[h].live
        /\ \A g \in Handlers \ {h} : Rests(g)
    BY <1>1, <1>5, GoneTo
  <2>3. HandlerOK(h)'
    BY <1>1, <1>2, <2>1, <2>2 DEF HandlerOK, ShapeOf, CreateKnows
  <2> QED
    BY <1>1, <1>2, <2>2, <2>3, GoesOnInv
<1> QED
  BY <1>3, <1>4, <1>5 DEF List, cloud

LEMMA ListFailsInv == ASSUME NEW h \in Handlers PROVE IInv /\ ListFails(h) => IInv'
<1> SUFFICES ASSUME IInv, ListFails(h) PROVE IInv'
  OBVIOUS
<1> DEFINE n == call[h].n
<1>1. /\ call[h].pc = "list" /\ call[h].live /\ call[h].op = "create"
      /\ UNCHANGED <<snaps, late, content>> /\ Fault /\ doubtful' = doubtful \union {n}
  BY DEF ListFails, ReachesAPI, IInv, HandlerOK, ShapeOf, cloud
<1>2. call[h] \in Calls /\ n \in Names /\ CreateKnows(h)
  BY <1>1, Creates
<1>3. /\ CallsOK'
      /\ call'[h].pc = "create" /\ call'[h].op = "create" /\ call'[h].n = n
      /\ call'[h].live
      /\ \A g \in Handlers \ {h} : Rests(g)
  BY <1>1, GoneTo DEF ListFails, cloud
<1>4. HandlerOK(h)'
  BY <1>1, <1>2, <1>3 DEF HandlerOK, ShapeOf, CreateKnows
<1>5. doubtful \subseteq doubtful' /\ doubtful' \subseteq Names
  BY <1>1, <1>2 DEF IInv, TypeOK
<1> QED
  BY <1>1, <1>3, <1>4, <1>5, GoesOnInv

(* The caller gives up while its create is on the way: the name is in doubt. *)
LEMMA CreateOverdueInv == ASSUME NEW h \in Handlers PROVE IInv /\ CreateOverdue(h) => IInv'
<1> SUFFICES ASSUME IInv, CreateOverdue(h) PROVE IInv'
  OBVIOUS
<1>1. /\ call[h].n \in Names /\ Return(h) /\ Fault /\ UNCHANGED <<snaps, content>>
      /\ late' = late \union {call[h].n} /\ doubtful' = doubtful \union {call[h].n}
  BY DEF CreateOverdue, ReachesAPI, IInv, HandlerOK, ShapeOf, cloud
<1>2. CallsOK' /\ \A g \in Handlers : Rests(g)
  BY <1>1, Returned
<1>3. StateOK' /\ Keeps /\ \A m \in Names : Untouched(m)
  BY <1>1, SameState
<1>4. TypeOK'
  BY <1>1, <1>2, <1>3, TypeMade DEF IInv, TypeOK, StateOK
<1> QED
  BY <1>2, <1>3, <1>4, AllRest

(* A create that the API carries out, whether or not the answer arrives. *)
LEMMA Created ==
  ASSUME IInv, NEW h \in Handlers, call[h].pc = "create", call[h].live, call[h].op = "create",
         NEW id \in Ids, NewSnapshot(id, call[h].n),
         UNCHANGED <<late, content, doubtful>>, UNCHANGED faults \/ Fault, CallsOK'
  PROVE  /\ snaps'[id].name = call[h].n
         /\ TypeOK' /\ StateOK' /\ Keeps
         /\ \A m \in Names : Untouched(m) \/ (call[h].live /\ m = call[h].n)
<1>1. CreateKnows(h) /\ call[h].n \in Names
  BY Creates
<1>2. call[h].n \in doubtful \/ \A i \in Ids : snaps[i].name # call[h].n
  BY <1>1 DEF CreateKnows
<1>3. /\ snaps' \in [Ids -> Snapshots] /\ snaps'[id].name = call[h].n
      /\ StateOK' /\ Keeps /\ \A m \in Names : Untouched(m) \/ m = call[h].n
  BY <1>1, <1>2, NewState
<1>4. TypeOK'
  BY <1>3, TypeMade DEF IInv, TypeOK, StateOK
<1> QED
  BY <1>3, <1>4

LEMMA CreateInv == ASSUME NEW h \in Handlers PROVE IInv /\ Create(h) => IInv'
<1> SUFFICES ASSUME IInv, Create(h) PROVE IInv'
  OBVIOUS
<1>1. PICK id \in Ids : NewSnapshot(id, call[h].n) /\ WaitFor(h, id)
  BY DEF Create
<1>2. /\ call[h].pc = "create" /\ call[h].live /\ call[h].op = "create"
      /\ UNCHANGED <<late, content, doubtful, faults>>
  BY DEF Create, ReachesAPI, IInv, HandlerOK, ShapeOf
<1>3. call[h] \in Calls /\ call[h].n \in Names /\ CreateKnows(h)
  BY <1>2, Creates
<1>4. /\ CallsOK'
      /\ call'[h].pc = "wait" /\ call'[h].op = "create" /\ call'[h].n = call[h].n
      /\ call'[h].id = id /\ call'[h].live
      /\ \A g \in Handlers \ {h} : Rests(g)
  BY <1>1, <1>2, GoneToWait
<1>5. /\ snaps'[id].name = call[h].n
      /\ TypeOK' /\ StateOK' /\ Keeps
      /\ \A m \in Names : Untouched(m) \/ (call[h].live /\ m = call[h].n)
  BY <1>1, <1>2, <1>4, Created
<1>6. HandlerOK(h)'
  BY <1>2, <1>3, <1>4, <1>5 DEF HandlerOK, ShapeOf, CreateKnows
<1> QED
  BY <1>2, <1>4, <1>5, <1>6, OneMoves

LEMMA WaitInv == ASSUME NEW h \in Handlers PROVE IInv /\ Wait(h) => IInv'
<1> SUFFICES ASSUME IInv, Wait(h) PROVE IInv'
  OBVIOUS
<1>1. /\ call[h].pc = "wait" /\ call[h].live /\ call[h].op = "create"
      /\ UNCHANGED <<snaps, late, content, doubtful, faults>>
  BY DEF Wait, ReachesAPI, IInv, HandlerOK, ShapeOf, cloud
<1>2. call[h] \in Calls /\ CreateKnows(h) /\ ShapeOf(h) /\ call[h].polls > 0 /\ call[h].id # None
  BY <1>1, Creates DEF IInv, TypeOK
<1>3. doubtful \subseteq Names
  BY DEF IInv, TypeOK
<1>4. CASE Return(h)
  BY <1>1, <1>4, ReturnsInv
<1>5. CASE snaps[call[h].id].status = "available" /\ Goto(h, "reply")
  <2>1. /\ CallsOK'
        /\ call'[h].pc = "reply" /\ call'[h].op = "create" /\ call'[h].n = call[h].n
        /\ call'[h].id = call[h].id /\ call'[h].live
        /\ \A g \in Handlers \ {h} : Rests(g)
    BY <1>1, <1>5, GoneTo
  <2>2. HandlerOK(h)'
    BY <1>1, <1>2, <1>5, <2>1 DEF HandlerOK, ShapeOf, CreateKnows
  <2> QED
    BY <1>1, <1>3, <2>1, <2>2, GoesOnInv
<1>6. CASE call[h].polls > 1 /\ call' = [call EXCEPT ![h].polls = @ - 1]
  <2> DEFINE c == [call[h] EXCEPT !.polls = @ - 1]
  <2>1. call[h].polls \in 0..ReadyPolls
    BY <1>2 DEF Calls
  <2>2. call[h].polls - 1 \in 0..ReadyPolls /\ call[h].polls - 1 > 0
    BY <1>6, <2>1, BoundsAssumption
  <2>3. c \in Calls /\ call' = [call EXCEPT ![h] = c]
    BY <1>2, <1>6, <2>2 DEF Calls, IInv, TypeOK
  <2>4. /\ c.pc = "wait" /\ c.op = "create" /\ c.n = call[h].n
        /\ c.id = call[h].id /\ c.live /\ c.polls > 0
    BY <1>1, <1>2, <2>2 DEF Calls
  <2> HIDE DEF c
  <2>5. CallsOK' /\ call'[h] = c /\ \A g \in Handlers \ {h} : Rests(g)
    BY <1>2, <2>3, <2>4, CallOfHandler
  <2>6. HandlerOK(h)'
    BY <1>1, <1>2, <2>4, <2>5 DEF HandlerOK, ShapeOf, CreateKnows
  <2> QED
    BY <1>1, <1>3, <2>4, <2>5, <2>6, GoesOnInv
<1> QED
  BY <1>4, <1>5, <1>6 DEF Wait, KeepsWaiting, cloud
-----------------------------------------------------------------------------
(* The steps of DeleteSnapshot *)

(* A delete that the API accepts, whether or not the answer arrives. *)
LEMMA Deleted ==
  ASSUME IInv, NEW h \in Handlers, call[h].pc = "delete", call[h].live,
         Deletable(call[h].id), StartDelete(call[h].id),
         UNCHANGED <<late, content, doubtful>>, UNCHANGED faults \/ Fault, CallsOK'
  PROVE  /\ snaps'[call[h].id].status = "deleting"
         /\ TypeOK' /\ StateOK' /\ Keeps /\ \A m \in Names : Untouched(m)
<1> DEFINE id == call[h].id
<1>1. id \in Ids /\ call[h].n \in Names /\ DeleteKnows(h)
  BY DEF IInv, HandlerOK, ShapeOf
<1>2. content[call[h].n].state = "released" /\ snaps[id].name = call[h].n
  BY <1>1 DEF DeleteKnows, IInv, StateOK, ContentsOK
<1>3. /\ snaps[id].status \in {"available", "error"}
      /\ snaps' = [snaps EXCEPT ![id].status = "deleting"]
  BY DEF Deletable, StartDelete
<1>4. snaps[id].status # "none" /\ ~ Ended(id)
  BY <1>3 DEF Ended
<1>5. /\ snaps' \in [Ids -> Snapshots]
      /\ StateOK' /\ Keeps /\ \A m \in Names : Untouched(m)
  BY <1>1, <1>2, <1>3, <1>4, StatusState
<1>6. TypeOK'
  BY <1>5, TypeMade DEF IInv, TypeOK, StateOK
<1>7. snaps'[id].status = "deleting"
  BY <1>1, <1>3 DEF IInv, TypeOK, Snapshots
<1> QED
  BY <1>5, <1>6, <1>7

LEMMA DeleteInv == ASSUME NEW h \in Handlers PROVE IInv /\ Delete(h) => IInv'
<1> SUFFICES ASSUME IInv, Delete(h) PROVE IInv'
  OBVIOUS
<1> DEFINE id == call[h].id
<1>1. /\ call[h].pc = "delete" /\ call[h].live /\ call[h].op = "delete"
      /\ UNCHANGED <<late, content, doubtful, faults>>
  BY DEF Delete, ReachesAPI, IInv, HandlerOK, ShapeOf
<1>2. id \in Ids /\ call[h].n \in Names /\ DeleteKnows(h)
  BY <1>1 DEF IInv, HandlerOK, ShapeOf
<1>3. CASE UNCHANGED snaps /\ Return(h)
  BY <1>1, <1>3, ReturnsInv
<1>4. ASSUME Goto(h, "reply"),
             (UNCHANGED snaps /\ ~ Exists(id)) \/ (Deletable(id) /\ StartDelete(id))
      PROVE  IInv'
  <2>1. /\ CallsOK'
        /\ call'[h].pc = "reply" /\ call'[h].op = "delete" /\ call'[h].n = call[h].n
        /\ call'[h].id = id /\ call'[h].live
        /\ \A g \in Handlers \ {h} : Rests(g)
    BY <1>1, <1>4, GoneTo
  <2>2. /\ snaps'[id].status \in {"deleting", "gone"}
        /\ TypeOK' /\ StateOK' /\ Keeps /\ \A m \in Names : Untouched(m)
    <3>1. CASE Deletable(id) /\ StartDelete(id)
      BY <1>1, <2>1, <3>1, Deleted
    <3>2. CASE UNCHANGED snaps /\ ~ Exists(id)
      <4>1. snaps[id].name # None
        BY <1>2, NoneAssumption DEF DeleteKnows, IInv, StateOK, ContentsOK
      <4>2. snaps[id].status = "gone"
        BY <1>2, <3>2, <4>1 DEF Exists, IInv, StateOK, SnapsOK
      <4>3. StateOK' /\ Keeps /\ \A m \in Names : Untouched(m)
        BY <1>1, <3>2, SameState
      <4>4. TypeOK'
        BY <1>1, <2>1, <3>2, <4>3, TypeMade DEF IInv, TypeOK, StateOK
      <4> QED
        BY <3>2, <4>2, <4>3, <4>4
    <3> QED
      BY <1>4, <3>1, <3>2
  <2>3. HandlerOK(h)'
    BY <1>1, <1>2, <2>1, <2>2 DEF HandlerOK, ShapeOf, DeleteKnows, Ended
  <2> QED
    BY <1>1, <2>1, <2>2, <2>3, OneMoves
<1> QED
  BY <1>3, <1>4 DEF Delete

LEMMA ApiFailsInv == ASSUME NEW h \in Handlers PROVE IInv /\ ApiFails(h) => IInv'
<1> SUFFICES ASSUME IInv, ApiFails(h) PROVE IInv'
  OBVIOUS
<1>1. /\ call[h].pc \in {"create", "wait", "delete"} /\ call[h].live
      /\ Return(h) /\ Fault /\ UNCHANGED <<late, content, doubtful>>
  BY DEF ApiFails
<1>2. /\ CallsOK' /\ HandlerOK(h)' /\ ~ call'[h].live
      /\ \A g \in Handlers : Rests(g)
  BY <1>1, Returned
<1>3. CASE UNCHANGED snaps
  BY <1>1, <1>3, ReturnsInv
<1>4. ASSUME NEW id \in Ids, call[h].pc = "create", NewSnapshot(id, call[h].n) PROVE IInv'
  <2>1. call[h].op = "create"
    BY <1>4 DEF IInv, HandlerOK, ShapeOf
  <2>2. /\ TypeOK' /\ StateOK' /\ Keeps
        /\ \A m \in Names : Untouched(m) \/ (call[h].live /\ m = call[h].n)
    BY <1>1, <1>2, <1>4, <2>1, Created
  <2> QED
    BY <1>2, <2>2, OneMoves
<1>5. CASE call[h].pc = "delete" /\ Deletable(call[h].id) /\ StartDelete(call[h].id)
  <2>1. TypeOK' /\ StateOK' /\ Keeps /\ \A m \in Names : Untouched(m)
    BY <1>1, <1>2, <1>5, Deleted
  <2> QED
    BY <1>2, <2>1, AllRest
<1> QED
  BY <1>3, <1>4, <1>5 DEF ApiFails
-----------------------------------------------------------------------------
(* The answers *)

LEMMA ReplyInv == ASSUME NEW h \in Handlers PROVE IInv /\ Reply(h) => IInv'
<1> SUFFICES ASSUME IInv, Reply(h) PROVE IInv'
  OBVIOUS
<1> DEFINE n == call[h].n
           c == [state |-> IF call[h].op = "create" THEN "ready" ELSE "deleted",
                 id |-> call[h].id]
<1>1. call[h].pc = "reply" /\ Return(h) /\ UNCHANGED <<snaps, late, doubtful, faults>>
  BY DEF Reply, cloud
<1>2. /\ CallsOK' /\ HandlerOK(h)' /\ ~ call'[h].live
      /\ \A g \in Handlers : Rests(g)
  BY <1>1, Returned
<1>3. /\ n \in Names /\ call[h].id \in Ids
      /\ call[h].op \in {"create", "delete"} /\ HandlerOK(h) /\ StateOK
  BY <1>1 DEF IInv, TypeOK, HandlerOK, ShapeOf
<1>4. CASE ~ call[h].live
  BY <1>1, <1>4, ReturnsInv DEF Reply, cloud
<1>5. CASE call[h].live
  <2>1. c \in Contents /\ content' = [content EXCEPT ![n] = c]
    BY <1>3, <1>5 DEF Reply, Contents, cloud
  <2>2. /\ content' \in [Names -> Contents] /\ content'[n] = c
        /\ \A m \in Names \ {n} : content'[m] = content[m]
    BY <1>3, <2>1 DEF IInv, TypeOK
  <2>3. /\ c.state \in {"ready", "deleted"}
        /\ c.state = "ready" =>
             content[n].state = "pending" /\ snaps[c.id].status = "available"
        /\ c.state = "deleted" => content[n].state = "released" /\ Ended(c.id)
        /\ c.id \in Ids /\ snaps[c.id].name = n
    <3>1. CASE call[h].op = "create"
      BY <1>1, <1>3, <1>5, <3>1 DEF HandlerOK, CreateKnows
    <3>2. CASE call[h].op = "delete"
      <4>1. DeleteKnows(h)
        BY <1>3, <1>5, <3>2 DEF HandlerOK
      <4>2. /\ content[n].state = "released" /\ content[n].id = call[h].id
            /\ Ended(call[h].id)
        BY <1>1, <4>1 DEF DeleteKnows
      <4>3. snaps[call[h].id].name = n
        BY <1>3, <4>2 DEF StateOK, ContentsOK
      <4>4. c.state = "deleted" /\ c.id = call[h].id
        BY <3>2
      <4> QED
        BY <1>3, <4>2, <4>3, <4>4
    <3> QED
      BY <1>3, <3>1, <3>2
  <2> HIDE DEF c
  <2>4. StateOK'
    <3>1. SnapsOK'
      BY <1>1, <1>3, <2>2, <2>3 DEF StateOK, SnapsOK, Ended
    <3>2. ContentsOK'
      BY <1>1, <1>3, <2>2, <2>3 DEF StateOK, ContentsOK, Ended
    <3>3. Unique' /\ LateOK'
      BY <1>1, <1>3 DEF StateOK, Unique, LateOK
    <3> QED
      BY <3>1, <3>2, <3>3 DEF StateOK
  <2>5. TypeOK'
    BY <1>1, <1>2, <2>2, <2>4, TypeMade DEF IInv, TypeOK, StateOK
  <2>6. Keeps /\ \A m \in Names : Untouched(m) \/ m = n
    BY <1>1, <2>2 DEF Keeps, Untouched, Ended
  <2> QED
    BY <1>2, <1>5, <2>4, <2>5, <2>6, OneMoves
<1> QED
  BY <1>4, <1>5
-----------------------------------------------------------------------------
(* Every step of the specification keeps the invariant. *)
LEMMA InvNext == IInv /\ [Next]_vars => IInv'
<1> SUFFICES ASSUME IInv, [Next]_vars PROVE IInv'
  OBVIOUS
<1>1. CASE UNCHANGED vars
  <2>1. UNCHANGED <<snaps, late, content, doubtful, faults>> /\ UNCHANGED call
    BY <1>1 DEF vars, cloud
  <2> QED
    BY <2>1, CallsKept, CallsOnly
<1>2. ASSUME NEW h \in Handlers, HandlerStep(h) PROVE IInv'
  BY <1>2, ListInv, CreateInv, QuotaExceededInv, WaitInv, DeleteInv, ReplyInv, ExpireInv
     DEF HandlerStep
<1>3. ASSUME NEW h \in Handlers, ListFails(h) \/ CreateOverdue(h) \/ ApiFails(h) \/ Cancel(h)
      PROVE  IInv'
  BY <1>3, ListFailsInv, CreateOverdueInv, ApiFailsInv, CancelInv
<1>4. ASSUME NEW h \in Handlers, NEW n \in Names, CallCreate(h, n) \/ CallDelete(h, n)
      PROVE  IInv'
  BY <1>4, CallInv
<1>5. ASSUME NEW n \in Names, UserReleases(n) \/ LateCreate(n) PROVE IInv'
  BY <1>5, UserReleasesInv, LateCreateInv
<1>6. ASSUME NEW id \in Ids, SnapshotReady(id) \/ SnapshotFails(id) \/ SnapshotGone(id)
      PROVE  IInv'
  BY <1>6, CloudInv
<1>7. CASE Restart
  BY <1>7, RestartInv
<1> QED
  BY <1>1, <1>2, <1>3, <1>4, <1>5, <1>6, <1>7, Zenon DEF Next

LEMMA Invariance == Spec => []IInv
  BY InvInit, InvNext, PTL DEF Spec

(* Every variable keeps its type; in particular a handler that waits has steps
   left and a snapshot to wait for (client.go:132-166). *)
THEOREM TypeCorrect == Spec => []TypeOK
<1>1. IInv => TypeOK
  BY DEF IInv
<1> QED
  BY <1>1, Invariance, PTL

(* Without a lock there is one snapshot to a name, unless the listing failed
   before a create or the API executed one after its caller's deadline
   (controller.go:300-332). *)
THEOREM NamesAreUnique == Spec => []OneSnapshotPerName
<1>1. ASSUME IInv PROVE OneSnapshotPerName
  <2>1. \A i \in Ids : Exists(i) => snaps[i].name \in Names
    BY <1>1 DEF IInv, StateOK, SnapsOK, Exists
  <2> QED
    BY <1>1, <2>1 DEF IInv, StateOK, Unique, OneSnapshotPerName
<1> QED
  BY <1>1, Invariance, PTL

(* A snapshot answered as ready is available until it is released
   (controller.go:340-353). *)
THEOREM ReadyIsThere == Spec => []ReadyIsAvailable
<1>1. ASSUME IInv, NEW n \in Names, content[n].state = "ready"
      PROVE  snaps[content[n].id] = [name |-> n, status |-> "available"]
  <2>1. /\ content[n].id \in Ids /\ snaps[content[n].id].name = n
        /\ snaps[content[n].id].status = "available"
    BY <1>1 DEF IInv, StateOK, ContentsOK
  <2>2. snaps[content[n].id] \in Snapshots
    BY <1>1, <2>1 DEF IInv, TypeOK
  <2> QED
    BY <2>1, <2>2 DEF Snapshots
<1>2. IInv => ReadyIsAvailable
  BY <1>1 DEF ReadyIsAvailable
<1> QED
  BY <1>2, Invariance, PTL

(* A snapshot that has been deleted leaves nothing of its name, with the same
   exceptions (controller.go:325, 357-375). *)
THEOREM NothingIsLeft == Spec => []NothingLeftBehind
<1>1. ASSUME IInv, NEW n \in Names \ doubtful, NEW id \in Ids,
             content[n].state = "deleted", snaps[id].name = n
      PROVE  snaps[id].status \in {"deleting", "gone"}
  <2>1. content[n].id \in Ids /\ snaps[content[n].id].name = n /\ Ended(content[n].id)
    BY <1>1 DEF IInv, StateOK, ContentsOK
  <2>2. content[n].id = id
    BY <1>1, <2>1 DEF IInv, StateOK, Unique
  <2> QED
    BY <2>1, <2>2 DEF Ended
<1>2. IInv => NothingLeftBehind
  BY <1>1 DEF NothingLeftBehind
<1> QED
  BY <1>2, Invariance, PTL
-----------------------------------------------------------------------------
(* Snapshots as an orchestrator sees them: BlockSnapshots implements
   VolumeRegistry. *)

Size(id) == IF snaps[id].status = "none" THEN 0 ELSE 1
Seen(id) == [name |-> snaps[id].name, state |-> RegistryState(snaps[id].status), size |-> Size(id)]
SeenSnapshots == [id \in Ids |-> Seen(id)]
Grants == [id \in Ids |-> IF HandedOut(id) THEN 1 ELSE 0]

LEMMA RegistryStates ==
  /\ RegistryState("none") = "absent"
  /\ RegistryState("creating") = "building" /\ RegistryState("error") = "building"
  /\ RegistryState("available") = "ready"
  /\ RegistryState("deleting") = "removed" /\ RegistryState("gone") = "removed"
  BY DEF RegistryState

LEMMA SeenNames == \A i \in Ids : SeenSnapshots[i].name = snaps[i].name
  BY DEF SeenSnapshots, Seen

LEMMA RefinementInit == Init => Registry!Init
<1> SUFFICES ASSUME Init PROVE Registry!Init
  OBVIOUS
<1>1. \A id \in Ids : ~ HandedOut(id)
  BY DEF Init, HandedOut
<1> QED
  BY <1>1, RegistryStates DEF Init, Registry!Init

(* Steps of the API touch one snapshot and grant nothing. *)
LEMMA RefinementSnapshot ==
  ASSUME NEW id \in Ids, UNCHANGED <<content, doubtful>>,
         \A i \in Ids \ {id} : snaps'[i] = snaps[i],
         \/ Seen(id)' = Seen(id)
         \/ \E n \in Names :
              /\ snaps[id].status = "none"
              /\ n \in doubtful \/ \A i \in Ids : snaps[i].name # n
              /\ Seen(id)' = [name |-> n, state |-> "building", size |-> 1]
         \/ /\ Seen(id).state = "building"
            /\ Seen(id)' = [Seen(id) EXCEPT !.state = "ready"]
         \/ /\ Seen(id).state \in {"building", "ready"}
            /\ Seen(id)' = [Seen(id) EXCEPT !.state = "removed"]
  PROVE  [Registry!Next]_(Registry!vars)
<1>1. /\ \A i \in Ids : SeenSnapshots[i] = Seen(i)
      /\ SeenSnapshots' = [SeenSnapshots EXCEPT ![id] = Seen(id)']
  <2>1. \A i \in Ids \ {id} : Seen(i)' = Seen(i)
    BY DEF Seen, Size
  <2> QED
    BY <2>1 DEF SeenSnapshots
<1>2. Grants' = Grants
  BY DEF Grants, HandedOut
<1>3. CASE Seen(id)' = Seen(id)
  <2>1. SeenSnapshots' = SeenSnapshots
    BY <1>1, <1>3 DEF SeenSnapshots
  <2> QED
    BY <1>2, <2>1 DEF Registry!vars, SeenSnapshots, Seen, Size, Grants
<1>4. ASSUME NEW n \in Names, snaps[id].status = "none",
             n \in doubtful \/ \A i \in Ids : snaps[i].name # n,
             Seen(id)' = [name |-> n, state |-> "building", size |-> 1]
      PROVE  Registry!Next
  <2>1. SeenSnapshots[id].state = "absent"
    BY <1>1, <1>4, RegistryStates DEF Seen
  <2>2. n \in doubtful \/ \A i \in Ids : SeenSnapshots[i].name # n
    BY <1>4, SeenNames
  <2>3. SeenSnapshots' = [SeenSnapshots EXCEPT ![id] = [name |-> n, state |-> "building", size |-> 1]]
    BY <1>1, <1>4
  <2>4. Registry!Provision(id, n, 1)
    BY <1>2, <2>1, <2>2, <2>3
       DEF Registry!Provision, Registry!Standing, SeenSnapshots, Seen, Size, Grants
  <2> QED
    BY <2>4 DEF Registry!Next
<1>5. CASE Seen(id).state = "building" /\ Seen(id)' = [Seen(id) EXCEPT !.state = "ready"]
  <2>1. SeenSnapshots' = [SeenSnapshots EXCEPT ![id].state = "ready"]
    BY <1>1, <1>5
  <2>2. Registry!Finish(id)
    BY <1>1, <1>2, <1>5, <2>1 DEF Registry!Finish, SeenSnapshots, Seen, Size, Grants
  <2> QED
    BY <2>2 DEF Registry!Next
<1>6. CASE Seen(id).state \in {"building", "ready"} /\ Seen(id)' = [Seen(id) EXCEPT !.state = "removed"]
  <2>1. SeenSnapshots' = [SeenSnapshots EXCEPT ![id].state = "removed"]
    BY <1>1, <1>6
  <2>2. Registry!Remove(id)
    BY <1>1, <1>2, <1>6, <2>1
       DEF Registry!Remove, Registry!Standing, SeenSnapshots, Seen, Size, Grants
  <2> QED
    BY <2>2 DEF Registry!Next
<1> QED
  BY <1>3, <1>4, <1>5, <1>6

(* What has been handed out stays so, when its record goes on to the next state. *)
LEMMA RefinementContent ==
  ASSUME NEW n \in Names, NEW x \in {"released", "deleted"}, TypeOK,
         content[n].state # "pending", UNCHANGED <<snaps, doubtful>>,
         content' = [content EXCEPT ![n] = [state |-> x, id |-> content[n].id]]
  PROVE  [Registry!Next]_(Registry!vars)
<1>1. /\ content'[n].state = x /\ content'[n].id = content[n].id
      /\ \A m \in Names \ {n} : content'[m] = content[m]
  BY DEF TypeOK
<1>2. \A id \in Ids : HandedOut(id)' <=> HandedOut(id)
  BY <1>1 DEF HandedOut
<1> QED
  BY <1>2 DEF Registry!vars

(* A creation that is answered grants its snapshot, which is ready. *)
LEMMA RefinementGrant ==
  ASSUME TypeOK, StateOK, NEW n \in Names, NEW id \in Ids,
         content[n].state = "pending", snaps[id].name = n, snaps[id].status = "available",
         content' = [content EXCEPT ![n] = [state |-> "ready", id |-> id]],
         UNCHANGED <<snaps, doubtful>>
  PROVE  [Registry!Next]_(Registry!vars)
<1>1. /\ content'[n].state = "ready" /\ content'[n].id = id
      /\ \A m \in Names \ {n} : content'[m] = content[m]
  BY DEF TypeOK
<1>2. ~ HandedOut(id) /\ HandedOut(id)'
  BY <1>1 DEF HandedOut, StateOK, ContentsOK
<1>3. \A i \in Ids \ {id} : HandedOut(i)' <=> HandedOut(i)
  BY <1>1 DEF HandedOut
<1>4. Grants[id] = 0 /\ Grants' = [Grants EXCEPT ![id] = 1]
  BY <1>2, <1>3 DEF Grants
<1>5. SeenSnapshots' = SeenSnapshots /\ SeenSnapshots[id] = Seen(id)
  BY DEF SeenSnapshots, Seen, Size
<1>6. Seen(id).state = "ready" /\ Seen(id).size = 1
  BY RegistryStates DEF Seen, Size
<1>7. Registry!Grant(id, 1)
  BY <1>4, <1>5, <1>6 DEF Registry!Grant, SeenSnapshots, Seen, Size, Grants
<1> QED
  BY <1>7 DEF Registry!Next

LEMMA RefinementStep == IInv /\ [Next]_vars => [Registry!Next]_(Registry!vars)
<1> SUFFICES ASSUME IInv, [Next]_vars PROVE [Registry!Next]_(Registry!vars)
  OBVIOUS
<1>0. /\ TypeOK /\ StateOK /\ snaps \in [Ids -> Snapshots]
      /\ \A id \in Ids : Seen(id) = [name |-> snaps[id].name, size |-> Size(id),
                                      state |-> RegistryState(snaps[id].status)]
  BY DEF IInv, TypeOK, Seen
<1>1. ASSUME UNCHANGED <<snaps, content, doubtful>> PROVE [Registry!Next]_(Registry!vars)
  BY <1>1 DEF Registry!vars, HandedOut
<1>2. ASSUME NEW id \in Ids, NEW n \in Names, NewSnapshot(id, n),
             n \in doubtful \/ \A i \in Ids : snaps[i].name # n, UNCHANGED <<content, doubtful>>
      PROVE  [Registry!Next]_(Registry!vars)
  <2>1. /\ \A i \in Ids \ {id} : snaps'[i] = snaps[i]
        /\ snaps[id].status = "none"
        /\ Seen(id)' = [name |-> n, state |-> "building", size |-> 1]
    BY <1>0, <1>2, RegistryStates DEF NewSnapshot, Seen, Size
  <2> QED
    BY <1>2, <2>1, RefinementSnapshot
<1>3. ASSUME NEW id \in Ids, NEW from, NEW to, from # "none", to # "none",
             snaps[id].status = from, snaps' = [snaps EXCEPT ![id].status = to],
             UNCHANGED <<content, doubtful>>,
             \/ RegistryState(to) = RegistryState(from)
             \/ RegistryState(from) = "building" /\ RegistryState(to) = "ready"
             \/ RegistryState(from) \in {"building", "ready"} /\ RegistryState(to) = "removed"
      PROVE  [Registry!Next]_(Registry!vars)
  <2>1. /\ \A i \in Ids \ {id} : snaps'[i] = snaps[i]
        /\ snaps'[id].name = snaps[id].name /\ snaps'[id].status = to
    BY <1>0, <1>3 DEF Snapshots
  <2>2. Seen(id)' = [Seen(id) EXCEPT !.state = RegistryState(to)]
    BY <1>0, <1>3, <2>1 DEF Seen, Size
  <2>3. Seen(id).state = RegistryState(from)
    BY <1>0, <1>3
  <2>4. RegistryState(to) = RegistryState(from) => Seen(id)' = Seen(id)
    BY <1>0, <2>2, <2>3
  <2> QED
    BY <1>3, <2>1, <2>2, <2>3, <2>4, RefinementSnapshot
<1>4. ASSUME NEW id \in Ids, Deletable(id), StartDelete(id), UNCHANGED <<content, doubtful>>
      PROVE  [Registry!Next]_(Registry!vars)
  <2>1. PICK from \in {"available", "error"} :
          snaps[id].status = from /\ snaps' = [snaps EXCEPT ![id].status = "deleting"]
    BY <1>4 DEF Deletable, StartDelete
  <2> QED
    BY <1>3, <1>4, <2>1, RegistryStates
<1>5. ASSUME NEW h \in Handlers, HandlerStep(h) PROVE [Registry!Next]_(Registry!vars)
  <2>1. CASE List(h) \/ QuotaExceeded(h) \/ Wait(h) \/ Expire(h)
    BY <1>1, <2>1 DEF List, QuotaExceeded, Wait, Expire, cloud
  <2>2. CASE Create(h)
    <3>1. call[h].pc = "create" /\ call[h].live /\ call[h].op = "create"
      BY <2>2 DEF Create, ReachesAPI, IInv, HandlerOK, ShapeOf
    <3>2. CreateKnows(h) /\ call[h].n \in Names
      BY <3>1, Creates
    <3> QED
      BY <1>2, <2>2, <3>1, <3>2 DEF Create, CreateKnows
  <2>3. CASE Delete(h)
    <3>1. call[h].id \in Ids /\ UNCHANGED <<content, doubtful>>
      BY <2>3 DEF Delete, ReachesAPI, IInv, HandlerOK, ShapeOf
    <3> QED
      BY <1>1, <1>4, <2>3, <3>1 DEF Delete
  <2>4. CASE Reply(h)
    <3>1. /\ call[h].n \in Names /\ call[h].id \in Ids /\ HandlerOK(h)
          /\ call[h].op \in {"create", "delete"}
      BY <2>4 DEF Reply, IInv, HandlerOK, ShapeOf, cloud
    <3>2. CASE call[h].live /\ call[h].op = "create"
      <4>1. /\ content[call[h].n].state = "pending" /\ snaps[call[h].id].name = call[h].n
            /\ snaps[call[h].id].status = "available"
        BY <2>4, <3>1, <3>2 DEF Reply, HandlerOK, CreateKnows, cloud
      <4>2. content' = [content EXCEPT ![call[h].n] = [state |-> "ready", id |-> call[h].id]]
        BY <2>4, <3>2 DEF Reply, cloud
      <4> QED
        BY <1>0, <2>4, <3>1, <4>1, <4>2, RefinementGrant DEF Reply, cloud
    <3>3. CASE call[h].live /\ call[h].op = "delete"
      <4>1. content[call[h].n].state = "released" /\ call[h].id = content[call[h].n].id
        BY <3>1, <3>3 DEF HandlerOK, DeleteKnows
      <4>2. content' = [content EXCEPT ![call[h].n] =
                          [state |-> "deleted", id |-> content[call[h].n].id]]
        BY <2>4, <3>3, <4>1 DEF Reply, cloud
      <4> QED
        BY <1>0, <2>4, <3>1, <4>1, <4>2, RefinementContent DEF Reply, cloud
    <3>4. CASE ~ call[h].live
      BY <1>1, <2>4, <3>4 DEF Reply, cloud
    <3> QED
      BY <3>1, <3>2, <3>3, <3>4
  <2> QED
    BY <1>5, <2>1, <2>2, <2>3, <2>4 DEF HandlerStep
<1>6. ASSUME NEW h \in Handlers, ListFails(h) \/ CreateOverdue(h)
      PROVE  [Registry!Next]_(Registry!vars)
  <2>1. call[h].n \in Names
    BY <1>6 DEF ListFails, CreateOverdue, ReachesAPI, IInv, HandlerOK, ShapeOf, cloud
  <2>2. Registry!Excuse(call[h].n)
    BY <1>6 DEF ListFails, CreateOverdue, Registry!Excuse, HandedOut, cloud
  <2> QED
    BY <2>1, <2>2 DEF Registry!Next
<1>7. ASSUME NEW h \in Handlers, ApiFails(h) PROVE [Registry!Next]_(Registry!vars)
  <2>1. call[h].live /\ UNCHANGED <<content, doubtful>>
    BY <1>7 DEF ApiFails
  <2>2. CASE UNCHANGED snaps
    BY <1>1, <2>1, <2>2
  <2>3. ASSUME call[h].pc = "create", NEW id \in Ids, NewSnapshot(id, call[h].n)
        PROVE  [Registry!Next]_(Registry!vars)
    <3>1. call[h].op = "create"
      BY <2>3 DEF IInv, HandlerOK, ShapeOf
    <3>2. CreateKnows(h) /\ call[h].n \in Names
      BY <2>1, <3>1, Creates
    <3> QED
      BY <1>2, <2>1, <2>3, <3>2 DEF CreateKnows
  <2>4. CASE call[h].pc = "delete" /\ Deletable(call[h].id) /\ StartDelete(call[h].id)
    <3>1. call[h].id \in Ids
      BY <2>4 DEF IInv, HandlerOK, ShapeOf
    <3> QED
      BY <1>4, <2>1, <2>4, <3>1
  <2> QED
    BY <1>7, <2>2, <2>3, <2>4 DEF ApiFails
<1>8. ASSUME NEW h \in Handlers, NEW n \in Names, CallCreate(h, n) \/ CallDelete(h, n)
      PROVE  [Registry!Next]_(Registry!vars)
  BY <1>1, <1>8 DEF CallCreate, CallDelete, Start, cloud
<1>9. ASSUME NEW n \in Names, UserReleases(n) PROVE [Registry!Next]_(Registry!vars)
  <2>1. content[n] \in Contents
    BY <1>0 DEF TypeOK
  <2>2. content' = [content EXCEPT ![n] = [state |-> "released", id |-> content[n].id]]
    <3>1. [content[n] EXCEPT !.state = "released"] = [state |-> "released", id |-> content[n].id]
      BY <2>1 DEF Contents
    <3> QED
      BY <1>9, <3>1 DEF UserReleases, cloud
  <2> QED
    BY <1>0, <1>9, <2>2, RefinementContent DEF UserReleases, cloud
<1>l. ASSUME NEW n \in Names, LateCreate(n) PROVE [Registry!Next]_(Registry!vars)
  <2>1. n \in doubtful
    BY <1>l DEF LateCreate, IInv, StateOK, LateOK
  <2> QED
    BY <1>2, <1>l, <2>1 DEF LateCreate
<1>10. ASSUME NEW id \in Ids, SnapshotReady(id) \/ SnapshotFails(id) \/ SnapshotGone(id)
       PROVE  [Registry!Next]_(Registry!vars)
  <2>1. CASE SnapshotReady(id)
    BY <1>3, <2>1, RegistryStates DEF SnapshotReady, Becomes
  <2>2. CASE SnapshotFails(id)
    BY <1>3, <2>2, RegistryStates DEF SnapshotFails, Becomes
  <2>3. CASE SnapshotGone(id)
    BY <1>3, <2>3, RegistryStates DEF SnapshotGone, Becomes
  <2> QED
    BY <1>10, <2>1, <2>2, <2>3
<1>11. CASE Restart \/ UNCHANGED vars
  BY <1>1, <1>11 DEF Restart, vars, cloud
<1>12. ASSUME NEW h \in Handlers, Cancel(h) PROVE [Registry!Next]_(Registry!vars)
  BY <1>1, <1>12 DEF Cancel, cloud
<1> QED
  BY <1>5, <1>6, <1>7, <1>8, <1>9, <1>l, <1>10, <1>11, <1>12 DEF Next

(* CreateSnapshot and DeleteSnapshot, without a lock, are a registry that hands
   out nothing before it is ready; what excuses a second snapshot of a name is a
   listing that failed or a creation executed late (controller.go:287-375). *)
THEOREM ImplementsRegistry == Spec => RefinesRegistry
  BY Invariance, RefinementInit, RefinementStep, PTL DEF Spec, RefinesRegistry, Registry!Spec
=============================================================================
