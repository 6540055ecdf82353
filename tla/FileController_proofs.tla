----------------------- MODULE FileController_proofs -----------------------
(***************************************************************************)
(* Proofs about the file storage controller, for any number of handlers,   *)
(* names, ids and sizes, any number of polls and any bound on faults.      *)
(***************************************************************************)
EXTENDS FileController, TLAPS

LEMMA SizesAreNats ==
  /\ Sizes \subseteq Nat
  /\ \A s \in Sizes : s > 0
  /\ \A s \in Sizes \union {0} : s \in Nat
<1>1. \A s \in Sizes : s \in Nat /\ s # 0
  BY SizesAssumption
<1> QED
  BY <1>1

(* The fields of a handler and of a share, for a state of the right type. *)
LEMMA Fields ==
  ASSUME TypeOK
  PROVE  /\ \A h \in Handlers :
              /\ call[h] \in Calls
              /\ call[h].key \in Keys \union {None}
              /\ call[h].size \in Sizes \union {0}
              /\ call[h].seen \in Sizes \union {0}
              /\ call[h].polls \in 0..MaxPolls
         /\ \A id \in Ids :
              /\ shares[id] \in Shares
              /\ shares[id].size \in Sizes \union {0}
              /\ shares[id].target \in Sizes \union {0}
              /\ shares[id].status \in Statuses
              /\ shares[id].name \in Names \union {None}
              /\ confirmed[id] \in Sizes \union {0}
         /\ Sizes \subseteq Nat
         /\ \A h \in Handlers : call[h].size \in Nat /\ call[h].seen \in Nat
         /\ \A id \in Ids : /\ shares[id].size \in Nat /\ shares[id].target \in Nat
                            /\ confirmed[id] \in Nat
  BY SizesAreNats DEF TypeOK, Calls, Shares

(* What the helpers leave in the handlers' variables has its type. *)
CallsOK == call \in [Handlers -> Calls] /\ pending \subseteq Keys

LEMMA IdleType == Idle \in Calls
  BY BoundsAssumption DEF Idle, Calls

LEMMA ReturnType ==
  ASSUME TypeOK, NEW h \in Handlers, Return(h)
  PROVE  CallsOK'
  BY IdleType DEF TypeOK, CallsOK, Return

LEMMA GotoType ==
  ASSUME TypeOK, NEW h \in Handlers, NEW pc \in {"create", "resize"}, Goto(h, pc)
  PROVE  CallsOK'
<1>1. [call[h] EXCEPT !.pc = pc] \in Calls
  BY DEF TypeOK, Calls
<1> QED
  BY <1>1 DEF TypeOK, CallsOK, Goto

LEMMA AnswerType ==
  ASSUME TypeOK, NEW h \in Handlers, NEW id \in Ids, Answer(h, id)
  PROVE  CallsOK'
<1>1. shares[id].size \in Sizes \union {0}
  BY Fields
<1>2. [call[h] EXCEPT !.pc = "reply", !.id = id, !.seen = shares[id].size] \in Calls
  BY <1>1 DEF TypeOK, Calls
<1> QED
  BY <1>2 DEF TypeOK, CallsOK, Answer

LEMMA WaitForType ==
  ASSUME TypeOK, NEW h \in Handlers, NEW id \in Ids, WaitFor(h, id)
  PROVE  CallsOK'
<1>1. call[h] \in Calls /\ MaxPolls \in 0..MaxPolls
  BY BoundsAssumption DEF TypeOK
<1>2. [call[h] EXCEPT !.pc = "poll", !.id = id, !.polls = MaxPolls] \in Calls
  BY <1>1 DEF Calls
<1> QED
  BY <1>2 DEF TypeOK, CallsOK, WaitFor

LEMMA NewShareType ==
  ASSUME TypeOK, NEW id \in Ids, NEW n \in Names, NEW s \in Sizes, NewShare(id, n, s)
  PROVE  shares' \in [Ids -> Shares]
<1>1. [name |-> n, status |-> "creating", size |-> s, target |-> s, exported |-> FALSE] \in Shares
  BY DEF Shares, Statuses
<1> QED
  BY <1>1 DEF TypeOK, NewShare

LEMMA ExtendType ==
  ASSUME TypeOK, NEW id \in Ids, NEW s \in Sizes, Extend(id, s)
  PROVE  shares' \in [Ids -> Shares]
<1>1. shares[id] \in Shares /\ "extending" \in Statuses
  BY DEF TypeOK, Statuses
<1>2. [shares[id] EXCEPT !.status = "extending", !.target = s] \in Shares
  BY <1>1 DEF Shares
<1>3. shares' = [shares EXCEPT ![id] = [shares[id] EXCEPT !.status = "extending", !.target = s]]
  BY DEF TypeOK, Extend
<1> QED
  BY <1>2, <1>3 DEF TypeOK

(* What a handler knows by where it is. *)
ShapeOf(h) ==
  /\ call[h].op \in {"create", "expand"} <=> call[h].pc # "idle"
  /\ call[h].op = "create" =>
       /\ call[h].key \in Names /\ call[h].size \in Sizes
       /\ call[h].pc \in {"lookup", "create", "poll", "reply"}
  /\ call[h].op = "expand" =>
       /\ call[h].key \in Ids /\ call[h].size \in Sizes
       /\ call[h].pc \in {"get", "resize", "poll", "reply"}
       /\ call[h].pc \in {"poll", "reply"} => call[h].id = call[h].key
  /\ call[h].pc \in {"poll", "reply"} => call[h].id \in Ids

Shape == \A h \in Handlers : ShapeOf(h)

LEMMA TypeInit == Init => TypeOK /\ Shape
<1> SUFFICES ASSUME Init PROVE TypeOK /\ Shape
  OBVIOUS
<1>1. [name |-> None, status |-> "none", size |-> 0, target |-> 0, exported |-> FALSE] \in Shares
  BY DEF Shares, Statuses
<1>2. TypeOK
  BY <1>1, IdleType, BoundsAssumption DEF Init, TypeOK
<1>3. Shape
  BY DEF Init, Shape, ShapeOf, Idle
<1> QED
  BY <1>2, <1>3

(* Every action keeps the types and the shape of the handlers. *)
LEMMA TypeStep == TypeOK /\ Shape /\ [Next]_vars => TypeOK' /\ Shape'
<1> SUFFICES ASSUME TypeOK, Shape, [Next]_vars PROVE TypeOK' /\ Shape'
  OBVIOUS
<1> USE BoundsAssumption
<1>a. ASSUME NEW h \in Handlers, Return(h) PROVE CallsOK' /\ Shape'
  BY <1>a, ReturnType DEF Return, Shape, ShapeOf, Idle, TypeOK
<1>b. ASSUME NEW h \in Handlers, NEW id \in Ids, Answer(h, id),
             call[h].pc \in {"lookup", "poll", "get"},
             call[h].op = "expand" => id = call[h].key
      PROVE  CallsOK' /\ Shape'
  <2>1. /\ call'[h] = [call[h] EXCEPT !.pc = "reply", !.id = id, !.seen = shares[id].size]
        /\ \A g \in Handlers \ {h} : call'[g] = call[g]
    BY <1>b DEF Answer, TypeOK
  <2>2. call[h] \in Calls /\ call[h].pc # "idle"
    BY <1>b DEF TypeOK
  <2>3. ShapeOf(h)'
    BY <1>b, <2>1, <2>2 DEF Shape, ShapeOf, Calls
  <2>4. \A g \in Handlers \ {h} : ShapeOf(g)'
    BY <2>1 DEF Shape, ShapeOf
  <2> QED
    BY <1>b, <2>3, <2>4, AnswerType DEF Shape
<1>c. ASSUME NEW h \in Handlers, NEW id \in Ids, WaitFor(h, id),
             call[h].pc \in {"lookup", "create", "resize"},
             call[h].op = "expand" => id = call[h].key
      PROVE  CallsOK' /\ Shape'
  <2>1. /\ call'[h] = [call[h] EXCEPT !.pc = "poll", !.id = id, !.polls = MaxPolls]
        /\ \A g \in Handlers \ {h} : call'[g] = call[g]
    BY <1>c DEF WaitFor, TypeOK
  <2>2. call[h] \in Calls /\ call[h].pc # "idle"
    BY <1>c DEF TypeOK
  <2>3. ShapeOf(h)'
    BY <1>c, <2>1, <2>2 DEF Shape, ShapeOf, Calls
  <2>4. \A g \in Handlers \ {h} : ShapeOf(g)'
    BY <2>1 DEF Shape, ShapeOf
  <2> QED
    BY <1>c, <2>3, <2>4, WaitForType DEF Shape
<1>1. CASE UNCHANGED vars
  BY <1>1 DEF vars, TypeOK, Shape, ShapeOf
<1>2. ASSUME NEW h \in Handlers, Request(h) PROVE TypeOK' /\ Shape'
  <2>1. ASSUME NEW op, NEW pc, NEW key \in Keys, NEW s \in Sizes, Admit(h, op, pc, key, s),
               \/ op = "create" /\ pc = "lookup" /\ key \in Names
               \/ op = "expand" /\ pc = "get" /\ key \in Ids
        PROVE  TypeOK' /\ Shape'
    <3>0. op \in {"create", "expand"} /\ pc \in {"lookup", "get"}
      BY <2>1
    <3>1. [Idle EXCEPT !.op = op, !.pc = pc, !.key = key, !.size = s] \in Calls
      BY <3>0, IdleType DEF Calls
    <3>2. TypeOK'
      BY <2>1, <3>1 DEF Admit, TypeOK
    <3>3. Shape'
      BY <2>1 DEF Admit, TypeOK, Shape, ShapeOf, Idle
    <3> QED
      BY <3>2, <3>3
  <2>2. ASSUME NEW n \in Names, NEW s \in Sizes, AdmitCreate(h, n, s) PROVE TypeOK' /\ Shape'
    BY <2>1, <2>2 DEF AdmitCreate, Keys
  <2>3. ASSUME NEW id \in Ids, NEW s \in Sizes, AdmitExpand(h, id, s) PROVE TypeOK' /\ Shape'
    BY <2>1, <2>3 DEF AdmitExpand, Keys
  <2>4. ASSUME NEW key \in Keys, Abort(h, key) PROVE TypeOK' /\ Shape'
    BY <2>4 DEF Abort, vars, TypeOK, Shape, ShapeOf
  <2> QED
    BY <1>2, <2>2, <2>3, <2>4 DEF Request
<1>3. ASSUME NEW h \in Handlers, HandlerStep(h) PROVE TypeOK' /\ Shape'
  <2>1. CASE Lookup(h)
    <3>1. CallsOK' /\ Shape'
      <4>1. ASSUME NEW id \in Ids, Answer(h, id) PROVE CallsOK' /\ Shape'
        BY <1>b, <2>1, <4>1 DEF Lookup, Shape, ShapeOf
      <4>2. ASSUME NEW id \in Ids, WaitFor(h, id) PROVE CallsOK' /\ Shape'
        BY <1>c, <2>1, <4>2 DEF Lookup, Shape, ShapeOf
      <4>3. CASE Goto(h, "create")
        BY <2>1, <4>3, GotoType DEF Lookup, Goto, Shape, ShapeOf, TypeOK, Calls
      <4> QED
        BY <2>1, <4>1, <4>2, <4>3 DEF Lookup, NamedShares
    <3> QED
      BY <2>1, <3>1 DEF Lookup, TypeOK, CallsOK
  <2>2. CASE CreateShare(h)
    <3>1. PICK id \in Ids : NewShare(id, call[h].key, call[h].size) /\ WaitFor(h, id)
      BY <2>2 DEF CreateShare
    <3>2. call[h].key \in Names /\ call[h].size \in Sizes /\ call[h].op = "create"
      BY <2>2 DEF CreateShare, Shape, ShapeOf
    <3>3. CallsOK' /\ Shape'
      BY <1>c, <2>2, <3>1, <3>2 DEF CreateShare
    <3>4. shares' \in [Ids -> Shares]
      BY <3>1, <3>2, NewShareType
    <3> QED
      BY <2>2, <3>3, <3>4 DEF CreateShare, TypeOK, CallsOK
  <2>3. CASE CreateRefused(h)
    BY <1>a, <2>3 DEF CreateRefused, Fault, TypeOK, CallsOK
  <2>4. CASE Poll(h)
    <3>1. call[h].id \in Ids /\ call[h].pc = "poll" /\ (call[h].op = "expand" => call[h].id = call[h].key)
      BY <2>4 DEF Poll, Shape, ShapeOf
    <3>2. ASSUME ~ LastPoll(h), call' = [call EXCEPT ![h].polls = @ - 1], UNCHANGED pending
          PROVE  CallsOK' /\ Shape'
      <4>1. call[h].polls - 1 \in 0..MaxPolls
        BY <3>2, Fields DEF LastPoll
      <4>2. [call[h] EXCEPT !.polls = @ - 1] \in Calls
        BY <4>1, Fields DEF Calls
      <4> QED
        BY <3>2, <4>2 DEF TypeOK, CallsOK, Shape, ShapeOf, Calls
    <3>3. CallsOK' /\ Shape'
      BY <1>a, <1>b, <2>4, <3>1, <3>2 DEF Poll
    <3> QED
      BY <2>4, <3>3 DEF Poll, TypeOK, CallsOK
  <2>5. CASE Get(h)
    <3>1. call[h].key \in Ids
      BY <2>5 DEF Get, Shape, ShapeOf
    <3>2. CASE Goto(h, "resize")
      BY <2>5, <3>2, GotoType DEF Get, Goto, Shape, ShapeOf, TypeOK, Calls, CallsOK
    <3>3. CallsOK' /\ Shape'
      BY <1>a, <1>b, <2>5, <3>1, <3>2, GotoType DEF Get
    <3> QED
      BY <2>5, <3>3 DEF Get, TypeOK, CallsOK
  <2>6. CASE Resize(h)
    <3>1. call[h].key \in Ids /\ call[h].size \in Sizes
      BY <2>6 DEF Resize, Shape, ShapeOf
    <3>2. CallsOK' /\ Shape'
      BY <1>a, <1>c, <2>6, <3>1 DEF Resize
    <3>3. shares' \in [Ids -> Shares]
      BY <2>6, <3>1, ExtendType DEF Resize, TypeOK
    <3> QED
      BY <2>6, <3>2, <3>3 DEF Resize, TypeOK, CallsOK
  <2>7. CASE Reply(h)
    <3>1. call[h].id \in Ids
      BY <2>7 DEF Reply, Shape, ShapeOf
    <3>2. confirmed' \in [Ids -> Sizes \union {0}]
      BY <2>7, <3>1, Fields DEF Reply, Confirm, TypeOK
    <3> QED
      BY <1>a, <2>7, <3>2 DEF Reply, TypeOK, CallsOK
  <2> QED
    BY <1>3, <2>1, <2>2, <2>3, <2>4, <2>5, <2>6, <2>7 DEF HandlerStep
<1>4. ASSUME NEW h \in Handlers, HandlerFault(h) PROVE TypeOK' /\ Shape'
  <2>1. CASE LookupFails(h)
    <3>1. CallsOK' /\ Shape'
      BY <2>1, GotoType DEF LookupFails, Goto, Shape, ShapeOf, TypeOK, Calls
    <3>2. call[h].key \in Names
      BY <2>1 DEF LookupFails, Shape, ShapeOf
    <3> QED
      BY <2>1, <3>1, <3>2 DEF LookupFails, Fault, TypeOK, CallsOK
  <2>2. CASE CreateLost(h)
    <3>1. call[h].key \in Names /\ call[h].size \in Sizes
      BY <2>2 DEF CreateLost, Shape, ShapeOf
    <3>2. shares' \in [Ids -> Shares]
      BY <2>2, <3>1, NewShareType DEF CreateLost
    <3> QED
      BY <1>a, <2>2, <3>2 DEF CreateLost, Fault, TypeOK, CallsOK
  <2>3. CASE CreateOverdue(h)
    <3>1. call[h].key \in Names /\ <<call[h].key, call[h].size>> \in Names \X Sizes
      BY <2>3 DEF CreateOverdue, Shape, ShapeOf
    <3> QED
      BY <1>a, <2>3, <3>1 DEF CreateOverdue, Fault, TypeOK, CallsOK
  <2>4. CASE ResizeLost(h)
    <3>1. call[h].key \in Ids /\ call[h].size \in Sizes
      BY <2>4 DEF ResizeLost, Shape, ShapeOf
    <3>2. shares' \in [Ids -> Shares]
      BY <2>4, <3>1, ExtendType DEF ResizeLost
    <3> QED
      BY <1>a, <2>4, <3>2 DEF ResizeLost, Fault, TypeOK, CallsOK
  <2>5. CASE CallFails(h)
    BY <1>a, <2>5 DEF CallFails, Fault, TypeOK, CallsOK
  <2> QED
    BY <1>4, <2>1, <2>2, <2>3, <2>4, <2>5 DEF HandlerFault
<1>5. ASSUME Service PROVE TypeOK' /\ Shape'
  <2>1. ASSUME UNCHANGED <<pending, call>>, shares' \in [Ids -> Shares],
               late' \subseteq late, UNCHANGED <<confirmed, doubtful>>, faults' \in 0..MaxFaults
        PROVE  TypeOK' /\ Shape'
    BY <2>1 DEF TypeOK, Shape, ShapeOf
  <2>2. ASSUME NEW n \in Names, NEW s \in Sizes, LateCreate(n, s) PROVE TypeOK' /\ Shape'
    BY <2>1, <2>2, NewShareType DEF LateCreate, TypeOK
  <2>3. ASSUME NEW id \in Ids, NEW to \in Statuses, shares' = [shares EXCEPT ![id].status = to]
        PROVE  shares' \in [Ids -> Shares]
    BY <2>3 DEF TypeOK, Shares
  <2>4. ASSUME NEW id \in Ids, DeleteVolume(id) \/ ShareGone(id) \/ ShareFails(id)
        PROVE  TypeOK' /\ Shape'
    BY <2>1, <2>3, <2>4 DEF DeleteVolume, ShareGone, ShareFails, Fault, Statuses, TypeOK
  <2>5. ASSUME NEW id \in Ids, ShareReady(id) PROVE TypeOK' /\ Shape'
    <3>1. ASSUME NEW e \in BOOLEAN,
                 shares' = [shares EXCEPT ![id].status = "available", ![id].exported = e]
          PROVE  shares' \in [Ids -> Shares]
      <4>1. [shares[id] EXCEPT !.status = "available", !.exported = e] \in Shares
        BY Fields DEF Shares, Statuses
      <4> QED
        BY <3>1, <4>1 DEF TypeOK
    <3>2. ASSUME shares' = [shares EXCEPT ![id].status = "available", ![id].size = shares[id].target]
          PROVE  shares' \in [Ids -> Shares]
      <4>1. [shares[id] EXCEPT !.status = "available", !.size = shares[id].target] \in Shares
        BY Fields DEF Shares, Statuses
      <4> QED
        BY <3>2, <4>1 DEF TypeOK
    <3> QED
      BY <2>1, <2>5, <3>1, <3>2 DEF ShareReady, TypeOK
  <2> QED
    BY <1>5, <2>2, <2>4, <2>5 DEF Service
<1>6. CASE Crash
  <2>1. TypeOK'
    BY <1>6, IdleType DEF TypeOK, Crash, Fault
  <2>2. Shape'
    BY <1>6 DEF Crash, Shape, ShapeOf, Idle
  <2> QED
    BY <2>1, <2>2
<1> QED
  BY <1>1, <1>2, <1>3, <1>4, <1>5, <1>6 DEF Next

(* The variables keep their types in every behaviour. *)
LEMMA TypeAndShape == Spec => [](TypeOK /\ Shape)
  BY TypeInit, TypeStep, PTL DEF Spec

(* The variables keep their types in every behaviour. *)
THEOREM TypeCorrect == Spec => []TypeOK
  BY TypeAndShape, PTL
-----------------------------------------------------------------------------
(***************************************************************************)
(* Capacity.  The invariant says what a handler knows about its share while *)
(* others act on it; no action takes that away (Grows).                     *)
(***************************************************************************)

Built(id) == shares[id].status \notin {"none", "creating"}

(* The share has s GiB, or will when it is available again, or is lost. *)
Expected(id, s) ==
  \/ shares[id].size >= s
  \/ shares[id].status = "extending" /\ shares[id].target >= s
  \/ shares[id].status \in {"error", "deleting", "gone"}

VolumeFacts(id) ==
  /\ confirmed[id] <= shares[id].size
  /\ confirmed[id] > 0 => Built(id) /\ shares[id].exported
  /\ shares[id].status = "extending" => shares[id].target > shares[id].size

HandlerFacts(h) ==
  LET id == call[h].id IN
  /\ call[h].op = "expand" => confirmed[call[h].key] > 0
  /\ call[h].pc = "reply" =>
       /\ Built(id) /\ call[h].seen <= shares[id].size
       /\ call[h].op = "expand" => call[h].seen >= call[h].size
  /\ call[h].pc = "poll" /\ call[h].op = "expand" => Expected(id, call[h].size)

CapacityInv ==
  /\ TypeOK /\ Shape
  /\ \A id \in Ids : VolumeFacts(id)
  /\ \A h \in Handlers : HandlerFacts(h)

(* What a step may do to a share: it never shrinks, is never unbuilt, and what
   was promised to a waiting expansion still is. *)
Grows(id) ==
  /\ Built(id) => Built(id)' /\ shares'[id].exported = shares[id].exported
  /\ shares[id].status # "none" => shares'[id].size >= shares[id].size
  /\ \A s \in Sizes : Built(id) /\ Expected(id, s) => Expected(id, s)'
  /\ confirmed'[id] >= confirmed[id]

LEMMA CapacityInit == Init => CapacityInv
  BY TypeInit DEF Init, CapacityInv, VolumeFacts, HandlerFacts, Idle

(* The shares and the confirmations, whatever the step. *)
LEMMA SharesStep ==
  ASSUME CapacityInv, [Next]_vars, NEW id \in Ids
  PROVE  Grows(id) /\ VolumeFacts(id)'
<1> USE DEF Built, Expected
<1>0. /\ TypeOK /\ Shape /\ VolumeFacts(id)
      /\ shares[id].size \in Nat /\ shares[id].target \in Nat /\ confirmed[id] \in Nat
      /\ Sizes \subseteq Nat
      /\ \A h \in Handlers : HandlerFacts(h) /\ ShapeOf(h)
  BY Fields DEF CapacityInv, Shape
<1>1. CASE shares'[id] = shares[id] /\ confirmed'[id] = confirmed[id]
  BY <1>0, <1>1 DEF Grows, VolumeFacts
<1>2. ASSUME NEW i \in Ids, NEW n \in Names, NEW s \in Sizes, NewShare(i, n, s), UNCHANGED confirmed
      PROVE  Grows(id) /\ VolumeFacts(id)'
  <2>1. CASE i # id
    BY <1>0, <1>1, <1>2, <2>1 DEF NewShare, TypeOK
  <2>2. CASE i = id
    <3>1. /\ shares'[id] = [name |-> n, status |-> "creating", size |-> s, target |-> s, exported |-> FALSE]
          /\ shares[id].status = "none"
      BY <1>0, <1>2, <2>2 DEF NewShare, TypeOK
    <3> QED
      BY <1>0, <1>2, <3>1 DEF Grows, VolumeFacts
  <2> QED
    BY <2>1, <2>2
<1>3. ASSUME NEW i \in Ids, NEW s \in Sizes, Resizable(i, s), Extend(i, s), UNCHANGED confirmed
      PROVE  Grows(id) /\ VolumeFacts(id)'
  <2>1. CASE i # id
    BY <1>0, <1>1, <1>3, <2>1 DEF Extend, TypeOK
  <2>2. CASE i = id
    <3>1. /\ shares'[id] = [shares[id] EXCEPT !.status = "extending", !.target = s]
          /\ shares[id].status = "available" /\ shares[id].size < s
          /\ shares[id] \in Shares
      BY <1>0, <1>3, <2>2 DEF Extend, Resizable, TypeOK
    <3> QED
      BY <1>0, <1>3, <3>1 DEF Grows, VolumeFacts, Shares
  <2> QED
    BY <2>1, <2>2
<1>4. ASSUME NEW h \in Handlers, Request(h) PROVE Grows(id) /\ VolumeFacts(id)'
  BY <1>1, <1>4 DEF Request, AdmitCreate, AdmitExpand, Admit, Abort, vars
<1>5. ASSUME NEW h \in Handlers, HandlerStep(h) PROVE Grows(id) /\ VolumeFacts(id)'
  <2>1. CASE Lookup(h) \/ CreateRefused(h) \/ Poll(h) \/ Get(h)
    BY <1>1, <2>1 DEF Lookup, CreateRefused, Poll, Get
  <2>2. CASE CreateShare(h)
    BY <1>0, <1>2, <2>2 DEF CreateShare, ShapeOf
  <2>3. CASE Resize(h)
    BY <1>0, <1>1, <1>3, <2>3 DEF Resize, ShapeOf
  <2>4. CASE Reply(h)
    <3>1. call[h].id \in Ids /\ call[h].seen \in Nat /\ UNCHANGED shares
      <4>1. call[h].pc = "reply" /\ UNCHANGED shares
        BY <2>4 DEF Reply
      <4>2. call[h].id \in Ids
        BY <1>0, <4>1 DEF ShapeOf
      <4>3. call[h].seen \in Nat
        BY <1>0, Fields
      <4> QED
        BY <4>1, <4>2, <4>3
    <3>2. CASE Succeeds(h) /\ call[h].id = id
      <4>1. confirmed'[id] = IF call[h].seen > confirmed[id] THEN call[h].seen ELSE confirmed[id]
        BY <1>0, <2>4, <3>1, <3>2 DEF Reply, Confirm, TypeOK
      <4>2. call[h].seen <= shares[id].size /\ shares[id].status \notin {"none", "creating"}
        BY <1>0, <2>4, <3>2 DEF Reply, HandlerFacts
      <4>3. shares[id].exported
        BY <1>0, <2>4, <3>2 DEF Reply, Succeeds, HandlerFacts, ShapeOf, VolumeFacts
      <4> QED
        BY <1>0, <3>1, <4>1, <4>2, <4>3 DEF Grows, VolumeFacts
    <3>3. CASE ~ (Succeeds(h) /\ call[h].id = id)
      BY <1>0, <1>1, <2>4, <3>1, <3>3 DEF Reply, Confirm, TypeOK
    <3> QED
      BY <3>2, <3>3
  <2> QED
    BY <1>5, <2>1, <2>2, <2>3, <2>4 DEF HandlerStep
<1>6. ASSUME NEW h \in Handlers, HandlerFault(h) PROVE Grows(id) /\ VolumeFacts(id)'
  <2>1. CASE LookupFails(h) \/ CreateOverdue(h) \/ CallFails(h)
    BY <1>1, <2>1 DEF LookupFails, CreateOverdue, CallFails
  <2>2. CASE CreateLost(h)
    BY <1>0, <1>2, <2>2 DEF CreateLost, ShapeOf
  <2>3. CASE ResizeLost(h)
    BY <1>0, <1>3, <2>3 DEF ResizeLost, ShapeOf
  <2> QED
    BY <1>6, <2>1, <2>2, <2>3 DEF HandlerFault
<1>7. ASSUME Service PROVE Grows(id) /\ VolumeFacts(id)'
  <2>1. ASSUME NEW n \in Names, NEW s \in Sizes, LateCreate(n, s) PROVE Grows(id) /\ VolumeFacts(id)'
    BY <1>2, <2>1 DEF LateCreate
  <2>2. ASSUME NEW i \in Ids, DeleteVolume(i) \/ ShareGone(i) \/ ShareFails(i)
        PROVE  Grows(id) /\ VolumeFacts(id)'
    <3>1. CASE i # id
      BY <1>0, <1>1, <2>2, <3>1 DEF DeleteVolume, ShareGone, ShareFails, TypeOK
    <3>2. ASSUME NEW to \in {"deleting", "gone", "error"}, i = id, UNCHANGED confirmed,
                 shares' = [shares EXCEPT ![i].status = to]
          PROVE  Grows(id) /\ VolumeFacts(id)'
      <4>1. shares'[id] = [shares[id] EXCEPT !.status = to] /\ shares[id] \in Shares
        BY <1>0, <3>2 DEF TypeOK
      <4>2. confirmed[id] > 0 => shares[id].exported
        BY <1>0 DEF VolumeFacts
      <4> QED
        BY <1>0, <3>2, <4>1, <4>2 DEF Grows, VolumeFacts, Shares
    <3> QED
      BY <2>2, <3>1, <3>2 DEF DeleteVolume, ShareGone, ShareFails
  <2>3. ASSUME NEW i \in Ids, ShareReady(i) PROVE Grows(id) /\ VolumeFacts(id)'
    <3>1. CASE i # id
      BY <1>0, <1>1, <2>3, <3>1 DEF ShareReady, TypeOK
    <3>2. CASE i = id /\ shares[id].status = "creating"
      <4>1. PICK e \in BOOLEAN :
              shares'[id] = [shares[id] EXCEPT !.status = "available", !.exported = e]
        BY <1>0, <2>3, <3>2 DEF ShareReady, TypeOK
      <4>2. shares[id] \in Shares /\ confirmed[id] = 0 /\ UNCHANGED confirmed
        BY <1>0, <2>3, <3>2 DEF ShareReady, TypeOK, VolumeFacts
      <4> QED
        BY <1>0, <3>2, <4>1, <4>2 DEF Grows, VolumeFacts, Shares
    <3>3. CASE i = id /\ shares[id].status = "extending"
      <4>1. shares'[id] = [shares[id] EXCEPT !.status = "available", !.size = shares[id].target]
        BY <1>0, <2>3, <3>3 DEF ShareReady, TypeOK
      <4>2. shares[id] \in Shares /\ UNCHANGED confirmed
        BY <1>0, <2>3 DEF ShareReady, TypeOK
      <4>3. /\ shares'[id].status = "available" /\ shares'[id].size = shares[id].target
            /\ shares'[id].exported = shares[id].exported
        BY <4>1, <4>2 DEF Shares
      <4> QED
        BY <1>0, <3>3, <4>2, <4>3 DEF Grows, VolumeFacts
    <3> QED
      BY <2>3, <3>1, <3>2, <3>3 DEF ShareReady
  <2> QED
    BY <1>7, <2>1, <2>2, <2>3 DEF Service
<1>8. CASE Crash \/ UNCHANGED vars
  BY <1>1, <1>8 DEF Crash, vars
<1> QED
  BY <1>4, <1>5, <1>6, <1>7, <1>8 DEF Next

(* What a handler knows stays true while others act, and its own steps
   establish what it comes to know. *)
LEMMA HandlersStep ==
  ASSUME CapacityInv, [Next]_vars, NEW g \in Handlers
  PROVE  HandlerFacts(g)'
<1>0. /\ TypeOK /\ Shape /\ ShapeOf(g) /\ HandlerFacts(g)
      /\ TypeOK' /\ Shape' /\ ShapeOf(g)'
  BY TypeStep DEF CapacityInv, Shape
<1>1. \A id \in Ids : VolumeFacts(id) /\ Grows(id) /\ VolumeFacts(id)'
  BY SharesStep DEF CapacityInv
<1>2. \A id \in Ids : /\ shares[id].size \in Nat /\ shares'[id].size \in Nat
                      /\ confirmed[id] \in Nat /\ confirmed'[id] \in Nat
  <2>1. TypeOK' => \A id \in Ids : shares'[id].size \in Nat /\ confirmed'[id] \in Nat
    BY SizesAreNats DEF TypeOK, Shares
  <2> QED
    BY <1>0, <2>1, Fields
<1>3. /\ call[g].key \in Keys \union {None} /\ Sizes \subseteq Nat
      /\ call[g].seen \in Nat /\ call[g].size \in Nat
  BY <1>0, Fields
<1>4. CASE call'[g] = call[g]
  <2>1. call[g].op = "expand" => confirmed'[call[g].key] > 0
    BY <1>0, <1>1, <1>2 DEF ShapeOf, HandlerFacts, Grows
  <2>2. call[g].pc = "reply" => Built(call[g].id)' /\ call[g].seen <= shares'[call[g].id].size
    <3> SUFFICES ASSUME call[g].pc = "reply"
                 PROVE  Built(call[g].id)' /\ call[g].seen <= shares'[call[g].id].size
      OBVIOUS
    <3>1. call[g].id \in Ids /\ Built(call[g].id) /\ call[g].seen <= shares[call[g].id].size
      BY <1>0 DEF ShapeOf, HandlerFacts
    <3>2. /\ Built(call[g].id)' /\ shares[call[g].id].status # "none"
          /\ shares'[call[g].id].size >= shares[call[g].id].size
      BY <1>1, <1>4, <3>1 DEF Grows, Built
    <3> QED
      BY <1>2, <1>3, <3>1, <3>2
  <2>3. call[g].pc = "poll" /\ call[g].op = "expand" => Expected(call[g].id, call[g].size)'
    <3> SUFFICES ASSUME call[g].pc = "poll", call[g].op = "expand"
                 PROVE  Expected(call[g].id, call[g].size)'
      OBVIOUS
    <3>1. /\ call[g].id \in Ids /\ call[g].id = call[g].key /\ call[g].size \in Sizes
          /\ Expected(call[g].id, call[g].size) /\ confirmed[call[g].id] > 0
      BY <1>0 DEF ShapeOf, HandlerFacts
    <3>2. Built(call[g].id) /\ Grows(call[g].id)
      BY <1>1, <3>1 DEF VolumeFacts
    <3>3. \A id \in Ids, s \in Sizes :
            Grows(id) /\ Built(id) /\ Expected(id, s) =>
              \/ shares'[id].size >= s
              \/ shares'[id].status = "extending" /\ shares'[id].target >= s
              \/ shares'[id].status \in {"error", "deleting", "gone"}
      BY DEF Grows, Expected
    <3>4. LET id == call[g].id IN
            \/ shares'[id].size >= call[g].size
            \/ shares'[id].status = "extending" /\ shares'[id].target >= call[g].size
            \/ shares'[id].status \in {"error", "deleting", "gone"}
      BY <3>1, <3>2, <3>3
    <3> QED
      BY <1>4, <3>4 DEF Expected
  <2> QED
    BY <1>0, <1>4, <2>1, <2>2, <2>3 DEF HandlerFacts, Built
<1>5. CASE call'[g] = Idle
  BY <1>5 DEF Idle, HandlerFacts
<1>6. ASSUME NEW id \in Ids, Answer(g, id), UNCHANGED <<shares, confirmed>>, Built(id),
             call[g].op = "expand" => shares[id].size >= call[g].size
      PROVE  HandlerFacts(g)'
  <2>1. call'[g] = [call[g] EXCEPT !.pc = "reply", !.id = id, !.seen = shares[id].size]
        /\ call[g] \in Calls
    BY <1>0, <1>6 DEF Answer, TypeOK
  <2>2. /\ call'[g].op = call[g].op /\ call'[g].pc = "reply" /\ call'[g].key = call[g].key
        /\ call'[g].id = id /\ call'[g].seen = shares[id].size /\ call'[g].size = call[g].size
    BY <2>1 DEF Calls
  <2> QED
    BY <1>0, <1>2, <1>6, <2>2 DEF HandlerFacts, Built
<1>7. ASSUME NEW id \in Ids, WaitFor(g, id), UNCHANGED confirmed,
             call[g].op = "expand" => Expected(id, call[g].size)'
      PROVE  HandlerFacts(g)'
  <2>1. call'[g] = [call[g] EXCEPT !.pc = "poll", !.id = id, !.polls = MaxPolls]
        /\ call[g] \in Calls
    BY <1>0, <1>7 DEF WaitFor, TypeOK
  <2>2. /\ call'[g].op = call[g].op /\ call'[g].pc = "poll" /\ call'[g].key = call[g].key
        /\ call'[g].id = id /\ call'[g].size = call[g].size
    BY <2>1 DEF Calls
  <2> QED
    BY <1>0, <1>7, <2>2 DEF HandlerFacts, Expected
<1>8. ASSUME NEW pc \in {"create", "resize"}, Goto(g, pc), UNCHANGED confirmed
      PROVE  HandlerFacts(g)'
  <2>1. call'[g] = [call[g] EXCEPT !.pc = pc] /\ call[g] \in Calls
    BY <1>0, <1>8 DEF Goto, TypeOK
  <2>2. call'[g].op = call[g].op /\ call'[g].pc = pc /\ call'[g].key = call[g].key
    BY <2>1 DEF Calls
  <2> QED
    BY <1>0, <1>8, <2>2 DEF HandlerFacts
<1>9. ASSUME NEW h \in Handlers, Request(h) PROVE HandlerFacts(g)'
  <2>1. CASE h # g
    BY <1>0, <1>4, <1>9, <2>1 DEF Request, AdmitCreate, AdmitExpand, Admit, Abort, vars, TypeOK
  <2>2. ASSUME h = g, NEW n \in Names, NEW s \in Sizes, AdmitCreate(h, n, s) PROVE HandlerFacts(g)'
    BY <1>0, <2>2 DEF AdmitCreate, Admit, Idle, HandlerFacts, TypeOK
  <2>3. ASSUME h = g, NEW id \in Ids, NEW s \in Sizes, AdmitExpand(h, id, s) PROVE HandlerFacts(g)'
    BY <1>0, <2>3 DEF AdmitExpand, Admit, Idle, HandlerFacts, TypeOK
  <2>4. ASSUME NEW key \in Keys, Abort(h, key) PROVE HandlerFacts(g)'
    BY <1>4, <2>4 DEF Abort, vars
  <2> QED
    BY <1>9, <2>1, <2>2, <2>3, <2>4 DEF Request
<1>10. ASSUME NEW h \in Handlers, HandlerStep(h) PROVE HandlerFacts(g)'
  <2>1. CASE h # g
    BY <1>0, <1>4, <1>10, <2>1
       DEF HandlerStep, Lookup, CreateShare, CreateRefused, Poll, Get, Resize, Reply,
           Answer, WaitFor, Goto, Return, TypeOK
  <2>2. CASE h = g /\ Lookup(g)
    <3>1. call[g].op = "create"
      BY <1>0, <2>2 DEF Lookup, ShapeOf
    <3> QED
      BY <1>6, <1>7, <1>8, <2>2, <3>1 DEF Lookup, NamedShares, IsReady, Built
  <2>3. CASE h = g /\ CreateShare(g)
    BY <1>0, <1>7, <2>3 DEF CreateShare, ShapeOf
  <2>4. CASE h = g /\ (CreateRefused(g) \/ Reply(g))
    BY <1>0, <1>5, <2>4 DEF CreateRefused, Reply, Return, TypeOK
  <2>5. CASE h = g /\ Poll(g)
    <3>1. call[g].id \in Ids /\ call[g].pc = "poll" /\ UNCHANGED <<shares, confirmed>>
      BY <1>0, <2>5 DEF Poll, ShapeOf
    <3>2. CASE IsReady(call[g].id) /\ Answer(g, call[g].id)
      <4>1. call[g].op = "expand" => Expected(call[g].id, call[g].size)
        BY <1>0, <3>1 DEF HandlerFacts
      <4> QED
        BY <1>6, <3>1, <3>2, <4>1 DEF IsReady, Built, Expected
    <3>3. CASE call' = [call EXCEPT ![g].polls = @ - 1]
      <4>1. call'[g] = [call[g] EXCEPT !.polls = call[g].polls - 1] /\ call[g] \in Calls
        BY <1>0, <3>3 DEF TypeOK
      <4>2. /\ call'[g].op = call[g].op /\ call'[g].pc = "poll" /\ call'[g].key = call[g].key
            /\ call'[g].id = call[g].id /\ call'[g].size = call[g].size
        BY <3>1, <4>1 DEF Calls
      <4> QED
        BY <1>0, <3>1, <4>2 DEF HandlerFacts, Expected
    <3>4. CASE Return(g)
      BY <1>0, <1>5, <3>4 DEF Return, TypeOK
    <3> QED
      BY <2>5, <3>2, <3>3, <3>4 DEF Poll
  <2>6. CASE h = g /\ Get(g)
    <3>1. /\ call[g].key \in Ids /\ Built(call[g].key) /\ UNCHANGED <<shares, confirmed>>
      BY <1>0, <1>1, <2>6 DEF Get, ShapeOf, HandlerFacts, VolumeFacts
    <3>2. CASE Return(g)
      BY <1>0, <1>5, <3>2 DEF Return, TypeOK
    <3> QED
      BY <1>6, <1>8, <2>6, <3>1, <3>2 DEF Get
  <2>7. CASE h = g /\ Resize(g)
    <3>1. call[g].key \in Ids /\ call[g].size \in Sizes
      BY <1>0, <2>7 DEF Resize, ShapeOf
    <3>2. ASSUME NEW id \in Ids, id = call[g].key, Extend(id, call[g].size), WaitFor(g, id)
          PROVE  HandlerFacts(g)'
      <4>1. shares'[id].status = "extending" /\ shares'[id].target = call[g].size
        BY <1>0, <3>1, <3>2 DEF Extend, TypeOK, Shares
      <4>2. call'[g].size = call[g].size /\ UNCHANGED confirmed
        BY <1>0, <2>7, <3>1, <3>2 DEF Resize, WaitFor, TypeOK, Calls
      <4>3. Expected(id, call[g].size)'
        BY <1>3, <4>1, <4>2 DEF Expected
      <4> QED
        BY <1>7, <3>2, <4>2, <4>3
    <3>3. CASE Return(g)
      BY <1>0, <1>5, <3>3 DEF Return, TypeOK
    <3> QED
      BY <2>7, <3>1, <3>2, <3>3 DEF Resize
  <2> QED
    BY <1>10, <2>1, <2>2, <2>3, <2>4, <2>5, <2>6, <2>7 DEF HandlerStep
<1>11. ASSUME NEW h \in Handlers, HandlerFault(h) PROVE HandlerFacts(g)'
  <2>1. CASE h # g
    BY <1>0, <1>4, <1>11, <2>1
       DEF HandlerFault, LookupFails, CreateLost, CreateOverdue, ResizeLost, CallFails,
           Goto, Return, TypeOK
  <2>2. CASE h = g /\ LookupFails(g)
    BY <1>8, <2>2 DEF LookupFails
  <2>3. CASE h = g /\ ~ LookupFails(g)
    BY <1>0, <1>5, <1>11, <2>3
       DEF HandlerFault, CreateLost, CreateOverdue, ResizeLost, CallFails, Return, TypeOK
  <2> QED
    BY <2>1, <2>2, <2>3
<1>12. CASE Service \/ UNCHANGED vars
  BY <1>4, <1>12 DEF Service, LateCreate, DeleteVolume, ShareReady, ShareFails, ShareGone, vars
<1>13. CASE Crash
  BY <1>5, <1>13 DEF Crash
<1> QED
  BY <1>9, <1>10, <1>11, <1>12, <1>13 DEF Next

LEMMA CapacityStep == CapacityInv /\ [Next]_vars => CapacityInv'
<1> SUFFICES ASSUME CapacityInv, [Next]_vars PROVE CapacityInv'
  OBVIOUS
<1>1. (TypeOK /\ Shape)'
  BY TypeStep DEF CapacityInv
<1>2. \A id \in Ids : VolumeFacts(id)'
  BY SharesStep
<1>3. \A h \in Handlers : HandlerFacts(h)'
  BY HandlersStep
<1> QED
  BY <1>1, <1>2, <1>3 DEF CapacityInv

LEMMA CapacityAlways == Spec => []CapacityInv
  BY CapacityInit, CapacityStep, PTL DEF Spec

(* The capacity a reply has named is there from then on. *)
THEOREM CapacityIsThere == Spec => []ConfirmedCapacity
<1>1. CapacityInv => ConfirmedCapacity
  BY DEF CapacityInv, VolumeFacts, ConfirmedCapacity
<1> QED
  BY <1>1, CapacityAlways, PTL

(* A volume that was handed out has been built and has an export location. *)
THEOREM HandedOutIsBuilt == Spec => []ConfirmedShareIsBuilt
<1>1. CapacityInv => ConfirmedShareIsBuilt
  BY DEF CapacityInv, VolumeFacts, Built, ConfirmedShareIsBuilt
<1> QED
  BY <1>1, CapacityAlways, PTL

(* An expansion that succeeds answers at least the size asked for. *)
THEOREM ExpansionIsEnough == Spec => []ExpandMeetsRequest
<1>1. CapacityInv => ExpandMeetsRequest
  BY DEF CapacityInv, HandlerFacts, ExpandMeetsRequest
<1> QED
  BY <1>1, CapacityAlways, PTL
-----------------------------------------------------------------------------
(***************************************************************************)
(* The keys of pendingVolumes, as a lock.                                  *)
(***************************************************************************)

Busy(h) == call[h].pc # "idle"

HeldInv ==
  /\ TypeOK /\ Shape
  /\ \A h \in Handlers : Busy(h) => call[h].key \in pending
  /\ \A key \in pending : \E h \in Handlers : Busy(h) /\ call[h].key = key
  /\ \A g, h \in Handlers : Busy(g) /\ Busy(h) /\ call[g].key = call[h].key => g = h

LEMMA HeldInit == Init => HeldInv
  BY TypeInit DEF Init, HeldInv, Busy, Idle

LEMMA HeldStep == HeldInv /\ [Next]_vars => HeldInv'
<1> SUFFICES ASSUME HeldInv, [Next]_vars PROVE HeldInv'
  OBVIOUS
<1>0. TypeOK /\ Shape /\ (TypeOK /\ Shape)'
  BY TypeStep DEF HeldInv
<1>1. ASSUME UNCHANGED pending,
             \A h \in Handlers : Busy(h)' = Busy(h) /\ (Busy(h) => call'[h].key = call[h].key)
      PROVE  HeldInv'
  BY <1>0, <1>1 DEF HeldInv
<1>2. ASSUME NEW h \in Handlers, Busy(h), Return(h) PROVE HeldInv'
  <2>1. ~ Busy(h)' /\ \A g \in Handlers \ {h} : Busy(g)' = Busy(g) /\ call'[g] = call[g]
    BY <1>0, <1>2 DEF Return, Busy, Idle, TypeOK
  <2>2. pending' = pending \ {call[h].key}
    BY <1>2 DEF Return
  <2> QED
    BY <1>0, <1>2, <2>1, <2>2 DEF HeldInv
<1>3. ASSUME NEW h \in Handlers, Busy(h), NEW c \in Calls, call' = [call EXCEPT ![h] = c],
             UNCHANGED pending, c.key = call[h].key, c.pc # "idle"
      PROVE  HeldInv'
  BY <1>0, <1>1, <1>3 DEF Busy, TypeOK
<1>4. ASSUME NEW h \in Handlers, Busy(h),
             \/ \E id \in Ids : Answer(h, id)
             \/ \E id \in Ids : WaitFor(h, id)
             \/ \E pc \in {"create", "resize"} : Goto(h, pc)
      PROVE  HeldInv'
  <2>0. call[h] \in Calls
    BY <1>0 DEF TypeOK
  <2>1. ASSUME NEW id \in Ids, Answer(h, id) PROVE HeldInv'
    BY <1>0, <1>1, <1>4, <2>0, <2>1 DEF Answer, Busy, Calls, TypeOK
  <2>2. ASSUME NEW id \in Ids, WaitFor(h, id) PROVE HeldInv'
    BY <1>0, <1>1, <1>4, <2>0, <2>2 DEF WaitFor, Busy, Calls, TypeOK
  <2>3. ASSUME NEW pc \in {"create", "resize"}, Goto(h, pc) PROVE HeldInv'
    BY <1>0, <1>1, <1>4, <2>0, <2>3 DEF Goto, Busy, Calls, TypeOK
  <2> QED
    BY <1>4, <2>1, <2>2, <2>3
<1>5. ASSUME NEW h \in Handlers, Request(h) PROVE HeldInv'
  <2>1. ASSUME NEW op, NEW pc \in {"lookup", "get"}, NEW key, NEW s, Admit(h, op, pc, key, s)
        PROVE  HeldInv'
    <3>1. /\ ~ Busy(h) /\ Busy(h)' /\ call'[h].key = key
          /\ \A g \in Handlers \ {h} : Busy(g)' = Busy(g) /\ call'[g] = call[g]
      BY <1>0, <2>1 DEF Admit, Busy, Idle, TypeOK
    <3>2. key \notin pending /\ pending' = pending \union {key}
      BY <2>1 DEF Admit
    <3> QED
      BY <1>0, <3>1, <3>2 DEF HeldInv
  <2>2. ASSUME NEW key \in Keys, Abort(h, key) PROVE HeldInv'
    BY <1>1, <2>2 DEF Abort, vars, Busy
  <2> QED
    BY <1>5, <2>1, <2>2 DEF Request, AdmitCreate, AdmitExpand
<1>6. ASSUME NEW h \in Handlers, HandlerStep(h) PROVE HeldInv'
  <2>0. Busy(h) /\ ShapeOf(h)
    BY <1>0, <1>6 DEF HandlerStep, Lookup, CreateShare, CreateRefused, Poll, Get, Resize, Reply, Busy, Shape
  <2>1. CASE Lookup(h)
    BY <1>4, <2>0, <2>1 DEF Lookup, NamedShares
  <2>2. CASE CreateShare(h)
    BY <1>4, <2>0, <2>2 DEF CreateShare
  <2>3. CASE CreateRefused(h) \/ Reply(h)
    BY <1>2, <2>0, <2>3 DEF CreateRefused, Reply
  <2>4. CASE Poll(h)
    <3>1. CASE call' = [call EXCEPT ![h].polls = @ - 1] /\ UNCHANGED pending
      <4>1. call[h] \in Calls
        BY <1>0 DEF TypeOK
      <4> QED
        BY <1>0, <1>1, <2>0, <3>1, <4>1 DEF Busy, Calls, TypeOK
    <3>2. CASE Answer(h, call[h].id)
      BY <1>4, <2>0, <2>4, <3>2 DEF Poll, ShapeOf
    <3> QED
      BY <1>2, <2>0, <2>4, <3>1, <3>2 DEF Poll
  <2>5. CASE Get(h)
    BY <1>2, <1>4, <2>0, <2>5 DEF Get, ShapeOf
  <2>6. CASE Resize(h)
    BY <1>2, <1>4, <2>0, <2>6 DEF Resize, ShapeOf
  <2> QED
    BY <1>6, <2>1, <2>2, <2>3, <2>4, <2>5, <2>6 DEF HandlerStep
<1>7. ASSUME NEW h \in Handlers, HandlerFault(h) PROVE HeldInv'
  <2>0. Busy(h)
    BY <1>7 DEF HandlerFault, LookupFails, CreateLost, CreateOverdue, ResizeLost, CallFails, Busy
  <2> QED
    BY <1>2, <1>4, <1>7, <2>0
       DEF HandlerFault, LookupFails, CreateLost, CreateOverdue, ResizeLost, CallFails
<1>8. CASE Service \/ UNCHANGED vars
  BY <1>1, <1>8
     DEF Service, LateCreate, DeleteVolume, ShareReady, ShareFails, ShareGone, vars, Busy
<1>9. CASE Crash
  BY <1>0, <1>9 DEF Crash, HeldInv, Busy, Idle
<1> QED
  BY <1>5, <1>6, <1>7, <1>8, <1>9 DEF Next

LEMMA HeldAlways == Spec => []HeldInv
  BY HeldInit, HeldStep, PTL DEF Spec

(* pendingVolumes is exactly the keys of the handlers at work, one each. *)
THEOREM KeysAreLocks == Spec => []PendingIsHeld
<1>1. HeldInv => PendingIsHeld
  BY DEF HeldInv, PendingIsHeld, Busy
<1> QED
  BY <1>1, HeldAlways, PTL
-----------------------------------------------------------------------------
(***************************************************************************)
(* Uniqueness of names.  A handler about to create a share owns the name's *)
(* key, and nobody has made a share of that name since it looked: but for  *)
(* the names in doubt, those with a creation still to be executed among    *)
(* them.                                                                   *)
(***************************************************************************)

(* What a handler knows when it is about to create a share. *)
Clear(n) == NamedShares(n) = {} \/ n \in doubtful

UniqueInv ==
  /\ HeldInv
  /\ \A r \in late : r[1] \in doubtful
  /\ \A h \in Handlers : call[h].pc = "create" => Clear(call[h].key)
  /\ OneSharePerName

LEMMA UniqueInit == Init => UniqueInv
  BY HeldInit DEF Init, UniqueInv, OneSharePerName, Listed, Idle

(* A step that creates no share, and whose handler, if it comes to the point
   of creating one, has seen that there is none or puts the name in doubt. *)
LEMMA UniqueKept ==
  ASSUME UniqueInv, HeldInv', doubtful \subseteq doubtful',
         \A r \in late' : r \in late \/ r[1] \in doubtful',
         \A id \in Ids : Listed(id)' => Listed(id) /\ shares'[id].name = shares[id].name,
         \A h \in Handlers : call'[h].pc = "create" =>
           \/ call[h].pc = "create" /\ call'[h].key = call[h].key
           \/ NamedShares(call'[h].key) = {}
           \/ call'[h].key \in doubtful'
  PROVE  UniqueInv'
<1>1. OneSharePerName'
  BY DEF UniqueInv, OneSharePerName
<1>2. \A r \in late' : r[1] \in doubtful'
  BY DEF UniqueInv
<1>3. ASSUME NEW h \in Handlers, call'[h].pc = "create" PROVE Clear(call[h].key)'
  BY <1>3 DEF UniqueInv, Clear, NamedShares
<1> QED
  BY <1>1, <1>2, <1>3 DEF UniqueInv

(* A step that creates a share where there was none of the name, or of a name
   in doubt: by the handler that holds the key, or late. *)
LEMMA UniqueCreated ==
  ASSUME UniqueInv, HeldInv', UNCHANGED doubtful, late' \subseteq late,
         NEW id \in Ids, NEW n, NEW s, NewShare(id, n, s), Clear(n),
         \A g \in Handlers : call'[g].pc = "create" =>
           call'[g] = call[g] /\ (call[g].key # n \/ n \in doubtful)
  PROVE  UniqueInv'
<1>1. /\ shares'[id].name = n
      /\ \A i \in Ids \ {id} : shares'[i] = shares[i]
  BY DEF UniqueInv, HeldInv, NewShare, TypeOK
<1>2. OneSharePerName'
  BY <1>1 DEF UniqueInv, OneSharePerName, Clear, NamedShares, Listed
<1>3. ASSUME NEW g \in Handlers, call'[g].pc = "create" PROVE Clear(call[g].key)'
  <2>1. Clear(call[g].key) /\ call'[g].key = call[g].key
    BY <1>3 DEF UniqueInv
  <2> QED
    BY <1>1, <1>3, <2>1 DEF Clear, NamedShares, Listed
<1>4. \A r \in late' : r[1] \in doubtful'
  BY DEF UniqueInv
<1> QED
  BY <1>2, <1>3, <1>4 DEF UniqueInv

LEMMA UniqueStep == UniqueInv /\ [Next]_vars => UniqueInv'
<1> SUFFICES ASSUME UniqueInv, [Next]_vars PROVE UniqueInv'
  OBVIOUS
<1>0. HeldInv' /\ HeldInv /\ TypeOK /\ Shape
  BY HeldStep DEF UniqueInv, HeldInv
<1>1. ASSUME NEW h \in Handlers, NEW id \in Ids, call[h].pc = "create",
             NewShare(id, call[h].key, call[h].size), UNCHANGED <<late, doubtful>>,
             WaitFor(h, id) \/ Return(h)
      PROVE  UniqueInv'
  <2>1. call'[h].pc # "create" /\ \A g \in Handlers \ {h} : call'[g] = call[g]
    BY <1>0, <1>1 DEF WaitFor, Return, Idle, TypeOK, Calls
  <2>2. \A g \in Handlers \ {h} : call[g].pc = "create" => call[g].key # call[h].key
    BY <1>0, <1>1 DEF HeldInv, Busy
  <2>3. Clear(call[h].key)
    BY <1>1 DEF UniqueInv
  <2> QED
    BY <1>0, <1>1, <2>1, <2>2, <2>3, UniqueCreated
<1>2. ASSUME UNCHANGED <<late, doubtful>>,
             \A id \in Ids : Listed(id)' => Listed(id) /\ shares'[id].name = shares[id].name,
             \A h \in Handlers : call'[h].pc = "create" =>
               \/ call[h].pc = "create" /\ call'[h].key = call[h].key
               \/ NamedShares(call'[h].key) = {}
      PROVE  UniqueInv'
  BY <1>0, <1>2, UniqueKept
<1>3. ASSUME UNCHANGED <<late, doubtful>>, NEW h \in Handlers, Return(h),
             \A id \in Ids : Listed(id)' => Listed(id) /\ shares'[id].name = shares[id].name
      PROVE  UniqueInv'
  BY <1>0, <1>2, <1>3 DEF Return, Idle, TypeOK
<1>4. ASSUME UNCHANGED <<late, doubtful>>, NEW h \in Handlers, NEW id \in Ids,
             Answer(h, id) \/ WaitFor(h, id),
             \A i \in Ids : Listed(i)' => Listed(i) /\ shares'[i].name = shares[i].name
      PROVE  UniqueInv'
  <2>1. call[h] \in Calls /\ call'[h].pc # "create" /\ \A g \in Handlers \ {h} : call'[g] = call[g]
    BY <1>0, <1>4 DEF Answer, WaitFor, TypeOK, Calls
  <2> QED
    BY <1>2, <1>4, <2>1
<1>5. ASSUME NEW id \in Ids, NEW s \in Sizes, Resizable(id, s), Extend(id, s)
      PROVE  \A i \in Ids : Listed(i)' => Listed(i) /\ shares'[i].name = shares[i].name
  BY <1>0, <1>5 DEF Resizable, Extend, Listed, TypeOK, Shares
<1>6. ASSUME NEW h \in Handlers, Request(h) PROVE UniqueInv'
  BY <1>0, <1>2, <1>6
     DEF Request, AdmitCreate, AdmitExpand, Admit, Abort, vars, Idle, Listed, TypeOK
<1>7. ASSUME NEW h \in Handlers, HandlerStep(h) PROVE UniqueInv'
  <2>1. CASE Lookup(h)
    <3>1. UNCHANGED <<shares, late, doubtful>>
      BY <2>1 DEF Lookup
    <3>2. CASE NamedShares(call[h].key) = {} /\ Goto(h, "create")
      <4>1. /\ call[h] \in Calls /\ call'[h].key = call[h].key
            /\ \A g \in Handlers \ {h} : call'[g] = call[g]
        BY <1>0, <3>2 DEF Goto, TypeOK, Calls
      <4> QED
        BY <1>2, <3>1, <3>2, <4>1 DEF Listed
    <3> QED
      BY <1>4, <2>1, <3>1, <3>2 DEF Lookup, NamedShares, Listed
  <2>2. CASE CreateShare(h)
    BY <1>1, <2>2 DEF CreateShare
  <2>3. CASE CreateRefused(h) \/ Reply(h)
    BY <1>3, <2>3 DEF CreateRefused, Reply, Listed
  <2>4. CASE Poll(h)
    <3>1. UNCHANGED <<shares, late, doubtful>> /\ call[h].id \in Ids /\ call[h].pc = "poll"
      BY <1>0, <2>4 DEF Poll, Shape, ShapeOf
    <3>2. CASE call' = [call EXCEPT ![h].polls = @ - 1]
      <4>1. call'[h].pc = "poll" /\ \A g \in Handlers \ {h} : call'[g] = call[g]
        BY <1>0, <3>1, <3>2 DEF TypeOK, Calls
      <4> QED
        BY <1>2, <3>1, <4>1 DEF Listed
    <3> QED
      BY <1>3, <1>4, <2>4, <3>1, <3>2 DEF Poll, Listed
  <2>5. CASE Get(h)
    <3>1. UNCHANGED <<shares, late, doubtful>> /\ call[h].key \in Ids
      BY <1>0, <2>5 DEF Get, Shape, ShapeOf
    <3>2. CASE Goto(h, "resize")
      <4>1. call'[h].pc = "resize" /\ \A g \in Handlers \ {h} : call'[g] = call[g]
        BY <1>0, <3>2 DEF Goto, TypeOK, Calls
      <4> QED
        BY <1>2, <3>1, <4>1 DEF Listed
    <3> QED
      BY <1>3, <1>4, <2>5, <3>1, <3>2 DEF Get, Listed
  <2>6. CASE Resize(h)
    BY <1>0, <1>3, <1>4, <1>5, <2>6 DEF Resize, Shape, ShapeOf, Listed
  <2> QED
    BY <1>7, <2>1, <2>2, <2>3, <2>4, <2>5, <2>6 DEF HandlerStep
<1>8. ASSUME NEW h \in Handlers, HandlerFault(h) PROVE UniqueInv'
  <2>1. CASE CreateLost(h)
    BY <1>1, <2>1 DEF CreateLost
  <2>2. CASE ResizeLost(h)
    BY <1>0, <1>3, <1>5, <2>2 DEF ResizeLost, Shape, ShapeOf
  <2>3. CASE CallFails(h)
    BY <1>3, <2>3 DEF CallFails, Listed
  <2>4. CASE LookupFails(h)
    <3>1. /\ call[h] \in Calls /\ call'[h].key = call[h].key
          /\ \A g \in Handlers \ {h} : call'[g] = call[g]
      BY <1>0, <2>4 DEF LookupFails, Goto, TypeOK, Calls
    <3>2. call[h].key \in doubtful' /\ doubtful \subseteq doubtful' /\ UNCHANGED <<shares, late>>
      BY <2>4 DEF LookupFails
    <3> QED
      BY <1>0, <3>1, <3>2, UniqueKept DEF Listed
  <2>5. CASE CreateOverdue(h)
    <3>1. call'[h].pc = "idle" /\ \A g \in Handlers \ {h} : call'[g] = call[g]
      BY <1>0, <2>5 DEF CreateOverdue, Return, Idle, TypeOK
    <3>2. /\ doubtful' = doubtful \union {call[h].key} /\ UNCHANGED shares
          /\ late' = late \union {<<call[h].key, call[h].size>>}
      BY <2>5 DEF CreateOverdue
    <3> QED
      BY <1>0, <3>1, <3>2, UniqueKept DEF Listed
  <2> QED
    BY <1>8, <2>1, <2>2, <2>3, <2>4, <2>5 DEF HandlerFault
<1>9. CASE Service
  <2>1. ASSUME NEW n \in Names, NEW s \in Sizes, LateCreate(n, s) PROVE UniqueInv'
    <3>1. n \in doubtful
      <4>1. <<n, s>>[1] \in doubtful
        BY <2>1 DEF LateCreate, UniqueInv
      <4> QED
        BY <4>1
    <3>2. PICK id \in Ids : NewShare(id, n, s)
      BY <2>1 DEF LateCreate
    <3>3. UNCHANGED <<call, doubtful>> /\ late' \subseteq late
      BY <2>1 DEF LateCreate
    <3> QED
      BY <1>0, <3>1, <3>2, <3>3, UniqueCreated DEF Clear
  <2>2. ASSUME NEW id \in Ids,
               DeleteVolume(id) \/ ShareReady(id) \/ ShareFails(id) \/ ShareGone(id)
        PROVE  UniqueInv'
    <3>1. UNCHANGED <<late, doubtful, call>>
      BY <2>2 DEF DeleteVolume, ShareReady, ShareFails, ShareGone
    <3>2. \A i \in Ids : Listed(i)' => Listed(i) /\ shares'[i].name = shares[i].name
      BY <1>0, <2>2
         DEF DeleteVolume, ShareReady, ShareFails, ShareGone, Listed, TypeOK, Shares
    <3> QED
      BY <1>2, <3>1, <3>2
  <2> QED
    BY <1>9, <2>1, <2>2 DEF Service
<1>10. CASE Crash \/ UNCHANGED vars
  BY <1>2, <1>10 DEF Crash, vars, Idle, Listed
<1> QED
  BY <1>6, <1>7, <1>8, <1>9, <1>10 DEF Next

LEMMA UniqueAlways == Spec => []UniqueInv
  BY UniqueInit, UniqueStep, PTL DEF Spec

(* CreateVolume never leaves two shares with one name, unless a create was sent
   although the lookup had failed, or executed after its caller gave up. *)
THEOREM NamesAreUnique == Spec => []OneSharePerName
<1>1. UniqueInv => OneSharePerName
  BY DEF UniqueInv
<1> QED
  BY <1>1, UniqueAlways, PTL
-----------------------------------------------------------------------------
(***************************************************************************)
(* The controller implements VolumeRegistry.                               *)
(***************************************************************************)

Volume(id) == [name |-> shares[id].name, size |-> shares[id].size,
               state |-> RegistryState(shares[id].status)]
Volumes == [id \in Ids |-> Volume(id)]

RegistryInv == CapacityInv /\ UniqueInv

LEMMA RefinementInit == Init => Registry!Init
  BY DEF Init, Registry!Init, RegistryState

(* Steps that touch one share at most. *)
LEMMA RefinementShare ==
  ASSUME TypeOK, TypeOK', NEW id \in Ids, UNCHANGED <<confirmed, doubtful>>,
         \A i \in Ids \ {id} : shares'[i] = shares[i],
         \/ Volume(id)' = Volume(id)
         \/ \E n \in Names, s \in Sizes :
              /\ shares[id].status = "none"
              /\ Clear(n)
              /\ Volume(id)' = [name |-> n, size |-> s, state |-> "building"]
         \/ /\ shares[id].status = "creating"
            /\ Volume(id)' = [name |-> shares[id].name, size |-> shares[id].size, state |-> "ready"]
         \/ /\ shares[id].status \in {"available", "extending"}
            /\ \E s \in Sizes :
                 /\ s > shares[id].size
                 /\ Volume(id)' = [name |-> shares[id].name, size |-> s, state |-> "ready"]
         \/ /\ shares[id].status \in {"creating", "available", "extending"}
            /\ Volume(id)' = [name |-> shares[id].name, size |-> shares[id].size, state |-> "removed"]
  PROVE  [Registry!Next]_(Registry!vars)
<1>1. \A i \in Ids : Volumes[i] = Volume(i) /\ Volumes'[i] = Volume(i)'
  BY DEF Volumes
<1>2. Volumes' = [Volumes EXCEPT ![id] = Volume(id)']
  <2>1. \A i \in Ids \ {id} : Volume(i)' = Volume(i)
    BY DEF Volume
  <2> QED
    BY <1>1, <2>1 DEF Volumes
<1>3. CASE Volume(id)' = Volume(id)
  <2>1. Volumes' = Volumes
    BY <1>2, <1>3 DEF Volumes
  <2> QED
    BY <2>1 DEF Registry!vars, Volumes, Volume
<1>4. ASSUME NEW n \in Names, NEW s \in Sizes, shares[id].status = "none", Clear(n),
             Volume(id)' = [name |-> n, size |-> s, state |-> "building"]
      PROVE  Registry!Next
  <2>1. Registry!Provision(id, n, s)
    <3>1. n \in doubtful \/ \A i \in Ids : Volumes[i].state \in {"building", "ready"} => Volumes[i].name # n
      <4>1. ASSUME NEW i \in Ids, RegistryState(shares[i].status) \in {"building", "ready"}
            PROVE  Listed(i)
        BY <4>1 DEF RegistryState, Listed
      <4>2. ASSUME NEW i \in Ids
            PROVE  /\ Volumes[i].state = RegistryState(shares[i].status)
                   /\ Volumes[i].name = shares[i].name
        BY DEF Volumes, Volume
      <4> QED
        BY <1>4, <4>1, <4>2 DEF Clear, NamedShares
    <3>2. Volumes[id].state = "absent"
      BY <1>1, <1>4 DEF Volume, RegistryState
    <3> QED
      BY <1>2, <1>4, <3>1, <3>2
         DEF Registry!Provision, Registry!Standing, Volumes, Volume
  <2> QED
    BY <2>1 DEF Registry!Next
<1>5. CASE /\ shares[id].status = "creating"
           /\ Volume(id)' = [name |-> shares[id].name, size |-> shares[id].size, state |-> "ready"]
  <2>1. Registry!Finish(id)
    <3>1. Volumes[id].state = "building"
      BY <1>1, <1>5 DEF Volume, RegistryState
    <3>2. Volumes' = [Volumes EXCEPT ![id].state = "ready"]
      <4>1. Volumes[id] = [name |-> shares[id].name, size |-> shares[id].size,
                           state |-> RegistryState(shares[id].status)]
        BY <1>1 DEF Volume
      <4>2. [Volumes[id] EXCEPT !.state = "ready"] = Volume(id)'
        BY <1>5, <3>1, <4>1
      <4> QED
        BY <1>2, <4>2
    <3> QED
      BY <3>1, <3>2 DEF Registry!Finish, Volumes, Volume
  <2> QED
    BY <2>1 DEF Registry!Next
<1>6. ASSUME NEW s \in Sizes, s > shares[id].size, shares[id].status \in {"available", "extending"},
             Volume(id)' = [name |-> shares[id].name, size |-> s, state |-> "ready"]
      PROVE  Registry!Next
  <2>1. Registry!Grow(id, s)
    <3>1. Volumes[id].state = "ready" /\ Volumes[id].size = shares[id].size
      BY <1>1, <1>6 DEF Volume, RegistryState
    <3>2. Volumes' = [Volumes EXCEPT ![id].size = s]
      <4>1. Volumes[id] = [name |-> shares[id].name, size |-> shares[id].size,
                           state |-> RegistryState(shares[id].status)]
        BY <1>1 DEF Volume
      <4>2. [Volumes[id] EXCEPT !.size = s] = Volume(id)'
        BY <1>6, <3>1, <4>1
      <4> QED
        BY <1>2, <4>2
    <3> QED
      BY <1>6, <3>1, <3>2 DEF Registry!Grow, Volumes, Volume
  <2> QED
    BY <2>1 DEF Registry!Next
<1>7. CASE /\ shares[id].status \in {"creating", "available", "extending"}
           /\ Volume(id)' = [name |-> shares[id].name, size |-> shares[id].size, state |-> "removed"]
  <2>1. Registry!Remove(id)
    <3>1. Volumes[id].state \in {"building", "ready"}
      BY <1>1, <1>7 DEF Volume, RegistryState
    <3>2. Volumes' = [Volumes EXCEPT ![id].state = "removed"]
      <4>1. Volumes[id] = [name |-> shares[id].name, size |-> shares[id].size,
                           state |-> RegistryState(shares[id].status)]
        BY <1>1 DEF Volume
      <4>2. [Volumes[id] EXCEPT !.state = "removed"] = Volume(id)'
        BY <1>7, <3>1, <4>1
      <4> QED
        BY <1>2, <4>2
    <3> QED
      BY <3>1, <3>2 DEF Registry!Remove, Registry!Standing, Volumes, Volume
  <2> QED
    BY <2>1 DEF Registry!Next
<1> QED
  BY <1>3, <1>4, <1>5, <1>6, <1>7

LEMMA RefinementStep == RegistryInv /\ RegistryInv' /\ [Next]_vars => [Registry!Next]_(Registry!vars)
<1> SUFFICES ASSUME RegistryInv, RegistryInv', [Next]_vars
             PROVE  [Registry!Next]_(Registry!vars)
  OBVIOUS
<1>0. /\ TypeOK /\ Shape /\ TypeOK'
      /\ \A h \in Handlers : HandlerFacts(h)
      /\ \A id \in Ids : VolumeFacts(id) /\ shares[id] \in Shares /\ shares[id].size \in Nat
  BY Fields DEF RegistryInv, CapacityInv
<1>1. ASSUME UNCHANGED <<shares, confirmed, doubtful>> PROVE [Registry!Next]_(Registry!vars)
  BY <1>1 DEF Registry!vars
<1>2. ASSUME NEW id \in Ids, NEW n \in Names, NEW s \in Sizes, NewShare(id, n, s), Clear(n),
             UNCHANGED <<confirmed, doubtful>>
      PROVE  [Registry!Next]_(Registry!vars)
  <2>1. /\ \A i \in Ids \ {id} : shares'[i] = shares[i]
        /\ shares[id].status = "none"
        /\ Volume(id)' = [name |-> n, size |-> s, state |-> "building"]
    BY <1>0, <1>2 DEF NewShare, TypeOK, Volume, RegistryState
  <2> QED
    BY <1>0, <1>2, <2>1, RefinementShare
<1>c. ASSUME NEW h \in Handlers, call[h].pc = "create"
      PROVE  call[h].key \in Names /\ call[h].size \in Sizes /\ Clear(call[h].key)
  BY <1>0, <1>c DEF Shape, ShapeOf, RegistryInv, UniqueInv
<1>e. ASSUME NEW n \in Names, UNCHANGED <<shares, confirmed>>, doubtful' = doubtful \union {n}
      PROVE  [Registry!Next]_(Registry!vars)
  <2>1. Registry!Excuse(n)
    BY <1>e DEF Registry!Excuse
  <2> QED
    BY <2>1 DEF Registry!Next
<1>3. ASSUME NEW id \in Ids, NEW s \in Sizes, Resizable(id, s), Extend(id, s),
             UNCHANGED <<confirmed, doubtful>>
      PROVE  [Registry!Next]_(Registry!vars)
  <2>1. /\ \A i \in Ids \ {id} : shares'[i] = shares[i]
        /\ Volume(id)' = Volume(id)
    BY <1>0, <1>3 DEF Resizable, Extend, TypeOK, Shares, Volume, RegistryState
  <2> QED
    BY <1>0, <1>3, <2>1, RefinementShare
<1>4. ASSUME NEW h \in Handlers, Request(h) PROVE [Registry!Next]_(Registry!vars)
  BY <1>1, <1>4 DEF Request, AdmitCreate, AdmitExpand, Admit, Abort, vars
<1>5. ASSUME NEW h \in Handlers, HandlerStep(h) PROVE [Registry!Next]_(Registry!vars)
  <2>1. CASE Lookup(h) \/ CreateRefused(h) \/ Poll(h) \/ Get(h)
    BY <1>1, <2>1 DEF Lookup, CreateRefused, Poll, Get
  <2>2. CASE CreateShare(h)
    BY <1>2, <1>c, <2>2 DEF CreateShare
  <2>3. CASE Resize(h)
    BY <1>0, <1>1, <1>3, <2>3 DEF Resize, Shape, ShapeOf
  <2>4. CASE Reply(h)
    <3>1. /\ UNCHANGED <<shares, doubtful>> /\ call[h].id \in Ids /\ Built(call[h].id)
          /\ call[h].seen <= shares[call[h].id].size
      BY <1>0, <2>4 DEF Reply, Shape, ShapeOf, HandlerFacts
    <3>2. CASE confirmed' = confirmed
      BY <1>1, <3>1, <3>2
    <3>3. CASE confirmed' # confirmed
      <4>1. /\ confirmed' = [confirmed EXCEPT ![call[h].id] = call[h].seen]
            /\ call[h].seen > confirmed[call[h].id]
        BY <1>0, <2>4, <3>1, <3>3 DEF Reply, Confirm, TypeOK
      <4>2. call[h].seen \in Sizes
        <5>1. call[h].seen \in Sizes \union {0} /\ confirmed[call[h].id] \in Nat
          BY <1>0, <3>1, Fields
        <5> QED
          BY <4>1, <5>1
      <4>3. Volumes[call[h].id].state \in {"ready", "removed"}
        BY <1>0, <3>1, Fields DEF Volumes, Volume, RegistryState, Built, Statuses
      <4>4. Registry!Grant(call[h].id, call[h].seen)
        BY <3>1, <4>1, <4>3 DEF Registry!Grant, Volumes, Volume
      <4> QED
        BY <3>1, <4>2, <4>4 DEF Registry!Next
    <3> QED
      BY <3>2, <3>3
  <2> QED
    BY <1>5, <2>1, <2>2, <2>3, <2>4 DEF HandlerStep
<1>6. ASSUME NEW h \in Handlers, HandlerFault(h) PROVE [Registry!Next]_(Registry!vars)
  <2>1. CASE LookupFails(h) \/ CreateOverdue(h)
    <3>1. call[h].key \in Names
      BY <1>0, <2>1 DEF LookupFails, CreateOverdue, Shape, ShapeOf
    <3> QED
      BY <1>e, <2>1, <3>1 DEF LookupFails, CreateOverdue
  <2>2. CASE CreateLost(h)
    BY <1>2, <1>c, <2>2 DEF CreateLost
  <2>3. CASE ResizeLost(h)
    BY <1>0, <1>3, <2>3 DEF ResizeLost, Shape, ShapeOf
  <2>4. CASE CallFails(h)
    BY <1>1, <2>4 DEF CallFails
  <2> QED
    BY <1>6, <2>1, <2>2, <2>3, <2>4 DEF HandlerFault
<1>7. CASE Service
  <2>1. ASSUME NEW n \in Names, NEW s \in Sizes, LateCreate(n, s)
        PROVE  [Registry!Next]_(Registry!vars)
    <3>1. <<n, s>>[1] \in doubtful
      BY <2>1 DEF LateCreate, RegistryInv, UniqueInv
    <3> QED
      BY <1>2, <2>1, <3>1 DEF LateCreate, Clear
  <2>2. ASSUME NEW id \in Ids, NEW from, NEW to \in {"deleting", "gone", "error"},
               UNCHANGED <<confirmed, doubtful>>, shares[id].status = from,
               shares' = [shares EXCEPT ![id].status = to],
               \/ from \in {"creating", "available", "extending"}
               \/ from \in {"error", "deleting"}
        PROVE  [Registry!Next]_(Registry!vars)
    <3>1. /\ \A i \in Ids \ {id} : shares'[i] = shares[i]
          /\ Volume(id)' = [name |-> shares[id].name, size |-> shares[id].size, state |-> "removed"]
      BY <1>0, <2>2 DEF TypeOK, Shares, Volume, RegistryState
    <3>2. from \in {"error", "deleting"} => Volume(id)' = Volume(id)
      BY <2>2, <3>1 DEF Volume, RegistryState
    <3> QED
      BY <1>0, <2>2, <3>1, <3>2, RefinementShare
  <2>3. ASSUME NEW id \in Ids, ShareReady(id) PROVE [Registry!Next]_(Registry!vars)
    <3>1. /\ \A i \in Ids \ {id} : shares'[i] = shares[i]
          /\ UNCHANGED <<confirmed, doubtful>>
      BY <1>0, <2>3 DEF ShareReady, TypeOK
    <3>2. CASE shares[id].status = "creating"
      <4>1. Volume(id)' = [name |-> shares[id].name, size |-> shares[id].size, state |-> "ready"]
        BY <1>0, <2>3, <3>2 DEF ShareReady, TypeOK, Shares, Volume, RegistryState
      <4> QED
        BY <1>0, <3>1, <3>2, <4>1, RefinementShare
    <3>3. CASE shares[id].status = "extending"
      <4>1. Volume(id)' = [name |-> shares[id].name, size |-> shares[id].target, state |-> "ready"]
        BY <1>0, <2>3, <3>3 DEF ShareReady, TypeOK, Shares, Volume, RegistryState
      <4>2. shares[id].target > shares[id].size /\ shares[id].target \in Sizes
        <5>1. shares[id].target \in Sizes \union {0} /\ shares[id].target > shares[id].size
          BY <1>0, <3>3, Fields DEF VolumeFacts
        <5> QED
          BY <1>0, <5>1
      <4> QED
        BY <1>0, <3>1, <3>3, <4>1, <4>2, RefinementShare
    <3> QED
      BY <2>3, <3>2, <3>3 DEF ShareReady
  <2> QED
    BY <1>7, <2>1, <2>2, <2>3 DEF Service, DeleteVolume, ShareFails, ShareGone
<1>8. CASE Crash \/ UNCHANGED vars
  BY <1>1, <1>8 DEF Crash, vars
<1> QED
  BY <1>4, <1>5, <1>6, <1>7, <1>8 DEF Next

(* The file storage controller, with the service it drives, is a volume
   registry: what a CSI orchestrator relies on. *)
THEOREM ImplementsRegistry == Spec => RefinesRegistry
<1>1. Spec => []RegistryInv
  BY CapacityAlways, UniqueAlways, PTL DEF RegistryInv
<1> QED
  BY <1>1, RefinementInit, RefinementStep, PTL DEF Spec, RefinesRegistry, Registry!Spec
-----------------------------------------------------------------------------
(* Calls end.  Whatever a handler does, it moves to a place with fewer steps
   left; the helpers say where to, and leave the other handlers alone. *)
Ends(h) == call[h].pc # "idle" => UNCHANGED call[h] \/ Left(h)' \in 0 .. (Left(h) - 1)

AllEnd == \A h \in Handlers : Ends(h)

LEMMA LeftIsNat ==
  ASSUME TypeOK, NEW h \in Handlers
  PROVE  /\ Left(h) \in Nat
         /\ call[h].pc = "reply" => Left(h) = 1
         /\ call[h].pc = "poll" => Left(h) = call[h].polls + 1
         /\ call[h].pc \in {"create", "resize"} => Left(h) = MaxPolls + 2
         /\ call[h].pc \in {"lookup", "get"} => Left(h) = MaxPolls + 3
<1>1. call[h].polls \in Nat /\ call[h].polls <= MaxPolls /\ MaxPolls \in Nat
  BY Fields, BoundsAssumption
<1> QED
  BY <1>1 DEF Left

LEMMA AtWork ==
  ASSUME TypeOK, NEW h \in Handlers, call[h].pc # "idle"
  PROVE  /\ Left(h) \in Nat \ {0}
         /\ call[h].pc # "reply" /\ (call[h].pc = "poll" => call[h].polls > 0) => Left(h) > 1
         /\ call[h].pc \notin {"reply", "poll"} => Left(h) > MaxPolls + 1
         /\ call[h].pc \in {"lookup", "get"} => Left(h) > MaxPolls + 2
<1>1. call[h].pc \in {"lookup", "create", "poll", "get", "resize", "reply"}
  BY DEF TypeOK, Calls
<1>2. call[h].polls \in Nat /\ call[h].polls <= MaxPolls /\ MaxPolls \in Nat
  BY Fields, BoundsAssumption
<1> QED
  BY <1>1, <1>2, LeftIsNat

(* The polls of a waiting handler are not used up. *)
Waits == \A h \in Handlers : call[h].pc = "poll" => call[h].polls > 0

(* What every step of a handler comes to. *)
Moves(h) ==
  /\ \A g \in Handlers \ {h} : call'[g] = call[g]
  /\ call[h].pc # "idle" => Left(h)' \in 0 .. (Left(h) - 1)
  /\ call'[h].pc = "poll" => call'[h].polls > 0

LEMMA MovesIsEnough ==
  ASSUME Waits, NEW h \in Handlers, Moves(h)
  PROVE  AllEnd /\ Waits'
BY DEF Moves, AllEnd, Ends, Waits

LEMMA StaysIsEnough ==
  ASSUME Waits, UNCHANGED call
  PROVE  AllEnd /\ Waits'
BY DEF AllEnd, Ends, Waits

LEMMA ReturnMoves ==
  ASSUME TypeOK, Waits, NEW h \in Handlers, Return(h)
  PROVE  Moves(h)
<1>1. call'[h] = Idle /\ \A g \in Handlers \ {h} : call'[g] = call[g]
  BY DEF Return, TypeOK
<1>2. Left(h)' = 0 /\ call'[h].pc = "idle"
  BY <1>1 DEF Left, Idle
<1>3. call[h].pc # "idle" => Left(h) \in Nat \ {0}
  BY AtWork
<1> QED
  BY <1>1, <1>2, <1>3 DEF Moves

LEMMA AnswerMoves ==
  ASSUME TypeOK, Waits, NEW h \in Handlers, NEW id, Answer(h, id), call[h].pc # "reply"
  PROVE  Moves(h)
<1>1. /\ call'[h] = [call[h] EXCEPT !.pc = "reply", !.id = id, !.seen = shares[id].size]
      /\ \A g \in Handlers \ {h} : call'[g] = call[g]
  BY DEF Answer, TypeOK
<1>2. call[h] \in Calls
  BY DEF TypeOK
<1>3. call'[h].pc = "reply"
  BY <1>1, <1>2 DEF Calls
<1>4. Left(h)' = 1
  BY <1>3 DEF Left
<1>5. call[h].pc # "idle" => Left(h) \in Nat /\ Left(h) > 1
  BY AtWork DEF Waits
<1> QED
  BY <1>1, <1>3, <1>4, <1>5 DEF Moves

LEMMA WaitForMoves ==
  ASSUME TypeOK, Waits, NEW h \in Handlers, NEW id, WaitFor(h, id),
         call[h].pc \notin {"poll", "reply"}
  PROVE  Moves(h)
<1>1. /\ call'[h] = [call[h] EXCEPT !.pc = "poll", !.id = id, !.polls = MaxPolls]
      /\ \A g \in Handlers \ {h} : call'[g] = call[g]
  BY DEF WaitFor, TypeOK
<1>2. call[h] \in Calls
  BY DEF TypeOK
<1>3. call'[h].pc = "poll" /\ call'[h].polls = MaxPolls
  BY <1>1, <1>2 DEF Calls
<1>4. Left(h)' = MaxPolls + 1 /\ MaxPolls \in Nat \ {0}
  BY <1>3, BoundsAssumption DEF Left
<1>5. call[h].pc # "idle" => Left(h) \in Nat /\ Left(h) > MaxPolls + 1
  BY AtWork
<1> QED
  BY <1>1, <1>3, <1>4, <1>5 DEF Moves

LEMMA GotoMoves ==
  ASSUME TypeOK, Waits, NEW h \in Handlers, NEW pc \in {"create", "resize"}, Goto(h, pc),
         call[h].pc \in {"lookup", "get"}
  PROVE  Moves(h)
<1>1. /\ call'[h] = [call[h] EXCEPT !.pc = pc]
      /\ \A g \in Handlers \ {h} : call'[g] = call[g]
  BY DEF Goto, TypeOK
<1>2. call[h] \in Calls
  BY DEF TypeOK
<1>3. call'[h].pc = pc
  BY <1>1, <1>2 DEF Calls
<1>4. Left(h)' = MaxPolls + 2 /\ MaxPolls \in Nat
  BY <1>3, BoundsAssumption DEF Left
<1>5. Left(h) \in Nat /\ Left(h) > MaxPolls + 2
  BY AtWork
<1> QED
  BY <1>1, <1>3, <1>4, <1>5 DEF Moves

(* A request starts an idle handler, and that in no wait. *)
LEMMA AdmitMoves ==
  ASSUME TypeOK, NEW h \in Handlers, NEW op, NEW pc, NEW key, NEW s,
         Admit(h, op, pc, key, s), pc # "poll"
  PROVE  Moves(h)
<1>1. /\ call'[h] = [Idle EXCEPT !.op = op, !.pc = pc, !.key = key, !.size = s]
      /\ \A g \in Handlers \ {h} : call'[g] = call[g]
      /\ call[h].pc = "idle"
  BY DEF Admit, TypeOK
<1>2. call'[h].pc = pc
  BY <1>1 DEF Idle
<1> QED
  BY <1>1, <1>2 DEF Moves

LEMMA PollMoves ==
  ASSUME TypeOK, Waits, NEW h \in Handlers, Poll(h)
  PROVE  Moves(h)
<1>1. call[h].pc = "poll"
  BY DEF Poll
<1>2. CASE /\ ~ LastPoll(h)
           /\ call' = [call EXCEPT ![h].polls = @ - 1]
  <2>1. /\ call'[h] = [call[h] EXCEPT !.polls = @ - 1]
        /\ \A g \in Handlers \ {h} : call'[g] = call[g]
    BY <1>2 DEF TypeOK
  <2>2. call[h] \in Calls /\ call[h].polls \in Nat /\ call[h].polls > 1
    BY <1>2, Fields DEF TypeOK, LastPoll
  <2>3. call'[h].pc = "poll" /\ call'[h].polls = call[h].polls - 1
    BY <1>1, <2>1, <2>2 DEF Calls
  <2>4. Left(h) = call[h].polls + 1 /\ Left(h)' = call[h].polls
    BY <1>1, <2>2, <2>3 DEF Left
  <2> QED
    BY <2>1, <2>2, <2>3, <2>4 DEF Moves
<1>3. CASE Answer(h, call[h].id)
  BY <1>1, <1>3, AnswerMoves
<1>4. CASE Return(h)
  BY <1>4, ReturnMoves
<1> QED
  BY <1>2, <1>3, <1>4 DEF Poll

LEMMA EndsStep ==
  ASSUME TypeOK, Waits, [Next]_vars
  PROVE  AllEnd /\ Waits'
<1>1. CASE UNCHANGED vars
  BY <1>1, StaysIsEnough DEF vars
<1>2. ASSUME NEW h \in Handlers, Request(h) PROVE AllEnd /\ Waits'
  <2>1. ASSUME NEW n \in Names, NEW s \in Sizes, AdmitCreate(h, n, s) PROVE Moves(h)
    BY <2>1, AdmitMoves DEF AdmitCreate
  <2>2. ASSUME NEW id \in Ids, NEW s \in Sizes, AdmitExpand(h, id, s) PROVE Moves(h)
    BY <2>2, AdmitMoves DEF AdmitExpand
  <2>3. ASSUME NEW key \in Keys, Abort(h, key) PROVE UNCHANGED call
    BY <2>3 DEF Abort, vars
  <2> QED
    BY <1>2, <2>1, <2>2, <2>3, MovesIsEnough, StaysIsEnough DEF Request
<1>3. ASSUME NEW h \in Handlers, HandlerStep(h) PROVE AllEnd /\ Waits'
  <2> SUFFICES Moves(h)
    BY MovesIsEnough
  <2>1. CASE Lookup(h)
    BY <2>1, AnswerMoves, WaitForMoves, GotoMoves DEF Lookup
  <2>2. CASE CreateShare(h)
    BY <2>2, WaitForMoves DEF CreateShare
  <2>3. CASE CreateRefused(h)
    BY <2>3, ReturnMoves DEF CreateRefused
  <2>4. CASE Poll(h)
    BY <2>4, PollMoves
  <2>5. CASE Get(h)
    BY <2>5, ReturnMoves, AnswerMoves, GotoMoves DEF Get
  <2>6. CASE Resize(h)
    BY <2>6, ReturnMoves, WaitForMoves DEF Resize
  <2>7. CASE Reply(h)
    BY <2>7, ReturnMoves DEF Reply
  <2> QED
    BY <1>3, <2>1, <2>2, <2>3, <2>4, <2>5, <2>6, <2>7 DEF HandlerStep
<1>4. ASSUME NEW h \in Handlers, HandlerFault(h) PROVE AllEnd /\ Waits'
  <2> SUFFICES Moves(h)
    BY MovesIsEnough
  <2>1. CASE LookupFails(h)
    BY <2>1, GotoMoves DEF LookupFails
  <2>2. CASE CreateLost(h) \/ CreateOverdue(h) \/ ResizeLost(h) \/ CallFails(h)
    BY <2>2, ReturnMoves DEF CreateLost, CreateOverdue, ResizeLost, CallFails
  <2> QED
    BY <1>4, <2>1, <2>2 DEF HandlerFault
<1>5. CASE Service
  <2>1. UNCHANGED call
    BY <1>5 DEF Service, LateCreate, DeleteVolume, ShareReady, ShareFails, ShareGone
  <2> QED
    BY <2>1, StaysIsEnough
<1>6. CASE Crash
  <2>1. \A h \in Handlers : call'[h] = Idle
    BY <1>6 DEF Crash
  <2>2. \A h \in Handlers : Left(h)' = 0 /\ call'[h].pc = "idle"
    BY <2>1 DEF Left, Idle
  <2>3. \A h \in Handlers : call[h].pc # "idle" => Left(h) \in Nat \ {0}
    BY AtWork
  <2> QED
    BY <2>2, <2>3 DEF AllEnd, Ends, Waits
<1> QED
  BY <1>1, <1>2, <1>3, <1>4, <1>5, <1>6 DEF Next

LEMMA WaitsInit == Init => Waits
BY DEF Init, Waits, Idle

(* A handler is done after MaxPolls + 3 steps of its own at most, and nobody
   else's step puts that off (share.go:91-139, and the deferred
   pendingVolumes.Delete, which frees the volume's key then). *)
THEOREM CallsAreBounded == Spec => CallsEnd
<1>1. TypeOK /\ Waits /\ [Next]_vars => Waits'
  BY EndsStep
<1>2. Spec => []Waits
  BY WaitsInit, TypeAndShape, <1>1, PTL DEF Spec
<1>3. TypeOK /\ Waits /\ [Next]_vars =>
        [\A h \in Handlers :
           call[h].pc # "idle" => UNCHANGED call[h] \/ Left(h)' \in 0 .. (Left(h) - 1)]_vars
  BY EndsStep DEF AllEnd, Ends
<1> QED
  BY <1>2, <1>3, TypeAndShape, PTL DEF Spec, CallsEnd
=====
