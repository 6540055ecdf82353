------------------------- MODULE DriverStart_proofs -------------------------
(***************************************************************************)
(* Proofs about the start of the programs, for any set of programs and any *)
(* bound on faults.  TypeOK is inductive as it stands; StartInv adds what   *)
(* makes every step of the start count.                                    *)
(***************************************************************************)
EXTENDS DriverStart, TLAPS

Phases == {"down", "login", "probe", "info", "remove", "listen", "serving", "hung"}

PlaceOK(p, ph, file) ==
  /\ ph = "login" => p \in Controllers
  /\ ph \in {"probe", "info"} => p \in Proxies
  /\ ph = "hung" => p \in Block
  /\ ph = "serving" => file

(* The parts of TypeOK. *)
PlacesOK ==
  /\ phase \in [Programs -> Phases] /\ socket \in [Programs -> BOOLEAN]
  /\ \A p \in Programs : PlaceOK(p, phase[p], socket[p])
LateOK == late \in [Programs -> BOOLEAN]
EnvOK == api \in BOOLEAN /\ plugin \in {"down", "starting", "ready"}
FaultsOK == faults \in 0..MaxFaults

LEMMA Parts == TypeOK <=> PlacesOK /\ LateOK /\ EnvOK /\ FaultsOK
  BY Zenon DEF TypeOK, PlacesOK, PlaceOK, Phases, LateOK, EnvOK, FaultsOK

LEMMA PartsMade ==
  ASSUME PlacesOK', LateOK', EnvOK', FaultsOK'
  PROVE  TypeOK'
  BY Zenon DEF TypeOK, PlacesOK, PlaceOK, Phases, LateOK, EnvOK, FaultsOK

LEMMA TypeInit == Init => TypeOK
<1> SUFFICES ASSUME Init PROVE TypeOK
  OBVIOUS
<1>1. PlacesOK /\ LateOK
  BY DEF Init, PlacesOK, PlaceOK, Phases, LateOK
<1>2. EnvOK
  BY Zenon DEF Init, EnvOK
<1>3. FaultsOK
  BY FaultsAssumption DEF Init, FaultsOK
<1> QED
  BY <1>1, <1>2, <1>3, Parts

(* One program goes to another place. *)
LEMMA Moves ==
  ASSUME PlacesOK, NEW p \in Programs, NEW to \in Phases, Goto(p, to), to # "serving",
         \/ UNCHANGED socket
         \/ socket' = [socket EXCEPT ![p] = FALSE],
         to = "login" => p \in Controllers, to \in {"probe", "info"} => p \in Proxies,
         to = "hung" => p \in Block
  PROVE  PlacesOK'
<1>1. phase' \in [Programs -> Phases] /\ phase'[p] = to
      /\ \A q \in Programs : q # p => phase'[q] = phase[q]
  BY DEF PlacesOK, Goto
<1>2. socket' \in [Programs -> BOOLEAN] /\ \A q \in Programs : q # p => socket'[q] = socket[q]
  BY DEF PlacesOK
<1> QED
  BY <1>1, <1>2 DEF PlacesOK, PlaceOK

LEMMA Serves ==
  ASSUME PlacesOK, NEW p \in Programs, Goto(p, "serving"), socket' = [socket EXCEPT ![p] = TRUE]
  PROVE  PlacesOK'
<1>1. phase' \in [Programs -> Phases] /\ phase'[p] = "serving"
      /\ \A q \in Programs : q # p => phase'[q] = phase[q]
  BY DEF PlacesOK, Goto, Phases
<1>2. socket' \in [Programs -> BOOLEAN] /\ socket'[p]
      /\ \A q \in Programs : q # p => socket'[q] = socket[q]
  BY DEF PlacesOK
<1> QED
  BY <1>1, <1>2 DEF PlacesOK, PlaceOK

(* What follows the set up of the services is set up for those who provide
   them. *)
LEMMA SetUp ==
  ASSUME NEW p \in Programs
  PROVE  /\ SetupNode(p) \in {"probe", "remove"} /\ (SetupNode(p) = "probe" => p \in Proxies)
         /\ SetupController(p) \in {"login", "probe", "remove"}
         /\ SetupController(p) = "login" => p \in Controllers
         /\ SetupController(p) = "probe" => p \in Proxies
  BY DEF SetupNode, SetupController

LEMMA Kept ==
  ASSUME TypeOK
  PROVE  /\ PlacesOK /\ LateOK /\ EnvOK /\ FaultsOK
         /\ UNCHANGED <<phase, socket>> => PlacesOK'
         /\ UNCHANGED late => LateOK'
         /\ \A p : late' = [late EXCEPT ![p] = TRUE] \/ late' = [late EXCEPT ![p] = FALSE] => LateOK'
         /\ UNCHANGED <<api, plugin>> => EnvOK'
         /\ UNCHANGED faults => FaultsOK'
         /\ Fault => FaultsOK'
<1>1. PlacesOK /\ LateOK /\ EnvOK /\ FaultsOK
  BY Parts
<1>2. UNCHANGED <<phase, socket>> => PlacesOK'
  BY <1>1 DEF PlacesOK, PlaceOK
<1>3. /\ UNCHANGED late => LateOK'
      /\ \A p : late' = [late EXCEPT ![p] = TRUE] \/ late' = [late EXCEPT ![p] = FALSE] => LateOK'
  BY <1>1 DEF LateOK
<1>4. UNCHANGED <<api, plugin>> => EnvOK'
  BY <1>1, Zenon DEF EnvOK
<1>5. /\ UNCHANGED faults => FaultsOK'
      /\ Fault => FaultsOK'
  BY <1>1, FaultsAssumption DEF FaultsOK, Fault
<1> QED
  BY <1>1, <1>2, <1>3, <1>4, <1>5

LEMMA EnvironmentType == TypeOK /\ (ApiChanges \/ PluginChanges) => TypeOK'
<1> SUFFICES ASSUME TypeOK, ApiChanges \/ PluginChanges PROVE TypeOK'
  OBVIOUS
<1>1. api' \in BOOLEAN
  BY Kept, Zenon DEF EnvOK, ApiChanges, PluginChanges
<1>2. plugin' \in {"down", "starting", "ready"}
  BY Kept DEF EnvOK, ApiChanges, PluginChanges
<1>3. PlacesOK' /\ LateOK' /\ FaultsOK'
  BY Kept DEF ApiChanges, PluginChanges
<1> QED
  BY <1>1, <1>2, <1>3, PartsMade DEF EnvOK

LEMMA StepType == ASSUME NEW p \in Programs PROVE TypeOK /\ Step(p) => TypeOK'
<1> SUFFICES ASSUME TypeOK, Step(p) PROVE TypeOK'
  OBVIOUS
<1>1. LateOK' /\ EnvOK' /\ FaultsOK'
  BY Kept DEF Step, Start, Login, Probe, GetInfo, Remove, Listen
<1> SUFFICES PlacesOK'
  BY <1>1, PartsMade
<1>2. PlacesOK /\ (phase[p] \in {"probe", "info"} => p \in Proxies)
  BY Kept DEF PlacesOK, PlaceOK
<1>3. CASE Start(p)
  BY <1>2, <1>3, SetUp, Moves DEF Start, Phases
<1>4. CASE Login(p)
  BY <1>2, <1>4, SetUp, Moves DEF Login, Exit, Phases
<1>5. CASE Probe(p)
  <2>1. CASE Goto(p, "info")
    BY <1>2, <1>5, <2>1, Moves DEF Probe, Phases
  <2>2. CASE Goto(p, "down")
    BY <1>2, <1>5, <2>2, Moves DEF Probe, Phases
  <2>3. CASE UNCHANGED phase
    BY <1>5, <2>3, Kept DEF Probe
  <2> QED
    BY <1>5, <2>1, <2>2, <2>3 DEF Probe, Exit
<1>6. CASE GetInfo(p)
  BY <1>2, <1>6, Moves DEF GetInfo, Exit, Phases
<1>7. CASE Remove(p)
  BY <1>2, <1>7, Moves DEF Remove, Phases
<1>8. CASE Listen(p)
  <2>1. CASE Goto(p, "down") /\ UNCHANGED socket
    BY <1>2, <2>1, Moves DEF Phases
  <2>2. CASE Goto(p, "serving") /\ socket' = [socket EXCEPT ![p] = TRUE]
    BY <1>2, <2>2, Serves
  <2> QED
    BY <1>8, <2>1, <2>2 DEF Listen, Exit
<1> QED
  BY <1>3, <1>4, <1>5, <1>6, <1>7, <1>8 DEF Step

LEMMA FaultType ==
  ASSUME NEW p \in Programs
  PROVE  TypeOK /\ (Overdue(p) \/ ServeEnds(p) \/ ServeHangs(p) \/ Crash(p)) => TypeOK'
<1> SUFFICES ASSUME TypeOK, Overdue(p) \/ ServeEnds(p) \/ ServeHangs(p) \/ Crash(p) PROVE TypeOK'
  OBVIOUS
<1>1. PlacesOK /\ LateOK' /\ EnvOK' /\ FaultsOK'
  BY Kept DEF Overdue, ServeEnds, ServeHangs, ServeReturns, Crash
<1> SUFFICES PlacesOK'
  BY <1>1, PartsMade
<1>2. CASE Overdue(p)
  BY <1>2, Kept DEF Overdue
<1>3. CASE ServeEnds(p)
  BY <1>1, <1>3, Moves DEF ServeEnds, ServeReturns, Exit, Phases
<1>4. CASE ServeHangs(p)
  BY <1>1, <1>4, Moves DEF ServeHangs, ServeReturns, Phases
<1>5. CASE Crash(p)
  BY <1>1, <1>5, Moves DEF Crash, Exit, Phases
<1> QED
  BY <1>2, <1>3, <1>4, <1>5

LEMMA TypeNext == TypeOK /\ [Next]_vars => TypeOK'
<1> SUFFICES ASSUME TypeOK, [Next]_vars PROVE TypeOK'
  OBVIOUS
<1>1. CASE UNCHANGED vars
  <2>1. UNCHANGED <<phase, socket>> /\ UNCHANGED late /\ UNCHANGED <<api, plugin>> /\ UNCHANGED faults
    BY <1>1 DEF vars
  <2> QED
    BY <2>1, Kept, PartsMade
<1>2. CASE ApiChanges \/ PluginChanges
  BY <1>2, EnvironmentType
<1>3. ASSUME NEW p \in Programs,
             Step(p) \/ Overdue(p) \/ ServeEnds(p) \/ ServeHangs(p) \/ Crash(p)
      PROVE  TypeOK'
  BY <1>3, StepType, FaultType
<1> QED
  BY <1>1, <1>2, <1>3, Zenon DEF Next

(* Only a controller logs in, only a proxy asks the plugin, only the block
   storage driver stays up without its server, and a program that serves has
   its socket file (main.go of both programs, driver.go:158-332,
   server.go:53-109). *)
THEOREM TypeCorrect == Spec => []TypeOK
  BY TypeInit, TypeNext, PTL DEF Spec
-----------------------------------------------------------------------------
(***************************************************************************)
(* Progress.  A program that listens has removed its file, and an expired  *)
(* context ends where it is used.                                          *)
(***************************************************************************)

StartOK(ph, lt, file) ==
  /\ ph = "listen" => ~ file
  /\ lt => ph \in {"down", "probe", "info"}

StartInv == TypeOK /\ \A p \in Programs : StartOK(phase[p], late[p], socket[p])

LEMMA StartInit == Init => StartInv
  BY TypeInit DEF Init, StartInv, StartOK

(* What one program does to its own part of the state. *)
LEMMA OwnStep ==
  ASSUME StartInv, NEW p \in Programs, Step(p)
  PROVE  /\ StartOK(phase'[p], late'[p], socket'[p])
         /\ \A q \in Programs \ {p} :
              phase'[q] = phase[q] /\ late'[q] = late[q] /\ socket'[q] = socket[q]
         /\ api /\ plugin = "ready" =>
              UNCHANGED <<phase[p], late[p]>> \/ Distance(p)' < Distance(p)
<1> USE DEF StartOK, Goto, Exit, Distance, StepsFrom
<1>1. /\ phase \in [Programs -> Phases] /\ late \in [Programs -> BOOLEAN]
      /\ socket \in [Programs -> BOOLEAN] /\ StartOK(phase[p], late[p], socket[p])
  BY DEF StartInv, TypeOK, Phases
<1>2. CASE Start(p)
  <2>1. SetupController(p) \in {"login", "probe", "remove"}
    BY SetUp
  <2>2. /\ phase[p] = "down" /\ phase' = [phase EXCEPT ![p] = SetupController(p)]
        /\ late' = [late EXCEPT ![p] = FALSE] /\ UNCHANGED socket
    BY <1>2 DEF Start
  <2>3. phase'[p] \in {"login", "probe", "remove"} /\ ~ late'[p]
    BY <1>1, <2>1, <2>2
  <2>4. \A q \in Programs \ {p} :
          phase'[q] = phase[q] /\ late'[q] = late[q] /\ socket'[q] = socket[q]
    BY <1>1, <2>2
  <2>5. Distance(p) = 6 /\ Distance(p)' \in {2, 4, 5}
    BY <2>2, <2>3
  <2>6. Distance(p)' < Distance(p)
    BY <2>5
  <2> QED
    BY <2>3, <2>4, <2>6
<1>3. CASE Login(p)
  BY <1>1, <1>3, SetUp DEF Login
<1>4. CASE Probe(p)
  BY <1>1, <1>4 DEF Probe
<1>5. CASE GetInfo(p)
  BY <1>1, <1>5 DEF GetInfo
<1>6. CASE Remove(p)
  BY <1>1, <1>6 DEF Remove
<1>7. CASE Listen(p)
  BY <1>1, <1>7 DEF Listen
<1> QED
  BY <1>2, <1>3, <1>4, <1>5, <1>6, <1>7 DEF Step

LEMMA OwnFault ==
  ASSUME StartInv, NEW p \in Programs, Overdue(p) \/ ServeEnds(p) \/ ServeHangs(p) \/ Crash(p)
  PROVE  /\ StartOK(phase'[p], late'[p], socket'[p])
         /\ \A q \in Programs \ {p} :
              phase'[q] = phase[q] /\ late'[q] = late[q] /\ socket'[q] = socket[q]
         /\ ~ UNCHANGED faults
<1> USE DEF StartOK, Goto, Exit
<1>1. /\ phase \in [Programs -> Phases] /\ late \in [Programs -> BOOLEAN]
      /\ socket \in [Programs -> BOOLEAN] /\ StartOK(phase[p], late[p], socket[p])
  BY DEF StartInv, TypeOK, Phases
<1>2. faults \in Nat
  BY FaultsAssumption DEF StartInv, TypeOK
<1>3. ~ UNCHANGED faults
  BY <1>2 DEF Overdue, ServeEnds, ServeHangs, ServeReturns, Crash, Fault
<1>4. CASE Overdue(p)
  BY <1>1, <1>3, <1>4 DEF Overdue
<1>5. CASE ServeEnds(p) \/ ServeHangs(p)
  BY <1>1, <1>3, <1>5 DEF ServeEnds, ServeHangs, ServeReturns
<1>6. CASE Crash(p)
  BY <1>1, <1>3, <1>6 DEF Crash
<1> QED
  BY <1>4, <1>5, <1>6

LEMMA StartNext ==
  ASSUME StartInv, [Next]_vars
  PROVE  /\ StartInv'
         /\ \A p \in Programs :
              api /\ plugin = "ready" /\ UNCHANGED faults =>
                UNCHANGED <<phase[p], late[p]>> \/ Distance(p)' < Distance(p)
<1>1. TypeOK'
  BY TypeNext DEF StartInv
<1>2. CASE UNCHANGED <<phase, late, socket>>
  BY <1>1, <1>2 DEF StartInv
<1>3. ASSUME NEW p \in Programs, Step(p)
      PROVE  /\ StartInv'
             /\ \A q \in Programs :
                  api /\ plugin = "ready" =>
                    UNCHANGED <<phase[q], late[q]>> \/ Distance(q)' < Distance(q)
  BY <1>1, <1>3, OwnStep, Zenon DEF StartInv
<1>4. ASSUME NEW p \in Programs, Overdue(p) \/ ServeEnds(p) \/ ServeHangs(p) \/ Crash(p)
      PROVE  StartInv' /\ ~ UNCHANGED faults
  BY <1>1, <1>4, OwnFault DEF StartInv
<1>5. CASE ApiChanges \/ PluginChanges \/ UNCHANGED vars
  BY <1>2, <1>5 DEF ApiChanges, PluginChanges, vars
<1> QED
  BY <1>3, <1>4, <1>5 DEF Next

(* With the API and the plugin up, and until the next fault, a program cannot
   but come nearer to serving: from any phase, with or without an expired
   context, and with any socket file left behind (driver.go:241-261, 291-300,
   server.go:77-87).  What liveness adds is that programs run. *)
THEOREM StartsMakeProgress == Spec => ComesNearer
  BY StartInit, StartNext, PTL DEF Spec, ComesNearer
=============================================================================
