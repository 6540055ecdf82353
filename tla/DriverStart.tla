---------------------------- MODULE DriverStart ----------------------------
(***************************************************************************)
(* How the programs of both drivers start, serve and start again: handle   *)
(* of src/cmd/csi-bizflycloud/main.go and src/cmd/csi-fs-bizflycloud/      *)
(* main.go, the probe of the NFS plugin (src/driver/filestorage/           *)
(* driver.go:158-272) and the gRPC servers (driver.go:274-332,             *)
(* src/driver/blockstorage/server.go:53-109).  A program that ends, with   *)
(* whatever exit code, is started again by Kubernetes; its socket file     *)
(* outlives it on the host's disk or in the pod's volume.                  *)
(***************************************************************************)
EXTENDS Naturals

CONSTANTS
  Programs,     \* containers that run a driver
  Block,        \* those of the block storage driver; the rest is file storage
  Controllers,  \* those that provide the controller service
  Nodes,        \* those that provide the node service
  MaxFaults     \* bound on crashes, failures of Serve and slow answers

(* A block program provides one of the services, by is_control_plane. *)
ASSUME ServicesAssumption ==
  /\ Controllers \cup Nodes = Programs
  /\ Block \subseteq Programs
  /\ Block \cap Controllers \cap Nodes = {}
ASSUME FaultsAssumption == MaxFaults \in Nat

VARIABLES
  phase,   \* program -> how far it is
  late,    \* program -> have the 15 s of initProxiedDriver's context passed?
  socket,  \* program -> is there a file at its endpoint?
  api,     \* does the cloud's API answer?
  plugin,  \* the forwarded NFS plugin: "down", "starting" or "ready"
  faults

vars == <<phase, late, socket, api, plugin, faults>>
-----------------------------------------------------------------------------
Proxies == Nodes \ Block

(* Only a controller logs in, only a proxy asks the plugin, only the block
   driver's server can end and leave its program behind, and who serves has its
   socket file. *)
TypeOK ==
  /\ phase \in [Programs -> {"down", "login", "probe", "info", "remove", "listen",
                             "serving", "hung"}]
  /\ late \in [Programs -> BOOLEAN]
  /\ socket \in [Programs -> BOOLEAN]
  /\ api \in BOOLEAN /\ plugin \in {"down", "starting", "ready"}
  /\ faults \in 0..MaxFaults
  /\ \A p \in Programs :
       /\ phase[p] = "login" => p \in Controllers
       /\ phase[p] \in {"probe", "info"} => p \in Proxies
       /\ phase[p] = "hung" => p \in Block
       /\ phase[p] = "serving" => socket[p]

Init ==
  /\ phase = [p \in Programs |-> "down"]
  /\ late = [p \in Programs |-> FALSE]
  /\ socket = [p \in Programs |-> FALSE]
  /\ api \in BOOLEAN /\ plugin \in {"down", "starting", "ready"}
  /\ faults = 0

Fault == faults < MaxFaults /\ faults' = faults + 1
Goto(p, to) == phase' = [phase EXCEPT ![p] = to]
Exit(p) == Goto(p, "down")
-----------------------------------------------------------------------------
(* The API and the plugin come and go. *)

ApiChanges ==
  /\ api' = ~ api
  /\ UNCHANGED <<phase, late, socket, plugin, faults>>

PluginChanges ==
  /\ \/ plugin = "down" /\ plugin' = "starting"
     \/ plugin = "starting" /\ plugin' \in {"ready", "down"}
     \/ plugin = "ready" /\ plugin' = "down"
  /\ UNCHANGED <<phase, late, socket, api, faults>>
-----------------------------------------------------------------------------
(* What follows the set up of the controller service, if there is one. *)
SetupNode(p) == IF p \in Proxies THEN "probe" ELSE "remove"

SetupController(p) == IF p \in Controllers THEN "login" ELSE SetupNode(p)

(* Mutant: the context of an earlier attempt is used again. *)
StartsLate(p) ==
  /\ phase[p] = "down"
  /\ Goto(p, SetupController(p))
  /\ UNCHANGED <<late, socket, api, plugin, faults>>

(* Kubernetes starts the container. *)
Start(p) ==
  /\ phase[p] = "down"
  /\ Goto(p, SetupController(p))
  /\ late' = [late EXCEPT ![p] = FALSE]
  /\ UNCHANGED <<socket, api, plugin, faults>>

(* The token has to be there in 10 s.  The file storage program ends with a
   fatal error, the other one returns from handle and exits with 0. *)
Login(p) ==
  /\ phase[p] = "login"
  /\ IF api THEN Goto(p, SetupNode(p)) ELSE Exit(p)
  /\ UNCHANGED <<late, socket, api, plugin, faults>>

(* ProbeForever is not given the context: it asks until the plugin is ready,
   or refuses the connection, whether or not the 15 s have passed. *)
Probe(p) ==
  /\ phase[p] = "probe"
  /\ \/ plugin = "ready" /\ Goto(p, "info") /\ UNCHANGED late
     \/ plugin = "down" /\ Exit(p) /\ UNCHANGED late
     \/ plugin = "starting" /\ ~ late[p] /\ late' = [late EXCEPT ![p] = TRUE] /\ UNCHANGED phase
  /\ UNCHANGED <<socket, api, plugin, faults>>

(* The plugin is ready, but slow. *)
Overdue(p) ==
  /\ phase[p] \in {"probe", "info"} /\ ~ late[p]
  /\ late' = [late EXCEPT ![p] = TRUE]
  /\ Fault
  /\ UNCHANGED <<phase, socket, api, plugin>>

(* GetPluginInfo and GetCapabilities are given the context. *)
GetInfo(p) ==
  /\ phase[p] = "info"
  /\ IF plugin = "ready" /\ ~ late[p] THEN Goto(p, "remove") ELSE Exit(p)
  /\ UNCHANGED <<late, socket, api, plugin, faults>>

(* Mutant: the file of an earlier run is left. *)
RemoveNothing(p) ==
  /\ phase[p] = "remove"
  /\ Goto(p, "listen")
  /\ UNCHANGED <<late, socket, api, plugin, faults>>

Remove(p) ==
  /\ phase[p] = "remove"
  /\ socket' = [socket EXCEPT ![p] = FALSE]
  /\ Goto(p, "listen")
  /\ UNCHANGED <<late, api, plugin, faults>>

(* Listen makes the file, and fails if there is one. *)
Listen(p) ==
  /\ phase[p] = "listen"
  /\ IF socket[p]
       THEN Exit(p) /\ UNCHANGED socket
       ELSE Goto(p, "serving") /\ socket' = [socket EXCEPT ![p] = TRUE]
  /\ UNCHANGED <<late, api, plugin, faults>>

(* Serve returns an error and closes its listener, which removes the file. *)
ServeReturns(p) ==
  /\ phase[p] = "serving"
  /\ socket' = [socket EXCEPT ![p] = FALSE]
  /\ Fault
  /\ UNCHANGED <<late, api, plugin>>

(* The file storage driver ends its program. *)
ServeEnds(p) == p \notin Block /\ ServeReturns(p) /\ Exit(p)

(* The block storage driver drops the error and never calls wg.Done: Wait waits
   on, and Run does not return. *)
ServeHangs(p) == p \in Block /\ ServeReturns(p) /\ Goto(p, "hung")

(* The container is killed, or a step of the start fails: the file stays. *)
Crash(p) ==
  /\ phase[p] # "down"
  /\ Exit(p)
  /\ Fault
  /\ UNCHANGED <<late, socket, api, plugin>>

Step(p) == Start(p) \/ Login(p) \/ Probe(p) \/ GetInfo(p) \/ Remove(p) \/ Listen(p)

Next ==
  \/ \E p \in Programs : Step(p) \/ Overdue(p) \/ ServeEnds(p) \/ ServeHangs(p) \/ Crash(p)
  \/ ApiChanges \/ PluginChanges

Spec == Init /\ [][Next]_vars

(* Programs run, and Kubernetes starts a container that has ended.  Nothing is
   assumed of the API and of the plugin. *)
FairSpec == Spec /\ \A p \in Programs : WF_vars(Step(p))
-----------------------------------------------------------------------------
(* Once the API and the plugin stay up, every program ends up serving for good,
   whatever it had got to and whatever file its last run has left: the expired
   context that a slow plugin leaves costs one restart, no more
   (src/driver/filestorage/driver.go:241-261), and the file is removed before
   Listen (driver.go:291-300, server.go:77-87).  But a block storage program
   whose Serve has returned an error stays up and serves nothing. *)
ServesAgain ==
  <>[](api /\ plugin = "ready") =>
    \A p \in Programs : <>[](phase[p] = "serving" \/ (p \in Block /\ phase[p] = "hung"))

(* The steps a program has yet to take; one whose context has expired has to
   end first, and to be started again. *)
StepsFrom(ph) ==
  IF ph = "down" THEN 6 ELSE IF ph = "login" THEN 5 ELSE IF ph = "probe" THEN 4
  ELSE IF ph = "info" THEN 3 ELSE IF ph = "remove" THEN 2 ELSE IF ph = "listen" THEN 1 ELSE 0

Distance(p) == StepsFrom(phase[p]) + (IF late[p] /\ phase[p] # "down" THEN 4 ELSE 0)

(* While the API and the plugin are up, and nothing fails, whatever a program
   does brings it nearer to serving, from any state that earlier faults have
   left: no file of an earlier run stops it in Listen, and the expired context
   is gone after one restart (driver.go:241-261, 291-300, server.go:77-87). *)
ComesNearer ==
  [][\A p \in Programs :
       api /\ plugin = "ready" /\ UNCHANGED faults =>
         UNCHANGED <<phase[p], late[p]>> \/ Distance(p)' < Distance(p)]_vars
=============================================================================
