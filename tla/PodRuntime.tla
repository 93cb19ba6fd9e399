------------------------------ MODULE PodRuntime ------------------------------
(***************************************************************************)
(* Pods, their containers and their network: the calls of cri/runtime.go   *)
(* that change state, the container-started events of lxf_container.go,    *)
(* the sandbox of lxf/sandbox.go (an LXD profile) and the network plugins.  *)
(*                                                                         *)
(* gRPC calls and event handlers run concurrently and keep what they read  *)
(* in local variables.  One action is one LXD request or one invocation of *)
(* the CNI plugins, and everything the code does until the next one.       *)
(*                                                                         *)
(* LXD and CNI are external.  LXD's ETag of a profile is a hash of its     *)
(* content, so here it IS the content.  How a container's own record is    *)
(* saved is ContainerRecord's subject; here that save succeeds or fails.    *)
(* A call ends "ok", with "err" when what it met in LXD makes it fail, or   *)
(* with "fault" when a request failed for reasons of its own.               *)
(***************************************************************************)
EXTENDS Naturals, FiniteSets

CONSTANTS
    Pods, Containers,  \* identifiers; each names at most one pod or container
    Callers,           \* gRPC handler goroutines
    Modes,             \* the networks to consider: the host's, CNI, LXD bridge
    MaxPid,            \* bound: how many times LXD starts a container
    MaxCrashes,        \* bound: how often lxe dies and comes back
    Overlap,           \* TRUE: calls about the same pod may overlap
    SelfExit,          \* TRUE: a container may end by itself
    NetFaults,         \* TRUE: the network plugins, or a handler's requests, may fail
    SlowAdd,           \* TRUE: CNI ADD takes time, in which other steps happen
    Faulty,            \* the requests of a call that may fail
    None               \* no pod, no container

ASSUME ModesAssumption  == Modes \subseteq {"node", "cni", "bridged"}
ASSUME BoundsAssumption == MaxPid \in Nat /\ MaxCrashes \in Nat
ASSUME SwitchAssumption == /\ Overlap \in BOOLEAN /\ SelfExit \in BOOLEAN
                           /\ NetFaults \in BOOLEAN /\ SlowAdd \in BOOLEAN
\* The points of a call at which it makes a request to LXD.
Requests == {"create", "refresh", "save", "saved", "get", "list", "stop", "record",
             "notready", "delete", "sandbox", "remove", "validate", "lxdcreate",
             "created", "start", "starting", "started"}

ASSUME FaultyAssumption == Faulty \subseteq Requests
ASSUME NoneAssumption   == None \notin Pods \cup Containers

VARIABLES
    profile,   \* per pod: the LXD profile that stores the sandbox
    ctr,       \* per container: LXD's view of it
    pids,      \* number of container processes started so far
    cni,       \* per pod: the processes whose namespaces CNI attached
    call,      \* per goroutine: the CRI call it handles
    event,     \* per process: the handler of its container-started event
    crashes,
    mode       \* the pods' network: host network, or the plugin lxe is started with

vars == <<profile, ctr, pids, cni, call, event, crashes, mode>>

Pids == 1 .. MaxPid

\* data is the persisted network result (ModeData): 0 when empty.  entries:
\* has it the cloud-init network entries of a bridge's result?  They are only
\* ever written, never read back (lxf_sandbox.go:118).
Profile == [state : {"absent", "ready", "notready", "deleted"},
            data : Nat, entries : BOOLEAN]

NoProfile == [state |-> "absent", data |-> 0, entries |-> FALSE]

Ctr == [st : {"absent", "stopped", "starting", "running", "deleted"},
        pod : Pods \cup {None}, pid : 0 .. MaxPid]

PodOps == {"RunPodSandbox", "StopPodSandbox", "RemovePodSandbox"}
CtrOps == {"CreateContainer", "StartContainer", "StopContainer", "RemoveContainer"}

\* etag is the sandbox as read (or refreshed), todo the containers the loop
\* at hand has still to visit, list and running the lazily loaded containers
\* of the sandbox and those of them read as running, cached the containers
\* whose own sandbox pointer is loaded.
Call == [op : PodOps \cup CtrOps \cup {"none"},
         pc : {"idle", "create", "refresh", "network", "save", "saved", "get", "list",
               "stop", "record", "notready", "delete", "sandbox", "detach", "remove",
               "validate", "lxdcreate", "created", "start", "starting", "started"},
         pod : Pods \cup {None}, ctr : Containers \cup {None},
         etag : Profile,
         todo : SUBSET Containers, list : SUBSET Containers,
         running : SUBSET Containers, cached : SUBSET Containers,
         res : {"none", "ok", "err", "fault"}]

NoCall == [op |-> "none", pc |-> "idle", pod |-> None, ctr |-> None,
           etag |-> NoProfile, todo |-> {}, list |-> {}, running |-> {},
           cached |-> {}, res |-> "none"]

Event == [pc : {"none", "pending", "sandbox", "state", "add", "adding", "save",
               "done"},
          ctr : Containers \cup {None}, pid : 0 .. MaxPid, etag : Profile]

NoEvent == [pc |-> "none", ctr |-> None, pid |-> 0, etag |-> NoProfile]

Init == /\ profile = [p \in Pods |-> NoProfile]
        /\ ctr = [c \in Containers |-> [st |-> "absent", pod |-> None, pid |-> 0]]
        /\ pids = 0
        /\ cni = [p \in Pods |-> {}]
        /\ call = [k \in Callers |-> NoCall]
        /\ event = [i \in Pids |-> NoEvent]
        /\ crashes = 0
        /\ mode \in Modes

-----------------------------------------------------------------------------
Active(k) == call[k].pc # "idle"
Exists(p) == profile[p].state \in {"ready", "notready"}
Present(c) == ctr[c].st \in {"stopped", "starting", "running"}
Busy(c) == ctr[c].st \in {"starting", "running"}

\* LXD's UsedBy of a profile.
UsedBy(p) == {c \in Containers : Present(c) /\ ctr[c].pod = p}

Set(k, r) == call' = [call EXCEPT ![k] = r]
Goto(k, pc) == Set(k, [call[k] EXCEPT !.pc = pc])
Return(k, res) == Set(k, [NoCall EXCEPT !.op = call[k].op, !.pod = call[k].pod,
                                        !.ctr = call[k].ctr, !.res = res])

\* Neither lxe nor LXD is at work on the pod.
Free(p) == /\ \A j \in Callers : Active(j) => call[j].pod # p
           /\ \A c \in Containers : ctr[c].pod = p => ctr[c].st # "starting"

(* A CRI call arrives.  The caller can name a pod or a container as soon as *)
(* LXD has it, because it can list them.                                    *)
Begin(k, op, p, c, pc) ==
    /\ ~Active(k)
    /\ Overlap \/ Free(p)
    /\ Set(k, [NoCall EXCEPT !.op = op, !.pc = pc, !.pod = p, !.ctr = c])
    /\ UNCHANGED <<profile, ctr, pids, cni, event, crashes, mode>>

BeginRun(k, p) ==
    /\ profile[p].state = "absent"
    /\ \A j \in Callers : Active(j) => call[j].pod # p
    /\ Begin(k, "RunPodSandbox", p, None, "create")

BeginPod(k, op, p) ==
    /\ profile[p].state # "absent"
    /\ op \in {"StopPodSandbox", "RemovePodSandbox"}
    /\ Begin(k, op, p, None, "get")

BeginCreate(k, p, c) ==
    /\ profile[p].state # "absent"
    /\ ctr[c].st = "absent"
    /\ \A j \in Callers : Active(j) => call[j].ctr # c
    /\ Begin(k, "CreateContainer", p, c, "validate")

BeginContainer(k, op, c) ==
    /\ ctr[c].st # "absent"
    /\ op \in CtrOps \ {"CreateContainer"}
    /\ Begin(k, op, ctr[c].pod, c, "get")

-----------------------------------------------------------------------------
NewProfile == [state |-> "ready", data |-> 0, entries |-> FALSE]

(* RunPodSandbox: Apply() creates the profile in state ready...             *)
RunCreate(k) ==
    /\ call[k].pc = "create"
    /\ profile' = [profile EXCEPT ![call[k].pod] = NewProfile]
    /\ Goto(k, "refresh")
    /\ UNCHANGED <<ctr, pids, cni, event, crashes, mode>>

(* ... and refresh() fetches the ETag, but not the data, of what is there   *)
(* by then.                                                                 *)
RunRefresh(k) ==
    /\ call[k].pc = "refresh"
    /\ LET p == call[k].pod IN
       \/ /\ ~Exists(p)
          /\ Return(k, "err")
       \/ /\ Exists(p) /\ mode = "node"
          /\ Return(k, "ok")
       \/ /\ Exists(p) /\ mode # "node"
          /\ Set(k, [call[k] EXCEPT !.etag = profile[p], !.pc = "network"])
    /\ UNCHANGED <<profile, ctr, pids, cni, event, crashes, mode>>

(* PodNetwork and WhenCreated: nothing for CNI, an address for the bridge.  *)
(* WhenStarted is a no-op for both.                                         *)
RunNetwork(k) ==
    /\ call[k].pc = "network"
    /\ \/ NetFaults /\ Return(k, "err")
       \/ mode = "cni" /\ Return(k, "ok")
       \/ mode = "bridged" /\ Goto(k, "save")
    /\ UNCHANGED <<profile, ctr, pids, cni, event, crashes, mode>>

(* handleNetworkResult: the sandbox built by this call, with the result,    *)
(* replaces the profile if the ETag matches.                                *)
RunSave(k) ==
    /\ call[k].pc = "save"
    /\ LET p == call[k].pod IN
       IF Exists(p) /\ call[k].etag = profile[p]
         THEN /\ profile' = [profile EXCEPT ![p] =
                               [state |-> "ready", data |-> 1, entries |-> TRUE]]
              /\ Goto(k, "saved")
         ELSE Return(k, "err") /\ UNCHANGED profile
    /\ UNCHANGED <<ctr, pids, cni, event, crashes, mode>>

RunSaved(k) ==
    /\ call[k].pc = "saved"
    /\ Return(k, IF Exists(call[k].pod) THEN "ok" ELSE "err")
    /\ UNCHANGED <<profile, ctr, pids, cni, event, crashes, mode>>

-----------------------------------------------------------------------------
(* StopPodSandbox and RemovePodSandbox: GetSandbox.                         *)
GetSandbox(k) ==
    /\ call[k].pc = "get" /\ call[k].op \in PodOps
    /\ LET p == call[k].pod IN
       IF Exists(p)
         THEN Set(k, [call[k] EXCEPT !.etag = profile[p], !.todo = UsedBy(p), !.pc = "list"])
         ELSE Return(k, "ok")
    /\ UNCHANGED <<profile, ctr, pids, cni, event, crashes, mode>>

\* Mutant: containers that do not run are left out of the list.
ListContainers_OnlyRunning(k) ==
    /\ call[k].pc = "list"
    /\ \/ /\ call[k].todo = {}
          /\ Set(k, [call[k] EXCEPT !.todo = call[k].running, !.pc = "stop"])
       \/ \E c \in call[k].todo :
             LET seen == IF ctr[c].st = "running" THEN {c} ELSE {} IN
             Set(k, [call[k] EXCEPT !.todo = @ \ {c}, !.list = @ \cup seen,
                                    !.running = @ \cup seen])
    /\ UNCHANGED <<profile, ctr, pids, cni, event, crashes, mode>>

(* sb.Containers(): one GetContainer per name in UsedBy, once per call.     *)
ListContainers(k) ==
    /\ call[k].pc = "list"
    /\ \/ /\ call[k].todo = {}
          /\ Set(k, [call[k] EXCEPT !.todo = call[k].running, !.pc = "stop"])
       \/ \E c \in call[k].todo :
             IF Present(c)
               THEN Set(k, [call[k] EXCEPT
                              !.todo = @ \ {c}, !.list = @ \cup {c},
                              !.running = IF ctr[c].st = "running" THEN @ \cup {c} ELSE @])
               ELSE Return(k, "err")
    /\ UNCHANGED <<profile, ctr, pids, cni, event, crashes, mode>>

(* The calls about one container: GetContainer, and what follows from it.   *)
GetContainer(k) ==
    /\ call[k].pc = "get" /\ call[k].op \in CtrOps
    /\ LET c == call[k].ctr IN
       \/ /\ ~Present(c)
          /\ Return(k, IF call[k].op = "StartContainer" THEN "err" ELSE "ok")
       \/ /\ Present(c) /\ call[k].op = "StopContainer"
          /\ Set(k, [call[k] EXCEPT !.pc = "stop",
                       !.todo = IF ctr[c].st = "running" THEN {c} ELSE {}])
       \/ /\ Present(c) /\ call[k].op = "RemoveContainer"
          /\ Set(k, [call[k] EXCEPT !.pc = "delete", !.todo = {c}])
       \/ /\ Present(c) /\ call[k].op = "StartContainer"
          /\ Goto(k, "start")
    /\ UNCHANGED <<profile, ctr, pids, cni, event, crashes, mode>>

-----------------------------------------------------------------------------
(* stopContainers/stopContainer: a container that was read as running is    *)
(* stopped by LXD, unless it is being started again; one that is gone       *)
(* counts as stopped.  (Both attempts of lxo.StopContainer failing is       *)
(* RequestFails.)                                                           *)
StopContainer(k) ==
    /\ call[k].pc = "stop"
    /\ \E c \in call[k].todo :
          \/ /\ ctr[c].st \in {"stopped", "running"}
             /\ ctr' = [ctr EXCEPT ![c].st = "stopped"]
             /\ Set(k, [call[k] EXCEPT !.todo = @ \ {c}, !.ctr = c, !.pc = "record"])
          \/ /\ ctr[c].st = "starting"
             /\ Return(k, "err") /\ UNCHANGED ctr
          \/ /\ ~Present(c)
             /\ Set(k, [call[k] EXCEPT !.todo = @ \ {c}]) /\ UNCHANGED ctr
    /\ UNCHANGED <<profile, pids, cni, event, crashes, mode>>

(* The rest of Container.Stop: FinishedAt is saved in the container's own   *)
(* record, which loads the container's sandbox.  "not found" is no error.   *)
StopRecord(k) ==
    /\ call[k].pc = "record"
    /\ Set(k, [call[k] EXCEPT !.pc = "stop",
                 !.cached = IF Present(call[k].ctr) THEN @ \cup {call[k].ctr} ELSE @])
    /\ UNCHANGED <<profile, ctr, pids, cni, event, crashes, mode>>

\* Mutant: the loop over the containers ends after the first one.
StopDone_Early(k) ==
    /\ call[k].pc = "stop"
    /\ CASE call[k].op = "StopContainer"    -> Return(k, "ok")
         [] call[k].op = "StopPodSandbox"   -> Goto(k, "notready")
         [] call[k].op = "RemovePodSandbox" ->
               Set(k, [call[k] EXCEPT !.todo = call[k].list, !.pc = "delete"])
    /\ UNCHANGED <<profile, ctr, pids, cni, event, crashes, mode>>

StopDone(k) ==
    /\ call[k].pc = "stop" /\ call[k].todo = {}
    /\ CASE call[k].op = "StopContainer"    -> Return(k, "ok")
         [] call[k].op = "StopPodSandbox"   -> Goto(k, "notready")
         [] call[k].op = "RemovePodSandbox" ->
               Set(k, [call[k] EXCEPT !.todo = call[k].list, !.pc = "delete"])
    /\ UNCHANGED <<profile, ctr, pids, cni, event, crashes, mode>>

\* The sandbox as it was read, in state notready.
Stopped(sb) == [sb EXCEPT !.state = "notready", !.entries = FALSE]

\* Mutant: the notready sandbox is saved without regard to the ETag.
SandboxStop_NoETag(k) ==
    /\ call[k].pc = "notready"
    /\ profile' = [profile EXCEPT ![call[k].pod] = Stopped(call[k].etag)]
    /\ Return(k, "ok")
    /\ UNCHANGED <<ctr, pids, cni, event, crashes, mode>>

\* Mutant: the state is written under a name the sandbox does not know.
SandboxStop_WrongName(k) ==
    /\ call[k].pc = "notready"
    /\ profile' = [profile EXCEPT ![call[k].pod].state = "stopped"]
    /\ Return(k, "ok")
    /\ UNCHANGED <<ctr, pids, cni, event, crashes, mode>>

(* Sandbox.Stop: the sandbox as read, in state notready and without the     *)
(* cloud-init entries it did not read, replaces the profile if the ETag     *)
(* matches.  WhenStopped is a no-op in every plugin: the network stays.     *)
SandboxStop(k) ==
    /\ call[k].pc = "notready"
    /\ LET p == call[k].pod IN
       IF Exists(p) /\ call[k].etag = profile[p]
         THEN /\ profile' = [profile EXCEPT ![p] = Stopped(call[k].etag)]
              /\ Return(k, "ok")
         ELSE Return(k, "err") /\ UNCHANGED profile
    /\ UNCHANGED <<ctr, pids, cni, event, crashes, mode>>

-----------------------------------------------------------------------------
\* Mutant: the container goes without its network being torn down.
DeleteContainer_NoDetach(k) ==
    /\ call[k].pc = "delete"
    /\ \E c \in call[k].todo :
          \/ Busy(c) /\ Return(k, "err") /\ UNCHANGED ctr
          \/ /\ ~Busy(c)
             /\ ctr' = [ctr EXCEPT ![c].st = "deleted"]
             /\ Set(k, [call[k] EXCEPT !.todo = @ \ {c}])
    /\ UNCHANGED <<profile, pids, cni, event, crashes, mode>>

(* deleteContainer: LXD deletes a stopped container; a missing one is fine. *)
DeleteContainer(k) ==
    /\ call[k].pc = "delete"
    /\ \E c \in call[k].todo :
          \/ /\ Busy(c)
             /\ Return(k, "err") /\ UNCHANGED ctr
          \/ /\ ~Busy(c)
             /\ ctr' = [ctr EXCEPT ![c].st = "deleted"]
             /\ Set(k, [call[k] EXCEPT !.todo = @ \ {c}, !.ctr = c, !.pc = "sandbox"])
    /\ UNCHANGED <<profile, pids, cni, event, crashes, mode>>

(* c.Sandbox(), unless a stop by this call has loaded it already.           *)
DeleteSandboxLookup(k) ==
    /\ call[k].pc = "sandbox"
    /\ IF call[k].ctr \in call[k].cached \/ Exists(call[k].pod)
         THEN Goto(k, "detach")
         ELSE Return(k, "err")
    /\ UNCHANGED <<profile, ctr, pids, cni, event, crashes, mode>>

\* Mutant: only a network whose result was saved is torn down.
Detach_OnlySaved(k) ==
    /\ call[k].pc = "detach"
    /\ IF profile[call[k].pod].data # 0
         THEN cni' = [cni EXCEPT ![call[k].pod] = {}]
         ELSE UNCHANGED cni
    /\ Goto(k, "delete")
    /\ UNCHANGED <<profile, ctr, pids, event, crashes, mode>>

(* WhenDeleted of the container: CNI tears down the network of the POD.     *)
(* Errors are ignored.                                                      *)
Detach(k) ==
    /\ call[k].pc = "detach"
    /\ \/ /\ mode = "cni"
          /\ cni' = [cni EXCEPT ![call[k].pod] = {}]
       \/ /\ mode # "cni" \/ NetFaults
          /\ UNCHANGED cni
    /\ Goto(k, "delete")
    /\ UNCHANGED <<profile, ctr, pids, event, crashes, mode>>

DeleteDone(k) ==
    /\ call[k].pc = "delete" /\ call[k].todo = {}
    /\ IF call[k].op = "RemoveContainer" THEN Return(k, "ok") ELSE Goto(k, "remove")
    /\ UNCHANGED <<profile, ctr, pids, cni, event, crashes, mode>>

(* Sandbox.Delete: LXD refuses while a container uses the profile.  The     *)
(* pod's own WhenDeleted is a no-op in every plugin.                        *)
SandboxDelete(k) ==
    /\ call[k].pc = "remove"
    /\ LET p == call[k].pod IN
       IF Exists(p) /\ UsedBy(p) # {}
         THEN Return(k, "err") /\ UNCHANGED profile
         ELSE Return(k, "ok") /\ profile' = [profile EXCEPT ![p].state = "deleted"]
    /\ UNCHANGED <<ctr, pids, cni, event, crashes, mode>>

-----------------------------------------------------------------------------
(* CreateContainer: validate() reads the sandbox; host network demands a    *)
(* privileged container.  The sandbox's state is not looked at.             *)
CreateValidate(k) ==
    /\ call[k].pc = "validate"
    /\ \/ Exists(call[k].pod) /\ Goto(k, "lxdcreate")
       \/ (~Exists(call[k].pod) \/ mode = "node") /\ Return(k, "err")
    /\ UNCHANGED <<profile, ctr, pids, cni, event, crashes, mode>>

CreateContainer(k) ==
    /\ call[k].pc = "lxdcreate"
    /\ \/ /\ Exists(call[k].pod)
          /\ ctr' = [ctr EXCEPT ![call[k].ctr] =
                       [st |-> "stopped", pod |-> call[k].pod, pid |-> 0]]
          /\ Goto(k, "created")
       \/ /\ ~Exists(call[k].pod)
          /\ Return(k, "err") /\ UNCHANGED ctr
    /\ UNCHANGED <<profile, pids, cni, event, crashes, mode>>

(* refresh(), then the container's WhenCreated, a no-op in every plugin.    *)
CreateNetwork(k) ==
    /\ call[k].pc = "created"
    /\ \/ Present(call[k].ctr) /\ Return(k, "ok")
       \/ (~Present(call[k].ctr) \/ (NetFaults /\ mode = "cni")) /\ Return(k, "err")
    /\ UNCHANGED <<profile, ctr, pids, cni, event, crashes, mode>>

(* StartContainer: the request.  LXD accepts it for a stopped container...  *)
StartContainer(k) ==
    /\ call[k].pc = "start"
    /\ LET c == call[k].ctr IN
       IF ctr[c].st = "stopped"
         THEN ctr' = [ctr EXCEPT ![c].st = "starting"] /\ Goto(k, "starting")
         ELSE Return(k, "err") /\ UNCHANGED ctr
    /\ UNCHANGED <<profile, pids, cni, event, crashes, mode>>

\* ... and when it has started it, emits its event.
Started(c, pc) ==
    /\ pids < MaxPid
    /\ pids' = pids + 1
    /\ ctr' = [ctr EXCEPT ![c].st = "running", ![c].pid = pids + 1]
    /\ event' = [event EXCEPT ![pids + 1] = [NoEvent EXCEPT !.pc = pc, !.ctr = c]]

StartFailed(c) == ctr' = [ctr EXCEPT ![c].st = "stopped"] /\ UNCHANGED <<pids, event>>

(* op.Wait() of the start request.                                          *)
StartWait(k) ==
    /\ call[k].pc = "starting"
    /\ LET c == call[k].ctr IN
       /\ ctr[c].st = "starting"
       /\ \/ Started(c, "pending") /\ Goto(k, "started")
          \/ StartFailed(c) /\ Return(k, "fault")
    /\ UNCHANGED <<profile, cni, crashes, mode>>

StartRecord(k) ==
    /\ call[k].pc = "started"
    /\ Return(k, IF Present(call[k].ctr) THEN "ok" ELSE "err")
    /\ UNCHANGED <<profile, ctr, pids, cni, event, crashes, mode>>

(* Any request of a call may fail: the call gives up, with what it has done *)
(* so far.  (A loop that is at its end, and a sandbox that is loaded        *)
(* already, make no request.)                                               *)
RequestFails(k) ==
    /\ call[k].pc \in Faulty
    /\ call[k].pc \in {"list", "stop", "delete"} => call[k].todo # {}
    /\ call[k].pc = "sandbox" => call[k].ctr \notin call[k].cached
    /\ Return(k, "fault")
    /\ UNCHANGED <<profile, ctr, pids, cni, event, crashes, mode>>

-----------------------------------------------------------------------------
(* The handler of a container-started event.  LXD's events say which        *)
(* container, not which run: everything else is read again.                 *)
SetEvent(i, r) == event' = [event EXCEPT ![i] = r]
EventGoto(i, pc) == SetEvent(i, [event[i] EXCEPT !.pc = pc])

EventGetContainer(i) ==
    /\ event[i].pc = "pending"
    /\ \/ Present(event[i].ctr) /\ EventGoto(i, "sandbox")
       \/ (~Present(event[i].ctr) \/ NetFaults) /\ EventGoto(i, "done")
    /\ UNCHANGED <<profile, ctr, pids, cni, call, crashes, mode>>

\* Mutant: a sandbox that already has a result is taken to be connected.
EventGetSandbox_Once(i) ==
    /\ event[i].pc = "sandbox"
    /\ LET p == ctr[event[i].ctr].pod IN
       IF Exists(p) /\ profile[p].data = 0
         THEN SetEvent(i, [event[i] EXCEPT !.etag = profile[p], !.pc = "state"])
         ELSE EventGoto(i, "done")
    /\ UNCHANGED <<profile, ctr, pids, cni, call, crashes, mode>>

EventGetSandbox(i) ==
    /\ event[i].pc = "sandbox"
    /\ LET p == ctr[event[i].ctr].pod IN
       \/ /\ Exists(p) /\ mode # "node"
          /\ SetEvent(i, [event[i] EXCEPT !.etag = profile[p], !.pc = "state"])
       \/ /\ ~Exists(p) \/ mode = "node" \/ NetFaults
          /\ EventGoto(i, "done")
    /\ UNCHANGED <<profile, ctr, pids, cni, call, crashes, mode>>

(* c.State() gives the process id; then PodNetwork.  The bridge plugin has  *)
(* nothing to do when a container starts.                                   *)
EventGetState(i) ==
    /\ event[i].pc = "state"
    /\ LET c == event[i].ctr IN
       \/ /\ Present(c) /\ mode = "cni"
          /\ SetEvent(i, [event[i] EXCEPT !.pc = "add",
                            !.pid = IF ctr[c].st = "running" THEN ctr[c].pid ELSE 0])
       \/ /\ ~Present(c) \/ mode # "cni" \/ NetFaults
          /\ EventGoto(i, "done")
    /\ UNCHANGED <<profile, ctr, pids, cni, call, crashes, mode>>

\* Is the process the handler has read the id of still there?
Alive(i) == ctr[event[i].ctr].st = "running" /\ ctr[event[i].ctr].pid = event[i].pid

Attach(i) == /\ cni' = [cni EXCEPT ![ctr[event[i].ctr].pod] = @ \cup {event[i].pid}]
             /\ EventGoto(i, "save")

(* CNI ADD for the pod, into /proc/<pid>/ns/net: fails if that is gone.     *)
EventAdd(i) ==
    /\ event[i].pc = "add"
    /\ \/ Alive(i) /\ ~SlowAdd /\ Attach(i)
       \/ Alive(i) /\ SlowAdd /\ EventGoto(i, "adding") /\ UNCHANGED cni
       \/ (~Alive(i) \/ NetFaults) /\ EventGoto(i, "done") /\ UNCHANGED cni
    /\ UNCHANGED <<profile, ctr, pids, call, crashes, mode>>

(* The end of an ADD that took its time (up to 30 seconds): it may succeed  *)
(* in a namespace whose process has ended meanwhile.                        *)
EventAdded(i) ==
    /\ event[i].pc = "adding"
    /\ \/ Attach(i)
       \/ (~Alive(i) \/ NetFaults) /\ EventGoto(i, "done") /\ UNCHANGED cni
    /\ UNCHANGED <<profile, ctr, pids, call, crashes, mode>>

\* Mutant: the result is saved without regard to the ETag.
EventSave_NoETag(i) ==
    /\ event[i].pc = "save"
    /\ LET p == ctr[event[i].ctr].pod IN
       IF Exists(p)
         THEN profile' = [profile EXCEPT ![p] = [event[i].etag EXCEPT !.data = event[i].pid]]
         ELSE UNCHANGED profile
    /\ EventGoto(i, "done")
    /\ UNCHANGED <<ctr, pids, cni, call, crashes, mode>>

(* handleNetworkResult: the sandbox as read, with the result, replaces the  *)
(* profile if the ETag matches; otherwise the result is lost (and logged).  *)
EventSave(i) ==
    /\ event[i].pc = "save"
    /\ LET p == ctr[event[i].ctr].pod IN
       IF Exists(p) /\ event[i].etag = profile[p]
         THEN profile' = [profile EXCEPT ![p] = [event[i].etag EXCEPT !.data = event[i].pid]]
         ELSE UNCHANGED profile
    /\ EventGoto(i, "done")
    /\ UNCHANGED <<ctr, pids, cni, call, crashes, mode>>

-----------------------------------------------------------------------------
(* The environment: a container ends by itself; LXD carries on with a start *)
(* nobody waits for any more, and lxe may miss the event of it if it had to *)
(* start again itself; lxe dies, and with it its calls and the events it    *)
(* has not handled.                                                         *)
ContainerExits(c) ==
    /\ SelfExit /\ ctr[c].st = "running"
    /\ ctr' = [ctr EXCEPT ![c].st = "stopped"]
    /\ UNCHANGED <<profile, pids, cni, call, event, crashes, mode>>

StartGoesOn(c) ==
    /\ ctr[c].st = "starting"
    /\ \A k \in Callers : ~(call[k].pc = "starting" /\ call[k].ctr = c)
    /\ \/ Started(c, "pending")
       \/ crashes > 0 /\ Started(c, "done")
       \/ StartFailed(c)
    /\ UNCHANGED <<profile, cni, call, crashes, mode>>

Crash ==
    /\ crashes < MaxCrashes
    /\ crashes' = crashes + 1
    /\ call' = [k \in Callers |-> NoCall]
    /\ event' = [i \in Pids |-> IF event[i].pc = "none" THEN NoEvent
                                ELSE [event[i] EXCEPT !.pc = "done"]]
    /\ UNCHANGED <<profile, ctr, pids, cni, mode>>

-----------------------------------------------------------------------------
Arrive(k) == \/ \E p \in Pods : BeginRun(k, p)
             \/ \E p \in Pods, op \in PodOps : BeginPod(k, op, p)
             \/ \E p \in Pods, c \in Containers : BeginCreate(k, p, c)
             \/ \E c \in Containers, op \in CtrOps : BeginContainer(k, op, c)

Step(k) == \/ RunCreate(k)           \/ RunRefresh(k)
           \/ RunNetwork(k)          \/ RunSave(k)
           \/ RunSaved(k)            \/ GetSandbox(k)
           \/ ListContainers(k)      \/ GetContainer(k)
           \/ StopContainer(k)       \/ StopRecord(k)
           \/ StopDone(k)            \/ SandboxStop(k)
           \/ DeleteContainer(k)     \/ DeleteSandboxLookup(k)
           \/ Detach(k)              \/ DeleteDone(k)
           \/ SandboxDelete(k)       \/ CreateValidate(k)
           \/ CreateContainer(k)     \/ CreateNetwork(k)
           \/ StartContainer(k)      \/ StartWait(k)
           \/ StartRecord(k)         \/ RequestFails(k)

Handle(i) == \/ EventGetContainer(i) \/ EventGetSandbox(i)
             \/ EventGetState(i)     \/ EventAdd(i)
             \/ EventAdded(i)        \/ EventSave(i)

Next == \/ \E k \in Callers : Arrive(k) \/ Step(k)
        \/ \E i \in Pids : Handle(i)
        \/ \E c \in Containers : ContainerExits(c) \/ StartGoesOn(c)
        \/ Crash

Spec == Init /\ [][Next]_vars

\* Goroutines keep running, and LXD and the CNI plugins answer (CNI within
\* NetworkSetupTimeout): a call or a handler that can take a step does.
FairSpec == /\ Spec
            /\ \A k \in Callers : WF_vars(Step(k))
            /\ \A i \in Pids : WF_vars(Handle(i))

-----------------------------------------------------------------------------
(* Properties.                                                              *)

TypeOK == /\ profile \in [Pods -> Profile]
          /\ ctr \in [Containers -> Ctr]
          /\ pids \in 0 .. MaxPid
          /\ cni \in [Pods -> SUBSET Pids]
          /\ call \in [Callers -> Call]
          /\ event \in [Pids -> Event]
          /\ crashes \in 0 .. MaxCrashes
          /\ mode \in Modes

Quiet(p) == \A k \in Callers : Active(k) => call[k].pod # p

Runs(i) == \E c \in Containers : ctr[c].st = "running" /\ ctr[c].pid = i

Returns(k, op, res) ==
    /\ call[k].op = op /\ Active(k)
    /\ ~Active(k)' /\ call'[k].op = op /\ call'[k].res = res

\* A sandbox that StopPodSandbox made notready never becomes ready again,
\* although event handlers that read it while it was ready may still save it
\* (the ETag check of UpdateProfile).  Not promised with the bridge plugin:
\* there RunPodSandbox presents a fresh ETag for the sandbox it built before.
NotReadyFinal ==
    [][\A p \in Pods : (mode # "bridged" /\ profile[p].state = "notready") =>
         profile'[p].state \in {"notready", "deleted"}]_vars

\* The address or CNI result saved in the sandbox (its ModeData) is never
\* dropped again, although whole sandboxes are written back from snapshots taken
\* before it was known (StopPodSandbox against RunPodSandbox or a handler).
ResultKept ==
    [][\A p \in Pods : profile[p].data # 0 => profile'[p].data # 0]_vars

\* The network a pod got from CNI is given back: when the sandbox is removed
\* and no call about it is in progress, nothing is allocated, although the
\* tear-down is tied to containers and a started event may be handled late.
NoNetworkLeak ==
    \A p \in Pods : (profile[p].state = "deleted" /\ Quiet(p)) => cni[p] = {}

\* The first half of runtime.go:280 "StopPodSandbox stops any running process
\* that is part of the sandbox": none runs, or is being started, when the call
\* reports success.  (The other half is StopReclaimsNetwork.)
StopPodStopsAll ==
    [][\A k \in Callers : Returns(k, "StopPodSandbox", "ok") =>
         \A c \in Containers : ctr[c].pod = call[k].pod => ~Busy(c)']_vars

\* When nothing else is done about the pod, RemovePodSandbox fails only if one
\* of its requests fails by itself: no container is missing from LXD when it is
\* listed, runs when it is deleted or is left when the profile goes, whichever
\* earlier calls were broken off halfway and although containers end by
\* themselves and handlers are still at work.
RemoveNeverRefused ==
    [][\A k \in Callers : ~Returns(k, "RemovePodSandbox", "err")]_vars

\* runtime.go:280-281 "reclaims network resources (e.g. IP addresses) allocated
\* to the sandbox": none is left when StopPodSandbox reports success.
StopReclaimsNetwork ==
    [][\A k \in Callers : Returns(k, "StopPodSandbox", "ok") => cni'[call[k].pod] = {}]_vars

\* Once its started event is handled, a running container has the network of
\* its pod (README.md:59), however events and calls interleave, as long as no
\* other container of the pod has been removed: WhenDeleted of a container
\* tears down the network of the whole pod (cni.go:269).
StartedHasNetwork ==
    \A c \in Containers :
        (mode = "cni" /\ ctr[c].st = "running" /\ event[ctr[c].pid].pc = "done") =>
            \/ ctr[c].pid \in cni[ctr[c].pod]
            \/ \E d \in Containers : ctr[d].st = "deleted" /\ ctr[d].pod = ctr[c].pod

\* The handler of a started event never ends before CNI has attached the run
\* the event is about, if that run still lasts: each of its reads (container,
\* sandbox, process id) is of a later moment than the event, and all of them
\* still lead to this run (lxf_container.go:224, runtime_helpers.go:269).
LastingRunAttached ==
    [][\A c \in Containers :
         (/\ mode = "cni" /\ ctr[c].st = "running" /\ UNCHANGED crashes
          /\ event[ctr[c].pid].pc \notin {"save", "done"}
          /\ event'[ctr[c].pid].pc \in {"save", "done"})
             => ctr[c].pid \in cni'[ctr[c].pod]]_vars

\* Every run that lasts gets connected: from its start on, the handler of its
\* event reaches CNI whatever calls and other handlers do.
NetworkArrives ==
    \A i \in Pids : (Runs(i) /\ event[i].pc = "pending")
                    ~> (~Runs(i) \/ \E p \in Pods : i \in cni[p])
=============================================================================
