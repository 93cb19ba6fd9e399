------------------------------ MODULE PodNetwork ------------------------------
(***************************************************************************)
(* Which network a pod gets, and gives back: the two network plugins of    *)
(* network/, chosen when lxe starts (cri/server.go), and the calls that    *)
(* reach them.                                                             *)
(*                                                                         *)
(* The bridge plugin picks an address for the pod from a subnet and leases *)
(* it read before; the CNI plugin looks up the network to use in a         *)
(* directory, again for every call.  Between two of these reads the node   *)
(* changes: other pods are created, the administrator edits the directory, *)
(* lxe is restarted with other flags, the kubelet updates the pod range.   *)
(*                                                                         *)
(* A pod has one container at a time (the plugins treat pod and container  *)
(* alike).  How calls about one pod and their saves interleave is          *)
(* PodRuntime's subject; here each of them is one action, except           *)
(* RunPodSandbox, whose requests to LXD are separate actions.              *)
(***************************************************************************)
EXTENDS Naturals, FiniteSets, IPRange

CONSTANTS
    Pods,         \* identifiers; each names at most one pod
    Files,        \* names in the CNI configuration directory: numbers, in sort order
    Networks,     \* CNI networks a file may describe
    Subnets,      \* the ranges lxe may be configured with: [net, size]
    Bridges,      \* LXD networks an administrator may have made before lxe
    Directories,  \* what the CNI configuration directory may hold at first
    Foreign,      \* leases of instances on the bridge that are not lxe's
    MaxRestarts,  \* bound: how often lxe is started again
    MaxEdits      \* bound: changes of the directory, of the range, of the bridge

\* A prefix of at most 24 bits is a whole number of 256-address blocks.
SizeOk(n) == n \in {1, 2, 4, 8, 16, 32, 64, 128} \/ (n > 0 /\ n % 256 = 0)

ASSUME FilesAssumption   == Files \subseteq Nat
ASSUME SubnetsAssumption == \A s \in Subnets : /\ s.net \in Nat /\ s.size \in Nat
                                               /\ SizeOk(s.size) /\ s.net % s.size = 0
ASSUME BridgesAssumption ==
    \A b \in Bridges : /\ b = [ip |-> b.ip, size |-> b.size, type |-> b.type, ranges |-> b.ranges]
                       /\ b.ip \in Nat /\ b.size \in Nat /\ SizeOk(b.size)
                       /\ b.type \in {"bridge", "physical"} /\ b.ranges \in BOOLEAN
ASSUME NetworksAssumption == {"absent", "invalid"} \cap Networks = {}
ASSUME DirsAssumption    == Directories \subseteq [Files -> {"absent", "invalid"} \cup Networks]
ASSUME ForeignAssumption == Foreign \subseteq Nat
ASSUME LimitsAssumption  == MaxRestarts \in Nat /\ MaxEdits \in Nat

VARIABLES
    plugin,    \* of the running lxe: "bridge" or "cni"; "none" when it is down
    bridge,    \* LXD's network lxebr0
    dir,       \* the CNI configuration directory: what each file holds
    profile,   \* per pod: the sandbox, and whether its network is managed
    addr,      \* per pod: the address of the nic in its profile
    ctr,       \* per pod: its container
    cni,       \* the attachments CNI holds: <<network, pod>>
    call,      \* per pod: RunPodSandbox in progress
    restarts, edits,
    unseen,    \* history: per pod, the pods without a lease when it read the leases
    moved      \* history: pods that were attached while the choice of network changed

vars == <<plugin, bridge, dir, profile, addr, ctr, cni, call,
          restarts, edits, unseen, moved>>

NoIP      == 0       \* 0.0.0.0
NoBridge  == [ip |-> 0, size |-> 1, type |-> "none", ranges |-> FALSE]
AutoCidr  == [net |-> 0, size |-> 0]       \* no Cidr: LXD chooses one
NoCall    == [pc |-> "idle", net |-> 0, size |-> 1, leases |-> {}, ip |-> NoIP]

Init == /\ plugin = "none"
        /\ bridge \in Bridges \cup {NoBridge}
        /\ dir \in Directories
        /\ profile = [p \in Pods |-> "absent"]
        /\ addr = [p \in Pods |-> NoIP]
        /\ ctr = [p \in Pods |-> "none"]
        /\ cni = {}
        /\ call = [p \in Pods |-> NoCall]
        /\ restarts = 0 /\ edits = 0
        /\ unseen = [p \in Pods |-> {}]
        /\ moved = {}

-----------------------------------------------------------------------------
(* The plugins.                                                             *)

\* Mutant: a file that cannot be loaded ends the search.
GetCNINetworkConfig_FirstFile(d) ==
    LET present == {f \in Files : d[f] # "absent"}
        first   == {f \in present : \A g \in present : f <= g}
    IN  {d[f] : f \in first} \cap Networks

\* Mutant: without a network an empty list is returned instead of the error.
GetCNINetworkConfig_NoError(d) ==
    LET valid == {f \in Files : d[f] \in Networks}
    IN  IF valid = {} THEN {"absent"} ELSE {d[f] : f \in {g \in valid : \A h \in valid : g <= h}}

(* getCNINetworkConfig: the network of the first file in sort order that    *)
(* loads and names a plugin; no element is the error ErrNoNetworksFound.    *)
GetCNINetworkConfig(d) ==
    LET valid == {f \in Files : d[f] \in Networks}
    IN  {d[f] : f \in {g \in valid : \A h \in valid : g <= h}}

\* The bridge as CreateNetwork makes it: the first address is the bridge's.
CreateNetwork(s) ==
    [ip |-> LastByteAdd(s.net, 1), size |-> s.size, type |-> "bridge", ranges |-> FALSE]

\* Mutant: CreateOnly is ignored, and an existing bridge is updated.
EnsureBridge_Updates(c) ==
    IF bridge # NoBridge /\ bridge.type # "bridge"
      THEN {}
      ELSE {CreateNetwork(s) : s \in IF c = AutoCidr THEN Subnets ELSE {c}}

(* ensureBridge, with the CreateOnly that NewServer sets: the bridges that  *)
(* may result, or none if the network is not a bridge.  GetNetwork and      *)
(* CreateNetwork are one step: nobody else creates the bridge.              *)
EnsureBridge(c) ==
    CASE bridge = NoBridge      -> {CreateNetwork(s) : s \in IF c = AutoCidr THEN Subnets ELSE {c}}
      [] bridge.type = "bridge" -> {bridge}
      [] OTHER                  -> {}

\* The pods that were attached when the choice of network changes.
Moved == moved \cup {p \in Pods : \E n \in Networks : <<n, p>> \in cni}

-----------------------------------------------------------------------------
(* NewServer: the plugin the flags select.  A Fatal is a start that does    *)
(* not happen.                                                              *)
StartLXE(pl, c) ==
    /\ plugin = "none"
    /\ plugin' = pl
    /\ \/ pl = "cni" /\ UNCHANGED <<bridge, moved>>
       \/ pl = "bridge" /\ bridge' \in EnsureBridge(c) /\ moved' = Moved
    /\ UNCHANGED <<dir, profile, addr, ctr, cni, call, restarts, edits, unseen>>

\* lxe ends: its calls, and the events it has not handled, are lost.
StopLXE ==
    /\ plugin # "none" /\ restarts < MaxRestarts
    /\ restarts' = restarts + 1
    /\ plugin' = "none"
    /\ call' = [p \in Pods |-> NoCall]
    /\ ctr' = [p \in Pods |-> IF ctr[p] = "started" THEN "running" ELSE ctr[p]]
    /\ UNCHANGED <<bridge, dir, profile, addr, cni, edits, unseen, moved>>

(* UpdateRuntimeConfig: the range, stored in conf.Cidr, is read only by the *)
(* ensureBridge that follows, which may fail.  An empty one is ignored; the *)
(* CNI plugin only returns an error.                                        *)
UpdateRuntimeConfig(c) ==
    /\ plugin = "bridge" /\ edits < MaxEdits
    /\ edits' = edits + 1
    /\ bridge' \in EnsureBridge(c) \cup {bridge}
    /\ UNCHANGED <<plugin, dir, profile, addr, ctr, cni, call, restarts, unseen, moved>>

\* The administrator edits the directory: a file comes, goes, breaks, or
\* describes another network than before.
EditDir(f, content) ==
    /\ edits < MaxEdits /\ dir[f] # content
    /\ edits' = edits + 1
    /\ dir' = [dir EXCEPT ![f] = content]
    /\ LET Choice(d) == {d[g] : g \in {e \in Files : /\ d[e] \in Networks
                                                     /\ \A h \in Files : h < e => d[h] \notin Networks}}
       IN  moved' = IF Choice(dir') = Choice(dir) THEN moved ELSE Moved
    /\ UNCHANGED <<plugin, bridge, profile, addr, ctr, cni, call, restarts, unseen>>

\* The administrator removes the bridge, which LXD allows while no profile
\* uses it, when the node is idle.
RemoveBridge ==
    /\ edits < MaxEdits /\ bridge # NoBridge
    /\ \A p \in Pods : addr[p] = NoIP /\ call[p] = NoCall
    /\ edits' = edits + 1
    /\ bridge' = NoBridge
    /\ UNCHANGED <<plugin, dir, profile, addr, ctr, cni, call, restarts, unseen, moved>>

-----------------------------------------------------------------------------
(* RunPodSandbox.                                                           *)
Set(p, r) == call' = [call EXCEPT ![p] = r]

\* Apply() creates the profile.  With host network that is all.
RunPodSandbox(p, host) ==
    /\ plugin # "none" /\ profile[p] = "absent"
    /\ profile' = [profile EXCEPT ![p] = IF host THEN "node" ELSE "managed"]
    /\ Set(p, IF host THEN NoCall ELSE [NoCall EXCEPT !.pc = "network"])
    /\ UNCHANGED <<plugin, bridge, dir, addr, ctr, cni, restarts, edits, unseen, moved>>

(* PodNetwork and, for the bridge, findFreeIP's GetNetwork.                 *)
GetNetwork(p) ==
    /\ call[p].pc = "network"
    /\ Set(p, IF plugin = "bridge" /\ bridge # NoBridge /\ ~bridge.ranges
                THEN [call[p] EXCEPT !.pc = "leases", !.ip = bridge.ip,
                        !.net = NetworkIP(bridge.ip, bridge.size), !.size = bridge.size]
                ELSE NoCall)
    /\ UNCHANGED <<plugin, bridge, dir, profile, addr, ctr, cni, restarts, edits, unseen, moved>>

\* LXD lists the static address of every container, and the foreign leases.
HasLease(p) == addr[p] # NoIP /\ ctr[p] # "none"

\* Mutant: only running containers are taken to hold their lease.
GetNetworkLeases_Running(p) ==
    /\ call[p].pc = "leases"
    /\ \E others \in SUBSET Foreign :
         Set(p, [call[p] EXCEPT !.pc = "trial", !.ip = NoIP,
                   !.leases = {addr[q] : q \in {r \in Pods : addr[r] # NoIP /\ ctr[r] = "running"}}
                              \cup others \cup {call[p].ip}])
    /\ unseen' = [unseen EXCEPT ![p] = {q \in Pods : ~HasLease(q)}]
    /\ UNCHANGED <<plugin, bridge, dir, profile, addr, ctr, cni, restarts, edits, moved>>

(* GetNetworkLeases; the bridge's own address is excluded too.              *)
GetNetworkLeases(p) ==
    /\ call[p].pc = "leases"
    /\ \E others \in SUBSET Foreign :
         Set(p, [call[p] EXCEPT !.pc = "trial", !.ip = NoIP,
                   !.leases = {addr[q] : q \in {r \in Pods : HasLease(r)}}
                              \cup others \cup {call[p].ip}])
    /\ unseen' = [unseen EXCEPT ![p] = {q \in Pods : ~HasLease(q)}]
    /\ UNCHANGED <<plugin, bridge, dir, profile, addr, ctr, cni, restarts, edits, moved>>

(* FindFreeIP: trials that fail change nothing; one that fits ends the loop. *)
(* Without any that fits the loop never ends, and nothing cancels it.       *)
Trial(p) ==
    /\ call[p].pc = "trial"
    /\ \E ip \in FindFreeIP(call[p].net, call[p].size, call[p].leases) :
         Set(p, [call[p] EXCEPT !.pc = "save", !.ip = ip])
    /\ UNCHANGED <<plugin, bridge, dir, profile, addr, ctr, cni, restarts, edits, unseen, moved>>

(* handleNetworkResult: the nic with the address goes into the profile, if  *)
(* that is still there.                                                     *)
Save(p) ==
    /\ call[p].pc = "save"
    /\ addr' = [addr EXCEPT ![p] = IF profile[p] = "managed" THEN call[p].ip ELSE NoIP]
    /\ Set(p, NoCall)
    /\ UNCHANGED <<plugin, bridge, dir, profile, ctr, cni, restarts, edits, unseen, moved>>

(* A request of the call fails: the error is returned and the profile stays. *)
RunFails(p) ==
    /\ call[p].pc \in {"network", "leases", "save"}
    /\ Set(p, NoCall)
    /\ UNCHANGED <<plugin, bridge, dir, profile, addr, ctr, cni, restarts, edits, unseen, moved>>

-----------------------------------------------------------------------------
(* The container of the pod.                                                *)
CreateContainer(p) ==
    /\ plugin # "none" /\ profile[p] \in {"node", "managed"} /\ ctr[p] = "none"
    /\ ctr' = [ctr EXCEPT ![p] = "stopped"]
    /\ UNCHANGED <<plugin, bridge, dir, profile, addr, cni, call, restarts, edits, unseen, moved>>

StartContainer(p) ==
    /\ plugin # "none" /\ ctr[p] = "stopped"
    /\ ctr' = [ctr EXCEPT ![p] = "started"]
    /\ UNCHANGED <<plugin, bridge, dir, profile, addr, cni, call, restarts, edits, unseen, moved>>

(* ContainerStarted, the handler of LXD's event, and WhenStarted of CNI:    *)
(* the network list chosen now is added.  It may fail.                      *)
ContainerStarted(p) ==
    /\ ctr[p] = "started"
    /\ ctr' = [ctr EXCEPT ![p] = "running"]
    /\ \/ UNCHANGED cni
       \/ /\ plugin = "cni" /\ profile[p] = "managed"
          /\ \E n \in GetCNINetworkConfig(dir) : cni' = cni \cup {<<n, p>>}
    /\ UNCHANGED <<plugin, bridge, dir, profile, addr, call, restarts, edits, unseen, moved>>

StopContainer(p) ==
    /\ ctr[p] = "running"
    /\ ctr' = [ctr EXCEPT ![p] = "stopped"]
    /\ UNCHANGED <<plugin, bridge, dir, profile, addr, cni, call, restarts, edits, unseen, moved>>

\* Mutant: the network is torn down when the pod goes, not the container.
DeleteContainer_PodsTask(p) ==
    /\ plugin # "none" /\ ctr[p] = "stopped"
    /\ ctr' = [ctr EXCEPT ![p] = "none"]
    /\ UNCHANGED <<plugin, bridge, dir, profile, addr, cni, call, restarts, edits, unseen, moved>>

(* deleteContainer, and WhenDeleted of CNI: the network list chosen now is  *)
(* deleted; without one, nothing is, and nobody is told.                    *)
DeleteContainer(p) ==
    /\ plugin # "none" /\ ctr[p] = "stopped"
    /\ ctr' = [ctr EXCEPT ![p] = "none"]
    /\ IF plugin = "cni" /\ profile[p] = "managed"
         THEN cni' = cni \ (GetCNINetworkConfig(dir) \X {p})
         ELSE UNCHANGED cni
    /\ UNCHANGED <<plugin, bridge, dir, profile, addr, call, restarts, edits, unseen, moved>>

(* The end of RemovePodSandbox.  The pod's WhenDeleted is a no-op.          *)
RemovePodSandbox(p) ==
    /\ plugin # "none" /\ profile[p] \in {"node", "managed"} /\ ctr[p] = "none"
    /\ profile' = [profile EXCEPT ![p] = "deleted"]
    /\ addr' = [addr EXCEPT ![p] = NoIP]
    /\ UNCHANGED <<plugin, bridge, dir, ctr, cni, call, restarts, edits, unseen, moved>>

-----------------------------------------------------------------------------
Step(p) == \/ GetNetwork(p) \/ GetNetworkLeases(p) \/ Trial(p)
           \/ Save(p)       \/ RunFails(p)

Node == \/ \E pl \in {"bridge", "cni"}, c \in Subnets \cup {AutoCidr} : StartLXE(pl, c)
        \/ StopLXE
        \/ \E c \in Subnets : UpdateRuntimeConfig(c)
        \/ \E f \in Files, content \in {"absent", "invalid"} \cup Networks : EditDir(f, content)
        \/ RemoveBridge

Pod(p) == \/ \E host \in BOOLEAN : RunPodSandbox(p, host)
          \/ Step(p)
          \/ CreateContainer(p)  \/ StartContainer(p)
          \/ ContainerStarted(p) \/ StopContainer(p)
          \/ DeleteContainer(p)  \/ RemovePodSandbox(p)

Next == Node \/ \E p \in Pods : Pod(p)

Spec == Init /\ [][Next]_vars

\* The goroutine of a call keeps running, LXD answers, and a random generator
\* that keeps drawing from the subnet some time draws an address that fits.
FairSpec == Spec /\ \A p \in Pods : WF_vars(Step(p))

-----------------------------------------------------------------------------
TypeOK == /\ plugin \in {"none", "bridge", "cni"}
          /\ bridge \in [ip : Nat, size : Nat, type : {"none", "bridge", "physical"},
                         ranges : BOOLEAN]
          /\ dir \in [Files -> {"absent", "invalid"} \cup Networks]
          /\ profile \in [Pods -> {"absent", "node", "managed", "deleted"}]
          /\ addr \in [Pods -> Nat]
          /\ ctr \in [Pods -> {"none", "stopped", "started", "running"}]
          /\ cni \subseteq Networks \X Pods
          /\ call \in [Pods -> [pc : {"idle", "network", "leases", "trial", "save"},
                                net : Nat, size : Nat, leases : SUBSET Nat, ip : Nat]]
          /\ restarts \in 0 .. MaxRestarts /\ edits \in 0 .. MaxEdits
          /\ unseen \in [Pods -> SUBSET Pods]
          /\ moved \subseteq Pods

\* The address in a pod's profile is a host address of the bridge there is,
\* and not the bridge's own, although the subnet was read some requests
\* before it was saved, and ranges change with every restart and every
\* UpdateRuntimeConfig: an existing bridge keeps its subnet (CreateOnly).
AddressUsable ==
    \A p \in Pods : addr[p] # NoIP =>
        /\ addr[p] \in Hosts(NetworkIP(bridge.ip, bridge.size), bridge.size)
        /\ addr[p] # bridge.ip

\* lxdbridge.go:142 "which does not exist in the current leases".  An address
\* stored in a profile becomes a lease only with the pod's container, so two
\* pods may get the same one; but only if each read the leases while the other
\* had no address or no container yet, never later.
SharedOnlyUnseen ==
    \A p, q \in Pods : (p # q /\ addr[p] # NoIP /\ addr[p] = addr[q]) =>
        p \in unseen[q] /\ q \in unseen[p]

\* When a pod has no container, CNI holds nothing for it any more, unless the
\* network to use changed while it was attached: the first valid file became
\* another or describes another network now, or lxe was restarted with the
\* bridge plugin.  Any other restart, files that do not load, edits behind the
\* first valid file and its renaming do no harm.
DetachedUnlessMoved ==
    \A p \in Pods : (ctr[p] = "none" /\ p \notin moved) =>
        \A n \in Networks : <<n, p>> \notin cni

\* FindFreeIP ends whenever some host address was free in the leases it got.
SearchEnds ==
    \A p \in Pods :
        (call[p].pc = "trial" /\ Hosts(call[p].net, call[p].size) \ call[p].leases # {})
            ~> call[p].pc # "trial"
=============================================================================
