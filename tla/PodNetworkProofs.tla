-------------------------- MODULE PodNetworkProofs --------------------------
(***************************************************************************)
(* What holds of the pod networks for any pods, files, subnets, bridges    *)
(* and bounds: the address search offers exactly the free hosts, addresses *)
(* stay usable, are shared only by pods that could not see each other, and *)
(* CNI networks are given back.                                            *)
(***************************************************************************)
EXTENDS PodNetwork, TLAPS

-----------------------------------------------------------------------------
(* The search for an address.                                               *)

\* The last byte of an address that starts a subnet leaves room for the rest
\* of the subnet, and that of the broadcast address for one host before it.
LEMMA LastBytes ==
    ASSUME NEW net \in Nat, NEW size \in Nat, SizeOk(size), size >= 4, net % size = 0
    PROVE  /\ DefaultStart(net) = net + 1
           /\ DefaultEnd(net, size) = net + size - 2
  <1>1. CASE size \in {4, 8, 16, 32, 64, 128}
    <2>1. CASE size = 4
      BY <2>1 DEF DefaultStart, DefaultEnd, LastByteAdd, BroadcastIP
    <2>2. CASE size = 8
      BY <2>2 DEF DefaultStart, DefaultEnd, LastByteAdd, BroadcastIP
    <2>3. CASE size = 16
      BY <2>3 DEF DefaultStart, DefaultEnd, LastByteAdd, BroadcastIP
    <2>4. CASE size = 32
      BY <2>4 DEF DefaultStart, DefaultEnd, LastByteAdd, BroadcastIP
    <2>5. CASE size = 64
      BY <2>5 DEF DefaultStart, DefaultEnd, LastByteAdd, BroadcastIP
    <2>6. CASE size = 128
      BY <2>6 DEF DefaultStart, DefaultEnd, LastByteAdd, BroadcastIP
    <2> QED BY <1>1, <2>1, <2>2, <2>3, <2>4, <2>5, <2>6
  <1>2. CASE size % 256 = 0
    <2>1. net % 256 = 0
      <3>1. PICK m \in Nat : size = 256 * m
        BY <1>2
      <3>2. PICK n \in Nat : net = size * n
        OBVIOUS
      <3>3. m * n \in Nat /\ net = 256 * (m * n)
        BY <3>1, <3>2
      <3> QED BY <3>3
    <2> QED BY <1>2, <2>1 DEF DefaultStart, DefaultEnd, LastByteAdd, BroadcastIP
  <1> QED BY <1>1, <1>2 DEF SizeOk

\* For every subnet of at least four addresses the trials of FindFreeIP can
\* end with every host address that is not leased, and with no other.
THEOREM SearchIsExact ==
    ASSUME NEW net \in Nat, NEW size \in Nat, NEW leases,
           SizeOk(size), size >= 4, net % size = 0
    PROVE  FindFreeIP(net, size, leases) = Hosts(net, size) \ leases
  <1>1. /\ DefaultStart(net) = net + 1
        /\ DefaultEnd(net, size) = net + size - 2
    BY LastBytes
  <1> QED BY <1>1 DEF FindFreeIP, Hosts, BroadcastIP

\* In a subnet of one or two addresses it can end with none: the loop of
\* FindFreeIP never ends there.
THEOREM TinySubnetsHaveNone ==
    ASSUME NEW net \in Nat, NEW size \in {1, 2}, NEW leases
    PROVE  FindFreeIP(net, size, leases) = {}
  BY DEF FindFreeIP, BroadcastIP

-----------------------------------------------------------------------------
(* Types.                                                                   *)

LEMMA ModBound ==
    ASSUME NEW a \in Nat, NEW b \in Nat, b > 0
    PROVE  a - (a % b) \in Nat
  <1>1. a % b \in Nat /\ a % b < b
    OBVIOUS
  <1>2. CASE a < b
    <2>1. a % b = a
      BY <1>2
    <2> QED BY <2>1
  <1>3. CASE a >= b
    BY <1>1, <1>3
  <1> QED BY <1>2, <1>3

BridgeSet == [ip : Nat, size : Nat \ {0}, type : {"none", "bridge", "physical"},
              ranges : BOOLEAN]

CallSet == [pc : {"idle", "network", "leases", "trial", "save"},
            net : Nat, size : Nat, leases : SUBSET Nat, ip : Nat]

\* The type invariant, with bridges that have at least one address.
Types == TypeOK /\ bridge \in BridgeSet

LEMMA CreateType ==
    ASSUME NEW s \in Subnets
    PROVE  CreateNetwork(s) \in BridgeSet /\ CreateNetwork(s).type = "bridge"
  <1>1. s.net \in Nat /\ s.size \in Nat /\ s.size > 0
    BY SubnetsAssumption DEF SizeOk
  <1>2. LastByteAdd(s.net, 1) \in Nat
    BY <1>1 DEF LastByteAdd
  <1> QED BY <1>1, <1>2 DEF CreateNetwork, BridgeSet

LEMMA BridgesShape ==
    ASSUME NEW b \in Bridges \cup {NoBridge}
    PROVE  b \in BridgeSet
  <1>1. CASE b = NoBridge
    BY <1>1 DEF NoBridge, BridgeSet
  <1>2. CASE b \in Bridges
    <2>1. b.ip \in Nat /\ b.size \in Nat /\ b.size > 0
      BY <1>2, BridgesAssumption DEF SizeOk
    <2>2. b = [ip |-> b.ip, size |-> b.size, type |-> b.type, ranges |-> b.ranges]
      BY <1>2, BridgesAssumption
    <2> QED BY <1>2, <2>1, <2>2, BridgesAssumption DEF BridgeSet
  <1> QED BY <1>1, <1>2

LEMMA EnsureType ==
    ASSUME Types, NEW c \in Subnets \cup {AutoCidr}, NEW b \in EnsureBridge(c)
    PROVE  b \in BridgeSet /\ (bridge # NoBridge => b = bridge)
  <1>1. CASE bridge = NoBridge
    <2>1. PICK s \in Subnets : b = CreateNetwork(s)
      <3>1. b \in {CreateNetwork(s) : s \in IF c = AutoCidr THEN Subnets ELSE {c}}
        BY <1>1 DEF EnsureBridge, NoBridge
      <3> QED BY <3>1
    <2> QED BY <1>1, <2>1, CreateType
  <1>2. CASE bridge # NoBridge
    BY <1>2 DEF EnsureBridge, Types
  <1> QED BY <1>1, <1>2

LEMMA InitTypes == Init => Types
  <1> SUFFICES ASSUME Init PROVE Types
    OBVIOUS
  <1>1. bridge \in BridgeSet
    BY BridgesShape DEF Init
  <1>2. NoCall \in CallSet
    BY DEF NoCall, CallSet, NoIP
  <1>3. 0 \in 0 .. MaxRestarts /\ 0 \in 0 .. MaxEdits
    BY LimitsAssumption
  <1> QED BY <1>1, <1>2, <1>3, DirsAssumption DEF Init, Types, TypeOK, CallSet, BridgeSet, NoIP

LEMMA NodeTypes == Types /\ Node => Types'
  <1> SUFFICES ASSUME Types, Node PROVE Types'
    OBVIOUS
  <1> USE DEF Types, TypeOK
  <1>1. ASSUME NEW pl \in {"bridge", "cni"}, NEW c \in Subnets \cup {AutoCidr}, StartLXE(pl, c)
        PROVE  Types'
    <2>1. bridge' \in BridgeSet
      BY <1>1, EnsureType DEF StartLXE
    <2>2. moved' \subseteq Pods
      BY <1>1 DEF StartLXE, Moved
    <2> QED BY <1>1, <2>1, <2>2 DEF StartLXE, BridgeSet
  <1>2. CASE StopLXE
    <2>1. restarts' \in 0 .. MaxRestarts
      BY <1>2, LimitsAssumption DEF StopLXE
    <2>2. call' \in [Pods -> CallSet]
      BY <1>2 DEF StopLXE, NoCall, CallSet, NoIP
    <2>3. ctr' \in [Pods -> {"none", "stopped", "started", "running"}]
      BY <1>2 DEF StopLXE
    <2> QED BY <1>2, <2>1, <2>2, <2>3 DEF StopLXE, CallSet
  <1>3. ASSUME NEW c \in Subnets, UpdateRuntimeConfig(c)
        PROVE  Types'
    <2>1. bridge' \in BridgeSet
      BY <1>3, EnsureType DEF UpdateRuntimeConfig
    <2>2. edits' \in 0 .. MaxEdits
      BY <1>3, LimitsAssumption DEF UpdateRuntimeConfig
    <2> QED BY <1>3, <2>1, <2>2 DEF UpdateRuntimeConfig, BridgeSet
  <1>4. ASSUME NEW f \in Files, NEW content \in {"absent", "invalid"} \cup Networks, EditDir(f, content)
        PROVE  Types'
    <2>1. moved' \subseteq Pods
      BY <1>4 DEF EditDir, Moved
    <2>2. edits' \in 0 .. MaxEdits
      BY <1>4, LimitsAssumption DEF EditDir
    <2> QED BY <1>4, <2>1, <2>2 DEF EditDir
  <1>5. CASE RemoveBridge
    <2>1. bridge' \in BridgeSet
      BY <1>5 DEF RemoveBridge, NoBridge, BridgeSet
    <2>2. edits' \in 0 .. MaxEdits
      BY <1>5, LimitsAssumption DEF RemoveBridge
    <2> QED BY <1>5, <2>1, <2>2 DEF RemoveBridge, BridgeSet
  <1> QED BY <1>1, <1>2, <1>3, <1>4, <1>5 DEF Node

LEMMA FoundType ==
    ASSUME NEW net \in Nat, NEW size \in Nat, NEW leases, NEW ip \in FindFreeIP(net, size, leases)
    PROVE  ip \in Nat
  BY DEF FindFreeIP, BroadcastIP

LEMMA PodTypes == ASSUME Types, NEW p \in Pods, Pod(p) PROVE Types'
  <1> USE DEF Types, TypeOK
  <1>0. NoCall \in CallSet /\ call \in [Pods -> CallSet]
    BY DEF NoCall, CallSet, NoIP
  <1>1. ASSUME NEW host \in BOOLEAN, RunPodSandbox(p, host)
        PROVE  Types'
    <2>1. call' \in [Pods -> CallSet]
      BY <1>1, <1>0 DEF RunPodSandbox, Set, CallSet
    <2> QED BY <1>1, <2>1 DEF RunPodSandbox, CallSet
  <1>2. CASE GetNetwork(p)
    <2>0. bridge.ip \in Nat /\ bridge.size \in Nat /\ bridge.size > 0
      BY DEF BridgeSet
    <2>1. NetworkIP(bridge.ip, bridge.size) \in Nat
      BY <2>0, ModBound DEF NetworkIP
    <2> DEFINE r == [call[p] EXCEPT !.pc = "leases", !.ip = bridge.ip,
                       !.net = NetworkIP(bridge.ip, bridge.size), !.size = bridge.size]
    <2>3. r \in CallSet
      BY <1>0, <2>0, <2>1 DEF CallSet
    <2>4. call' = [call EXCEPT ![p] = r] \/ call' = [call EXCEPT ![p] = NoCall]
      BY <1>2 DEF GetNetwork, Set
    <2> HIDE DEF r
    <2>2. call' \in [Pods -> CallSet]
      BY <1>0, <2>3, <2>4
    <2> QED BY <1>2, <2>2 DEF GetNetwork, CallSet
  <1>3. CASE GetNetworkLeases(p)
    <2>1. {addr[q] : q \in {r \in Pods : HasLease(r)}} \subseteq Nat
      OBVIOUS
    <2> DEFINE L(others) == {addr[q] : q \in {r \in Pods : HasLease(r)}}
                              \cup others \cup {call[p].ip}
               R(others) == [call[p] EXCEPT !.pc = "trial", !.ip = NoIP, !.leases = L(others)]
    <2>3. PICK others \in SUBSET Foreign : call' = [call EXCEPT ![p] = R(others)]
      BY <1>3 DEF GetNetworkLeases, Set
    <2>4. L(others) \subseteq Nat
      <3>1. call[p].ip \in Nat
        BY <1>0 DEF CallSet
      <3>2. others \subseteq Nat
        BY ForeignAssumption
      <3> QED BY <2>1, <3>1, <3>2, Zenon
    <2>5. NoIP \in Nat
      BY DEF NoIP
    <2> HIDE DEF L
    <2>6. R(others) \in CallSet
      BY <1>0, <2>4, <2>5 DEF CallSet
    <2> HIDE DEF R
    <2>2. call' \in [Pods -> CallSet]
      BY <1>0, <2>3, <2>6
    <2> QED BY <1>3, <2>2 DEF GetNetworkLeases, CallSet
  <1>4. CASE Trial(p)
    <2>2. PICK ip \in FindFreeIP(call[p].net, call[p].size, call[p].leases) :
              call' = [call EXCEPT ![p] = [call[p] EXCEPT !.pc = "save", !.ip = ip]]
      BY <1>4 DEF Trial, Set
    <2>3. ip \in Nat
      BY <1>0, FoundType DEF CallSet
    <2>1. call' \in [Pods -> CallSet]
      BY <1>0, <2>2, <2>3 DEF CallSet
    <2> QED BY <1>4, <2>1 DEF Trial, CallSet
  <1>5. CASE Save(p)
    <2>1. call' \in [Pods -> CallSet]
      BY <1>5, <1>0 DEF Save, Set
    <2>2. addr' \in [Pods -> Nat]
      BY <1>5, <1>0 DEF Save, CallSet, NoIP
    <2> QED BY <1>5, <2>1, <2>2 DEF Save, CallSet
  <1>6. CASE RunFails(p)
    <2>1. call' \in [Pods -> CallSet]
      BY <1>6, <1>0 DEF RunFails, Set
    <2> QED BY <1>6, <2>1 DEF RunFails, CallSet
  <1>7. CASE CreateContainer(p) \/ StartContainer(p) \/ StopContainer(p)
    BY <1>7 DEF CreateContainer, StartContainer, StopContainer
  <1>8. CASE ContainerStarted(p)
    <2>1. GetCNINetworkConfig(dir) \subseteq Networks
      BY DEF GetCNINetworkConfig
    <2>2. cni' \subseteq Networks \X Pods
      BY <1>8, <2>1 DEF ContainerStarted
    <2> QED BY <1>8, <2>2 DEF ContainerStarted
  <1>9. CASE DeleteContainer(p)
    <2>1. cni' \subseteq Networks \X Pods
      BY <1>9 DEF DeleteContainer
    <2> QED BY <1>9, <2>1 DEF DeleteContainer
  <1>10. CASE RemovePodSandbox(p)
    BY <1>10 DEF RemovePodSandbox, NoIP
  <1> QED BY <1>1, <1>2, <1>3, <1>4, <1>5, <1>6, <1>7, <1>8, <1>9, <1>10 DEF Pod, Step

LEMMA StepTypes == Types /\ [Next]_vars => Types'
  <1>1. Types /\ UNCHANGED vars => Types'
    BY DEF Types, TypeOK, vars
  <1> QED BY <1>1, NodeTypes, PodTypes DEF Next

\* The types of PodNetwork, for any pods, files, subnets and bounds: every
\* address in a profile or a call is one, whatever bytes were added up.
THEOREM NetworkTypes == Spec => []TypeOK
  <1>1. Types => TypeOK
    BY DEF Types
  <1> QED BY <1>1, InitTypes, StepTypes, PTL DEF Spec

-----------------------------------------------------------------------------
(* Usable addresses.  What a call has read of the bridge is still true      *)
(* when it saves its address, because a bridge changes only when neither a  *)
(* call nor a profile depends on it.                                        *)

Usable(ip) == /\ ip \in Hosts(NetworkIP(bridge.ip, bridge.size), bridge.size)
              /\ ip # bridge.ip

Snapshot(c) ==
    /\ c.pc \in {"leases", "trial", "save"} =>
         /\ bridge # NoBridge
         /\ c.net = NetworkIP(bridge.ip, bridge.size) /\ c.size = bridge.size
    /\ c.pc = "leases" => c.ip = bridge.ip
    /\ c.pc = "trial" => bridge.ip \in c.leases
    /\ c.pc = "save" => Usable(c.ip)

AddrInv == \A p \in Pods : /\ Snapshot(call[p])
                           /\ addr[p] # NoIP => bridge # NoBridge /\ Usable(addr[p])

LEMMA NoCallSnapshot == Snapshot(NoCall)
  BY DEF Snapshot, NoCall

\* A step that keeps the bridge and the other pods has to keep AddrInv for p.
LEMMA AddrOfOne ==
    ASSUME Types, AddrInv, NEW p \in Pods, UNCHANGED bridge,
           NEW c, call' = [call EXCEPT ![p] = c], Snapshot(c),
           UNCHANGED addr
    PROVE  AddrInv'
  <1>1. \A q \in Pods : call'[q] = IF q = p THEN c ELSE call[q]
    BY DEF Types, TypeOK
  <1>2. \A q \in Pods : Snapshot(call'[q])
    BY <1>1 DEF AddrInv
  <1>3. \A q \in Pods : Snapshot(call[q])'
    BY <1>2 DEF Snapshot, Usable
  <1> QED BY <1>3 DEF AddrInv, Usable

\* A bridge that comes to be where there was none is nobody's yet.
LEMMA AddrNewBridge ==
    ASSUME AddrInv, UNCHANGED <<call, addr>>, bridge # NoBridge => UNCHANGED bridge
    PROVE  AddrInv'
  <1>1. CASE UNCHANGED bridge
    BY <1>1 DEF AddrInv, Snapshot, Usable
  <1>2. CASE bridge = NoBridge
    <2>1. \A p \in Pods : addr[p] = NoIP /\ call[p].pc \notin {"leases", "trial", "save"}
      BY <1>2 DEF AddrInv, Snapshot
    <2> QED BY <2>1 DEF AddrInv, Snapshot
  <1> QED BY <1>1, <1>2

LEMMA TrialUsable ==
    ASSUME Types, NEW c \in CallSet, Snapshot(c), c.pc = "trial",
           NEW ip \in FindFreeIP(c.net, c.size, c.leases)
    PROVE  Usable(ip) /\ ip # NoIP
  <1>1. c.net \in Nat /\ c.size \in Nat
    BY DEF CallSet
  <1>2. ip \in (c.net + 1) .. (c.net + c.size - 2) /\ ip # 0
    BY <1>1 DEF FindFreeIP, BroadcastIP
  <1>3. ip # bridge.ip
    BY DEF FindFreeIP, Snapshot
  <1> QED BY <1>2, <1>3 DEF Snapshot, Usable, Hosts, NoIP

LEMMA InitAddr == Init => AddrInv
  BY NoCallSnapshot DEF Init, AddrInv

LEMMA StepAddr == Types /\ AddrInv /\ [Next]_vars => AddrInv'
  <1> SUFFICES ASSUME Types, AddrInv, [Next]_vars PROVE AddrInv'
    OBVIOUS
  <1>0. call \in [Pods -> CallSet] /\ addr \in [Pods -> Nat]
    BY DEF Types, TypeOK, CallSet
  <1>1. ASSUME NEW pl \in {"bridge", "cni"}, NEW c \in Subnets \cup {AutoCidr}, StartLXE(pl, c)
        PROVE  AddrInv'
    BY <1>1, EnsureType, AddrNewBridge DEF StartLXE
  <1>2. CASE StopLXE
    <2>1. \A p \in Pods : call'[p] = NoCall
      BY <1>2 DEF StopLXE
    <2> QED BY <1>2, <2>1 DEF StopLXE, AddrInv, Snapshot, Usable, NoCall
  <1>3. ASSUME NEW c \in Subnets, UpdateRuntimeConfig(c)
        PROVE  AddrInv'
    BY <1>3, EnsureType, AddrNewBridge DEF UpdateRuntimeConfig
  <1>4. ASSUME NEW f \in Files, NEW content \in {"absent", "invalid"} \cup Networks, EditDir(f, content)
        PROVE  AddrInv'
    BY <1>4, AddrNewBridge DEF EditDir
  <1>5. CASE RemoveBridge
    BY <1>5 DEF RemoveBridge, AddrInv, Snapshot, NoCall
  <1>6. ASSUME NEW p \in Pods, Pod(p)
        PROVE  AddrInv'
    <2>0. Snapshot(call[p]) /\ call[p] \in CallSet
      BY <1>0 DEF AddrInv
    <2>1. ASSUME NEW host \in BOOLEAN, RunPodSandbox(p, host)
          PROVE  AddrInv'
      <3>1. Snapshot([NoCall EXCEPT !.pc = "network"])
        BY DEF Snapshot, NoCall
      <3> QED BY <2>1, <3>1, NoCallSnapshot, AddrOfOne DEF RunPodSandbox, Set
    <2>2. CASE GetNetwork(p)
      <3> DEFINE r == [call[p] EXCEPT !.pc = "leases", !.ip = bridge.ip,
                         !.net = NetworkIP(bridge.ip, bridge.size), !.size = bridge.size]
      <3>1. bridge # NoBridge => Snapshot(r)
        BY <2>0 DEF Snapshot, CallSet
      <3>2. \/ bridge # NoBridge /\ call' = [call EXCEPT ![p] = r]
            \/ call' = [call EXCEPT ![p] = NoCall]
        BY <2>2 DEF GetNetwork, Set
      <3> HIDE DEF r
      <3> QED BY <2>2, <3>1, <3>2, NoCallSnapshot, AddrOfOne DEF GetNetwork
    <2>3. CASE GetNetworkLeases(p)
      <3>1. PICK L : /\ call' = [call EXCEPT ![p] =
                                   [call[p] EXCEPT !.pc = "trial", !.ip = NoIP, !.leases = L]]
                     /\ call[p].ip \in L
        BY <2>3 DEF GetNetworkLeases, Set
      <3>2. Snapshot([call[p] EXCEPT !.pc = "trial", !.ip = NoIP, !.leases = L])
        BY <2>0, <2>3, <3>1 DEF Snapshot, CallSet, GetNetworkLeases
      <3> QED BY <2>3, <3>1, <3>2, AddrOfOne DEF GetNetworkLeases
    <2>4. CASE Trial(p)
      <3>1. PICK ip \in FindFreeIP(call[p].net, call[p].size, call[p].leases) :
                call' = [call EXCEPT ![p] = [call[p] EXCEPT !.pc = "save", !.ip = ip]]
        BY <2>4 DEF Trial, Set
      <3>2. Usable(ip)
        BY <2>0, <2>4, TrialUsable DEF Trial
      <3>3. Snapshot([call[p] EXCEPT !.pc = "save", !.ip = ip])
        BY <2>0, <2>4, <3>2 DEF Snapshot, CallSet, Trial
      <3> QED BY <2>4, <3>1, <3>3, AddrOfOne DEF Trial
    <2>5. CASE Save(p)
      <3>1. \A q \in Pods : /\ call'[q] = IF q = p THEN NoCall ELSE call[q]
                            /\ addr'[q] = addr[q] \/ (q = p /\ addr'[q] \in {NoIP, call[p].ip})
        BY <2>5, <1>0 DEF Save, Set
      <3>2. bridge # NoBridge /\ Usable(call[p].ip)
        BY <2>0, <2>5 DEF Save, Snapshot
      <3>3. \A q \in Pods : Snapshot(call'[q])
        BY <3>1, NoCallSnapshot DEF AddrInv
      <3>4. \A q \in Pods : addr'[q] # NoIP => bridge # NoBridge /\ Usable(addr'[q])
        BY <3>1, <3>2 DEF AddrInv
      <3>5. UNCHANGED bridge
        BY <2>5 DEF Save
      <3> QED BY <3>3, <3>4, <3>5 DEF AddrInv, Snapshot, Usable
    <2>6. CASE RunFails(p)
      BY <2>6, NoCallSnapshot, AddrOfOne DEF RunFails, Set
    <2>7. CASE CreateContainer(p) \/ StartContainer(p) \/ StopContainer(p)
               \/ ContainerStarted(p) \/ DeleteContainer(p)
      <3>1. UNCHANGED <<call, addr, bridge>>
        BY <2>7 DEF CreateContainer, StartContainer, StopContainer, ContainerStarted, DeleteContainer
      <3> QED BY <3>1, AddrNewBridge
    <2>8. CASE RemovePodSandbox(p)
      <3>1. \A q \in Pods : addr'[q] = addr[q] \/ addr'[q] = NoIP
        BY <2>8, <1>0 DEF RemovePodSandbox
      <3>2. UNCHANGED <<bridge, call>>
        BY <2>8 DEF RemovePodSandbox
      <3> QED BY <3>1, <3>2 DEF AddrInv, Snapshot, Usable
    <2> QED BY <1>6, <2>1, <2>2, <2>3, <2>4, <2>5, <2>6, <2>7, <2>8 DEF Pod, Step
  <1>7. CASE UNCHANGED vars
    BY <1>7, AddrNewBridge DEF vars
  <1> QED BY <1>1, <1>2, <1>3, <1>4, <1>5, <1>6, <1>7 DEF Next, Node

\* An address in a profile is a free host of the bridge's subnet, for any
\* subnets and bridges, whatever restarts and UpdateRuntimeConfig ask for:
\* ensureBridge with CreateOnly never moves a bridge in use.
THEOREM AddressesStayUsable == Spec => []AddressUsable
  <1>1. AddrInv => AddressUsable
    BY DEF AddrInv, AddressUsable, Usable
  <1> QED BY <1>1, InitTypes, StepTypes, InitAddr, StepAddr, PTL DEF Spec

-----------------------------------------------------------------------------
(* Shared addresses.  A pod that has read the leases had not seen any pod   *)
(* that is still without an address; and the address it may still choose,   *)
(* or has chosen, belongs to no pod it saw.                                 *)

HasRead(q) == call[q].pc \in {"trial", "save"} \/ addr[q] # NoIP

\* The address of q is among those the search of p may still end with.
MayTake(p, q) == /\ addr[q] # NoIP
                 /\ \/ call[p].pc = "trial" /\ addr[q] \notin call[p].leases
                    \/ call[p].pc = "save" /\ addr[q] = call[p].ip

Late(p, q) == (profile[p] # "deleted" /\ addr[p] = NoIP /\ HasRead(q)) => p \in unseen[q]

ShareInv ==
    /\ \A p \in Pods : call[p].pc # "idle" =>
                         profile[p] \in {"managed", "deleted"} /\ addr[p] = NoIP
    /\ \A p \in Pods : profile[p] \in {"absent", "deleted"} => addr[p] = NoIP
    /\ \A p, q \in Pods : p # q => Late(p, q)
    /\ \A p, q \in Pods : p # q /\ MayTake(p, q) => q \in unseen[p]
    /\ SharedOnlyUnseen

\* Steps that take nothing but the container, or nothing at all, to a pod.
LEMMA ShareUntouched ==
    ASSUME ShareInv, UNCHANGED <<profile, addr, call, unseen>>
    PROVE  ShareInv'
  BY DEF ShareInv, Late, MayTake, HasRead, SharedOnlyUnseen

\* A call that ends, or begins, without an address.
LEMMA ShareCall ==
    ASSUME Types, ShareInv, NEW p \in Pods, NEW c,
           call' = [call EXCEPT ![p] = c], c.pc \in {"idle", "network", "leases"},
           c.pc # "idle" => call[p].pc # "idle",
           UNCHANGED <<profile, addr, unseen>>
    PROVE  ShareInv'
  <1>1. \A q \in Pods : call'[q] = IF q = p THEN c ELSE call[q]
    BY DEF Types, TypeOK
  <1> QED BY <1>1 DEF ShareInv, Late, MayTake, HasRead, SharedOnlyUnseen

LEMMA InitShare == Init => ShareInv
  BY DEF Init, ShareInv, Late, MayTake, HasRead, SharedOnlyUnseen, NoCall

LEMMA StepShare == Types /\ AddrInv /\ ShareInv /\ [Next]_vars => ShareInv'
  <1> SUFFICES ASSUME Types, AddrInv, ShareInv, [Next]_vars PROVE ShareInv'
    OBVIOUS
  <1>0. /\ call \in [Pods -> CallSet] /\ addr \in [Pods -> Nat]
        /\ profile \in [Pods -> {"absent", "node", "managed", "deleted"}]
        /\ unseen \in [Pods -> SUBSET Pods]
    BY DEF Types, TypeOK, CallSet
  <1>1. ASSUME NEW pl \in {"bridge", "cni"}, NEW c \in Subnets \cup {AutoCidr}, StartLXE(pl, c)
        PROVE  ShareInv'
    BY <1>1, ShareUntouched DEF StartLXE
  <1>2. CASE StopLXE
    <2>1. \A p \in Pods : call'[p] = NoCall
      BY <1>2 DEF StopLXE
    <2> QED BY <1>2, <2>1 DEF StopLXE, ShareInv, Late, MayTake, HasRead, SharedOnlyUnseen, NoCall
  <1>3. ASSUME NEW c \in Subnets, UpdateRuntimeConfig(c)
        PROVE  ShareInv'
    BY <1>3, ShareUntouched DEF UpdateRuntimeConfig
  <1>4. ASSUME NEW f \in Files, NEW content \in {"absent", "invalid"} \cup Networks, EditDir(f, content)
        PROVE  ShareInv'
    BY <1>4, ShareUntouched DEF EditDir
  <1>5. CASE RemoveBridge
    BY <1>5, ShareUntouched DEF RemoveBridge
  <1>6. ASSUME NEW p \in Pods, Pod(p)
        PROVE  ShareInv'
    <2>0. call[p] \in CallSet
      BY <1>0
    <2>1. ASSUME NEW host \in BOOLEAN, RunPodSandbox(p, host)
          PROVE  ShareInv'
      <3>1. /\ \A q \in Pods : q # p => call'[q] = call[q] /\ profile'[q] = profile[q]
            /\ call'[p].pc \in {"idle", "network"}
            /\ profile'[p] \in {"node", "managed"}
            /\ call'[p].pc # "idle" => profile'[p] = "managed"
        BY <2>1, <1>0 DEF RunPodSandbox, Set, NoCall
      <3>2. profile[p] = "absent" /\ UNCHANGED <<addr, unseen>>
        BY <2>1 DEF RunPodSandbox
      <3> QED BY <3>1, <3>2 DEF ShareInv, Late, MayTake, HasRead, SharedOnlyUnseen
    <2>2. CASE GetNetwork(p)
      <3> DEFINE r == [call[p] EXCEPT !.pc = "leases", !.ip = bridge.ip,
                         !.net = NetworkIP(bridge.ip, bridge.size), !.size = bridge.size]
      <3>1. r.pc = "leases" /\ NoCall.pc = "idle"
        BY <2>0 DEF CallSet, NoCall
      <3>2. call' = [call EXCEPT ![p] = r] \/ call' = [call EXCEPT ![p] = NoCall]
        BY <2>2 DEF GetNetwork, Set
      <3>3. call[p].pc # "idle" /\ UNCHANGED <<profile, addr, unseen>>
        BY <2>2 DEF GetNetwork
      <3> HIDE DEF r
      <3> QED BY <3>1, <3>2, <3>3, ShareCall
    <2>3. CASE GetNetworkLeases(p)
      <3>1. PICK L : /\ call' = [call EXCEPT ![p] =
                                   [call[p] EXCEPT !.pc = "trial", !.ip = NoIP, !.leases = L]]
                     /\ \A q \in Pods : HasLease(q) => addr[q] \in L
        <4> DEFINE M(others) == {addr[q] : q \in {r \in Pods : HasLease(r)}}
                                  \cup others \cup {call[p].ip}
        <4>1. PICK others \in SUBSET Foreign :
                  call' = [call EXCEPT ![p] =
                             [call[p] EXCEPT !.pc = "trial", !.ip = NoIP, !.leases = M(others)]]
          BY <2>3 DEF GetNetworkLeases, Set
        <4>2. \A q \in Pods : HasLease(q) => addr[q] \in M(others)
          OBVIOUS
        <4> HIDE DEF M
        <4> QED BY <4>1, <4>2
      <3>2. /\ \A q \in Pods : q # p => call'[q] = call[q] /\ unseen'[q] = unseen[q]
            /\ call'[p].pc = "trial" /\ call'[p].leases = L
            /\ unseen'[p] = {q \in Pods : ~HasLease(q)}
        BY <2>3, <1>0, <2>0, <3>1 DEF GetNetworkLeases, CallSet
      <3>3. call[p].pc = "leases" /\ UNCHANGED <<addr, profile>>
        BY <2>3 DEF GetNetworkLeases
      <3>4. addr[p] = NoIP /\ profile[p] \in {"managed", "deleted"}
        BY <3>3 DEF ShareInv
      <3>5. ASSUME NEW q \in Pods, NEW r \in Pods, q # r
            PROVE  Late(q, r)'
        BY <3>2, <3>3, <3>5 DEF ShareInv, Late, HasRead, HasLease
      <3>6. ASSUME NEW q \in Pods, NEW r \in Pods, q # r, MayTake(q, r)'
            PROVE  r \in unseen'[q]
        BY <3>1, <3>2, <3>3, <3>6 DEF ShareInv, MayTake
      <3>7. SharedOnlyUnseen'
        BY <3>2, <3>3, <3>4 DEF ShareInv, SharedOnlyUnseen
      <3> QED BY <3>2, <3>3, <3>4, <3>5, <3>6, <3>7 DEF ShareInv
    <2>4. CASE Trial(p)
      <3>1. PICK ip \in FindFreeIP(call[p].net, call[p].size, call[p].leases) :
                call' = [call EXCEPT ![p] = [call[p] EXCEPT !.pc = "save", !.ip = ip]]
        BY <2>4 DEF Trial, Set
      <3>2. ip \notin call[p].leases
        BY DEF FindFreeIP
      <3>3. /\ \A q \in Pods : q # p => call'[q] = call[q]
            /\ call'[p].pc = "save" /\ call'[p].ip = ip
        BY <1>0, <2>0, <3>1 DEF CallSet
      <3>4. call[p].pc = "trial" /\ UNCHANGED <<addr, profile, unseen>>
        BY <2>4 DEF Trial
      <3> QED BY <3>2, <3>3, <3>4 DEF ShareInv, Late, MayTake, HasRead, SharedOnlyUnseen
    <2>5. CASE Save(p)
      <3>1. /\ \A q \in Pods : q # p => call'[q] = call[q] /\ addr'[q] = addr[q]
            /\ call'[p].pc = "idle"
            /\ addr'[p] = IF profile[p] = "managed" THEN call[p].ip ELSE NoIP
        BY <2>5, <1>0 DEF Save, Set, NoCall
      <3>2. call[p].pc = "save" /\ UNCHANGED <<profile, unseen>>
        BY <2>5 DEF Save
      <3>3. addr[p] = NoIP /\ profile[p] \in {"managed", "deleted"}
        BY <3>2 DEF ShareInv
      <3>4. CASE profile[p] = "deleted"
        BY <3>1, <3>2, <3>3, <3>4 DEF ShareInv, Late, MayTake, HasRead, SharedOnlyUnseen
      <3>5. CASE profile[p] = "managed"
        <4>1. addr'[p] = call[p].ip
          BY <3>1, <3>5
        <4>2. ASSUME NEW q \in Pods, q # p, HasRead(q)
              PROVE  p \in unseen[q]
          BY <3>3, <3>5, <4>2 DEF ShareInv, Late
        <4>3. ASSUME NEW q \in Pods, q # p, addr[q] # NoIP, addr[q] = call[p].ip
              PROVE  q \in unseen[p]
          BY <3>2, <4>3 DEF ShareInv, MayTake
        <4>4. SharedOnlyUnseen'
          <5> SUFFICES ASSUME NEW q \in Pods, NEW r \in Pods, q # r,
                              addr'[q] # NoIP, addr'[q] = addr'[r]
                       PROVE  q \in unseen[r] /\ r \in unseen[q]
            BY <3>2 DEF SharedOnlyUnseen
          <5>1. CASE q = p
            BY <3>1, <4>1, <4>2, <4>3, <5>1 DEF HasRead
          <5>2. CASE r = p
            BY <3>1, <4>1, <4>2, <4>3, <5>2 DEF HasRead
          <5>3. CASE q # p /\ r # p
            BY <3>1, <5>3 DEF ShareInv, SharedOnlyUnseen
          <5> QED BY <5>1, <5>2, <5>3
        <4>5. ASSUME NEW q \in Pods, NEW r \in Pods, q # r, MayTake(q, r)'
              PROVE  r \in unseen[q]
          <5>1. q # p
            BY <3>1, <4>5 DEF MayTake
          <5>2. CASE r = p
            BY <3>1, <4>2, <4>5, <5>1, <5>2 DEF MayTake, HasRead
          <5>3. CASE r # p
            BY <3>1, <4>5, <5>1, <5>3 DEF MayTake, ShareInv
          <5> QED BY <5>2, <5>3
        <4>6. ASSUME NEW q \in Pods, NEW r \in Pods, q # r
              PROVE  Late(q, r)'
          BY <3>1, <3>2, <3>3, <4>6 DEF ShareInv, Late, HasRead
        <4>7. \A q \in Pods : /\ call'[q].pc # "idle" =>
                                   profile'[q] \in {"managed", "deleted"} /\ addr'[q] = NoIP
                              /\ profile'[q] \in {"absent", "deleted"} => addr'[q] = NoIP
          BY <3>1, <3>2, <3>5 DEF ShareInv
        <4> QED BY <3>2, <4>4, <4>5, <4>6, <4>7 DEF ShareInv
      <3> QED BY <3>3, <3>4, <3>5
    <2>6. CASE RunFails(p)
      BY <2>6, ShareCall DEF RunFails, Set, NoCall
    <2>7. CASE CreateContainer(p) \/ StartContainer(p) \/ StopContainer(p)
               \/ ContainerStarted(p) \/ DeleteContainer(p)
      <3>1. UNCHANGED <<profile, addr, call, unseen>>
        BY <2>7 DEF CreateContainer, StartContainer, StopContainer, ContainerStarted, DeleteContainer
      <3> QED BY <3>1, ShareUntouched
    <2>8. CASE RemovePodSandbox(p)
      <3>1. /\ \A q \in Pods : q # p => addr'[q] = addr[q] /\ profile'[q] = profile[q]
            /\ addr'[p] = NoIP /\ profile'[p] = "deleted"
            /\ UNCHANGED <<call, unseen>>
        BY <2>8, <1>0 DEF RemovePodSandbox
      <3> QED BY <3>1 DEF ShareInv, Late, MayTake, HasRead, SharedOnlyUnseen
    <2> QED BY <1>6, <2>1, <2>2, <2>3, <2>4, <2>5, <2>6, <2>7, <2>8 DEF Pod, Step
  <1>7. CASE UNCHANGED vars
    BY <1>7, ShareUntouched DEF vars
  <1> QED BY <1>1, <1>2, <1>3, <1>4, <1>5, <1>6, <1>7 DEF Next, Node

\* For any number of pods and of overlapping RunPodSandbox calls, two pods
\* have the same address only if each chose it while the other held no lease.
THEOREM SharingNeedsBlindness == Spec => []SharedOnlyUnseen
  <1>1. ShareInv => SharedOnlyUnseen
    BY DEF ShareInv
  <1> QED BY <1>1, InitTypes, StepTypes, InitAddr, StepAddr, InitShare, StepShare, PTL DEF Spec

-----------------------------------------------------------------------------
(* Networks given back.  What CNI holds for a pod that was not moved is the *)
(* network that would be chosen now, by the CNI plugin, for a container.    *)

DetachInv ==
    \A p \in Pods, n \in Networks : (p \notin moved /\ <<n, p>> \in cni) =>
        /\ n \in GetCNINetworkConfig(dir)
        /\ plugin # "bridge" /\ profile[p] = "managed" /\ ctr[p] # "none"

LEMMA DetachUntouched ==
    ASSUME DetachInv, cni' \subseteq cni, moved \subseteq moved', UNCHANGED <<dir, profile, ctr>>,
           plugin' # "bridge" \/ UNCHANGED plugin
    PROVE  DetachInv'
  BY DEF DetachInv, GetCNINetworkConfig

LEMMA InitDetach == Init => DetachInv
  BY DEF Init, DetachInv

LEMMA StepDetach == Types /\ DetachInv /\ [Next]_vars => DetachInv'
  <1> SUFFICES ASSUME Types, DetachInv, [Next]_vars PROVE DetachInv'
    OBVIOUS
  <1>0. /\ ctr \in [Pods -> {"none", "stopped", "started", "running"}]
        /\ profile \in [Pods -> {"absent", "node", "managed", "deleted"}]
        /\ plugin \in {"none", "bridge", "cni"}
        /\ dir \in [Files -> {"absent", "invalid"} \cup Networks]
        /\ cni \subseteq Networks \X Pods
    BY DEF Types, TypeOK
  <1>1. ASSUME NEW pl \in {"bridge", "cni"}, NEW c \in Subnets \cup {AutoCidr}, StartLXE(pl, c)
        PROVE  DetachInv'
    <2>1. CASE pl = "cni"
      BY <1>1, <2>1, DetachUntouched DEF StartLXE
    <2>2. CASE pl = "bridge"
      BY <1>1, <2>2 DEF StartLXE, DetachInv, Moved
    <2> QED BY <2>1, <2>2
  <1>2. CASE StopLXE
    <2>1. \A p \in Pods : ctr[p] # "none" => ctr'[p] # "none"
      BY <1>2, <1>0 DEF StopLXE
    <2> QED BY <1>2, <2>1 DEF StopLXE, DetachInv, GetCNINetworkConfig
  <1>3. ASSUME NEW c \in Subnets, UpdateRuntimeConfig(c)
        PROVE  DetachInv'
    BY <1>3, DetachUntouched DEF UpdateRuntimeConfig
  <1>4. ASSUME NEW f \in Files, NEW content \in {"absent", "invalid"} \cup Networks, EditDir(f, content)
        PROVE  DetachInv'
    <2> DEFINE First(d)  == {e \in Files : /\ d[e] \in Networks
                                           /\ \A h \in Files : h < e => d[h] \notin Networks}
               Choice(d) == {d[g] : g \in First(d)}
    <2>1. Choice(dir) = GetCNINetworkConfig(dir) /\ Choice(dir') = GetCNINetworkConfig(dir')
      <3> DEFINE Valid(d) == {e \in Files : d[e] \in Networks}
                 Least(d) == {g \in Valid(d) : \A h \in Valid(d) : g <= h}
      <3>1. \A g, h \in Files : g <= h <=> ~(h < g)
        BY FilesAssumption
      <3>2. First(dir) = Least(dir) /\ First(dir') = Least(dir')
        BY <3>1, Zenon
      <3>3. /\ GetCNINetworkConfig(dir) = {dir[g] : g \in Least(dir)}
            /\ GetCNINetworkConfig(dir') = {dir'[g] : g \in Least(dir')}
        BY DEF GetCNINetworkConfig
      <3> QED BY <3>2, <3>3, Zenon
    <2>2. moved' = IF Choice(dir') = Choice(dir) THEN moved ELSE Moved
      BY <1>4 DEF EditDir
    <2>3. UNCHANGED <<plugin, profile, ctr, cni>>
      BY <1>4 DEF EditDir
    <2>4. CASE GetCNINetworkConfig(dir') = GetCNINetworkConfig(dir)
      <3>1. moved' = moved
        BY <2>1, <2>2, <2>4
      <3> QED BY <2>3, <2>4, <3>1 DEF DetachInv
    <2>5. CASE GetCNINetworkConfig(dir') # GetCNINetworkConfig(dir)
      <3>1. moved' = Moved
        BY <2>1, <2>2, <2>5
      <3> QED BY <2>3, <3>1 DEF DetachInv, Moved
    <2> QED BY <2>4, <2>5
  <1>5. CASE RemoveBridge
    BY <1>5, DetachUntouched DEF RemoveBridge
  <1>6. ASSUME NEW p \in Pods, Pod(p)
        PROVE  DetachInv'
    <2>1. ASSUME NEW host \in BOOLEAN, RunPodSandbox(p, host)
          PROVE  DetachInv'
      <3>1. /\ \A q \in Pods : q # p => profile'[q] = profile[q]
            /\ profile[p] = "absent" /\ UNCHANGED <<plugin, dir, ctr, cni, moved>>
        BY <2>1, <1>0 DEF RunPodSandbox
      <3> QED BY <3>1 DEF DetachInv
    <2>2. CASE Step(p)
      <3>1. UNCHANGED <<plugin, dir, profile, ctr, cni, moved>>
        BY <2>2 DEF Step, GetNetwork, GetNetworkLeases, Trial, Save, RunFails
      <3> QED BY <3>1, DetachUntouched
    <2>3. CASE CreateContainer(p) \/ StartContainer(p) \/ StopContainer(p)
      <3>1. /\ \A q \in Pods : ctr[q] # "none" => ctr'[q] # "none"
            /\ UNCHANGED <<plugin, dir, profile, cni, moved>>
        BY <2>3, <1>0 DEF CreateContainer, StartContainer, StopContainer
      <3> QED BY <3>1 DEF DetachInv
    <2>4. CASE ContainerStarted(p)
      <3>1. /\ \A q \in Pods : ctr[q] # "none" => ctr'[q] # "none"
            /\ ctr'[p] = "running" /\ UNCHANGED <<plugin, dir, profile, moved>>
        BY <2>4, <1>0 DEF ContainerStarted
      <3>2. \/ cni' = cni
            \/ /\ plugin = "cni" /\ profile[p] = "managed"
               /\ \E n \in GetCNINetworkConfig(dir) : cni' = cni \cup {<<n, p>>}
        BY <2>4 DEF ContainerStarted
      <3> QED BY <3>1, <3>2 DEF DetachInv
    <2>5. CASE DeleteContainer(p)
      <3>1. /\ \A q \in Pods : q # p => ctr'[q] = ctr[q]
            /\ UNCHANGED <<plugin, dir, profile, moved>> /\ cni' \subseteq cni
        BY <2>5, <1>0 DEF DeleteContainer
      <3>2. ASSUME NEW n \in Networks, p \notin moved, <<n, p>> \in cni'
            PROVE  FALSE
        <4>1. <<n, p>> \in cni
          BY <3>1, <3>2
        <4>2. n \in GetCNINetworkConfig(dir) /\ plugin # "bridge" /\ profile[p] = "managed"
          BY <3>2, <4>1 DEF DetachInv
        <4>3. cni' = cni \ (GetCNINetworkConfig(dir) \X {p})
          BY <2>5, <4>2, <1>0 DEF DeleteContainer
        <4> QED BY <3>2, <4>2, <4>3
      <3> QED BY <3>1, <3>2 DEF DetachInv
    <2>6. CASE RemovePodSandbox(p)
      <3>1. /\ \A q \in Pods : q # p => profile'[q] = profile[q]
            /\ ctr[p] = "none" /\ UNCHANGED <<plugin, dir, ctr, cni, moved>>
        BY <2>6, <1>0 DEF RemovePodSandbox
      <3> QED BY <3>1 DEF DetachInv
    <2> QED BY <1>6, <2>1, <2>2, <2>3, <2>4, <2>5, <2>6 DEF Pod
  <1>7. CASE UNCHANGED vars
    BY <1>7, DetachUntouched DEF vars
  <1> QED BY <1>1, <1>2, <1>3, <1>4, <1>5, <1>6, <1>7 DEF Next, Node

\* For any directory and any number of edits, restarts and pods, what CNI
\* keeps of a pod without container is due to a network choice that changed.
THEOREM NetworksGivenBack == Spec => []DetachedUnlessMoved
  <1>1. DetachInv => DetachedUnlessMoved
    BY DEF DetachInv, DetachedUnlessMoved
  <1> QED BY <1>1, InitTypes, StepTypes, InitDetach, StepDetach, PTL DEF Spec
=============================================================================
