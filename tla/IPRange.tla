------------------------------- MODULE IPRange -------------------------------
(***************************************************************************)
(* Choosing an address: FindFreeIP of network/util.go.  An IPv4 address is *)
(* a number, a subnet the number of its first address and its size.        *)
(***************************************************************************)
EXTENDS Naturals

\* ip[3] + d: byte arithmetic, which wraps within the last byte.
LastByteAdd(ip, d) == (ip - (ip % 256)) + (((ip % 256) + d) % 256)

\* The network address of the subnet with that size that holds ip.
NetworkIP(ip, size) == ip - (ip % size)

BroadcastIP(net, size) == net + (size - 1)

DefaultStart(net) == LastByteAdd(net, 1)

\* Mutant: the last host is taken for the broadcast address.
DefaultEnd_OffByOne(net, size) == LastByteAdd(BroadcastIP(net, size), 254)

DefaultEnd(net, size) == LastByteAdd(BroadcastIP(net, size), 255)

\* Mutant: the network and the broadcast address are not reserved, and the
\* range is the whole subnet.
FindFreeIP_WholeSubnet(net, size, leases) ==
    {trial \in net .. BroadcastIP(net, size) : trial \notin leases}

(* The addresses the random trials of FindFreeIP may end with: a trial is   *)
(* any address of the subnet, and is drawn again when it is outside the     *)
(* range or reserved.                                                       *)
FindFreeIP(net, size, leases) ==
    {trial \in net .. BroadcastIP(net, size) :
        /\ DefaultStart(net) <= trial /\ trial <= DefaultEnd(net, size)
        /\ trial \notin leases \cup {net, BroadcastIP(net, size)}}

\* What it should offer: the host addresses of the subnet.
Hosts(net, size) == (net + 1) .. (net + size - 2)
=============================================================================
