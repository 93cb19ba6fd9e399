----------------------------- MODULE MCPodNetwork -----------------------------
(* PodNetwork on small subnets: two ranges with room for one pod each, one  *)
(* at the end of a byte, and a bridge made before lxe with room for more.   *)
EXTENDS PodNetwork

MCSubnets == {[net |-> 252, size |-> 4], [net |-> 248, size |-> 4]}
MCBridges == {[ip |-> 242, size |-> 8, type |-> "bridge", ranges |-> FALSE],
              [ip |-> 241, size |-> 8, type |-> "bridge", ranges |-> TRUE],
              [ip |-> 241, size |-> 8, type |-> "physical", ranges |-> FALSE]}
MCDirectories == {<<"absent", "net1">>, <<"net1", "net2">>}
=============================================================================
