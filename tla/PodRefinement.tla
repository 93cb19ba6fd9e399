----------------------------- MODULE PodRefinement -----------------------------
(* PodRuntime seen as PodLifecycle: the profile's state is the phase, a      *)
(* container that runs makes the pod up, a CNI attachment is its network.   *)
EXTENDS PodRuntime

PodPhase == [p \in Pods |-> profile[p].state]
PodUp    == [p \in Pods |-> \E c \in Containers : ctr[c].st = "running" /\ ctr[c].pod = p]
PodNet   == [p \in Pods |-> cni[p] # {}]

Lifecycle == INSTANCE PodLifecycle WITH phase <- PodPhase, up <- PodUp, net <- PodNet

\* With one call per pod at a time, no crash, CNI plugins that work at once
\* (~NetFaults, ~SlowAdd) and sandboxes that can be read ("sandbox" not in
\* Faulty), the calls, their snapshots and the late event handlers together
\* keep to PodLifecycle, whichever other requests fail: each step is one of
\* its steps or none.  Of the network it says that it comes with a running
\* container and is gone when the sandbox is, not when the sandbox is stopped.
ImplementsLifecycle == Lifecycle!Spec
=============================================================================
