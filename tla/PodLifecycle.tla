----------------------------- MODULE PodLifecycle -----------------------------
(***************************************************************************)
(* What becomes of a pod, without calls, snapshots, events or ETags: a     *)
(* sandbox goes from absent to ready to notready to deleted, is stopped    *)
(* and deleted only when none of its containers runs, gets a network only  *)
(* through a running container, and is deleted only after that network     *)
(* has been given back.                                                    *)
(*                                                                         *)
(* It is the lifecycle as the code has it, which in one point is not the   *)
(* one its comments describe: runtime.go:280-281 says StopPodSandbox       *)
(* "reclaims network resources (e.g. IP addresses) allocated to the        *)
(* sandbox".  Here, as in the code, a stopped pod keeps its network until  *)
(* its containers are deleted; that disagreement is a property of its own, *)
(* PodRuntime!StopReclaimsNetwork, which the code violates.                *)
(***************************************************************************)
CONSTANT Pods

VARIABLES
    phase,   \* per pod: absent, ready, notready, deleted
    up,      \* per pod: does one of its containers run?
    net      \* per pod: is a network allocated for it?

vars == <<phase, up, net>>

Init == /\ phase = [p \in Pods |-> "absent"]
        /\ up = [p \in Pods |-> FALSE]
        /\ net = [p \in Pods |-> FALSE]

Lives(p) == phase[p] \in {"ready", "notready"}

Run(p) ==
    /\ phase[p] = "absent"
    /\ phase' = [phase EXCEPT ![p] = "ready"]
    /\ UNCHANGED <<up, net>>

\* A container of the pod starts, or the last one that runs ends.
Start(p) ==
    /\ Lives(p)
    /\ up' = [up EXCEPT ![p] = TRUE]
    /\ UNCHANGED <<phase, net>>

Finish(p) ==
    /\ up' = [up EXCEPT ![p] = FALSE]
    /\ UNCHANGED <<phase, net>>

Attach(p) ==
    /\ Lives(p) /\ up[p]
    /\ net' = [net EXCEPT ![p] = TRUE]
    /\ UNCHANGED <<phase, up>>

Detach(p) ==
    /\ net' = [net EXCEPT ![p] = FALSE]
    /\ UNCHANGED <<phase, up>>

\* The network stays: every plugin's WhenStopped does nothing.
Stop(p) ==
    /\ Lives(p) /\ ~up[p]
    /\ phase' = [phase EXCEPT ![p] = "notready"]
    /\ UNCHANGED <<up, net>>

Remove(p) ==
    /\ Lives(p) /\ ~up[p] /\ ~net[p]
    /\ phase' = [phase EXCEPT ![p] = "deleted"]
    /\ UNCHANGED <<up, net>>

Next == \E p \in Pods : \/ Run(p) \/ Start(p) \/ Finish(p) \/ Attach(p)
                        \/ Detach(p) \/ Stop(p) \/ Remove(p)

Spec == Init /\ [][Next]_vars
=============================================================================
