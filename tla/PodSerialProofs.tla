---------------------------- MODULE PodSerialProofs ----------------------------
(* What lxe promises to a kubelet that makes one call per pod at a time      *)
(* (~Overlap), for any pods, containers, callers and bounds, whatever late   *)
(* event handlers and ending containers do meanwhile.                        *)
EXTENDS PodRefinement, PodRuntimeProofs

-----------------------------------------------------------------------------
(* The invariant.                                                           *)
Running(p) == {c \in Containers : ctr[c].st = "running" /\ ctr[c].pod = p}

OnePerPod == \A j, k \in Callers :
    (Active(j) /\ Active(k) /\ call[j].pod = call[k].pod) => j = k

\* LXD keeps a profile as long as a container uses it.
Housed == \A p \in Pods : UsedBy(p) # {} => Exists(p)

\* The requests that follow on one that has found the sandbox.
Inside == {"refresh", "network", "save", "saved", "list", "stop", "record", "notready",
           "delete", "sandbox", "detach", "remove"}

\* What a call has read of its pod is still so.  StopPodSandbox and
\* RemovePodSandbox miss no container: all that LXD has are in the lists, and
\* the ones that run are still to be stopped.
Work(k) ==
    Active(k) =>
      /\ call[k].pc \in Inside => Exists(call[k].pod)
      /\ (call[k].op = "RunPodSandbox" /\ call[k].pc # "create") =>
            profile[call[k].pod].state = "ready"
      /\ call[k].pc = "get" => call[k].list = {}
      /\ call[k].pc = "list" =>
            /\ UsedBy(call[k].pod) = call[k].todo \cup call[k].list
            /\ Running(call[k].pod) \subseteq call[k].todo \cup call[k].running
      /\ (call[k].pc \in {"stop", "record"} /\ call[k].op \in PodOps) =>
            /\ UsedBy(call[k].pod) = call[k].list
            /\ Running(call[k].pod) \subseteq call[k].todo
      /\ call[k].pc = "notready" => Running(call[k].pod) = {}
      /\ (call[k].pc \in {"delete", "sandbox", "detach"} /\ call[k].op \in PodOps) =>
            /\ UsedBy(call[k].pod) = call[k].todo
            /\ Running(call[k].pod) = {}
      /\ call[k].pc = "remove" => UsedBy(call[k].pod) = {}

Serial == OnePerPod /\ Housed /\ \A k \in Callers : Work(k)

\* A container of a pod that has a call is started by that call.
Awaited == \A k \in Callers, c \in Containers :
    (Active(k) /\ ctr[c].st = "starting" /\ ctr[c].pod = call[k].pod) =>
        call[k].pc = "starting" /\ call[k].ctr = c

-----------------------------------------------------------------------------
(* A call depends on its own pod only.                                      *)
Same(p) == /\ profile'[p].state = profile[p].state
           /\ UsedBy(p)' = UsedBy(p)
           /\ Running(p)' \subseteq Running(p)

LEMMA WorkKept ==
    ASSUME NEW j \in Callers, Work(j), call'[j] = call[j], Active(j) => Same(call[j].pod)
    PROVE  Work(j)'
<1> SUFFICES ASSUME Active(j) PROVE Work(j)'
  BY DEF Work, Active
<1>1. Exists(call[j].pod)' <=> Exists(call[j].pod)
  BY DEF Same, Exists
<1> QED BY <1>1 DEF Work, Same, Active

LEMMA Frame ==
    ASSUME IInv, Serial, NEW k \in Callers, Active(k), Others(k), call'[k].pod = call[k].pod,
           \A p \in Pods : p # call[k].pod => Same(p),
           UsedBy(call[k].pod)' # {} => Exists(call[k].pod)',
           Work(k)'
    PROVE  Serial'
<1>1. OnePerPod'
  BY DEF Serial, OnePerPod, Others, Active
<1>2. Housed'
  BY DEF Serial, Housed, Same, Exists
<1>3. ASSUME NEW j \in Callers, j # k PROVE Work(j)'
  <2>1. call'[j] = call[j] /\ Work(j)
    BY <1>3 DEF Others, Serial
  <2>2. Active(j) => call[j].pod \in Pods /\ call[j].pod # call[k].pod
    BY <1>3 DEF IInv, Shape, CallOK, Serial, OnePerPod
  <2> QED BY <2>1, <2>2, WorkKept
<1> QED BY <1>1, <1>2, <1>3 DEF Serial

\* Steps that change neither a profile nor a container.
LEMMA FrameRead ==
    ASSUME IInv, Serial, NEW k \in Callers, Active(k), Others(k), call'[k].pod = call[k].pod,
           UNCHANGED <<profile, ctr>>, Work(k)'
    PROVE  Serial'
<1>1. \A p \in Pods : Same(p) /\ (Exists(p)' <=> Exists(p))
  BY DEF Same, UsedBy, Running, Present, Exists
<1>2. call[k].pod \in Pods
  BY DEF IInv, Shape, CallOK
<1> QED BY <1>1, <1>2, Frame DEF Serial, Housed, Same

LEMMA FrameReturn ==
    ASSUME IInv, Serial, NEW k \in Callers, Active(k), UNCHANGED <<profile, ctr>>,
           NEW res \in {"ok", "err", "fault"}, Return(k, res)
    PROVE  Serial'
<1>1. TypeOK
  BY DEF IInv
<1> QED BY <1>1, ReturnFacts, FrameRead DEF Work, Active

\* What is so of a pod stays so while nothing but calls changes.
LEMMA Unmoved ==
    ASSUME UNCHANGED <<profile, ctr>>
    PROVE  \A p \in Pods : /\ Exists(p)' <=> Exists(p)
                           /\ UsedBy(p)' = UsedBy(p) /\ Running(p)' = Running(p)
                           /\ profile'[p] = profile[p]
  BY DEF Exists, UsedBy, Running, Present

-----------------------------------------------------------------------------
(* The steps of a call that only read.                                      *)
LEMMA SerialRun ==
    ASSUME IInv, Serial, NEW k \in Callers, RunRefresh(k) \/ RunNetwork(k) \/ RunSaved(k)
    PROVE  Serial'
<1>1. TypeOK /\ CallOK(k) /\ call[k] \in Call /\ Work(k) /\ Active(k)
  BY DEF IInv, TypeOK, Shape, Serial, RunRefresh, RunNetwork, RunSaved, Active
<1>2. UNCHANGED <<profile, ctr>>
  BY DEF RunRefresh, RunNetwork, RunSaved
<1>3. call[k].op = "RunPodSandbox" /\ call[k].pc # "create" /\ call[k].pod \in Pods
  BY <1>1 DEF RunRefresh, RunNetwork, RunSaved, CallOK, Path
<1>4. profile'[call[k].pod].state = "ready"
  BY <1>1, <1>2, <1>3 DEF Work
<1>5. CASE Return(k, "ok") \/ Return(k, "err")
  BY <1>1, <1>2, <1>5, FrameReturn
<1>6. CASE Set(k, [call[k] EXCEPT !.etag = profile[call[k].pod], !.pc = "network"])
  <2>1. /\ call'[k].pc = "network" /\ call'[k].pod = call[k].pod /\ call'[k].op = call[k].op
        /\ Others(k)
    BY <1>1, <1>6 DEF Set, Others, TypeOK, Call
  <2> QED BY <1>1, <1>2, <1>3, <1>4, <2>1, FrameRead DEF Work, Exists
<1>7. CASE Goto(k, "save")
  BY <1>1, <1>2, <1>3, <1>4, <1>7, GotoFacts, FrameRead DEF Work, Exists
<1> QED BY <1>5, <1>6, <1>7 DEF RunRefresh, RunNetwork, RunSaved

LEMMA SerialGet ==
    ASSUME IInv, Serial, NEW k \in Callers, GetSandbox(k) \/ GetContainer(k)
    PROVE  Serial'
<1>1. TypeOK /\ CallOK(k) /\ call[k] \in Call /\ Work(k) /\ Active(k)
  BY DEF IInv, TypeOK, Shape, Serial, GetSandbox, GetContainer, Active
<1>2. UNCHANGED <<profile, ctr>> /\ call[k].pc = "get"
  BY DEF GetSandbox, GetContainer
<1>3. call[k].pod \in Pods /\ call[k].list = {} /\ call[k].op # "RunPodSandbox"
  BY <1>1, <1>2 DEF CallOK, Path, Work
<1>4. CASE Return(k, "ok") \/ Return(k, "err")
  BY <1>1, <1>2, <1>4, FrameReturn
<1>5. CASE /\ Exists(call[k].pod)
           /\ Set(k, [call[k] EXCEPT !.etag = profile[call[k].pod],
                                     !.todo = UsedBy(call[k].pod), !.pc = "list"])
  <2>1. /\ call'[k].pc = "list" /\ call'[k].pod = call[k].pod /\ call'[k].op = call[k].op
        /\ call'[k].todo = UsedBy(call[k].pod) /\ call'[k].list = {} /\ Others(k)
    BY <1>1, <1>3, <1>5 DEF Set, Others, TypeOK, Call
  <2>2. Running(call[k].pod) \subseteq UsedBy(call[k].pod)
    BY DEF Running, UsedBy, Present
  <2> QED BY <1>1, <1>2, <1>3, <1>5, <2>1, <2>2, FrameRead, Unmoved DEF Work
<1>6. CASE GetContainer(k)
  <2> DEFINE c == call[k].ctr
  <2>1. call[k].op \in CtrOps /\ c \in Of(call[k].pod)
    BY <1>1, <1>2, <1>6 DEF GetContainer, CallOK
  <2>2. Present(c) => Exists(call[k].pod)
    BY <1>3, <2>1 DEF Of, Serial, Housed, UsedBy
  <2>3. call[k].op \notin PodOps
    BY <2>1 DEF CtrOps, PodOps
  <2>4. CASE Present(c) /\ Set(k, [call[k] EXCEPT !.pc = "stop",
                                     !.todo = IF ctr[c].st = "running" THEN {c} ELSE {}])
    <3>1. /\ call'[k].pc = "stop" /\ call'[k].pod = call[k].pod /\ call'[k].op = call[k].op
          /\ Others(k)
      BY <1>1, <2>4 DEF Set, Others, TypeOK, Call
    <3> QED BY <1>1, <1>2, <1>3, <2>2, <2>3, <2>4, <3>1, FrameRead, Unmoved DEF Work
  <2>5. CASE Present(c) /\ Set(k, [call[k] EXCEPT !.pc = "delete", !.todo = {c}])
    <3>1. /\ call'[k].pc = "delete" /\ call'[k].pod = call[k].pod /\ call'[k].op = call[k].op
          /\ Others(k)
      BY <1>1, <2>5 DEF Set, Others, TypeOK, Call
    <3> QED BY <1>1, <1>2, <1>3, <2>2, <2>3, <2>5, <3>1, FrameRead, Unmoved DEF Work
  <2>6. CASE Goto(k, "start")
    BY <1>1, <1>2, <1>3, <2>6, GotoFacts, FrameRead DEF Work, Inside
  <2> QED BY <1>4, <1>6, <2>4, <2>5, <2>6 DEF GetContainer
<1> QED BY <1>4, <1>5, <1>6 DEF GetSandbox

LEMMA SerialList ==
    ASSUME IInv, Serial, NEW k \in Callers, ListContainers(k)
    PROVE  Serial'
<1>1. TypeOK /\ CallOK(k) /\ call[k] \in Call /\ Work(k) /\ Active(k)
  BY DEF IInv, TypeOK, Shape, Serial, ListContainers, Active
<1>2. UNCHANGED <<profile, ctr>> /\ call[k].pc = "list"
  BY DEF ListContainers
<1>3. /\ call[k].pod \in Pods /\ call[k].op # "RunPodSandbox" /\ Exists(call[k].pod)
      /\ UsedBy(call[k].pod) = call[k].todo \cup call[k].list
      /\ Running(call[k].pod) \subseteq call[k].todo \cup call[k].running
  BY <1>1, <1>2 DEF CallOK, Path, Work, Inside
<1>4. CASE Return(k, "err")
  BY <1>1, <1>2, <1>4, FrameReturn
<1>5. CASE call[k].todo = {} /\ Set(k, [call[k] EXCEPT !.todo = call[k].running, !.pc = "stop"])
  <2>1. /\ call'[k].pc = "stop" /\ call'[k].pod = call[k].pod /\ call'[k].op = call[k].op
        /\ call'[k].todo = call[k].running /\ call'[k].list = call[k].list /\ Others(k)
    BY <1>1, <1>5 DEF Set, Others, TypeOK, Call
  <2> QED BY <1>1, <1>2, <1>3, <1>5, <2>1, FrameRead, Unmoved DEF Work
<1>6. ASSUME NEW c \in call[k].todo,
             Set(k, [call[k] EXCEPT
                       !.todo = @ \ {c}, !.list = @ \cup {c},
                       !.running = IF ctr[c].st = "running" THEN @ \cup {c} ELSE @])
      PROVE  Serial'
  <2>1. /\ call'[k].pc = "list" /\ call'[k].pod = call[k].pod /\ call'[k].op = call[k].op
        /\ call'[k].todo = call[k].todo \ {c} /\ call'[k].list = call[k].list \cup {c}
        /\ call'[k].running = IF ctr[c].st = "running" THEN call[k].running \cup {c}
                                                       ELSE call[k].running
        /\ Others(k)
    BY <1>1, <1>2, <1>6 DEF Set, Others, TypeOK, Call
  <2>2. Running(call[k].pod) \subseteq call'[k].todo \cup call'[k].running
    BY <1>3, <2>1 DEF Running
  <2>3. UsedBy(call[k].pod) = call'[k].todo \cup call'[k].list
    BY <1>3, <1>6, <2>1
  <2> QED BY <1>1, <1>2, <1>3, <2>1, <2>2, <2>3, FrameRead, Unmoved DEF Work
<1> QED BY <1>4, <1>5, <1>6 DEF ListContainers

-----------------------------------------------------------------------------
(* The steps between the requests that change something.                    *)
LEMMA SerialStops ==
    ASSUME IInv, Serial, NEW k \in Callers, StopRecord(k) \/ StopDone(k)
    PROVE  Serial'
<1>1. TypeOK /\ CallOK(k) /\ call[k] \in Call /\ Work(k) /\ Active(k)
  BY DEF IInv, TypeOK, Shape, Serial, StopRecord, StopDone, Active
<1>2. UNCHANGED <<profile, ctr>> /\ call[k].pc \in {"stop", "record"}
  BY DEF StopRecord, StopDone
<1>3. /\ call[k].pod \in Pods /\ Exists(call[k].pod)
      /\ call[k].op \in {"StopContainer", "StopPodSandbox", "RemovePodSandbox"}
      /\ call[k].op # "StopContainer" => /\ UsedBy(call[k].pod) = call[k].list
                                         /\ Running(call[k].pod) \subseteq call[k].todo
  BY <1>1, <1>2 DEF CallOK, Path, Work, Inside, PodOps
<1>4. CASE Return(k, "ok") \/ Return(k, "err")
  BY <1>1, <1>2, <1>4, FrameReturn
<1>5. CASE Set(k, [call[k] EXCEPT !.pc = "stop",
                    !.cached = IF Present(call[k].ctr) THEN @ \cup {call[k].ctr} ELSE @])
  <2>1. /\ call'[k].pc = "stop" /\ call'[k].pod = call[k].pod /\ call'[k].op = call[k].op
        /\ call'[k].todo = call[k].todo /\ call'[k].list = call[k].list /\ Others(k)
    BY <1>1, <1>5 DEF Set, Others, TypeOK, Call
  <2> QED BY <1>1, <1>2, <1>3, <2>1, FrameRead, Unmoved DEF Work, PodOps
<1>6. CASE StopDone(k) /\ call[k].op = "StopPodSandbox"
  <2>1. Goto(k, "notready") /\ call[k].todo = {}
    BY <1>6 DEF StopDone
  <2> QED BY <1>1, <1>2, <1>3, <1>6, <2>1, GotoFacts, FrameRead, Unmoved DEF Work
<1>7. CASE StopDone(k) /\ call[k].op = "RemovePodSandbox"
  <2>1. /\ Set(k, [call[k] EXCEPT !.todo = call[k].list, !.pc = "delete"])
        /\ call[k].todo = {}
    BY <1>7 DEF StopDone
  <2>2. /\ call'[k].pc = "delete" /\ call'[k].pod = call[k].pod /\ call'[k].op = call[k].op
        /\ call'[k].todo = call[k].list /\ Others(k)
    BY <1>1, <2>1 DEF Set, Others, TypeOK, Call
  <2> QED BY <1>1, <1>2, <1>3, <1>7, <2>1, <2>2, FrameRead, Unmoved DEF Work
<1>8. CASE StopDone(k) /\ call[k].op = "StopContainer"
  BY <1>4, <1>8 DEF StopDone
<1> QED BY <1>3, <1>4, <1>5, <1>6, <1>7, <1>8 DEF StopRecord

LEMMA SerialDeletes ==
    ASSUME IInv, Serial, NEW k \in Callers,
           DeleteSandboxLookup(k) \/ Detach(k) \/ DeleteDone(k)
    PROVE  Serial'
<1>1. TypeOK /\ CallOK(k) /\ call[k] \in Call /\ Work(k) /\ Active(k)
  BY DEF IInv, TypeOK, Shape, Serial, DeleteSandboxLookup, Detach, DeleteDone, Active
<1>2. UNCHANGED <<profile, ctr>> /\ call[k].pc \in {"delete", "sandbox", "detach"}
  BY DEF DeleteSandboxLookup, Detach, DeleteDone
<1>3. /\ call[k].pod \in Pods /\ Exists(call[k].pod)
      /\ call[k].op \in {"RemoveContainer", "RemovePodSandbox"}
      /\ call[k].op # "RemoveContainer" => /\ UsedBy(call[k].pod) = call[k].todo
                                           /\ Running(call[k].pod) = {}
  BY <1>1, <1>2 DEF CallOK, Path, Work, Inside, PodOps
<1>4. CASE Return(k, "ok") \/ Return(k, "err")
  BY <1>1, <1>2, <1>4, FrameReturn
<1>5. CASE Goto(k, "detach") \/ Goto(k, "delete")
  BY <1>1, <1>2, <1>3, <1>5, GotoFacts, FrameRead, Unmoved DEF Work, PodOps
<1>6. CASE Goto(k, "remove") /\ call[k].todo = {} /\ call[k].op # "RemoveContainer"
  BY <1>1, <1>2, <1>3, <1>6, GotoFacts, FrameRead, Unmoved DEF Work
<1> QED BY <1>4, <1>5, <1>6 DEF DeleteSandboxLookup, Detach, DeleteDone

LEMMA SerialCreates ==
    ASSUME IInv, Serial, NEW k \in Callers,
           CreateValidate(k) \/ CreateNetwork(k) \/ StartRecord(k)
    PROVE  Serial'
<1>1. TypeOK /\ CallOK(k) /\ call[k] \in Call /\ Active(k)
  BY DEF IInv, TypeOK, Shape, CreateValidate, CreateNetwork, StartRecord, Active
<1>2. UNCHANGED <<profile, ctr>>
  BY DEF CreateValidate, CreateNetwork, StartRecord
<1>3. CASE Return(k, "ok") \/ Return(k, "err")
  BY <1>1, <1>2, <1>3, FrameReturn
<1>4. CASE call[k].pc = "validate" /\ Goto(k, "lxdcreate")
  <2>1. call[k].op # "RunPodSandbox"
    BY <1>1, <1>4 DEF CallOK, Path
  <2> QED BY <1>1, <1>2, <1>4, <2>1, GotoFacts, FrameRead DEF Work, Inside
<1> QED BY <1>3, <1>4 DEF CreateValidate, CreateNetwork, StartRecord

LEMMA SerialFault ==
    ASSUME IInv, Serial, NEW k \in Callers, RequestFails(k)
    PROVE  Serial'
<1>1. Active(k) /\ UNCHANGED <<profile, ctr>> /\ Return(k, "fault")
  BY FaultyAssumption DEF RequestFails, Requests, Active
<1> QED BY <1>1, FrameReturn

-----------------------------------------------------------------------------
(* The requests that change the profile.                                    *)
LEMMA SerialProfile ==
    ASSUME IInv, Serial, NEW k \in Callers,
           RunCreate(k) \/ RunSave(k) \/ SandboxStop(k) \/ SandboxDelete(k)
    PROVE  Serial'
<1>1. TypeOK /\ CallOK(k) /\ call[k] \in Call /\ Work(k) /\ Active(k)
  BY DEF IInv, TypeOK, Shape, Serial, RunCreate, RunSave, SandboxStop, SandboxDelete, Active
<1>2. UNCHANGED ctr /\ call[k].pod \in Pods
  BY <1>1 DEF RunCreate, RunSave, SandboxStop, SandboxDelete, CallOK
<1>3. \A p \in Pods : UsedBy(p)' = UsedBy(p) /\ Running(p)' = Running(p)
  BY <1>2 DEF UsedBy, Running, Present
<1>4. \A p \in Pods : p # call[k].pod => Same(p)
  <2>1. \A p \in Pods : p # call[k].pod => profile'[p] = profile[p]
    BY <1>1, <1>2 DEF RunCreate, RunSave, SandboxStop, SandboxDelete, TypeOK
  <2> QED BY <1>3, <2>1 DEF Same
<1>5. CASE UNCHANGED profile /\ (Return(k, "ok") \/ Return(k, "err"))
  BY <1>1, <1>2, <1>5, FrameReturn
<1>6. CASE /\ profile'[call[k].pod].state = "ready" /\ call[k].op = "RunPodSandbox"
           /\ Goto(k, "refresh") \/ Goto(k, "saved")
  BY <1>1, <1>4, <1>6, GotoFacts, Frame DEF Work, Exists
<1>7. CASE Return(k, "ok") /\ profile'[call[k].pod].state \in {"ready", "notready"}
  BY <1>1, <1>4, <1>7, ReturnFacts, Frame DEF Work, Active, Exists
<1>8. CASE RunCreate(k)
  <2>1. call[k].op = "RunPodSandbox"
    BY <1>1, <1>8, Paths DEF RunCreate, CallOK
  <2> QED BY <1>1, <1>2, <1>6, <1>8, <2>1 DEF RunCreate, NewProfile, TypeOK
<1>9. CASE RunSave(k)
  <2>1. call[k].op = "RunPodSandbox"
    BY <1>1, <1>9, Paths DEF RunSave, CallOK
  <2> QED BY <1>1, <1>2, <1>5, <1>6, <1>9, <2>1 DEF RunSave, TypeOK
<1>10. CASE SandboxStop(k)
  <2>1. Stopped(call[k].etag).state = "notready"
    BY <1>1 DEF Stopped, Call, Profile
  <2> QED BY <1>1, <1>2, <1>5, <1>7, <1>10, <2>1 DEF SandboxStop, TypeOK
<1>11. CASE SandboxDelete(k)
  <2>1. UsedBy(call[k].pod) = {} /\ Return(k, "ok")
    BY <1>1, <1>2, <1>11 DEF SandboxDelete, Work
  <2> QED BY <1>1, <1>2, <1>3, <1>4, <2>1, ReturnFacts, Frame DEF Work, Active
<1> QED BY <1>8, <1>9, <1>10, <1>11

-----------------------------------------------------------------------------
(* The requests that change a container.                                    *)
\* Only the pod of the container notices.
LEMMA OneContainer ==
    ASSUME NEW c \in Containers, NEW q, ctr'[c].pod = q,
           ctr[c].st # "absent" => ctr[c].pod = q,
           \A d \in Containers : d # c => ctr'[d] = ctr[d]
    PROVE  /\ \A p \in Pods : p # q => UsedBy(p)' = UsedBy(p) /\ Running(p)' = Running(p)
           /\ UsedBy(q)' = IF ctr'[c].st \in {"stopped", "starting", "running"}
                             THEN UsedBy(q) \cup {c} ELSE UsedBy(q) \ {c}
           /\ Running(q)' = IF ctr'[c].st = "running" THEN Running(q) \cup {c}
                                                      ELSE Running(q) \ {c}
  BY DEF UsedBy, Running, Present

LEMMA SerialStopContainer ==
    ASSUME IInv, Serial, NEW k \in Callers, StopContainer(k)
    PROVE  Serial'
<1>1. TypeOK /\ CallOK(k) /\ call[k] \in Call /\ Work(k) /\ Active(k)
  BY DEF IInv, TypeOK, Shape, Serial, StopContainer, Active
<1>2. UNCHANGED profile /\ call[k].pc = "stop"
  BY DEF StopContainer
<1>3. /\ call[k].pod \in Pods /\ Exists(call[k].pod) /\ call[k].op # "RunPodSandbox"
      /\ call[k].todo \subseteq Of(call[k].pod)
      /\ call[k].op \in PodOps => /\ UsedBy(call[k].pod) = call[k].list
                                  /\ Running(call[k].pod) \subseteq call[k].todo
  BY <1>1, <1>2 DEF CallOK, Path, Work, Inside
<1>4. PICK c \in call[k].todo :
          \/ /\ ctr[c].st \in {"stopped", "running"}
             /\ ctr' = [ctr EXCEPT ![c].st = "stopped"]
             /\ Set(k, [call[k] EXCEPT !.todo = @ \ {c}, !.ctr = c, !.pc = "record"])
          \/ /\ ctr[c].st = "starting"
             /\ Return(k, "err") /\ UNCHANGED ctr
          \/ /\ ~Present(c)
             /\ Set(k, [call[k] EXCEPT !.todo = @ \ {c}]) /\ UNCHANGED ctr
  BY DEF StopContainer
<1>5. c \in Containers /\ ctr[c].st # "absent" /\ ctr[c].pod = call[k].pod
  BY <1>3, <1>4 DEF Of
<1>6. CASE Return(k, "err") /\ UNCHANGED ctr
  BY <1>1, <1>2, <1>6, FrameReturn
<1>7. /\ Exists(call[k].pod) /\ profile' = profile
      /\ \A p \in Pods : profile'[p].state = profile[p].state
  BY <1>2, <1>3
<1>8. ASSUME call'[k].pc \in {"stop", "record"}, call'[k].pod = call[k].pod,
             call'[k].op = call[k].op, call'[k].list = call[k].list,
             call'[k].todo = call[k].todo \ {c}, Others(k),
             \A p \in Pods : UsedBy(p)' = UsedBy(p) /\ Running(p)' \subseteq Running(p),
             c \notin Running(call[k].pod)'
      PROVE  Serial'
  <2>1. Exists(call[k].pod)'
    BY <1>7, <1>8 DEF Exists
  <2>2. Work(k)'
    BY <1>3, <1>7, <1>8, <2>1 DEF Work
  <2> QED BY <1>1, <1>3, <1>7, <1>8, <2>1, <2>2, Frame DEF Same
<1>9. CASE /\ ctr[c].st \in {"stopped", "running"}
           /\ ctr' = [ctr EXCEPT ![c].st = "stopped"]
           /\ Set(k, [call[k] EXCEPT !.todo = @ \ {c}, !.ctr = c, !.pc = "record"])
  <2>1. /\ call'[k].pc = "record" /\ call'[k].pod = call[k].pod
        /\ call'[k].op = call[k].op /\ call'[k].list = call[k].list
        /\ call'[k].todo = call[k].todo \ {c} /\ Others(k)
    BY <1>1, <1>9 DEF Set, Others, TypeOK, Call
  <2>2. /\ ctr'[c].st = "stopped" /\ ctr'[c].pod = call[k].pod
        /\ \A d \in Containers : d # c => ctr'[d] = ctr[d]
    BY <1>1, <1>5, <1>9 DEF TypeOK, Ctr
  <2>3. c \in UsedBy(call[k].pod)
    BY <1>5, <1>9 DEF UsedBy, Present
  <2>4. /\ \A p \in Pods : p # call[k].pod =>
              UsedBy(p)' = UsedBy(p) /\ Running(p)' = Running(p)
        /\ UsedBy(call[k].pod)' = UsedBy(call[k].pod) \cup {c}
        /\ Running(call[k].pod)' = Running(call[k].pod) \ {c}
    BY <1>5, <2>1, <2>2, OneContainer
  <2>5. /\ \A p \in Pods : UsedBy(p)' = UsedBy(p) /\ Running(p)' \subseteq Running(p)
        /\ c \notin Running(call[k].pod)'
    BY <2>1, <2>3, <2>4
  <2> QED BY <1>8, <2>1, <2>5
<1>10. CASE /\ ~Present(c)
            /\ Set(k, [call[k] EXCEPT !.todo = @ \ {c}]) /\ UNCHANGED ctr
  <2>1. /\ call'[k].pc = "stop" /\ call'[k].pod = call[k].pod
        /\ call'[k].op = call[k].op /\ call'[k].list = call[k].list
        /\ call'[k].todo = call[k].todo \ {c} /\ Others(k)
    BY <1>1, <1>2, <1>10 DEF Set, Others, TypeOK, Call
  <2>2. /\ \A p \in Pods : UsedBy(p)' = UsedBy(p) /\ Running(p)' \subseteq Running(p)
        /\ c \notin Running(call[k].pod)'
    BY <1>5, <1>10, <2>1 DEF UsedBy, Running, Present
  <2> QED BY <1>8, <2>1, <2>2
<1> QED BY <1>4, <1>6, <1>9, <1>10

LEMMA SerialDeleteContainer ==
    ASSUME IInv, Serial, NEW k \in Callers, DeleteContainer(k)
    PROVE  Serial'
<1>1. TypeOK /\ CallOK(k) /\ call[k] \in Call /\ Work(k) /\ Active(k)
  BY DEF IInv, TypeOK, Shape, Serial, DeleteContainer, Active
<1>2. UNCHANGED profile /\ call[k].pc = "delete"
  BY DEF DeleteContainer
<1>3. /\ call[k].pod \in Pods /\ Exists(call[k].pod) /\ call[k].op # "RunPodSandbox"
      /\ call[k].todo \subseteq Of(call[k].pod)
      /\ call[k].op \in PodOps => /\ UsedBy(call[k].pod) = call[k].todo
                                  /\ Running(call[k].pod) = {}
  BY <1>1, <1>2 DEF CallOK, Path, Work, Inside
<1>4. CASE Return(k, "err") /\ UNCHANGED ctr
  BY <1>1, <1>2, <1>4, FrameReturn
<1>5. ASSUME NEW c \in call[k].todo, ctr' = [ctr EXCEPT ![c].st = "deleted"],
             Set(k, [call[k] EXCEPT !.todo = @ \ {c}, !.ctr = c, !.pc = "sandbox"])
      PROVE  Serial'
  <2>1. c \in Containers /\ ctr[c].st # "absent" /\ ctr[c].pod = call[k].pod
    BY <1>3, <1>5 DEF Of
  <2>2. /\ call'[k].pc = "sandbox" /\ call'[k].pod = call[k].pod
        /\ call'[k].op = call[k].op /\ call'[k].todo = call[k].todo \ {c} /\ Others(k)
    BY <1>1, <1>5 DEF Set, Others, TypeOK, Call
  <2>3. /\ Exists(call[k].pod)'
        /\ \A p \in Pods : profile'[p].state = profile[p].state
    BY <1>2, <1>3, <2>2 DEF Exists
  <2>4. /\ ctr'[c].st = "deleted" /\ ctr'[c].pod = call[k].pod
        /\ \A d \in Containers : d # c => ctr'[d] = ctr[d]
    BY <1>1, <1>5, <2>1 DEF TypeOK, Ctr
  <2>5. /\ \A p \in Pods : p # call[k].pod => Same(p)
        /\ UsedBy(call[k].pod)' = UsedBy(call[k].pod) \ {c}
        /\ Running(call[k].pod)' = Running(call[k].pod) \ {c}
    BY <2>1, <2>2, <2>3, <2>4, OneContainer DEF Same
  <2>6. Work(k)'
    BY <1>3, <2>2, <2>3, <2>5 DEF Work
  <2> QED BY <1>1, <2>2, <2>3, <2>5, <2>6, Frame
<1> QED BY <1>4, <1>5 DEF DeleteContainer

LEMMA SerialCreateContainer ==
    ASSUME IInv, Serial, NEW k \in Callers, CreateContainer(k)
    PROVE  Serial'
<1>1. TypeOK /\ CallOK(k) /\ call[k] \in Call /\ Active(k)
  BY DEF IInv, TypeOK, Shape, CreateContainer, Active
<1>2. UNCHANGED profile /\ call[k].pc = "lxdcreate"
  BY DEF CreateContainer
<1>3. /\ call[k].pod \in Pods /\ call[k].op # "RunPodSandbox"
      /\ call[k].ctr \in Containers /\ ctr[call[k].ctr].st = "absent"
  BY <1>1, <1>2 DEF CallOK, Path, Creating
<1>4. CASE Return(k, "err") /\ UNCHANGED ctr
  BY <1>1, <1>2, <1>4, FrameReturn
<1>5. CASE /\ Exists(call[k].pod) /\ Goto(k, "created")
           /\ ctr' = [ctr EXCEPT ![call[k].ctr] =
                        [st |-> "stopped", pod |-> call[k].pod, pid |-> 0]]
  <2>1. /\ ctr'[call[k].ctr].pod = call[k].pod
        /\ \A d \in Containers : d # call[k].ctr => ctr'[d] = ctr[d]
    BY <1>1, <1>3, <1>5 DEF TypeOK
  <2>2. \A p \in Pods : p # call[k].pod => Same(p)
    BY <1>2, <1>3, <2>1, OneContainer DEF Same
  <2>3. Exists(call[k].pod)'
    BY <1>1, <1>2, <1>5, GotoFacts DEF Exists
  <2> QED BY <1>1, <1>3, <1>5, <2>2, <2>3, GotoFacts, Frame DEF Work, Inside
<1> QED BY <1>4, <1>5 DEF CreateContainer

\* The start request, and what becomes of it.
LEMMA SerialStart ==
    ASSUME IInv, Serial, NEW k \in Callers, StartContainer(k) \/ StartWait(k)
    PROVE  Serial'
<1>1. TypeOK /\ CallOK(k) /\ call[k] \in Call /\ Active(k)
  BY DEF IInv, TypeOK, Shape, StartContainer, StartWait, Active
<1>2. UNCHANGED profile /\ call[k].pc \in {"start", "starting"}
  BY DEF StartContainer, StartWait
<1>3. /\ call[k].pod \in Pods /\ call[k].op # "RunPodSandbox"
      /\ call[k].ctr \in Containers /\ ctr[call[k].ctr].st # "absent"
      /\ ctr[call[k].ctr].pod = call[k].pod
  BY <1>1, <1>2 DEF CallOK, Path, Of
<1>4. CASE Return(k, "err") /\ UNCHANGED ctr
  BY <1>1, <1>2, <1>4, FrameReturn
<1>5. ASSUME Present(call[k].ctr), Others(k), call'[k].pod = call[k].pod,
             ctr'[call[k].ctr].pod = call[k].pod,
             \A d \in Containers : d # call[k].ctr => ctr'[d] = ctr[d],
             Active(k)' => /\ call'[k].pc \in {"starting", "started"}
                           /\ call'[k].op = call[k].op
      PROVE  Serial'
  <2>1. \A p \in Pods : p # call[k].pod => Same(p)
    BY <1>2, <1>3, <1>5, OneContainer DEF Same
  <2>2. Exists(call[k].pod)'
    <3>1. call[k].ctr \in UsedBy(call[k].pod)
      BY <1>3, <1>5 DEF UsedBy
    <3> QED BY <1>2, <1>3, <1>5, <3>1 DEF Serial, Housed, Exists
  <2> QED BY <1>1, <1>3, <1>5, <2>1, <2>2, Frame DEF Work, Inside
<1>6. CASE /\ ctr[call[k].ctr].st = "stopped" /\ Goto(k, "starting")
           /\ ctr' = [ctr EXCEPT ![call[k].ctr].st = "starting"]
  <2>1. /\ ctr'[call[k].ctr].pod = call[k].pod
        /\ \A d \in Containers : d # call[k].ctr => ctr'[d] = ctr[d]
    BY <1>1, <1>3, <1>6 DEF TypeOK, Ctr
  <2> QED BY <1>1, <1>5, <1>6, <2>1, GotoFacts DEF Present
<1>7. CASE StartWait(k)
  <2>1. /\ ctr[call[k].ctr].st = "starting"
        /\ \/ Started(call[k].ctr, "pending") /\ Goto(k, "started")
           \/ StartFailed(call[k].ctr) /\ Return(k, "fault")
    BY <1>7 DEF StartWait
  <2>2. /\ ctr'[call[k].ctr].pod = call[k].pod
        /\ \A d \in Containers : d # call[k].ctr => ctr'[d] = ctr[d]
    BY <1>1, <1>3, <2>1 DEF Started, StartFailed, TypeOK, Ctr
  <2>3. CASE Goto(k, "started")
    BY <1>1, <1>5, <2>1, <2>2, <2>3, GotoFacts DEF Present
  <2>4. CASE Return(k, "fault")
    <3>1. ~Active(k)' /\ call'[k].pod = call[k].pod /\ Others(k)
      BY <1>1, <2>4, ReturnFacts DEF Active
    <3> QED BY <1>5, <2>1, <2>2, <3>1 DEF Present
  <2> QED BY <2>1, <2>3, <2>4
<1> QED BY <1>4, <1>6, <1>7 DEF StartContainer

-----------------------------------------------------------------------------
(* Arriving calls, event handlers and the environment.                      *)
LEMMA SerialBegin ==
    ASSUME IInv, Serial, ~Overlap, NEW k \in Callers, NEW op, NEW p \in Pods, NEW c,
           NEW pc \in {"create", "get", "validate"}, Begin(k, op, p, c, pc),
           op = "RunPodSandbox" => pc = "create"
    PROVE  Serial'
<1>1. /\ call'[k].op = op /\ call'[k].pc = pc /\ call'[k].pod = p /\ call'[k].list = {}
      /\ Others(k) /\ UNCHANGED <<profile, ctr>>
      /\ \A j \in Callers : Active(j) => call[j].pod # p
  BY DEF Begin, Free, Set, Others, NoCall, IInv, TypeOK
<1>2. OnePerPod'
  BY <1>1 DEF Serial, OnePerPod, Others, Active
<1>3. Housed'
  BY <1>1, Unmoved DEF Serial, Housed
<1>4. Work(k)'
  BY <1>1 DEF Work, Inside
<1>5. ASSUME NEW j \in Callers, j # k PROVE Work(j)'
  <2>1. call'[j] = call[j] /\ Work(j) /\ CallOK(j)
    BY <1>1, <1>5 DEF Others, Serial, IInv, Shape
  <2>2. Active(j) => Same(call[j].pod)
    BY <1>1, <2>1, Unmoved DEF CallOK, Same
  <2> QED BY <2>1, <2>2, WorkKept
<1> QED BY <1>2, <1>3, <1>4, <1>5 DEF Serial

LEMMA SerialArrive ==
    ASSUME IInv, Serial, ~Overlap, NEW k \in Callers, Arrive(k)
    PROVE  Serial'
<1>1. ASSUME NEW p \in Pods, BeginRun(k, p) PROVE Serial'
  BY <1>1, SerialBegin DEF BeginRun
<1>2. ASSUME NEW p \in Pods, NEW op \in PodOps, BeginPod(k, op, p) PROVE Serial'
  <2>1. op # "RunPodSandbox" /\ Begin(k, op, p, None, "get")
    BY <1>2 DEF BeginPod
  <2> QED BY <2>1, SerialBegin
<1>3. ASSUME NEW p \in Pods, NEW c \in Containers, BeginCreate(k, p, c) PROVE Serial'
  BY <1>3, SerialBegin DEF BeginCreate
<1>4. ASSUME NEW c \in Containers, NEW op \in CtrOps, BeginContainer(k, op, c) PROVE Serial'
  <2>1. /\ op # "RunPodSandbox" /\ Begin(k, op, ctr[c].pod, c, "get")
        /\ ctr[c].pod \in Pods
    BY <1>4 DEF BeginContainer, CtrOps, IInv, Shape, CtrOK
  <2> QED BY <2>1, SerialBegin
<1> QED BY <1>1, <1>2, <1>3, <1>4 DEF Arrive

\* Steps of nobody's call: they change no state of a profile, and start no
\* container of a pod that has a call.
LEMMA SerialOther ==
    ASSUME IInv, Serial, UNCHANGED call,
           \A p \in Pods : profile'[p].state = profile[p].state /\ UsedBy(p)' = UsedBy(p),
           \A j \in Callers : Active(j) => Same(call[j].pod)
    PROVE  Serial'
<1>1. OnePerPod'
  BY DEF Serial, OnePerPod, Active
<1>2. Housed'
  BY DEF Serial, Housed, Exists
<1>3. ASSUME NEW j \in Callers PROVE Work(j)'
  <2>1. Work(j) /\ call'[j] = call[j]
    BY DEF Serial
  <2> QED BY <2>1, WorkKept
<1> QED BY <1>1, <1>2, <1>3 DEF Serial

LEMMA SerialHandle ==
    ASSUME IInv, Serial, NEW i \in Pids, Handle(i)
    PROVE  Serial'
<1>1. UNCHANGED <<ctr, call>>
  BY DEF Handle, EventGetContainer, EventGetSandbox, EventGetState, EventAdd,
     EventAdded, EventSave
<1>2. \A p \in Pods : profile'[p].state = profile[p].state
  <2>1. CASE EventSave(i)
    <3>1. event[i].etag \in Profile /\ ctr[event[i].ctr].pod \in Pods
      BY <2>1 DEF EventSave, IInv, Shape, EventOK, CtrOK, TypeOK, Event
    <3> QED BY <2>1, <3>1 DEF EventSave, IInv, TypeOK, Profile
  <2>2. CASE UNCHANGED profile
    BY <2>2
  <2> QED BY <2>1, <2>2 DEF Handle, EventGetContainer, EventGetSandbox, EventGetState, EventAdd,
     EventAdded
<1>3. \A p \in Pods : Same(p)
  BY <1>1, <1>2 DEF Same, UsedBy, Running, Present
<1> QED BY <1>1, <1>3, SerialOther DEF Same, IInv, Shape, CallOK

LEMMA SerialExit ==
    ASSUME IInv, Serial, NEW c \in Containers, ContainerExits(c)
    PROVE  Serial'
<1>1. /\ ctr[c].st = "running" /\ UNCHANGED <<profile, call>>
      /\ ctr' = [ctr EXCEPT ![c].st = "stopped"]
  BY DEF ContainerExits
<1>2. /\ ctr'[c].st = "stopped" /\ ctr'[c].pod = ctr[c].pod
      /\ \A d \in Containers : d # c => ctr'[d] = ctr[d]
  BY <1>1 DEF IInv, TypeOK, Ctr
<1>3. \A p \in Pods : Same(p)
  <2>1. \A p \in Pods : UsedBy(p)' = UsedBy(p)
    BY <1>1, <1>2 DEF UsedBy, Present
  <2>2. \A p \in Pods : Running(p)' \subseteq Running(p)
    BY <1>1, <1>2 DEF Running
  <2> QED BY <1>1, <2>1, <2>2 DEF Same
<1> QED BY <1>1, <1>3, SerialOther DEF Same, IInv, Shape, CallOK

LEMMA SerialGoesOn ==
    ASSUME IInv, Serial, Awaited, NEW c \in Containers, StartGoesOn(c)
    PROVE  Serial'
<1>1. /\ ctr[c].st = "starting" /\ UNCHANGED <<profile, call>>
      /\ \A k \in Callers : ~(call[k].pc = "starting" /\ call[k].ctr = c)
  BY DEF StartGoesOn
<1>2. /\ ctr'[c].st \in {"stopped", "running"} /\ ctr'[c].pod = ctr[c].pod
      /\ \A d \in Containers : d # c => ctr'[d] = ctr[d]
  BY <1>1 DEF StartGoesOn, Started, StartFailed, IInv, TypeOK, Ctr
<1>3. \A p \in Pods : UsedBy(p)' = UsedBy(p)
  BY <1>1, <1>2 DEF UsedBy, Present
<1>4. ASSUME NEW j \in Callers, Active(j) PROVE Same(call[j].pod)
  <2>1. ctr[c].pod # call[j].pod /\ call[j].pod \in Pods
    BY <1>1, <1>4 DEF Awaited, IInv, Shape, CallOK
  <2>2. Running(call[j].pod)' \subseteq Running(call[j].pod)
    BY <1>1, <1>2, <2>1 DEF Running
  <2> QED BY <1>1, <1>3, <2>1, <2>2 DEF Same
<1> QED BY <1>1, <1>3, <1>4, SerialOther

LEMMA SerialCrash ==
    ASSUME Serial, Crash
    PROVE  Serial'
<1>1. UNCHANGED <<profile, ctr>> /\ \A k \in Callers : ~Active(k)'
  BY DEF Crash, Active, NoCall
<1>2. Housed'
  BY <1>1, Unmoved DEF Serial, Housed
<1> QED BY <1>1, <1>2 DEF Serial, OnePerPod, Work

LEMMA SerialInit == Init => Serial
<1> SUFFICES ASSUME Init PROVE Serial
  OBVIOUS
<1>1. /\ \A k \in Callers : ~Active(k)
      /\ \A p \in Pods : UsedBy(p) = {}
  BY DEF Init, NoCall, Active, UsedBy, Present
<1> QED BY <1>1 DEF Serial, OnePerPod, Housed, Work

LEMMA SerialNext == ~Overlap /\ IInv /\ Serial /\ Awaited /\ [Next]_vars => Serial'
<1> SUFFICES ASSUME ~Overlap, IInv, Serial, Awaited, [Next]_vars PROVE Serial'
  OBVIOUS
<1>1. ASSUME NEW k \in Callers, Step(k) PROVE Serial'
  BY <1>1, SerialRun, SerialGet, SerialList, SerialStops, SerialDeletes, SerialCreates,
     SerialProfile, SerialStopContainer, SerialDeleteContainer, SerialCreateContainer,
     SerialStart, SerialFault DEF Step
<1>2. ASSUME NEW k \in Callers, Arrive(k) PROVE Serial'
  BY <1>2, SerialArrive
<1>3. ASSUME NEW i \in Pids, Handle(i) PROVE Serial'
  BY <1>3, SerialHandle
<1>4. ASSUME NEW c \in Containers, ContainerExits(c) PROVE Serial'
  BY <1>4, SerialExit
<1>6. ASSUME NEW c \in Containers, StartGoesOn(c) PROVE Serial'
  BY <1>6, SerialGoesOn
<1>5. CASE UNCHANGED vars
  <2>1. UNCHANGED call /\ \A p \in Pods : Same(p)
    BY <1>5 DEF vars, Same, UsedBy, Running, Present
  <2> QED BY <2>1, SerialOther DEF Same, IInv, Shape, CallOK
<1> QED BY <1>6, <1>1, <1>2, <1>3, <1>4, <1>5, SerialCrash DEF Next

-----------------------------------------------------------------------------
LEMMA StepIsOwn ==
    ASSUME IInv, NEW j \in Callers, Step(j)
    PROVE  Others(j)
<1>1. TypeOK /\ CallOK(j)
  BY DEF IInv, Shape
<1>2. ASSUME NEW r, Set(j, r) PROVE Others(j)
  BY <1>1, <1>2 DEF TypeOK, Set, Others
<1>3. ASSUME NEW pc, Goto(j, pc) PROVE Others(j)
  BY <1>2, <1>3 DEF Goto
<1>4. ASSUME NEW res, Return(j, res) PROVE Others(j)
  BY <1>2, <1>4 DEF Return
<1>5. CASE \/ RunCreate(j) \/ RunRefresh(j) \/ RunNetwork(j) \/ RunSave(j) \/ RunSaved(j)
           \/ GetSandbox(j) \/ ListContainers(j) \/ GetContainer(j)
  BY <1>2, <1>3, <1>4, <1>5 DEF RunCreate, RunRefresh, RunNetwork, RunSave, RunSaved,
     GetSandbox, ListContainers, GetContainer
<1>6. CASE \/ StopContainer(j) \/ StopRecord(j) \/ SandboxStop(j) \/ DeleteContainer(j)
           \/ DeleteSandboxLookup(j) \/ Detach(j) \/ DeleteDone(j) \/ SandboxDelete(j)
  BY <1>2, <1>3, <1>4, <1>6 DEF StopContainer, StopRecord, SandboxStop, DeleteContainer,
     DeleteSandboxLookup, Detach, DeleteDone, SandboxDelete
<1>7. CASE StopDone(j)
  <2>1. call[j].op \in {"StopContainer", "StopPodSandbox", "RemovePodSandbox"}
    BY <1>1, <1>7, Paths DEF StopDone, CallOK, Active
  <2> QED BY <1>2, <1>3, <1>4, <1>7, <2>1 DEF StopDone
<1>8. CASE \/ CreateValidate(j) \/ CreateContainer(j) \/ CreateNetwork(j)
           \/ StartContainer(j) \/ StartWait(j) \/ StartRecord(j) \/ RequestFails(j)
  BY <1>2, <1>3, <1>4, <1>8 DEF CreateValidate, CreateContainer, CreateNetwork,
     StartContainer, StartWait, StartRecord, RequestFails
<1> QED BY <1>5, <1>6, <1>7, <1>8 DEF Step

(* What is being started.                                                   *)
LEMMA AwaitedKept ==
    ASSUME Awaited,
           \A c \in Containers : ctr'[c].st = "starting" =>
               ctr[c].st = "starting" /\ ctr'[c].pod = ctr[c].pod,
           \A j \in Callers : Active(j)' =>
               /\ Active(j) /\ call'[j].pod = call[j].pod
               /\ call[j].pc = "starting" => call'[j] = call[j]
    PROVE  Awaited'
  BY DEF Awaited, Active

\* A call keeps to its pod, and only a StartContainer call asks for a start.
LEMMA StepKeeps ==
    ASSUME IInv, NEW k \in Callers, Step(k), ~StartContainer(k), ~StartWait(k)
    PROVE  /\ Active(k) /\ (call[k].pc = "starting" => ~Active(k)')
           /\ call'[k].pod = call[k].pod
           /\ \A c \in Containers : ctr'[c].st = "starting" =>
                 ctr[c].st = "starting" /\ ctr'[c].pod = ctr[c].pod
<1>1. TypeOK /\ CallOK(k) /\ call[k] \in Call
  BY DEF IInv, TypeOK, Shape
<1>2. ASSUME NEW pc, Goto(k, pc) PROVE call'[k].pod = call[k].pod
  BY <1>1, <1>2 DEF Goto, Set, TypeOK, Call
<1>3. ASSUME NEW res, Return(k, res) PROVE call'[k].pod = call[k].pod /\ ~Active(k)'
  BY <1>1, <1>3 DEF Return, Set, TypeOK, NoCall, Active
<1>4. CASE RunCreate(k) \/ RunRefresh(k) \/ RunNetwork(k) \/ RunSave(k) \/ RunSaved(k)
  <2>1. ASSUME NEW r, Set(k, [call[k] EXCEPT !.etag = r, !.pc = "network"])
        PROVE  call'[k].pod = call[k].pod
    BY <1>1, <2>1 DEF Set, TypeOK, Call
  <2> QED BY <1>2, <1>3, <1>4, <2>1 DEF RunCreate, RunRefresh, RunNetwork, RunSave, RunSaved, Active
<1>5. CASE GetSandbox(k) \/ ListContainers(k) \/ GetContainer(k)
  <2>1. call'[k].pod = call[k].pod
    <3>2. \A r : Set(k, r) => call'[k] = r
      BY <1>1 DEF Set, TypeOK
    <3>3. CASE GetSandbox(k)
      BY <1>1, <1>3, <3>2, <3>3 DEF GetSandbox, Call
    <3>4. CASE ListContainers(k)
      BY <1>1, <1>3, <3>2, <3>4 DEF ListContainers, Call
    <3>5. CASE GetContainer(k)
      BY <1>1, <1>2, <1>3, <3>2, <3>5 DEF GetContainer, Call
    <3> QED BY <1>5, <3>3, <3>4, <3>5
  <2> QED BY <1>5, <2>1 DEF GetSandbox, ListContainers, GetContainer, Active
<1>6. CASE StopContainer(k) \/ DeleteContainer(k)
  <2>1. call'[k].pod = call[k].pod
    <3>1. \A r : Set(k, r) => call'[k] = r
      BY <1>1 DEF Set, TypeOK
    <3>2. CASE StopContainer(k)
      BY <1>1, <1>3, <3>1, <3>2 DEF StopContainer, Call
    <3>3. CASE DeleteContainer(k)
      BY <1>1, <1>3, <3>1, <3>3 DEF DeleteContainer, Call
    <3> QED BY <1>6, <3>2, <3>3
  <2>2. \A c \in Containers : ctr'[c].st = "starting" => ctr'[c] = ctr[c]
    BY <1>1, <1>6 DEF StopContainer, DeleteContainer, TypeOK, Ctr
  <2> QED BY <1>6, <2>1, <2>2 DEF StopContainer, DeleteContainer, Active
<1>7. CASE StopRecord(k) \/ StopDone(k)
  <2>1. CASE StopRecord(k)
    BY <1>1, <2>1 DEF StopRecord, Set, TypeOK, Call, Active
  <2>2. CASE StopDone(k)
    <3>1. call[k].op \in {"StopContainer", "StopPodSandbox", "RemovePodSandbox"}
      BY <1>1, <2>2, Paths DEF StopDone, CallOK, Active
    <3>2. ASSUME NEW r, Set(k, [call[k] EXCEPT !.todo = r, !.pc = "delete"])
          PROVE  call'[k].pod = call[k].pod
      BY <1>1, <3>2 DEF Set, TypeOK, Call
    <3> QED BY <1>2, <1>3, <2>2, <3>1, <3>2 DEF StopDone, Active
  <2> QED BY <1>7, <2>1, <2>2
<1>8. CASE \/ SandboxStop(k) \/ DeleteSandboxLookup(k) \/ Detach(k) \/ DeleteDone(k)
           \/ SandboxDelete(k) \/ CreateValidate(k) \/ CreateNetwork(k) \/ StartRecord(k)
  BY <1>2, <1>3, <1>8 DEF SandboxStop, DeleteSandboxLookup, Detach, DeleteDone,
     SandboxDelete, CreateValidate, CreateNetwork, StartRecord, Active
<1>9. CASE CreateContainer(k)
  <2>1. call'[k].pod = call[k].pod
    BY <1>2, <1>3, <1>9 DEF CreateContainer
  <2>2. \A c \in Containers : ctr'[c].st = "starting" => ctr'[c] = ctr[c]
    BY <1>1, <1>9 DEF CreateContainer, TypeOK
  <2> QED BY <1>9, <2>1, <2>2 DEF CreateContainer, Active
<1>10. CASE RequestFails(k)
  BY <1>3, <1>10, FaultyAssumption DEF RequestFails, Requests, Active
<1> QED BY <1>4, <1>5, <1>6, <1>7, <1>8, <1>9, <1>10 DEF Step

LEMMA AwaitedStart ==
    ASSUME IInv, Serial, Awaited, NEW k \in Callers, StartContainer(k) \/ StartWait(k)
    PROVE  Awaited'
<1>1. TypeOK /\ CallOK(k) /\ call[k] \in Call /\ Active(k) /\ Others(k)
  BY StepIsOwn DEF IInv, TypeOK, Shape, StartContainer, StartWait, Active, Step
<1>2. /\ call[k].ctr \in Containers /\ ctr[call[k].ctr].pod = call[k].pod
  BY <1>1 DEF StartContainer, StartWait, CallOK, Path, Of
<1>3. \A j \in Callers : j # k /\ Active(j) => call[j].pod # call[k].pod
  BY <1>1 DEF Serial, OnePerPod
<1>4. CASE Return(k, "err") /\ UNCHANGED ctr
  BY <1>1, <1>4, ReturnFacts, AwaitedKept DEF Others, Active
<1>5. CASE /\ Goto(k, "starting") /\ call[k].pc = "start"
           /\ ctr' = [ctr EXCEPT ![call[k].ctr].st = "starting"]
  <2>1. /\ \A d \in Containers : d # call[k].ctr => ctr'[d] = ctr[d]
        /\ ctr'[call[k].ctr].pod = call[k].pod
    BY <1>1, <1>2, <1>5 DEF TypeOK, Ctr
  <2>2. call'[k].pc = "starting" /\ call'[k].ctr = call[k].ctr /\ call'[k].pod = call[k].pod
    BY <1>1, <1>5, GotoFacts
  <2>3. ASSUME NEW j \in Callers, NEW c \in Containers, Active(j)',
               ctr'[c].st = "starting", ctr'[c].pod = call'[j].pod
        PROVE  call'[j].pc = "starting" /\ call'[j].ctr = c
    BY <1>1, <1>3, <1>5, <2>1, <2>2, <2>3 DEF Awaited, Others, Active
  <2> QED BY <2>3 DEF Awaited
<1>6. CASE StartWait(k)
  <2>1. /\ \A d \in Containers : d # call[k].ctr => ctr'[d] = ctr[d]
        /\ ctr'[call[k].ctr].st # "starting" /\ call[k].pc = "starting"
    BY <1>1, <1>2, <1>6 DEF StartWait, Started, StartFailed, TypeOK, Ctr
  <2>2. Active(k)' => call'[k].pod = call[k].pod
    BY <1>1, <1>6, GotoFacts, ReturnFacts DEF StartWait
  <2>3. ASSUME NEW j \in Callers, NEW c \in Containers, Active(j)',
               ctr'[c].st = "starting", ctr'[c].pod = call'[j].pod
        PROVE  call'[j].pc = "starting" /\ call'[j].ctr = c
    BY <1>1, <2>1, <2>2, <2>3 DEF Awaited, Others, Active
  <2> QED BY <2>3 DEF Awaited
<1> QED BY <1>4, <1>5, <1>6 DEF StartContainer

LEMMA AwaitedNext == ~Overlap /\ IInv /\ Serial /\ Awaited /\ [Next]_vars => Awaited'
<1> SUFFICES ASSUME ~Overlap, IInv, Serial, Awaited, [Next]_vars PROVE Awaited'
  OBVIOUS
<1>1. ASSUME NEW k \in Callers, Step(k) PROVE Awaited'
  <2>1. CASE StartContainer(k) \/ StartWait(k)
    BY <2>1, AwaitedStart
  <2>2. CASE ~StartContainer(k) /\ ~StartWait(k)
    BY <1>1, <2>2, StepKeeps, StepIsOwn, AwaitedKept DEF Others, Active
  <2> QED BY <2>1, <2>2
<1>2. ASSUME NEW k \in Callers, Arrive(k) PROVE Awaited'
  <2>1. PICK op, p, c, pc : Begin(k, op, p, c, pc)
    BY <1>2 DEF Arrive, BeginRun, BeginPod, BeginCreate, BeginContainer
  <2>2. /\ UNCHANGED ctr /\ Others(k) /\ call'[k].pod = p
        /\ \A d \in Containers : ctr[d].pod = p => ctr[d].st # "starting"
    BY <2>1 DEF Begin, Free, Set, Others, NoCall, IInv, TypeOK
  <2> QED BY <2>2 DEF Awaited, Others, Active
<1>3. ASSUME NEW i \in Pids, Handle(i) PROVE Awaited'
  <2>1. UNCHANGED <<ctr, call>>
    BY <1>3 DEF Handle, EventGetContainer, EventGetSandbox, EventGetState, EventAdd,
       EventAdded, EventSave
  <2> QED BY <2>1 DEF Awaited, Active
<1>4. ASSUME NEW c \in Containers, ContainerExits(c) \/ StartGoesOn(c) PROVE Awaited'
  <2>1. /\ \A d \in Containers : ctr'[d].st = "starting" => ctr'[d] = ctr[d]
        /\ UNCHANGED call
    BY <1>4 DEF ContainerExits, StartGoesOn, Started, StartFailed, IInv, TypeOK, Ctr
  <2> QED BY <2>1 DEF Awaited, Active
<1>5. CASE Crash
  BY <1>5 DEF Crash, Awaited, Active, NoCall
<1>6. CASE UNCHANGED vars
  BY <1>6 DEF vars, Awaited, Active
<1> QED BY <1>1, <1>2, <1>3, <1>4, <1>5, <1>6 DEF Next

LEMMA AwaitedInit == Init => Awaited
  BY DEF Init, Awaited, Active, NoCall

-----------------------------------------------------------------------------
(* How the pod calls end.                                                   *)
\* A call returns by a step of its own.
LEMMA ReturnsByStep ==
    ASSUME IInv, [Next]_vars, NEW k \in Callers, NEW op \in PodOps, NEW res, Returns(k, op, res)
    PROVE  Step(k)
<1>1. Active(k) /\ ~Active(k)' /\ call'[k].op = op /\ op # "none"
  BY DEF Returns, PodOps
<1>2. call'[k] # call[k]
  BY <1>1 DEF Active
<1>3. ASSUME NEW j \in Callers, Step(j) PROVE j = k
  BY <1>2, <1>3, StepIsOwn DEF Others
<1>4. ASSUME NEW j \in Callers, Arrive(j) PROVE FALSE
  <2>1. ~Active(j) /\ \E r : Set(j, r)
    BY <1>4 DEF Arrive, BeginRun, BeginPod, BeginCreate, BeginContainer, Begin
  <2>2. Others(j)
    BY <2>1 DEF Set, Others, IInv, TypeOK
  <2> QED BY <1>1, <1>2, <2>1, <2>2 DEF Others
<1>5. ASSUME NEW i \in Pids, Handle(i) PROVE UNCHANGED call
  BY <1>5 DEF Handle, EventGetContainer, EventGetSandbox, EventGetState, EventAdd,
     EventAdded, EventSave
<1>6. ~Crash
  BY <1>1 DEF Crash, NoCall
<1> QED BY <1>2, <1>3, <1>4, <1>5, <1>6 DEF Next, ContainerExits, StartGoesOn, vars

\* The request a call is at determines its next step.
LEMMA AtRequest ==
    ASSUME NEW k \in Callers, Step(k), ~RequestFails(k)
    PROVE  /\ call[k].pc = "get"      => GetSandbox(k) \/ GetContainer(k)
           /\ call[k].pc = "list"     => ListContainers(k)
           /\ call[k].pc = "stop"     => StopContainer(k) \/ StopDone(k)
           /\ call[k].pc = "record"   => StopRecord(k)
           /\ call[k].pc = "notready" => SandboxStop(k)
           /\ call[k].pc = "delete"   => DeleteContainer(k) \/ DeleteDone(k)
           /\ call[k].pc = "sandbox"  => DeleteSandboxLookup(k)
           /\ call[k].pc = "detach"   => Detach(k)
           /\ call[k].pc = "remove"   => SandboxDelete(k)
  BY DEF Step, RunCreate, RunRefresh, RunNetwork, RunSave, RunSaved, GetSandbox,
     ListContainers, GetContainer, StopContainer, StopRecord, StopDone, SandboxStop,
     DeleteContainer, DeleteSandboxLookup, Detach, DeleteDone, SandboxDelete,
     CreateValidate, CreateContainer, CreateNetwork, StartContainer, StartWait, StartRecord

\* The ends of StopPodSandbox and RemovePodSandbox: a request failed, the pod
\* is gone, or all the work is done.
LEMMA PodCallEnds ==
    ASSUME IInv, Serial, Awaited, [Next]_vars, NEW k \in Callers,
           NEW op \in {"StopPodSandbox", "RemovePodSandbox"}, NEW res, Returns(k, op, res)
    PROVE  \/ call[k].pc = "get" /\ ~Exists(call[k].pod) /\ res = "ok" /\ UNCHANGED ctr
           \/ res = "fault"
           \/ call[k].pc = "notready" /\ op = "StopPodSandbox" /\ UNCHANGED ctr
           \/ call[k].pc = "remove" /\ op = "RemovePodSandbox" /\ res = "ok"
<1>1. Step(k) /\ TypeOK /\ CallOK(k) /\ Work(k) /\ call[k] \in Call
  BY ReturnsByStep DEF PodOps, IInv, Shape, Serial, TypeOK
<1>2. /\ call[k].op = op /\ Active(k) /\ call'[k].pc = "idle" /\ call'[k].res = res
      /\ op \in PodOps
  BY DEF Returns, Active, PodOps
<1>3. /\ call[k].pod \in Pods
      /\ call[k].pc \in {"get", "list", "stop", "record", "notready", "delete", "sandbox",
                         "detach", "remove"}
      /\ call[k].pc = "notready" => op = "StopPodSandbox"
      /\ call[k].pc \in {"delete", "sandbox", "detach", "remove"} => op = "RemovePodSandbox"
  BY <1>1, <1>2 DEF CallOK, Path
<1>4. \A pc \in {"stop", "notready", "delete", "detach", "remove"} : ~Goto(k, pc)
  BY <1>1, <1>2, GotoFacts
<1>5. \A r : Set(k, r) => r.pc = "idle" /\ r.res = res
  BY <1>1, <1>2 DEF Set, TypeOK
<1>6. \A rs \in {"ok", "err", "fault"} : Return(k, rs) => res = rs
  BY <1>1, <1>2, ReturnFacts
<1>16. CASE RequestFails(k)
  BY <1>6, <1>16 DEF RequestFails
<1>17. call[k].pc # "starting" => \A c \in Of(call[k].pod) : ctr[c].st # "starting"
  BY <1>2 DEF Awaited, Of
<1>18. ~StartContainer(k) /\ call[k].todo \subseteq Of(call[k].pod)
  BY <1>1, <1>2, <1>3 DEF StartContainer, CallOK
<1> SUFFICES ASSUME ~RequestFails(k) PROVE
           \/ call[k].pc = "get" /\ ~Exists(call[k].pod) /\ res = "ok" /\ UNCHANGED ctr
           \/ res = "fault"
           \/ call[k].pc = "notready" /\ op = "StopPodSandbox" /\ UNCHANGED ctr
           \/ call[k].pc = "remove" /\ op = "RemovePodSandbox" /\ res = "ok"
  BY <1>16
<1>7. CASE call[k].pc = "get"
  <2>1. GetSandbox(k)
    BY <1>1, <1>2, <1>7, AtRequest DEF GetContainer, CtrOps, PodOps
  <2>2. CASE Exists(call[k].pod)
    <3>1. Set(k, [call[k] EXCEPT !.etag = profile[call[k].pod],
                                 !.todo = UsedBy(call[k].pod), !.pc = "list"])
      BY <2>1, <2>2 DEF GetSandbox
    <3>2. [call[k] EXCEPT !.etag = profile[call[k].pod],
                          !.todo = UsedBy(call[k].pod), !.pc = "list"].pc = "list"
      BY <1>1 DEF Call
    <3> QED BY <1>5, <3>1, <3>2
  <2>3. CASE ~Exists(call[k].pod)
    BY <1>6, <1>7, <2>1, <2>3 DEF GetSandbox
  <2> QED BY <2>2, <2>3
<1>8. CASE call[k].pc = "list"
  <2>1. ListContainers(k) /\ call[k].todo \subseteq UsedBy(call[k].pod)
    BY <1>1, <1>2, <1>8, AtRequest DEF Work
  <2>2. [call[k] EXCEPT !.todo = call[k].running, !.pc = "stop"].pc = "stop"
    BY <1>1 DEF Call
  <2>3. \A c : [call[k] EXCEPT !.todo = @ \ {c}, !.list = @ \cup {c},
                               !.running = IF ctr[c].st = "running" THEN @ \cup {c} ELSE @].pc
               = "list"
    BY <1>1, <1>8 DEF Call
  <2>4. \A c \in call[k].todo : Present(c)
    BY <2>1 DEF UsedBy
  <2> QED BY <1>5, <2>1, <2>2, <2>3, <2>4 DEF ListContainers
<1>9. CASE call[k].pc = "stop"
  <2>1. \A c : /\ [call[k] EXCEPT !.todo = @ \ {c}, !.ctr = c, !.pc = "record"].pc = "record"
               /\ [call[k] EXCEPT !.todo = @ \ {c}].pc = "stop"
    BY <1>1, <1>9 DEF Call
  <2>2. ~StopContainer(k)
    BY <1>5, <1>9, <1>17, <1>18, <2>1 DEF StopContainer
  <2>3. [call[k] EXCEPT !.todo = call[k].list, !.pc = "delete"].pc = "delete"
    BY <1>1 DEF Call
  <2>4. StopDone(k)
    BY <1>1, <1>9, <2>2, AtRequest
  <2>5. CASE op = "StopPodSandbox"
    BY <1>2, <1>4, <2>4, <2>5 DEF StopDone
  <2>6. CASE op = "RemovePodSandbox"
    BY <1>2, <1>5, <2>3, <2>4, <2>6 DEF StopDone
  <2> QED BY <2>5, <2>6
<1>10. CASE call[k].pc = "record"
  <2>1. [call[k] EXCEPT !.pc = "stop",
           !.cached = IF Present(call[k].ctr) THEN @ \cup {call[k].ctr} ELSE @].pc = "stop"
    BY <1>1 DEF Call
  <2> QED BY <1>1, <1>5, <1>6, <1>10, <2>1, AtRequest DEF StopRecord
<1>11. CASE call[k].pc = "notready"
  BY <1>1, <1>3, <1>11, AtRequest DEF SandboxStop
<1>12. CASE call[k].pc = "delete"
  <2>1. \A c : [call[k] EXCEPT !.todo = @ \ {c}, !.ctr = c, !.pc = "sandbox"].pc = "sandbox"
    BY <1>1 DEF Call
  <2>2. Running(call[k].pod) = {} /\ call[k].todo \subseteq Of(call[k].pod)
    BY <1>1, <1>2, <1>12 DEF Work, CallOK
  <2>3. \A c \in call[k].todo : ~Busy(c)
    BY <1>12, <1>17, <2>2 DEF Running, Of, Busy
  <2>4. ~DeleteContainer(k)
    BY <1>5, <2>1, <2>3 DEF DeleteContainer
  <2>5. DeleteDone(k)
    BY <1>1, <1>12, <2>4, AtRequest
  <2> QED BY <1>2, <1>3, <1>4, <1>12, <2>5 DEF DeleteDone
<1>13. CASE call[k].pc = "sandbox"
  <2>1. Exists(call[k].pod)
    BY <1>1, <1>2, <1>13 DEF Work, Inside
  <2> QED BY <1>1, <1>4, <1>13, <2>1, AtRequest DEF DeleteSandboxLookup
<1>14. CASE call[k].pc = "detach"
  BY <1>1, <1>4, <1>14, AtRequest DEF Detach
<1>15. CASE call[k].pc = "remove"
  <2>1. UsedBy(call[k].pod) = {}
    BY <1>1, <1>2, <1>15 DEF Work
  <2> QED BY <1>1, <1>3, <1>6, <1>15, <2>1, AtRequest DEF SandboxDelete
<1> QED BY <1>3, <1>7, <1>8, <1>9, <1>10, <1>11, <1>12, <1>13, <1>14, <1>15

\* With one call per pod at a time, StopPodSandbox has ended every container
\* of the pod, and none is being started, when it reports success, whatever
\* exits, crashes, plugin faults and failed requests happen (runtime.go:280).
THEOREM StopPodStops == ASSUME ~Overlap PROVE Spec => StopPodStopsAll
<1>1. IInv /\ Serial /\ Awaited /\ [Next]_vars =>
        [\A k \in Callers : Returns(k, "StopPodSandbox", "ok") =>
           \A c \in Containers : ctr[c].pod = call[k].pod => ~Busy(c)']_vars
  <2> SUFFICES ASSUME IInv, Serial, Awaited, [Next]_vars, NEW k \in Callers,
                      Returns(k, "StopPodSandbox", "ok"), NEW c \in Containers,
                      ctr[c].pod = call[k].pod
               PROVE  ~Busy(c)'
    OBVIOUS
  <2>1. /\ call[k].pc \in {"get", "notready"} /\ UNCHANGED ctr
        /\ call[k].pc = "get" => ~Exists(call[k].pod)
    BY PodCallEnds
  <2>2. call[k].pod \in Pods /\ Work(k) /\ Active(k)
    BY DEF IInv, Shape, CallOK, Serial, Returns
  <2>3. CASE call[k].pc = "get"
    <3>1. UsedBy(call[k].pod) = {}
      BY <2>1, <2>2, <2>3 DEF Serial, Housed
    <3> QED BY <2>1, <3>1 DEF UsedBy, Present, Busy
  <2>4. CASE call[k].pc = "notready"
    BY <2>1, <2>2, <2>4 DEF Work, Running, Awaited, Busy
  <2> QED BY <2>1, <2>3, <2>4
<1> QED BY <1>1, IInvInit, IInvNext, SerialInit, SerialNext, AwaitedInit, AwaitedNext, PTL
        DEF Spec, StopPodStopsAll

\* With one call per pod at a time, RemovePodSandbox is never refused by LXD:
\* it fails only if a request of its own fails, for any number of containers,
\* whichever requests of earlier calls failed, and whatever crashes, exits,
\* orphaned starts and late handlers came before (sandbox.go:169,
\* runtime_helpers.go:247, runtime.go:338).
THEOREM RemoveIsNeverRefused == ASSUME ~Overlap PROVE Spec => RemoveNeverRefused
<1>1. IInv /\ Serial /\ Awaited /\ [Next]_vars =>
        [\A k \in Callers : ~Returns(k, "RemovePodSandbox", "err")]_vars
  BY PodCallEnds
<1> QED BY <1>1, IInvInit, IInvNext, SerialInit, SerialNext, AwaitedInit, AwaitedNext, PTL
        DEF Spec, RemoveNeverRefused

-----------------------------------------------------------------------------
(* The network.  Until lxe crashes, an attached pod has a container, or a    *)
(* call that has deleted its last one is about to detach it; no CNI ADD is   *)
(* under way while other steps happen.                                       *)
Giving(p) == \E k \in Callers : call[k].pod = p /\ call[k].pc \in {"sandbox", "detach"}

Attached(p) == cni[p] # {} => mode = "cni" /\ (UsedBy(p) # {} \/ Giving(p))

NetInv ==
    crashes = 0 => /\ \A p \in Pods : Attached(p)
                   /\ \A i \in Pids : event[i].pc = "add" => mode = "cni"
                   /\ \A i \in Pids : event[i].pc # "adding"

\* LXD loses a container only to DeleteContainer.
CtrsStay == \A c \in Containers :
    Present(c) => Present(c)' /\ ctr'[c].pod = ctr[c].pod

LEMMA NetFrame ==
    ASSUME NetInv, UNCHANGED <<cni, mode, crashes>>, CtrsStay,
           \A p \in Pods : Giving(p) => Giving(p)',
           \A i \in Pids : event'[i].pc \in {"add", "adding"} => event[i].pc = event'[i].pc
    PROVE  NetInv'
<1>1. \A p \in Pods : UsedBy(p) \subseteq UsedBy(p)'
  BY DEF CtrsStay, UsedBy
<1> QED BY <1>1 DEF NetInv, Attached

\* What a call leaves alone.
LEMMA StepLeaves ==
    ASSUME IInv, NEW k \in Callers, Step(k)
    PROVE  /\ UNCHANGED <<mode, crashes>>
           /\ UNCHANGED cni \/ Detach(k)
           /\ CtrsStay \/ DeleteContainer(k)
           /\ \A i \in Pids : event'[i].pc \in {"add", "adding"} => event[i].pc = event'[i].pc
<1>1. TypeOK /\ CallOK(k)
  BY DEF IInv, Shape
<1>2. UNCHANGED <<mode, crashes>> /\ (UNCHANGED cni \/ Detach(k))
  <2>1. CASE Detach(k)
    BY <2>1 DEF Detach
  <2>2. CASE ~Detach(k)
    BY <2>2 DEF Step, RunCreate, RunRefresh, RunNetwork, RunSave, RunSaved, GetSandbox,
       ListContainers, GetContainer, StopContainer, StopRecord, StopDone, SandboxStop,
       DeleteContainer, DeleteSandboxLookup, DeleteDone, SandboxDelete,
       CreateValidate, CreateContainer, CreateNetwork, StartContainer, StartWait, StartRecord,
       RequestFails
  <2> QED BY <2>1, <2>2
<1>3. CASE UNCHANGED <<ctr, event>>
  BY <1>2, <1>3 DEF CtrsStay, Present
<1>4. CASE StopContainer(k)
  <2>1. call[k].todo \subseteq Containers /\ UNCHANGED event
    BY <1>1, <1>4 DEF StopContainer, TypeOK, Call
  <2>2. CtrsStay
    BY <1>1, <1>4, <2>1 DEF StopContainer, CtrsStay, Present, TypeOK, Ctr
  <2> QED BY <1>2, <2>1, <2>2
<1>5. CASE CreateContainer(k)
  <2>1. call[k].ctr \in Containers /\ ctr[call[k].ctr].st = "absent" /\ UNCHANGED event
    BY <1>1, <1>5 DEF CreateContainer, CallOK, Active, Creating
  <2>2. CtrsStay
    BY <1>1, <1>5, <2>1 DEF CreateContainer, CtrsStay, Present, TypeOK
  <2> QED BY <1>2, <2>1, <2>2
<1>6. CASE StartContainer(k) \/ StartWait(k)
  <2>1. call[k].ctr \in Containers
    BY <1>1, <1>6 DEF StartContainer, StartWait, CallOK, Active, Of
  <2>2. CtrsStay
    BY <1>1, <1>6, <2>1 DEF StartContainer, StartWait, Started, StartFailed, CtrsStay, Present,
       TypeOK, Ctr
  <2>3. \A i \in Pids : event'[i].pc \in {"add", "adding"} => event[i].pc = event'[i].pc
    BY <1>1, <1>6 DEF StartContainer, StartWait, Started, StartFailed, TypeOK, NoEvent
  <2> QED BY <1>2, <2>2, <2>3
<1>7. CASE DeleteContainer(k)
  BY <1>2, <1>7 DEF DeleteContainer
<1> QED BY <1>3, <1>4, <1>5, <1>6, <1>7 DEF Step, RunCreate, RunRefresh, RunNetwork, RunSave,
     RunSaved, GetSandbox, ListContainers, GetContainer, StopRecord, StopDone, SandboxStop,
     DeleteSandboxLookup, Detach, DeleteDone, SandboxDelete, CreateValidate, CreateNetwork,
     StartRecord, RequestFails

LEMMA NetStep ==
    ASSUME IInv, Serial, NetInv, ~NetFaults, "sandbox" \notin Faulty, NEW k \in Callers, Step(k)
    PROVE  NetInv'
<1>1. /\ TypeOK /\ CallOK(k) /\ Work(k) /\ call[k] \in Call /\ Others(k)
      /\ UNCHANGED <<mode, crashes>>
      /\ \A i \in Pids : event'[i].pc \in {"add", "adding"} => event[i].pc = event'[i].pc
  BY StepIsOwn, StepLeaves DEF IInv, Shape, Serial, TypeOK
<1>2. \A p \in Pods : p # call[k].pod /\ Giving(p) => Giving(p)'
  BY <1>1 DEF Giving, Others
<1>3. CASE call[k].pc \notin {"delete", "sandbox", "detach"}
  <2>1. \A p \in Pods : Giving(p) => Giving(p)'
    BY <1>1, <1>3 DEF Giving, Others
  <2>2. ~Detach(k) /\ ~DeleteContainer(k)
    BY <1>3 DEF Detach, DeleteContainer
  <2> QED BY <1>1, <2>1, <2>2, StepLeaves, NetFrame
<1>4. CASE \/ DeleteDone(k) \/ (DeleteContainer(k) /\ UNCHANGED ctr)
           \/ call[k].pc = "delete" /\ RequestFails(k)
  <2>1. call[k].pc = "delete" /\ UNCHANGED <<ctr, cni>>
    BY <1>4 DEF DeleteDone, DeleteContainer, RequestFails
  <2>2. \A p \in Pods : Giving(p) => Giving(p)'
    BY <1>1, <2>1 DEF Giving, Others
  <2> QED BY <1>1, <2>1, <2>2, NetFrame DEF CtrsStay, Present
<1>5. ASSUME DeleteContainer(k), NEW c \in call[k].todo,
             ctr' = [ctr EXCEPT ![c].st = "deleted"],
             Set(k, [call[k] EXCEPT !.todo = @ \ {c}, !.ctr = c, !.pc = "sandbox"])
      PROVE  NetInv'
  <2>1. /\ call[k].pod \in Pods /\ c \in Containers /\ ctr[c].st # "absent"
        /\ ctr[c].pod = call[k].pod /\ UNCHANGED cni
    BY <1>1, <1>5 DEF DeleteContainer, CallOK, Active, Of
  <2>2. call'[k].pc = "sandbox" /\ call'[k].pod = call[k].pod
    BY <1>1, <1>5 DEF Set, TypeOK, Call
  <2>3. Giving(call[k].pod)'
    BY <2>2 DEF Giving
  <2>4. /\ ctr'[c].pod = call[k].pod
        /\ \A d \in Containers : d # c => ctr'[d] = ctr[d]
    BY <1>1, <1>5, <2>1 DEF TypeOK, Ctr
  <2>5. \A p \in Pods : p # call[k].pod => UsedBy(p)' = UsedBy(p)
    BY <2>1, <2>4, OneContainer
  <2>6. ASSUME NEW p \in Pods, crashes = 0 PROVE Attached(p)'
    BY <1>1, <1>2, <2>1, <2>2, <2>3, <2>5, <2>6 DEF NetInv, Attached
  <2> QED BY <1>1, <2>6 DEF NetInv
<1>6. CASE DeleteSandboxLookup(k)
  <2>1. Exists(call[k].pod) /\ call[k].pod \in Pods
    BY <1>1, <1>6 DEF DeleteSandboxLookup, Work, Inside, CallOK, Active
  <2>2. Goto(k, "detach") /\ UNCHANGED <<ctr, cni>>
    BY <1>6, <2>1 DEF DeleteSandboxLookup
  <2>3. \A p \in Pods : Giving(p) => Giving(p)'
    BY <1>1, <1>2, <2>2, GotoFacts DEF Giving
  <2> QED BY <1>1, <2>2, <2>3, NetFrame DEF CtrsStay, Present
<1>7. CASE Detach(k)
  <2>1. call[k].pod \in Pods /\ UNCHANGED ctr
    BY <1>1, <1>7 DEF Detach, CallOK, Active
  <2>2. \A p \in Pods : UsedBy(p)' = UsedBy(p)
    BY <2>1 DEF UsedBy, Present
  <2>3. CASE mode = "cni"
    <3>1. /\ cni'[call[k].pod] = {}
          /\ \A p \in Pods : p # call[k].pod => cni'[p] = cni[p]
      BY <1>1, <1>7, <2>1, <2>3 DEF Detach, TypeOK
    <3>2. ASSUME NEW p \in Pods, crashes = 0 PROVE Attached(p)'
      BY <1>1, <1>2, <2>2, <3>1, <3>2 DEF NetInv, Attached
    <3> QED BY <1>1, <3>2 DEF NetInv
  <2>4. CASE mode # "cni"
    <3>1. UNCHANGED cni
      BY <1>7, <2>4 DEF Detach
    <3> QED BY <1>1, <2>4, <3>1 DEF NetInv, Attached
  <2> QED BY <2>3, <2>4
<1>8. CASE call[k].pc = "delete"
  BY <1>4, <1>5, <1>8, AtRequest DEF DeleteContainer
<1>9. RequestFails(k) => call[k].pc \notin {"sandbox", "detach"}
  BY FaultyAssumption DEF RequestFails, Requests
<1> QED BY <1>3, <1>6, <1>7, <1>8, <1>9, AtRequest

LEMMA NetHandle ==
    ASSUME IInv, NetInv, ~SlowAdd, NEW i \in Pids, Handle(i)
    PROVE  NetInv'
<1>1. TypeOK /\ event[i] \in Event /\ EventOK(i)
  BY DEF IInv, TypeOK, Shape
<1>2. UNCHANGED <<ctr, call, crashes, mode>>
  BY DEF Handle, EventGetContainer, EventGetSandbox, EventGetState, EventAdd, EventAdded,
     EventSave
<1>3. \A p \in Pods : UsedBy(p)' = UsedBy(p) /\ (Giving(p)' <=> Giving(p))
  BY <1>2 DEF UsedBy, Present, Giving
<1>4. \A j \in Pids : \/ event'[j].pc \notin {"add", "adding"}
                      \/ event'[j].pc = event[j].pc
                      \/ event'[j].pc = "add" /\ mode = "cni"
  <2> SUFFICES ASSUME NEW j \in Pids, event'[j].pc # event[j].pc
               PROVE  \/ event'[j].pc \notin {"add", "adding"}
                      \/ event'[j].pc = "add" /\ mode = "cni"
    OBVIOUS
  <2>1. ASSUME NEW pc \in {"sandbox", "done", "save"}, EventGoto(i, pc)
        PROVE  event'[j].pc \notin {"add", "adding"}
    BY <1>1, <2>1 DEF EventGoto, SetEvent, TypeOK, Event
  <2>2. ASSUME SetEvent(i, [event[i] EXCEPT !.etag = profile[ctr[event[i].ctr].pod],
                                            !.pc = "state"])
        PROVE  event'[j].pc \notin {"add", "adding"}
    BY <1>1, <2>2 DEF SetEvent, TypeOK, Event
  <2>3. ASSUME NEW n, SetEvent(i, [event[i] EXCEPT !.pc = "add", !.pid = n])
        PROVE  event'[j].pc \in {"add", event[j].pc}
    BY <1>1, <2>3 DEF SetEvent, TypeOK, Event
  <2> QED BY <2>1, <2>2, <2>3 DEF Handle, EventGetContainer, EventGetSandbox, EventGetState,
                            EventAdd, EventAdded, Attach, EventSave
<1>5. CASE UNCHANGED cni
  BY <1>2, <1>3, <1>4, <1>5 DEF NetInv, Attached
<1>6. CASE EventAdd(i) /\ cni' # cni
  <2> DEFINE q == ctr[event[i].ctr].pod
  <2>1. /\ event[i].pc = "add" /\ ctr[event[i].ctr].st = "running"
        /\ cni' = [cni EXCEPT ![q] = @ \cup {event[i].pid}]
    BY <1>6 DEF EventAdd, Alive, Attach
  <2>2. event[i].ctr \in Containers /\ q \in Pods
    BY <1>1, <2>1 DEF EventOK, IInv, Shape, CtrOK
  <2>3. \A p \in Pods : p # q => cni'[p] = cni[p]
    BY <1>1, <2>1, <2>2 DEF TypeOK
  <2>4. UsedBy(q) # {}
    BY <2>1, <2>2 DEF UsedBy, Present
  <2>5. ASSUME NEW p \in Pods, crashes = 0 PROVE Attached(p)'
    BY <1>2, <1>3, <2>1, <2>3, <2>4, <2>5 DEF NetInv, Attached
  <2> QED BY <1>2, <1>4, <2>5 DEF NetInv
<1>7. CASE EventAdded(i)
  BY <1>2, <1>7 DEF EventAdded, NetInv
<1> QED BY <1>5, <1>6, <1>7 DEF Handle, EventGetContainer, EventGetSandbox, EventGetState, EventSave

LEMMA NetNext ==
    ASSUME ~NetFaults, ~SlowAdd, "sandbox" \notin Faulty
    PROVE  IInv /\ Serial /\ NetInv /\ [Next]_vars => NetInv'
<1> SUFFICES ASSUME IInv, Serial, NetInv, [Next]_vars PROVE NetInv'
  OBVIOUS
<1>1. TypeOK
  BY DEF IInv
<1>2. ASSUME NEW k \in Callers, Arrive(k) PROVE NetInv'
  <2>1. ~Active(k) /\ UNCHANGED <<ctr, cni, event, crashes, mode>> /\ \E r : Set(k, r)
    BY <1>2 DEF Arrive, BeginRun, BeginPod, BeginCreate, BeginContainer, Begin
  <2>2. Others(k)
    BY <1>1, <2>1 DEF Set, Others, TypeOK
  <2>3. \A p \in Pods : Giving(p) => Giving(p)'
    BY <2>1, <2>2 DEF Giving, Others, Active
  <2> QED BY <2>1, <2>3, NetFrame DEF CtrsStay, Present
<1>3. ASSUME NEW c \in Containers, ContainerExits(c) \/ StartGoesOn(c) PROVE NetInv'
  <2>1. CtrsStay
    BY <1>1, <1>3 DEF ContainerExits, StartGoesOn, Started, StartFailed, CtrsStay, Present,
       TypeOK, Ctr
  <2>2. \A i \in Pids : event'[i].pc \in {"add", "adding"} => event[i].pc = event'[i].pc
    <3>1. CASE UNCHANGED event
      BY <3>1
    <3>2. ASSUME NEW pc \in {"pending", "done"}, Started(c, pc)
          PROVE  \A i \in Pids : event'[i].pc \in {"add", "adding"} => event[i].pc = event'[i].pc
      BY <1>1, <3>2 DEF Started, TypeOK, NoEvent
    <3> QED BY <1>3, <3>1, <3>2 DEF ContainerExits, StartGoesOn, StartFailed
  <2> QED BY <1>3, <2>1, <2>2, NetFrame DEF ContainerExits, StartGoesOn, Giving
<1>4. CASE Crash
  <2>1. crashes' # 0
    BY <1>1, <1>4 DEF Crash, TypeOK
  <2> QED BY <2>1 DEF NetInv
<1>5. CASE UNCHANGED vars
  BY <1>5, NetFrame DEF vars, CtrsStay, Present, Giving
<1> QED BY <1>2, <1>3, <1>4, <1>5, NetStep, NetHandle DEF Next

LEMMA NetInit == Init => NetInv
  BY DEF Init, NetInv, Attached, NoEvent

\* With one call per pod at a time, plugins that work and no CNI ADD under way
\* while a container ends, and until lxe crashes or the sandbox of a deleted
\* container cannot be read, nothing is allocated for a pod that is removed and
\* at rest, whichever other requests fail, for any number of containers and
\* however late the started events are handled.
THEOREM NetworkGivenBack ==
    ASSUME ~Overlap, ~NetFaults, ~SlowAdd, "sandbox" \notin Faulty
    PROVE  Spec => [](crashes = 0 => NoNetworkLeak)
<1>1. IInv /\ Serial /\ NetInv => (crashes = 0 => NoNetworkLeak)
  <2> SUFFICES ASSUME Serial, NetInv, crashes = 0, NEW p \in Pods,
                      profile[p].state = "deleted", Quiet(p)
               PROVE  cni[p] = {}
    BY DEF NoNetworkLeak
  <2>1. UsedBy(p) = {}
    BY DEF Serial, Housed, Exists
  <2>2. ~Giving(p)
    BY DEF Giving, Quiet, Active
  <2> QED BY <2>1, <2>2 DEF NetInv, Attached
<1> QED BY <1>1, IInvInit, IInvNext, SerialInit, SerialNext, AwaitedInit, AwaitedNext, NetInit,
           NetNext, PTL DEF Spec

-----------------------------------------------------------------------------
(* The refinement: what a step changes of the pods as PodLifecycle sees them. *)
LEMMA UpIsRunning == \A p \in Pods : PodUp[p] <=> Running(p) # {}
  BY DEF PodUp, Running

LEMMA UpKept ==
    ASSUME \A p \in Pods : Running(p)' = {} <=> Running(p) = {}
    PROVE  UNCHANGED PodUp
<1>1. ASSUME NEW p \in Pods
      PROVE  (\E c \in Containers : ctr'[c].st = "running" /\ ctr'[c].pod = p)
             = (\E c \in Containers : ctr[c].st = "running" /\ ctr[c].pod = p)
  BY DEF Running
<1> QED BY <1>1, Zenon DEF PodUp

LEMMA UpSet ==
    ASSUME NEW q \in Pods, NEW b \in BOOLEAN, b <=> Running(q)' # {},
           \A p \in Pods : p # q => (Running(p)' = {} <=> Running(p) = {})
    PROVE  PodUp' = [PodUp EXCEPT ![q] = b]
<1> DEFINE runs(p)  == \E c \in Containers : ctr[c].st = "running" /\ ctr[c].pod = p
           runsN(p) == \E c \in Containers : ctr'[c].st = "running" /\ ctr'[c].pod = p
<1>1. ASSUME NEW p \in Pods PROVE runsN(p) = IF p = q THEN b ELSE runs(p)
  BY DEF Running
<1>2. PodUp' = [p \in Pods |-> runsN(p)] /\ PodUp = [p \in Pods |-> runs(p)]
  BY DEF PodUp
<1> HIDE DEF runs, runsN
<1>3. [PodUp EXCEPT ![q] = b] = [p \in Pods |-> IF p = q THEN b ELSE runs(p)]
  BY <1>2
<1> QED BY <1>1, <1>2, <1>3

LEMMA PhaseKept ==
    ASSUME \A p \in Pods : profile'[p].state = profile[p].state
    PROVE  UNCHANGED PodPhase
  BY DEF PodPhase

LEMMA PhaseSet ==
    ASSUME NEW q \in Pods, \A p \in Pods : p # q => profile'[p] = profile[p]
    PROVE  PodPhase' = [PodPhase EXCEPT ![q] = profile'[q].state]
  BY DEF PodPhase

LEMMA NetSet ==
    ASSUME NEW q \in Pods, NEW b \in BOOLEAN, b <=> cni'[q] # {},
           \A p \in Pods : p # q => cni'[p] = cni[p]
    PROVE  PodNet' = [PodNet EXCEPT ![q] = b]
<1> DEFINE has(p)  == cni[p] # {}
           hasN(p) == cni'[p] # {}
<1>1. ASSUME NEW p \in Pods PROVE hasN(p) = IF p = q THEN b ELSE has(p)
  OBVIOUS
<1>2. PodNet' = [p \in Pods |-> hasN(p)] /\ PodNet = [p \in Pods |-> has(p)]
  BY DEF PodNet
<1> HIDE DEF has, hasN
<1>3. [PodNet EXCEPT ![q] = b] = [p \in Pods |-> IF p = q THEN b ELSE has(p)]
  BY <1>2
<1> QED BY <1>1, <1>2, <1>3

\* Steps that change no profile, no container and no attachment are no steps
\* of the lifecycle.
LEMMA NoLifecycleStep ==
    ASSUME UNCHANGED <<profile, ctr, cni>>
    PROVE  UNCHANGED Lifecycle!vars
  BY DEF Lifecycle!vars, PodPhase, PodUp, PodNet

\* One container starts, ends, appears or goes.
LEMMA ContainerRefines ==
    ASSUME NEW c \in Containers, NEW q \in Pods, ctr'[c].pod = q,
           ctr[c].st # "absent" => ctr[c].pod = q,
           \A d \in Containers : d # c => ctr'[d] = ctr[d],
           ctr'[c].st = "running" => Exists(q), UNCHANGED <<profile, cni>>
    PROVE  [Lifecycle!Next]_Lifecycle!vars
<1>1. UNCHANGED <<PodPhase, PodNet>>
  BY DEF PodPhase, PodNet
<1>2. /\ \A p \in Pods : p # q => Running(p)' = Running(p)
      /\ Running(q)' = IF ctr'[c].st = "running" THEN Running(q) \cup {c} ELSE Running(q) \ {c}
  BY OneContainer
<1>3. CASE ctr'[c].st = "running"
  <2>1. Running(q)' # {}
    BY <1>2, <1>3
  <2>2. PodUp' = [PodUp EXCEPT ![q] = TRUE]
    BY <1>2, <2>1, UpSet
  <2>3. Lifecycle!Lives(q)
    BY <1>3 DEF Lifecycle!Lives, PodPhase, Exists
  <2> QED BY <1>1, <2>2, <2>3 DEF Lifecycle!Next, Lifecycle!Start
<1>4. CASE ctr'[c].st # "running" /\ Running(q)' = {}
  <2>1. PodUp' = [PodUp EXCEPT ![q] = FALSE]
    BY <1>2, <1>4, UpSet
  <2> QED BY <1>1, <2>1 DEF Lifecycle!Next, Lifecycle!Finish
<1>5. CASE ctr'[c].st # "running" /\ Running(q)' # {}
  <2>1. Running(q) # {}
    BY <1>2, <1>5
  <2>2. UNCHANGED PodUp
    BY <1>2, <1>5, <2>1, UpKept
  <2> QED BY <1>1, <2>2 DEF Lifecycle!vars
<1> QED BY <1>3, <1>4, <1>5

\* A sandbox is created, stopped or deleted.
LEMMA ProfileRefines ==
    ASSUME IInv, Serial, NetInv, crashes = 0, NEW k \in Callers,
           RunCreate(k) \/ RunSave(k) \/ SandboxStop(k) \/ SandboxDelete(k)
    PROVE  [Lifecycle!Next]_Lifecycle!vars
<1> DEFINE q == call[k].pod
<1>1. TypeOK /\ CallOK(k) /\ Work(k) /\ Active(k)
  BY DEF IInv, Shape, Serial, RunCreate, RunSave, SandboxStop, SandboxDelete, Active
<1>2. q \in Pods /\ UNCHANGED <<ctr, cni>>
  BY <1>1 DEF CallOK, RunCreate, RunSave, SandboxStop, SandboxDelete
<1>3. UNCHANGED <<PodUp, PodNet>>
  BY <1>2 DEF PodUp, PodNet
<1>4. PodPhase[q] = profile[q].state /\ (Exists(q) => Lifecycle!Lives(q))
  BY <1>2 DEF PodPhase, Lifecycle!Lives, Exists
<1>5. CASE UNCHANGED profile
  BY <1>2, <1>5, NoLifecycleStep
<1>6. CASE RunCreate(k)
  <2>1. /\ profile[q].state = "absent" /\ profile'[q].state = "ready"
        /\ \A p \in Pods : p # q => profile'[p] = profile[p]
    BY <1>1, <1>2, <1>6 DEF RunCreate, NewProfile, CallOK, TypeOK
  <2>2. PodPhase' = [PodPhase EXCEPT ![q] = "ready"]
    BY <1>2, <2>1, PhaseSet
  <2> QED BY <1>2, <1>3, <1>4, <2>1, <2>2 DEF Lifecycle!Next, Lifecycle!Run
<1>7. CASE RunSave(k) /\ profile' # profile
  <2>1. profile[q].state = "ready"
    BY <1>1, <1>7 DEF RunSave, CallOK, Path, Work
  <2>2. profile' = [profile EXCEPT ![q] =
                      [state |-> "ready", data |-> 1, entries |-> TRUE]]
    BY <1>7 DEF RunSave
  <2>3. \A p \in Pods : profile'[p].state = profile[p].state
    BY <1>1, <1>2, <2>1, <2>2 DEF TypeOK
  <2> QED BY <1>3, <2>3, PhaseKept DEF Lifecycle!vars
<1>8. CASE SandboxStop(k) /\ profile' # profile
  <2>1. Exists(q) /\ profile' = [profile EXCEPT ![q] = Stopped(call[k].etag)]
    BY <1>8 DEF SandboxStop
  <2>2. /\ profile'[q].state = "notready"
        /\ \A p \in Pods : p # q => profile'[p] = profile[p]
    BY <1>1, <1>2, <2>1 DEF TypeOK, Stopped, Call, Profile
  <2>3. ~PodUp[q]
    BY <1>1, <1>2, <1>8, UpIsRunning DEF SandboxStop, Work
  <2>4. PodPhase' = [PodPhase EXCEPT ![q] = "notready"]
    BY <1>2, <2>2, PhaseSet
  <2> QED BY <1>2, <1>3, <1>4, <2>1, <2>3, <2>4 DEF Lifecycle!Next, Lifecycle!Stop
<1>9. CASE SandboxDelete(k) /\ profile' # profile
  <2>1. /\ call[k].pc = "remove" /\ Exists(q) /\ UsedBy(q) = {}
        /\ profile' = [profile EXCEPT ![q].state = "deleted"]
    BY <1>1, <1>9 DEF SandboxDelete, Work, Inside
  <2>2. /\ profile'[q].state = "deleted"
        /\ \A p \in Pods : p # q => profile'[p] = profile[p]
    BY <1>1, <1>2, <2>1 DEF TypeOK, Profile
  <2>3. ~PodUp[q]
    BY <1>2, <2>1, UpIsRunning DEF Running, UsedBy, Present
  <2>4. ~Giving(q)
    BY <1>1, <2>1 DEF Giving, Serial, OnePerPod, Active
  <2>5. ~PodNet[q]
    BY <1>2, <2>1, <2>4 DEF NetInv, Attached, PodNet
  <2>6. PodPhase' = [PodPhase EXCEPT ![q] = "deleted"]
    BY <1>2, <2>2, PhaseSet
  <2> QED BY <1>2, <1>3, <1>4, <2>1, <2>3, <2>5, <2>6 DEF Lifecycle!Next, Lifecycle!Remove
<1> QED BY <1>5, <1>6, <1>7, <1>8, <1>9

LEMMA CallRefines ==
    ASSUME IInv, Serial, NetInv, crashes = 0, NEW k \in Callers, Step(k)
    PROVE  [Lifecycle!Next]_Lifecycle!vars
<1> DEFINE q == call[k].pod
<1>1. TypeOK /\ CallOK(k) /\ Work(k) /\ call[k] \in Call
  BY DEF IInv, Shape, Serial, TypeOK
<1>2. CASE UNCHANGED <<profile, ctr, cni>>
  BY <1>2, NoLifecycleStep
<1>3. CASE Detach(k) /\ cni' # cni
  <2>1. q \in Pods /\ UNCHANGED <<profile, ctr>> /\ cni' = [cni EXCEPT ![q] = {}]
    BY <1>1, <1>3 DEF Detach, CallOK, Active
  <2>2. cni'[q] = {} /\ \A p \in Pods : p # q => cni'[p] = cni[p]
    BY <1>1, <2>1 DEF TypeOK
  <2>3. PodNet' = [PodNet EXCEPT ![q] = FALSE]
    BY <2>1, <2>2, NetSet
  <2>4. UNCHANGED <<PodPhase, PodUp>>
    BY <2>1 DEF PodPhase, PodUp
  <2> QED BY <2>1, <2>3, <2>4 DEF Lifecycle!Next, Lifecycle!Detach
<1>4. ASSUME NEW c \in call[k].todo, NEW st \in {"stopped", "deleted"},
             ctr' = [ctr EXCEPT ![c].st = st], call[k].pc # "idle", UNCHANGED <<profile, cni>>
      PROVE  [Lifecycle!Next]_Lifecycle!vars
  <2>1. q \in Pods /\ c \in Containers /\ ctr[c].pod = q
    BY <1>1, <1>4 DEF CallOK, Active, Of
  <2>2. /\ ctr'[c].pod = q /\ ctr'[c].st # "running"
        /\ \A d \in Containers : d # c => ctr'[d] = ctr[d]
    BY <1>1, <1>4, <2>1 DEF TypeOK, Ctr
  <2> QED BY <1>4, <2>1, <2>2, ContainerRefines
<1>5. CASE StopContainer(k) \/ DeleteContainer(k)
  BY <1>2, <1>4, <1>5 DEF StopContainer, DeleteContainer
<1>6. CASE CreateContainer(k) /\ ctr' # ctr
  <2>1. q \in Pods /\ call[k].ctr \in Containers /\ ctr[call[k].ctr].st = "absent"
    BY <1>1, <1>6 DEF CreateContainer, CallOK, Active, Creating
  <2>2. ctr' = [ctr EXCEPT ![call[k].ctr] = [st |-> "stopped", pod |-> q, pid |-> 0]]
    BY <1>6 DEF CreateContainer
  <2>3. /\ ctr'[call[k].ctr].pod = q /\ ctr'[call[k].ctr].st # "running"
        /\ \A d \in Containers : d # call[k].ctr => ctr'[d] = ctr[d]
    BY <1>1, <2>1, <2>2 DEF TypeOK
  <2> QED BY <1>6, <2>1, <2>3, ContainerRefines DEF CreateContainer
<1>7. CASE (StartContainer(k) \/ StartWait(k)) /\ ctr' # ctr
  <2>1. /\ q \in Pods /\ call[k].ctr \in Containers /\ ctr[call[k].ctr].pod = q
        /\ ctr[call[k].ctr].st \in {"stopped", "starting"}
    BY <1>1, <1>7 DEF StartContainer, StartWait, CallOK, Active, Of
  <2>2. Exists(q)
    BY <2>1 DEF Serial, Housed, UsedBy, Present
  <2>3. /\ ctr'[call[k].ctr].pod = q
        /\ \A d \in Containers : d # call[k].ctr => ctr'[d] = ctr[d]
    BY <1>1, <1>7, <2>1 DEF StartContainer, StartWait, Started, StartFailed, TypeOK, Ctr
  <2> QED BY <1>7, <2>1, <2>2, <2>3, ContainerRefines DEF StartContainer, StartWait
<1>8. CASE RunCreate(k) \/ RunSave(k) \/ SandboxStop(k) \/ SandboxDelete(k)
  BY <1>8, ProfileRefines
<1>9. CASE UNCHANGED <<profile, ctr>> /\ ~Detach(k)
  BY <1>2, <1>9, StepLeaves
<1>10. CASE (CreateContainer(k) \/ StartContainer(k) \/ StartWait(k)) /\ UNCHANGED ctr
  BY <1>2, <1>10 DEF CreateContainer, StartContainer, StartWait
<1>11. CASE Detach(k) /\ UNCHANGED cni
  BY <1>2, <1>11 DEF Detach
<1>12. \/ UNCHANGED <<profile, ctr>>
       \/ RunCreate(k) \/ RunSave(k) \/ SandboxStop(k) \/ SandboxDelete(k)
       \/ StopContainer(k) \/ DeleteContainer(k) \/ CreateContainer(k) \/ StartContainer(k)
       \/ StartWait(k)
  BY DEF Step, RunRefresh, RunNetwork, RunSaved, GetSandbox, ListContainers, GetContainer,
     StopRecord, StopDone, DeleteSandboxLookup, Detach, DeleteDone, CreateValidate,
     CreateNetwork, StartRecord, RequestFails
<1> QED BY <1>3, <1>5, <1>6, <1>7, <1>8, <1>9, <1>10, <1>11, <1>12

LEMMA HandlerRefines ==
    ASSUME IInv, Serial, NetInv, crashes = 0, NEW i \in Pids, Handle(i)
    PROVE  [Lifecycle!Next]_Lifecycle!vars
<1> DEFINE q == ctr[event[i].ctr].pod
<1>1. TypeOK /\ EventOK(i) /\ event[i] \in Event
  BY DEF IInv, Shape, TypeOK
<1>2. CASE UNCHANGED <<profile, ctr, cni>>
  BY <1>2, NoLifecycleStep
<1>3. CASE EventAdd(i) /\ cni' # cni
  <2>1. /\ event[i].pc = "add" /\ ctr[event[i].ctr].st = "running" /\ UNCHANGED <<profile, ctr>>
        /\ cni' = [cni EXCEPT ![q] = @ \cup {event[i].pid}]
    BY <1>3 DEF EventAdd, Alive, Attach
  <2>2. event[i].ctr \in Containers /\ q \in Pods
    BY <1>1, <2>1 DEF EventOK, IInv, Shape, CtrOK
  <2>3. cni'[q] # {} /\ \A p \in Pods : p # q => cni'[p] = cni[p]
    BY <1>1, <2>1, <2>2 DEF TypeOK
  <2>4. PodNet' = [PodNet EXCEPT ![q] = TRUE]
    BY <2>2, <2>3, NetSet
  <2>5. PodUp[q]
    BY <2>1, <2>2, UpIsRunning DEF Running
  <2>6. Exists(q)
    BY <2>1, <2>2 DEF Serial, Housed, UsedBy, Present
  <2>7. Lifecycle!Lives(q)
    BY <2>2, <2>6 DEF Lifecycle!Lives, PodPhase, Exists
  <2>8. UNCHANGED <<PodPhase, PodUp>>
    BY <2>1 DEF PodPhase, PodUp
  <2> QED BY <2>2, <2>4, <2>5, <2>7, <2>8 DEF Lifecycle!Next, Lifecycle!Attach
<1>4. CASE EventSave(i) /\ profile' # profile
  <2>1. /\ event[i].etag = profile[q] /\ Exists(q) /\ UNCHANGED <<ctr, cni>>
        /\ profile' = [profile EXCEPT ![q] = [event[i].etag EXCEPT !.data = event[i].pid]]
    BY <1>4 DEF EventSave
  <2>2. event[i].etag \in Profile
    BY <1>1 DEF Event
  <2>3. \A p \in Pods : profile'[p].state = profile[p].state
    BY <1>1, <2>1, <2>2 DEF TypeOK, Profile
  <2>4. UNCHANGED <<PodUp, PodNet>>
    BY <2>1 DEF PodUp, PodNet
  <2> QED BY <2>3, <2>4, PhaseKept DEF Lifecycle!vars
<1>5. CASE (EventAdd(i) /\ UNCHANGED cni) \/ (EventSave(i) /\ UNCHANGED profile)
  BY <1>2, <1>5 DEF EventAdd, EventSave
<1>6. ~EventAdded(i)
  BY DEF EventAdded, NetInv
<1> QED BY <1>2, <1>3, <1>4, <1>5, <1>6
        DEF Handle, EventGetContainer, EventGetSandbox, EventGetState

LEMMA NextRefines ==
    ASSUME IInv, Serial, NetInv, crashes = 0, crashes' = 0, [Next]_vars
    PROVE  [Lifecycle!Next]_Lifecycle!vars
<1>1. TypeOK
  BY DEF IInv
<1>2. ASSUME NEW k \in Callers, Arrive(k) PROVE [Lifecycle!Next]_Lifecycle!vars
  BY <1>2, NoLifecycleStep
     DEF Arrive, BeginRun, BeginPod, BeginCreate, BeginContainer, Begin
<1>3. ASSUME NEW c \in Containers, ContainerExits(c) PROVE [Lifecycle!Next]_Lifecycle!vars
  <2>1. /\ ctr[c].pod \in Pods /\ UNCHANGED <<profile, cni>>
        /\ ctr' = [ctr EXCEPT ![c].st = "stopped"]
    BY <1>3 DEF ContainerExits, IInv, Shape, CtrOK
  <2>2. /\ ctr'[c].pod = ctr[c].pod /\ ctr'[c].st # "running"
        /\ \A d \in Containers : d # c => ctr'[d] = ctr[d]
    BY <1>1, <2>1 DEF TypeOK, Ctr
  <2> QED BY <2>1, <2>2, ContainerRefines
<1>6. ASSUME NEW c \in Containers, StartGoesOn(c) PROVE [Lifecycle!Next]_Lifecycle!vars
  <2>1. /\ ctr[c].pod \in Pods /\ UNCHANGED <<profile, cni>> /\ ctr[c].st = "starting"
    BY <1>6 DEF StartGoesOn, IInv, Shape, CtrOK
  <2>2. /\ ctr'[c].pod = ctr[c].pod
        /\ \A d \in Containers : d # c => ctr'[d] = ctr[d]
    BY <1>1, <1>6 DEF StartGoesOn, Started, StartFailed, TypeOK, Ctr
  <2>3. Exists(ctr[c].pod)
    BY <2>1 DEF Serial, Housed, UsedBy, Present
  <2> QED BY <2>1, <2>2, <2>3, ContainerRefines
<1>4. ~Crash
  BY DEF Crash
<1>5. CASE UNCHANGED vars
  BY <1>5, NoLifecycleStep DEF vars
<1> QED BY <1>6, <1>2, <1>3, <1>4, <1>5, CallRefines, HandlerRefines DEF Next

LEMMA InitRefines == Init => Lifecycle!Init
<1> SUFFICES ASSUME Init PROVE Lifecycle!Init
  OBVIOUS
<1>1. PodPhase = [p \in Pods |-> "absent"]
  BY DEF Init, NoProfile, PodPhase
<1>2. ASSUME NEW p \in Pods
      PROVE  /\ (\E c \in Containers : ctr[c].st = "running" /\ ctr[c].pod = p) = FALSE
             /\ (cni[p] # {}) = FALSE
  BY DEF Init
<1>3. PodUp = [p \in Pods |-> FALSE] /\ PodNet = [p \in Pods |-> FALSE]
  BY <1>2, Zenon DEF PodUp, PodNet
<1> QED BY <1>1, <1>3 DEF Lifecycle!Init

\* With one call per pod at a time, plugins that work at once, sandboxes that
\* can be read and no crash, lxe keeps to PodLifecycle, whichever other
\* requests fail, for any pods, containers and callers: each
\* LXD request of a call and each step of a late handler is one step of the
\* pod's lifecycle or none (cri/runtime.go, lxf_container.go, lxf/sandbox.go).
THEOREM LifecycleKept ==
    ASSUME ~Overlap, ~NetFaults, ~SlowAdd, "sandbox" \notin Faulty, MaxCrashes = 0
    PROVE  Spec => ImplementsLifecycle
<1>1. IInv /\ IInv' /\ Serial /\ NetInv /\ [Next]_vars => [Lifecycle!Next]_Lifecycle!vars
  <2> SUFFICES ASSUME IInv, IInv', Serial, NetInv, [Next]_vars
               PROVE  [Lifecycle!Next]_Lifecycle!vars
    OBVIOUS
  <2>1. crashes = 0 /\ crashes' = 0
    BY DEF IInv, TypeOK
  <2> QED BY <2>1, NextRefines
<1> QED BY <1>1, IInvInit, IInvNext, SerialInit, SerialNext, AwaitedInit, AwaitedNext, NetInit,
           NetNext, InitRefines, PTL DEF Spec, ImplementsLifecycle, Lifecycle!Spec

-----------------------------------------------------------------------------
(* Runs and their events.  LXD's process ids are the events' numbers here:   *)
(* the latest run of a container has one event, which names the container,   *)
(* and a handler that asked for the process of a run that lasts got that run. *)
PidInv ==
    /\ \A c \in Containers :
          /\ ctr[c].pid <= pids
          /\ ctr[c].pid # 0 => /\ event[ctr[c].pid].ctr = c
                               /\ event[ctr[c].pid].pc # "none"
    /\ \A i \in Pids :
          (/\ event[i].pc \in {"add", "adding"} /\ ctr[event[i].ctr].st = "running"
           /\ ctr[event[i].ctr].pid = i) => event[i].pid = i

\* Steps that start no run and handle no event.
LEMMA PidFrame ==
    ASSUME IInv, PidInv, UNCHANGED <<pids, event>>,
           \A c \in Containers : /\ ctr'[c].pid \in {0, ctr[c].pid}
                                 /\ ctr'[c].st = "running" => ctr'[c] = ctr[c]
    PROVE  PidInv'
<1>1. \A i \in Pids : event[i].pc \in {"add", "adding"} => event[i].ctr \in Containers
  BY DEF IInv, Shape, EventOK
<1>2. TypeOK
  BY DEF IInv
<1>3. \A c \in Containers : /\ ctr'[c].pid <= pids'
                            /\ ctr'[c].pid # 0 => /\ event'[ctr'[c].pid].ctr = c
                                                  /\ event'[ctr'[c].pid].pc # "none"
  BY <1>2, BoundsAssumption DEF PidInv, TypeOK
<1>4. \A i \in Pids :
          (/\ event'[i].pc \in {"add", "adding"} /\ ctr'[event'[i].ctr].st = "running"
           /\ ctr'[event'[i].ctr].pid = i) => event'[i].pid = i
  BY <1>1 DEF PidInv
<1> QED BY <1>3, <1>4 DEF PidInv

LEMMA PidStarted ==
    ASSUME IInv, PidInv, NEW d \in Containers,
           \/ \E pc \in {"pending", "done"} : Started(d, pc)
           \/ StartFailed(d)
    PROVE  PidInv'
<1>0. TypeOK
  BY DEF IInv
<1>7. CASE StartFailed(d)
  <2>1. UNCHANGED <<pids, event>>
    BY <1>7 DEF StartFailed
  <2>2. \A c \in Containers : /\ ctr'[c].pid = ctr[c].pid
                              /\ ctr'[c].st = "running" => ctr'[c] = ctr[c]
    BY <1>0, <1>7 DEF StartFailed, TypeOK, Ctr
  <2> QED BY <2>1, <2>2, PidFrame
<1>8. ASSUME NEW pc \in {"pending", "done"}, Started(d, pc) PROVE PidInv'
  <2> DEFINE i == pids + 1
  <2>1. /\ pids < MaxPid /\ pids' = i
        /\ ctr' = [ctr EXCEPT ![d].st = "running", ![d].pid = i]
        /\ event' = [event EXCEPT ![i] = [NoEvent EXCEPT !.pc = pc, !.ctr = d]]
    BY <1>8 DEF Started
  <2>2. pids \in Nat /\ i \in Pids
    BY <1>0, <2>1, BoundsAssumption DEF TypeOK, Pids
  <2>3. /\ ctr'[d].pid = i /\ event'[i].ctr = d /\ event'[i].pc = pc
        /\ \A c \in Containers : c # d => ctr'[c] = ctr[c]
        /\ \A j \in Pids : j # i => event'[j] = event[j]
    BY <1>0, <2>1, <2>2 DEF TypeOK, Ctr, NoEvent
  <2>4. \A c \in Containers : ctr[c].pid \in 0 .. MaxPid /\ ctr[c].pid <= pids
    BY <1>0 DEF TypeOK, Ctr, PidInv
  <2>5. ASSUME NEW c \in Containers
        PROVE  /\ ctr'[c].pid <= pids'
               /\ ctr'[c].pid # 0 => event'[ctr'[c].pid].ctr = c /\ event'[ctr'[c].pid].pc # "none"
    <3>1. CASE c = d
      BY <2>1, <2>2, <2>3, <3>1
    <3>2. CASE c # d
      <4>0. ctr[c].pid \in Nat /\ ctr[c].pid <= pids
        BY <2>4, BoundsAssumption
      <4>1. ctr'[c] = ctr[c] /\ ctr[c].pid # i /\ ctr[c].pid <= pids'
        <5>1. ctr'[c] = ctr[c] /\ pids' = pids + 1
          BY <2>1, <2>3, <3>2
        <5> QED BY <2>2, <4>0, <5>1
      <4>2. ctr[c].pid # 0 => ctr[c].pid \in Pids
        BY <2>4, BoundsAssumption DEF Pids
      <4> QED BY <2>3, <4>1, <4>2 DEF PidInv
    <3> QED BY <3>1, <3>2
  <2>6. ASSUME NEW j \in Pids, event'[j].pc \in {"add", "adding"}, ctr'[event'[j].ctr].st = "running",
               ctr'[event'[j].ctr].pid = j
        PROVE  event'[j].pid = j
    <3>1. j # i /\ event'[j] = event[j]
      BY <2>3, <2>6
    <3>2. event[j].ctr \in Containers /\ event[j].ctr # d
      BY <2>3, <2>6, <3>1 DEF IInv, Shape, EventOK
    <3> QED BY <2>3, <2>6, <3>1, <3>2 DEF PidInv
  <2> QED BY <2>5, <2>6 DEF PidInv
<1> QED BY <1>7, <1>8

LEMMA PidStep ==
    ASSUME IInv, PidInv, NEW k \in Callers, Step(k)
    PROVE  PidInv'
<1>1. TypeOK /\ CallOK(k) /\ call[k] \in Call
  BY DEF IInv, Shape, TypeOK
<1>2. CASE UNCHANGED <<pids, ctr, event>>
  BY <1>2, PidFrame
<1>3. CASE StopContainer(k) \/ DeleteContainer(k)
  <2>1. UNCHANGED <<pids, event>> /\ call[k].todo \subseteq Containers
    BY <1>1, <1>3 DEF StopContainer, DeleteContainer, Call
  <2>2. ASSUME NEW d \in Containers, NEW st \in {"stopped", "deleted"},
               ctr' = [ctr EXCEPT ![d].st = st]
        PROVE  PidInv'
    <3>1. \A c \in Containers : /\ ctr'[c].pid = ctr[c].pid
                                /\ ctr'[c].st = "running" => ctr'[c] = ctr[c]
      BY <1>1, <2>2 DEF TypeOK, Ctr
    <3> QED BY <2>1, <3>1, PidFrame
  <2> QED BY <1>2, <1>3, <2>1, <2>2 DEF StopContainer, DeleteContainer
<1>4. CASE CreateContainer(k)
  <2>1. UNCHANGED <<pids, event>> /\ call[k].ctr \in Containers
    BY <1>1, <1>4 DEF CreateContainer, CallOK, Active, Creating
  <2>2. \A c \in Containers : /\ ctr'[c].pid \in {0, ctr[c].pid}
                              /\ ctr'[c].st = "running" => ctr'[c] = ctr[c]
    BY <1>1, <1>4, <2>1 DEF CreateContainer, TypeOK, Ctr
  <2> QED BY <2>1, <2>2, PidFrame
<1>5. CASE StartContainer(k) /\ ~UNCHANGED <<pids, ctr, event>>
  <2>1. /\ UNCHANGED <<pids, event>> /\ call[k].ctr \in Containers
        /\ ctr' = [ctr EXCEPT ![call[k].ctr].st = "starting"]
    BY <1>1, <1>5 DEF StartContainer, CallOK, Active, Of
  <2>2. \A c \in Containers : /\ ctr'[c].pid = ctr[c].pid
                              /\ ctr'[c].st = "running" => ctr'[c] = ctr[c]
    BY <1>1, <2>1 DEF TypeOK, Ctr
  <2> QED BY <2>1, <2>2, PidFrame
<1>6. CASE StartWait(k)
  <2>1. call[k].ctr \in Containers
    BY <1>1, <1>6 DEF StartWait, CallOK, Active, Of
  <2> QED BY <1>6, <2>1, PidStarted DEF StartWait
<1> QED BY <1>2, <1>3, <1>4, <1>5, <1>6 DEF Step, RunCreate, RunRefresh, RunNetwork, RunSave,
     RunSaved, GetSandbox, ListContainers, GetContainer, StopRecord, StopDone, SandboxStop,
     DeleteSandboxLookup, Detach, DeleteDone, SandboxDelete, CreateValidate, CreateNetwork,
     StartRecord, RequestFails

LEMMA PidHandle ==
    ASSUME IInv, PidInv, NEW i \in Pids, Handle(i)
    PROVE  PidInv'
<1>1. TypeOK /\ event[i] \in Event /\ EventOK(i)
  BY DEF IInv, TypeOK, Shape
<1>2. UNCHANGED <<ctr, pids>>
  BY DEF Handle, EventGetContainer, EventGetSandbox, EventGetState, EventAdd, EventAdded,
     EventSave
<1>3. /\ \A j \in Pids : j # i => event'[j] = event[j]
      /\ event'[i].ctr = event[i].ctr /\ event'[i].pc # "none"
      /\ event'[i].pc = "add" => event'[i].pid = IF ctr[event[i].ctr].st = "running"
                                                   THEN ctr[event[i].ctr].pid ELSE 0
      /\ event'[i].pc = "adding" => event[i].pc = "add" /\ event'[i].pid = event[i].pid
  <2>1. \E r : SetEvent(i, r)
    BY DEF Handle, EventGetContainer, EventGetSandbox, EventGetState, EventAdd, EventAdded,
       Attach, EventSave, EventGoto
  <2>2. \A j \in Pids : j # i => event'[j] = event[j]
    BY <1>1, <2>1 DEF SetEvent, TypeOK
  <2>3. ASSUME NEW pc \in {"sandbox", "done", "save"}, EventGoto(i, pc)
        PROVE  event'[i].ctr = event[i].ctr /\ event'[i].pc = pc
    BY <1>1, <2>3 DEF EventGoto, SetEvent, TypeOK, Event
  <2>6. ASSUME EventGoto(i, "adding")
        PROVE  /\ event'[i].ctr = event[i].ctr /\ event'[i].pc = "adding"
               /\ event'[i].pid = event[i].pid
    BY <1>1, <2>6 DEF EventGoto, SetEvent, TypeOK, Event
  <2>4. ASSUME NEW e, SetEvent(i, [event[i] EXCEPT !.etag = e, !.pc = "state"])
        PROVE  event'[i].ctr = event[i].ctr /\ event'[i].pc = "state"
    BY <1>1, <2>4 DEF SetEvent, TypeOK, Event
  <2>5. ASSUME NEW n, SetEvent(i, [event[i] EXCEPT !.pc = "add", !.pid = n])
        PROVE  event'[i].ctr = event[i].ctr /\ event'[i].pc = "add" /\ event'[i].pid = n
    BY <1>1, <2>5 DEF SetEvent, TypeOK, Event
  <2> QED BY <2>2, <2>3, <2>4, <2>5, <2>6 DEF Handle, EventGetContainer, EventGetSandbox,
             EventGetState, EventAdd, EventAdded, Attach, EventSave
<1>4. \A c \in Containers : ctr[c].pid # 0 => ctr[c].pid \in Pids
  BY <1>1, BoundsAssumption DEF TypeOK, Ctr, Pids
<1>5. \A j \in Pids : event'[j].ctr = event[j].ctr
  BY <1>3
<1>6. ASSUME NEW c \in Containers
      PROVE  /\ ctr'[c].pid <= pids'
             /\ ctr'[c].pid # 0 => event'[ctr'[c].pid].ctr = c /\ event'[ctr'[c].pid].pc # "none"
  BY <1>2, <1>3, <1>4, <1>5 DEF PidInv
<1>7. ASSUME NEW j \in Pids, event'[j].pc \in {"add", "adding"}, ctr'[event'[j].ctr].st = "running",
             ctr'[event'[j].ctr].pid = j
      PROVE  event'[j].pid = j
  BY <1>2, <1>3, <1>5, <1>7 DEF PidInv
<1> QED BY <1>6, <1>7 DEF PidInv

LEMMA PidNext == IInv /\ PidInv /\ [Next]_vars => PidInv'
<1> SUFFICES ASSUME IInv, PidInv, [Next]_vars PROVE PidInv'
  OBVIOUS
<1>1. TypeOK
  BY DEF IInv
<1>2. ASSUME NEW k \in Callers, Arrive(k) PROVE PidInv'
  <2>1. UNCHANGED <<pids, ctr, event>>
    BY <1>2 DEF Arrive, BeginRun, BeginPod, BeginCreate, BeginContainer, Begin
  <2> QED BY <2>1, PidFrame
<1>3. ASSUME NEW d \in Containers, ContainerExits(d) PROVE PidInv'
  <2>1. UNCHANGED <<pids, event>> /\ ctr' = [ctr EXCEPT ![d].st = "stopped"]
    BY <1>3 DEF ContainerExits
  <2>2. \A c \in Containers : /\ ctr'[c].pid = ctr[c].pid
                              /\ ctr'[c].st = "running" => ctr'[c] = ctr[c]
    BY <1>1, <2>1 DEF TypeOK, Ctr
  <2> QED BY <2>1, <2>2, PidFrame
<1>6. ASSUME NEW d \in Containers, StartGoesOn(d) PROVE PidInv'
  BY <1>6, PidStarted DEF StartGoesOn
<1>4. CASE Crash
  <2>1. UNCHANGED <<ctr, pids>>
    BY <1>4 DEF Crash
  <2>2. \A i \in Pids : /\ event[i].pc # "none" => event'[i].pc = "done"
                                                   /\ event'[i].ctr = event[i].ctr
                        /\ event'[i].pc \notin {"add", "adding"}
    BY <1>1, <1>4 DEF Crash, TypeOK, Event, NoEvent
  <2>3. \A c \in Containers : ctr[c].pid # 0 => ctr[c].pid \in Pids
    BY <1>1, BoundsAssumption DEF TypeOK, Ctr, Pids
  <2> QED BY <2>1, <2>2, <2>3 DEF PidInv
<1>5. CASE UNCHANGED vars
  BY <1>5, PidFrame DEF vars
<1> QED BY <1>2, <1>3, <1>4, <1>5, <1>6, PidStep, PidHandle DEF Next

LEMMA PidInit == Init => PidInv
  BY DEF Init, PidInv, NoEvent

\* With one call per pod at a time and plugins that work, no handler of a
\* started event ends before CNI has attached the run it is about, if that
\* run lasts, however long CNI takes and whichever requests of calls fail, for
\* any containers, runs and crashes.  It is the safety part of NetworkArrives;
\* a handler has at most five requests (runtime_helpers.go:269).
THEOREM LastingRunsAttached ==
    ASSUME ~Overlap, ~NetFaults
    PROVE  Spec => LastingRunAttached
<1> DEFINE A == \A c \in Containers :
                  (/\ mode = "cni" /\ ctr[c].st = "running" /\ UNCHANGED crashes
                   /\ event[ctr[c].pid].pc \notin {"save", "done"}
                   /\ event'[ctr[c].pid].pc \in {"save", "done"})
                     => ctr[c].pid \in cni'[ctr[c].pod]
<1>1. IInv /\ Serial /\ PidInv /\ [Next]_vars => [A]_vars
  <2> SUFFICES ASSUME IInv, Serial, PidInv, [Next]_vars, NEW c \in Containers,
                      mode = "cni", ctr[c].st = "running", UNCHANGED crashes,
                      event[ctr[c].pid].pc \notin {"save", "done"},
                      event'[ctr[c].pid].pc \in {"save", "done"}
               PROVE  ctr[c].pid \in cni'[ctr[c].pod]
    OBVIOUS
  <2> DEFINE i == ctr[c].pid
  <2>1. TypeOK /\ ctr[c].pod \in Pods /\ i # 0 /\ i \in Pids
    BY BoundsAssumption DEF IInv, Shape, CtrOK, TypeOK, Ctr, Pids
  <2>2. event[i].ctr = c /\ event[i].pc # "none" /\ event[i] \in Event
    BY <2>1 DEF PidInv, TypeOK
  <2>3. Present(c) /\ Exists(ctr[c].pod)
    BY <2>1 DEF Serial, Housed, UsedBy, Present
  <2>12. ASSUME NEW d, NEW pc, Started(d, pc) PROVE event'[i] = event[i]
    <3>1. i # pids + 1
      BY <2>1, BoundsAssumption DEF PidInv, TypeOK, Ctr
    <3> QED BY <2>1, <2>12, <3>1 DEF Started, TypeOK
  <2>4. Handle(i)
    <3>1. ASSUME NEW k \in Callers, Arrive(k) PROVE FALSE
      BY <3>1 DEF Arrive, BeginRun, BeginPod, BeginCreate, BeginContainer, Begin
    <3>2. ASSUME NEW k \in Callers, Step(k) PROVE FALSE
      <4>1. CASE UNCHANGED event
        BY <4>1
      <4>2. CASE StartWait(k)
        BY <2>1, <2>12, <4>2 DEF StartWait, StartFailed
      <4> QED BY <3>2, <4>1, <4>2 DEF Step, RunCreate, RunRefresh, RunNetwork, RunSave,
           RunSaved, GetSandbox, ListContainers, GetContainer, StopContainer, StopRecord,
           StopDone, SandboxStop, DeleteContainer, DeleteSandboxLookup, Detach, DeleteDone,
           SandboxDelete, CreateValidate, CreateContainer, CreateNetwork, StartContainer,
           StartRecord, RequestFails
    <3>3. ASSUME NEW j \in Pids, Handle(j) PROVE j = i
      BY <2>1, <3>3 DEF Handle, EventGetContainer, EventGetSandbox, EventGetState, EventAdd,
         EventAdded, Attach, EventSave, EventGoto, SetEvent, TypeOK
    <3>5. ASSUME NEW d \in Containers, StartGoesOn(d) PROVE FALSE
      BY <2>1, <2>12, <3>5 DEF StartGoesOn, StartFailed
    <3>4. ~Crash
      BY <2>1 DEF Crash, TypeOK
    <3> QED BY <3>1, <3>2, <3>3, <3>4, <3>5 DEF Next, ContainerExits, vars
  <2>5. \A pc \in {"sandbox", "state", "add", "adding"} :
          event' # [event EXCEPT ![i] = [event[i] EXCEPT !.pc = pc]]
    BY <2>1, <2>2 DEF TypeOK, Event
  <2>6. ~EventGetContainer(i)
    BY <2>2, <2>3, <2>5 DEF EventGetContainer, EventGoto, SetEvent
  <2>7. ~EventGetSandbox(i)
    <3>1. SetEvent(i, [event[i] EXCEPT !.etag = profile[ctr[c].pod], !.pc = "state"])
            => event'[i].pc = "state"
      BY <2>1, <2>2 DEF SetEvent, TypeOK, Event
    <3> QED BY <2>2, <2>3, <3>1 DEF EventGetSandbox
  <2>8. ~EventGetState(i)
    <3>1. \A n : SetEvent(i, [event[i] EXCEPT !.pc = "add", !.pid = n])
                   => event'[i].pc = "add"
      BY <2>1, <2>2 DEF SetEvent, TypeOK, Event
    <3> QED BY <2>2, <2>3, <3>1 DEF EventGetState
  <2>9. EventAdd(i) \/ EventAdded(i)
    BY <2>4, <2>6, <2>7, <2>8 DEF Handle, EventSave
  <2>10. event[i].pid = i
    BY <2>1, <2>2, <2>9 DEF EventAdd, EventAdded, PidInv
  <2>13. Attach(i)
    BY <2>2, <2>5, <2>9, <2>10 DEF EventAdd, EventAdded, Alive, EventGoto, SetEvent
  <2>11. cni' = [cni EXCEPT ![ctr[c].pod] = @ \cup {i}]
    BY <2>2, <2>10, <2>13 DEF Attach
  <2> QED BY <2>1, <2>11 DEF TypeOK
<1> QED BY <1>1, IInvInit, IInvNext, SerialInit, SerialNext, AwaitedInit, AwaitedNext, PidInit,
           PidNext, PTL DEF Spec, LastingRunAttached
=============================================================================
