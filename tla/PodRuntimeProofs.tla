--------------------------- MODULE PodRuntimeProofs ---------------------------
(* Proofs about PodRuntime, for any pods, containers, callers and bounds.   *)
EXTENDS PodRuntime, TLAPS

-----------------------------------------------------------------------------
(* The inductive invariant.  It holds for overlapping calls and all faults. *)

\* The containers LXD has, or had, in a pod.
Of(p) == {c \in Containers : ctr[c].st # "absent" /\ ctr[c].pod = p}

\* A container belongs to a pod that has been created; a run has a process.
CtrOK(c) ==
    /\ ctr[c].st # "absent" =>
          ctr[c].pod \in Pods /\ profile[ctr[c].pod].state # "absent"
    /\ ctr[c].st = "running" => ctr[c].pid # 0

Creating(k) == call[k].pc \in {"validate", "lxdcreate"}

\* The requests each call consists of.
Path(op) ==
    CASE op = "RunPodSandbox"    -> {"create", "refresh", "network", "save", "saved"}
      [] op = "StopPodSandbox"   -> {"get", "list", "stop", "record", "notready"}
      [] op = "RemovePodSandbox" -> {"get", "list", "stop", "record", "delete", "sandbox",
                                     "detach", "remove"}
      [] op = "CreateContainer"  -> {"validate", "lxdcreate", "created"}
      [] op = "StartContainer"   -> {"get", "start", "starting", "started"}
      [] op = "StopContainer"    -> {"get", "stop", "record"}
      [] op = "RemoveContainer"  -> {"get", "delete", "sandbox", "detach"}
      [] OTHER                   -> {}

\* What a call in progress knows of the pod and the containers it works on.
CallOK(k) ==
    Active(k) =>
      /\ call[k].pc \in Path(call[k].op)
      /\ call[k].pod \in Pods
      /\ profile[call[k].pod].state = "absent" <=> call[k].pc = "create"
      /\ call[k].todo \subseteq Of(call[k].pod)
      /\ call[k].list \subseteq Of(call[k].pod)
      /\ call[k].running \subseteq Of(call[k].pod)
      /\ Creating(k) => call[k].ctr \in Containers /\ ctr[call[k].ctr].st = "absent"
      /\ (\/ call[k].pc \in {"record", "sandbox", "detach", "created", "start", "starting",
                            "started"}
          \/ call[k].pc = "get" /\ call[k].op \in CtrOps) => call[k].ctr \in Of(call[k].pod)
      /\ call[k].pc = "save" => mode = "bridged"

\* A pod being created is known to its creator only, and no two calls create
\* the same container.
Apart ==
    \A j, k \in Callers : (j # k /\ Active(j) /\ Active(k)) =>
        /\ call[k].pc = "create" => call[j].pod # call[k].pod
        /\ Creating(j) /\ Creating(k) => call[j].ctr # call[k].ctr

EventOK(i) ==
    /\ event[i].pc # "none" =>
          event[i].ctr \in Containers /\ ctr[event[i].ctr].st # "absent"
    /\ event[i].pc \in {"adding", "save"} => event[i].pid # 0

Shape == /\ \A p \in Pods : profile[p].state = "absent" => profile[p].data = 0
         /\ \A c \in Containers : CtrOK(c)
         /\ \A k \in Callers : CallOK(k)
         /\ Apart
         /\ \A i \in Pids : EventOK(i)

IInv == TypeOK /\ Shape

-----------------------------------------------------------------------------
(* How a step changes the call of its goroutine.                            *)
Others(k) == \A j \in Callers \ {k} : call'[j] = call[j]

LEMMA NoneTypes == NoCall \in Call /\ NoProfile \in Profile /\ NoEvent \in Event
  BY BoundsAssumption DEF NoCall, Call, NoProfile, Profile, NoEvent, Event

LEMMA SetFacts ==
    ASSUME TypeOK, NEW k \in Callers, NEW r \in Call, Set(k, r)
    PROVE  call'[k] = r /\ Others(k) /\ call' \in [Callers -> Call]
  BY DEF TypeOK, Set, Others

LEMMA GotoFacts ==
    ASSUME TypeOK, NEW k \in Callers,
           NEW pc \in {"refresh", "save", "saved", "stop", "notready", "delete", "detach",
                       "remove", "lxdcreate", "created", "start", "starting", "started"},
           Goto(k, pc)
    PROVE  /\ call'[k].pc = pc /\ call'[k].op = call[k].op
           /\ call'[k].pod = call[k].pod /\ call'[k].ctr = call[k].ctr
           /\ call'[k].etag = call[k].etag /\ call'[k].todo = call[k].todo
           /\ call'[k].list = call[k].list /\ call'[k].running = call[k].running
           /\ Others(k) /\ call' \in [Callers -> Call]
<1>1. call[k] \in Call
  BY DEF TypeOK
<1>2. [call[k] EXCEPT !.pc = pc] \in Call
  BY <1>1 DEF Call
<1>3. call'[k] = [call[k] EXCEPT !.pc = pc] /\ Others(k) /\ call' \in [Callers -> Call]
  BY <1>2, SetFacts DEF Goto
<1> QED BY <1>1, <1>3 DEF Call

LEMMA ReturnFacts ==
    ASSUME TypeOK, NEW k \in Callers, NEW res \in {"ok", "err", "fault"}, Return(k, res)
    PROVE  /\ call'[k].pc = "idle" /\ call'[k].op = call[k].op
           /\ call'[k].pod = call[k].pod /\ call'[k].res = res
           /\ Others(k) /\ call' \in [Callers -> Call]
<1> DEFINE r == [NoCall EXCEPT !.op = call[k].op, !.pod = call[k].pod,
                               !.ctr = call[k].ctr, !.res = res]
<1>1. r \in Call
  BY NoneTypes DEF TypeOK, Call, NoCall
<1>2. /\ r.pc = "idle" /\ r.op = call[k].op /\ r.pod = call[k].pod /\ r.res = res
  BY DEF NoCall
<1>3. Set(k, r)
  BY DEF Return
<1> HIDE DEF r
<1> QED BY <1>1, <1>2, <1>3, SetFacts

\* The order of the requests.
LEMMA Paths ==
    ASSUME NEW op, NEW pc \in Path(op)
    PROVE  /\ pc \in {"create", "save"} => op = "RunPodSandbox"
           /\ pc = "refresh" => "network" \in Path(op)
           /\ pc = "network" => "save" \in Path(op)
           /\ (pc = "get" /\ op \in PodOps) => "list" \in Path(op)
           /\ pc = "list" => "list" \in Path(op) /\ "stop" \in Path(op)
           /\ (pc = "get" /\ op = "StopContainer") => "stop" \in Path(op)
           /\ (pc = "get" /\ op = "RemoveContainer") => "delete" \in Path(op)
           /\ (pc = "get" /\ op = "StartContainer") => "start" \in Path(op)
           /\ pc = "record" => "stop" \in Path(op)
           /\ pc = "stop" => /\ op \in {"StopContainer", "StopPodSandbox", "RemovePodSandbox"}
                             /\ "record" \in Path(op)
           /\ (pc = "stop" /\ op = "StopPodSandbox") => "notready" \in Path(op)
           /\ (pc = "stop" /\ op = "RemovePodSandbox") => "delete" \in Path(op)
           /\ pc = "delete" => /\ op \in {"RemoveContainer", "RemovePodSandbox"}
                               /\ "sandbox" \in Path(op)
           /\ (pc = "delete" /\ op # "RemoveContainer") => "remove" \in Path(op)
           /\ pc = "sandbox" => "detach" \in Path(op)
           /\ pc = "detach" => "delete" \in Path(op)
           /\ pc = "validate" => "lxdcreate" \in Path(op)
           /\ pc = "lxdcreate" => "created" \in Path(op)
           /\ pc = "start" => "starting" \in Path(op)
           /\ pc = "starting" => "started" \in Path(op)
           /\ pc = "notready" => op = "StopPodSandbox"
  BY DEF Path, PodOps

-----------------------------------------------------------------------------
(* What the others may rely on when goroutine k takes a step of its call.   *)
CtrsKept ==
    \A c \in Containers : ctr[c].st # "absent" =>
        ctr'[c].st # "absent" /\ ctr'[c].pod = ctr[c].pod

StepOf(k) ==
    /\ Active(k) /\ Others(k) /\ call' \in [Callers -> Call] /\ UNCHANGED mode
    /\ call'[k].pod = call[k].pod
    /\ call'[k].pc \notin {"create", "validate"}
    /\ call'[k].pc = "lxdcreate" => call[k].pc = "validate" /\ call'[k].ctr = call[k].ctr
    /\ \A p \in Pods : p # call[k].pod => profile'[p] = profile[p]
    /\ profile'[call[k].pod].state # "absent"
    /\ CtrsKept
    /\ \A c \in Containers : ctr[c].st = "absent" =>
          ctr'[c] = ctr[c] \/ (call[k].pc = "lxdcreate" /\ c = call[k].ctr)

LEMMA StepKeepsCalls ==
    ASSUME IInv, NEW k \in Callers, StepOf(k), CallOK(k)'
    PROVE  (\A j \in Callers : CallOK(j)') /\ Apart'
<1> USE DEF IInv, Shape, StepOf
<1>1. ASSUME NEW j \in Callers, j # k, Active(j)' PROVE CallOK(j)'
  <2>1. call'[j] = call[j] /\ Active(j) /\ CallOK(j)
    BY <1>1 DEF Others, Active
  <2>2. call[k].pod \in Pods /\ call[j].pod \in Pods
    BY <2>1 DEF CallOK
  <2>3. call[j].pc = "create" => call[j].pod # call[k].pod
    BY <1>1, <2>1 DEF Apart
  <2>4. profile'[call[j].pod].state = "absent" <=> call[j].pc = "create"
    BY <2>1, <2>2, <2>3 DEF CallOK
  <2>5. \A p \in Pods : Of(p) \subseteq Of(p)'
    BY DEF Of, CtrsKept
  <2>6. Creating(j) => ctr'[call[j].ctr].st = "absent"
    BY <1>1, <2>1 DEF Apart, CallOK, Creating
  <2> QED BY <2>1, <2>2, <2>4, <2>5, <2>6 DEF CallOK, Creating
<1>2. \A j \in Callers : CallOK(j)'
  BY <1>1 DEF CallOK
<1>3. Apart'
  <2> SUFFICES ASSUME NEW i \in Callers, NEW j \in Callers, i # j, Active(i)', Active(j)'
               PROVE  /\ call'[j].pc = "create" => call'[i].pod # call'[j].pod
                      /\ Creating(i)' /\ Creating(j)' => call'[i].ctr # call'[j].ctr
    BY DEF Apart
  <2>1. /\ i # k => call'[i] = call[i]
        /\ j # k => call'[j] = call[j]
    BY DEF Others
  <2>2. Active(i) /\ Active(j)
    BY <2>1 DEF Active
  <2>3. call'[i].pod = call[i].pod /\ (call'[j].pc = "create" => call[j].pc = "create")
        /\ call'[j].pod = call[j].pod
    BY <2>1
  <2>4. /\ Creating(i)' => Creating(i) /\ call'[i].ctr = call[i].ctr
        /\ Creating(j)' => Creating(j) /\ call'[j].ctr = call[j].ctr
    BY <2>1 DEF Creating
  <2> QED BY <2>2, <2>3, <2>4 DEF Apart
<1> QED BY <1>2, <1>3

\* A step of a call that handles no event keeps the handlers' facts.
LEMMA StepKeepsEvents ==
    ASSUME IInv, CtrsKept, UNCHANGED event
    PROVE  \A i \in Pids : EventOK(i)'
  BY DEF IInv, Shape, EventOK, CtrsKept

LEMMA StepKeepsCtrs ==
    ASSUME IInv, UNCHANGED ctr,
           \A p \in Pods : profile[p].state # "absent" => profile'[p].state # "absent"
    PROVE  \A c \in Containers : CtrOK(c)'
  BY DEF IInv, Shape, CtrOK

\* A step that only reads, and goes on with a call that is well formed.
LEMMA ReadStep ==
    ASSUME IInv, NEW k \in Callers, Active(k), call[k].pc # "create",
           UNCHANGED <<profile, ctr, pids, event, crashes, mode>>,
           cni' \in [Pods -> SUBSET Pids],
           Others(k), call' \in [Callers -> Call], call'[k].pod = call[k].pod,
           call'[k].pc \notin {"create", "validate"},
           call'[k].pc = "lxdcreate" => call[k].pc = "validate" /\ call'[k].ctr = call[k].ctr,
           CallOK(k)'
    PROVE  IInv'
<1>1. call[k].pod \in Pods /\ profile[call[k].pod].state # "absent"
  BY DEF IInv, Shape, CallOK
<1>2. CtrsKept /\ StepOf(k)
  BY <1>1 DEF CtrsKept, StepOf
<1>3. TypeOK'
  BY DEF IInv, TypeOK
<1>4. /\ \A c \in Containers : CtrOK(c)'
      /\ \A i \in Pids : EventOK(i)'
  BY <1>2, StepKeepsEvents, StepKeepsCtrs
<1>5. \A p \in Pods : profile'[p].state = "absent" => profile'[p].data = 0
  BY DEF IInv, Shape
<1> QED BY <1>2, <1>3, <1>4, <1>5, StepKeepsCalls DEF IInv, Shape

\* A call that ends leaves the others as they are, also one that fails before
\* it has created anything.
LEMMA ReadReturn ==
    ASSUME IInv, NEW k \in Callers, Active(k),
           UNCHANGED <<profile, ctr, pids, cni, event, crashes, mode>>,
           NEW res \in {"ok", "err", "fault"}, Return(k, res)
    PROVE  IInv'
<1>1. call'[k].pc = "idle" /\ Others(k) /\ call' \in [Callers -> Call]
  BY ReturnFacts DEF IInv
<1>2. \A j \in Callers : Active(j)' => j # k /\ call'[j] = call[j] /\ Active(j)
  BY <1>1 DEF Others, Active
<1>3. ASSUME NEW j \in Callers, Active(j)' PROVE CallOK(j)'
  BY <1>2, <1>3 DEF IInv, Shape, CallOK, Creating, Of
<1>4. \A j \in Callers : CallOK(j)'
  BY <1>3 DEF CallOK
<1>5. Apart'
  BY <1>2 DEF IInv, Shape, Apart, Creating
<1>6. TypeOK'
  BY <1>1 DEF IInv, TypeOK
<1>7. /\ \A c \in Containers : CtrOK(c)'
      /\ \A i \in Pids : EventOK(i)'
      /\ \A p \in Pods : profile'[p].state = "absent" => profile'[p].data = 0
  BY DEF IInv, Shape, CtrOK, EventOK
<1> QED BY <1>4, <1>5, <1>6, <1>7 DEF IInv, Shape

LEMMA FaultStep == ASSUME IInv, NEW k \in Callers, RequestFails(k) PROVE IInv'
<1>1. Active(k)
  BY FaultyAssumption DEF RequestFails, Requests, Active
<1> QED BY <1>1, ReadReturn DEF RequestFails

LEMMA ReadSet ==
    ASSUME IInv, NEW k \in Callers, Active(k), call[k].pc # "create",
           UNCHANGED <<profile, ctr, pids, cni, event, crashes, mode>>,
           NEW r \in Call, Set(k, r), r.pod = call[k].pod, r.pc \in Path(r.op),
           r.pc \in {"network", "list", "stop", "record", "delete"},
           r.todo \subseteq Of(r.pod), r.list \subseteq Of(r.pod),
           r.running \subseteq Of(r.pod), r.pc = "record" => r.ctr \in Of(r.pod)
    PROVE  IInv'
<1>1. TypeOK /\ CallOK(k)
  BY DEF IInv, Shape
<1>2. call'[k] = r /\ Others(k) /\ call' \in [Callers -> Call]
  BY <1>1, SetFacts
<1>3. CallOK(k)'
  BY <1>1, <1>2 DEF CallOK, Active, Of, Creating
<1> QED BY <1>1, <1>2, <1>3, ReadStep DEF TypeOK

\* The steps that only move on to the next request.
LEMMA ReadGoto ==
    ASSUME IInv, NEW k \in Callers, Active(k), call[k].pc # "create",
           UNCHANGED <<profile, ctr, pids, event, crashes, mode>>,
           cni' \in [Pods -> SUBSET Pids],
           NEW pc \in {"save", "notready", "delete", "detach", "remove",
                       "lxdcreate", "start"},
           Goto(k, pc), pc \in Path(call[k].op),
           pc = "save" => mode = "bridged",
           pc = "lxdcreate" => call[k].pc = "validate",
           pc \in {"detach", "start"} => call[k].ctr \in Of(call[k].pod)
    PROVE  IInv'
<1>1. TypeOK /\ CallOK(k)
  BY DEF IInv, Shape
<1>2. CallOK(k)'
  BY <1>1, GotoFacts DEF CallOK, Active, Of, Creating
<1> QED BY <1>1, <1>2, GotoFacts, ReadStep DEF TypeOK

\* The reading steps of RunPodSandbox.
LEMMA RunReads ==
    ASSUME IInv, NEW k \in Callers, RunRefresh(k) \/ RunNetwork(k) \/ RunSaved(k)
    PROVE  IInv'
<1>1. TypeOK /\ CallOK(k) /\ call[k] \in Call
  BY DEF IInv, TypeOK, Shape
<1>2. Active(k) /\ call[k].pc # "create"
      /\ UNCHANGED <<profile, ctr, pids, cni, event, crashes, mode>>
  BY DEF RunRefresh, RunNetwork, RunSaved, Active
<1>3. CASE Return(k, "ok") \/ Return(k, "err")
  BY <1>2, <1>3, ReadReturn
<1>4. CASE /\ call[k].pc = "refresh"
           /\ Set(k, [call[k] EXCEPT !.etag = profile[call[k].pod], !.pc = "network"])
  <2> DEFINE r == [call[k] EXCEPT !.etag = profile[call[k].pod], !.pc = "network"]
  <2>1. call[k].pod \in Pods
    BY <1>1, <1>2 DEF CallOK
  <2>2. r \in Call
    BY <1>1, <2>1 DEF Call, TypeOK
  <2>3. /\ r.pc = "network" /\ r.op = call[k].op /\ r.pod = call[k].pod /\ r.todo = call[k].todo
        /\ r.list = call[k].list /\ r.running = call[k].running
    BY <1>1 DEF Call
  <2> HIDE DEF r
  <2>4. r.pc \in Path(r.op)
    BY <1>1, <1>2, <1>4, <2>3, Paths DEF CallOK
  <2> QED BY <1>1, <1>2, <1>4, <2>2, <2>3, <2>4, ReadSet DEF CallOK, r
<1>5. CASE call[k].pc = "network" /\ mode = "bridged" /\ Goto(k, "save")
  <2>1. "save" \in Path(call[k].op)
    BY <1>1, <1>2, <1>5, Paths DEF CallOK
  <2> QED BY <1>1, <1>2, <1>5, <2>1, ReadGoto DEF TypeOK
<1> QED BY <1>3, <1>4, <1>5 DEF RunRefresh, RunNetwork, RunSaved

\* Reading the sandbox, its containers, or the one container a call is about.
LEMMA GetReads ==
    ASSUME IInv, NEW k \in Callers, GetSandbox(k) \/ ListContainers(k) \/ GetContainer(k)
    PROVE  IInv'
<1>1. TypeOK /\ CallOK(k) /\ call[k] \in Call
  BY DEF IInv, TypeOK, Shape
<1>2. Active(k) /\ call[k].pc # "create"
      /\ UNCHANGED <<profile, ctr, pids, cni, event, crashes, mode>>
  BY DEF GetSandbox, ListContainers, GetContainer, Active
<1>3. /\ call[k].pc \in Path(call[k].op)
      /\ call[k].pod \in Pods /\ call[k].todo \subseteq Of(call[k].pod)
      /\ call[k].list \subseteq Of(call[k].pod) /\ call[k].running \subseteq Of(call[k].pod)
  BY <1>1, <1>2 DEF CallOK
<1>4. CASE Return(k, "ok") \/ Return(k, "err")
  BY <1>2, <1>4, ReadReturn
<1>5. CASE /\ call[k].pc = "get" /\ call[k].op \in PodOps
           /\ Set(k, [call[k] EXCEPT !.etag = profile[call[k].pod],
                                     !.todo = UsedBy(call[k].pod), !.pc = "list"])
  <2> DEFINE r == [call[k] EXCEPT !.etag = profile[call[k].pod],
                                  !.todo = UsedBy(call[k].pod), !.pc = "list"]
  <2>1. r \in Call
    BY <1>1, <1>3 DEF Call, TypeOK, UsedBy
  <2>2. /\ r.pc = "list" /\ r.op = call[k].op /\ r.pod = call[k].pod /\ r.todo = UsedBy(call[k].pod)
        /\ r.list = call[k].list /\ r.running = call[k].running
    BY <1>1 DEF Call
  <2>3. UsedBy(call[k].pod) \subseteq Of(call[k].pod)
    BY DEF UsedBy, Of, Present
  <2> HIDE DEF r
  <2>4. r.pc \in Path(r.op)
    BY <1>3, <1>5, <2>2, Paths
  <2> QED BY <1>2, <1>3, <1>5, <2>1, <2>2, <2>3, <2>4, ReadSet DEF r
<1>6. CASE call[k].pc = "list" /\ Set(k, [call[k] EXCEPT !.todo = call[k].running, !.pc = "stop"])
  <2> DEFINE r == [call[k] EXCEPT !.todo = call[k].running, !.pc = "stop"]
  <2>1. /\ r \in Call /\ r.pc = "stop" /\ r.op = call[k].op /\ r.pod = call[k].pod /\ r.todo = call[k].running
        /\ r.list = call[k].list /\ r.running = call[k].running
    BY <1>1 DEF Call
  <2> HIDE DEF r
  <2>2. r.pc \in Path(r.op)
    BY <1>3, <1>6, <2>1, Paths
  <2> QED BY <1>2, <1>3, <1>6, <2>1, <2>2, ReadSet DEF r
<1>7. ASSUME call[k].pc = "list", NEW c \in call[k].todo,
             Set(k, [call[k] EXCEPT
                       !.todo = @ \ {c}, !.list = @ \cup {c},
                       !.running = IF ctr[c].st = "running" THEN @ \cup {c} ELSE @])
      PROVE  IInv'
  <2> DEFINE r == [call[k] EXCEPT
                     !.todo = @ \ {c}, !.list = @ \cup {c},
                     !.running = IF ctr[c].st = "running" THEN @ \cup {c} ELSE @]
  <2>1. c \in Containers /\ c \in Of(call[k].pod)
    BY <1>3, <1>7 DEF Of
  <2>2. r \in Call
    BY <1>1, <2>1 DEF Call
  <2>3. /\ r.pc = "list" /\ r.op = call[k].op /\ r.pod = call[k].pod /\ r.todo = call[k].todo \ {c}
        /\ r.list = call[k].list \cup {c} /\ r.running \subseteq call[k].running \cup {c}
    BY <1>1, <1>7 DEF Call
  <2> HIDE DEF r
  <2>4. r.pc \in Path(r.op)
    BY <1>3, <1>7, <2>3, Paths
  <2> QED BY <1>2, <1>3, <1>7, <2>1, <2>2, <2>3, <2>4, ReadSet DEF r
<1>8. CASE GetContainer(k)
  <2> DEFINE c == call[k].ctr
             rs == [call[k] EXCEPT !.pc = "stop",
                                   !.todo = IF ctr[c].st = "running" THEN {c} ELSE {}]
             rd == [call[k] EXCEPT !.pc = "delete", !.todo = {c}]
  <2>1. c \in Containers /\ c \in Of(call[k].pod)
    BY <1>1, <1>2, <1>8 DEF GetContainer, CallOK, Of
  <2>2. rs \in Call /\ rd \in Call
    BY <1>1, <2>1 DEF Call
  <2>3. /\ rs.pc = "stop" /\ rs.op = call[k].op /\ rs.pod = call[k].pod /\ rs.todo \subseteq {c}
        /\ rs.list = call[k].list /\ rs.running = call[k].running
        /\ rd.pc = "delete" /\ rd.op = call[k].op /\ rd.pod = call[k].pod /\ rd.todo = {c}
        /\ rd.list = call[k].list /\ rd.running = call[k].running
    BY <1>1 DEF Call
  <2>4. \/ Return(k, "ok") \/ Return(k, "err")
        \/ Set(k, rs) /\ call[k].op = "StopContainer"
        \/ Set(k, rd) /\ call[k].op = "RemoveContainer"
        \/ Goto(k, "start") /\ call[k].op = "StartContainer"
    BY <1>8 DEF GetContainer
  <2>8. call[k].pc = "get"
    BY <1>8 DEF GetContainer
  <2> HIDE DEF rs, rd
  <2>5. CASE Set(k, rs) /\ call[k].op = "StopContainer"
    <3>1. rs.pc \in Path(rs.op)
      BY <1>3, <2>3, <2>5, <2>8, Paths
    <3> QED BY <1>2, <1>3, <2>1, <2>2, <2>3, <2>5, <3>1, ReadSet
  <2>6. CASE Set(k, rd) /\ call[k].op = "RemoveContainer"
    <3>1. rd.pc \in Path(rd.op)
      BY <1>3, <2>3, <2>6, <2>8, Paths
    <3> QED BY <1>2, <1>3, <2>1, <2>2, <2>3, <2>6, <3>1, ReadSet
  <2>7. CASE Goto(k, "start") /\ call[k].op = "StartContainer"
    <3>1. "start" \in Path(call[k].op)
      BY <1>3, <2>7, <2>8, Paths
    <3> QED BY <1>1, <1>2, <2>1, <2>7, <3>1, ReadGoto DEF TypeOK
  <2> QED BY <1>4, <2>4, <2>5, <2>6, <2>7
<1>9. CASE GetSandbox(k)
  BY <1>4, <1>5, <1>9 DEF GetSandbox
<1>10. CASE ListContainers(k)
  BY <1>4, <1>6, <1>7, <1>10 DEF ListContainers
<1> QED BY <1>8, <1>9, <1>10

\* The steps between the requests that change something.
LEMMA MovesOn ==
    ASSUME IInv, NEW k \in Callers,
           \/ StopRecord(k) \/ StopDone(k) \/ DeleteSandboxLookup(k) \/ Detach(k)
           \/ DeleteDone(k) \/ CreateValidate(k) \/ CreateNetwork(k) \/ StartRecord(k)
    PROVE  IInv'
<1>1. TypeOK /\ CallOK(k) /\ call[k] \in Call
  BY DEF IInv, TypeOK, Shape
<1>2. Active(k) /\ call[k].pc # "create"
      /\ UNCHANGED <<profile, ctr, pids, event, crashes, mode>>
  BY DEF StopRecord, StopDone, DeleteSandboxLookup, Detach, DeleteDone,
         CreateValidate, CreateNetwork, StartRecord, Active
<1>3. /\ call[k].pc \in Path(call[k].op)
      /\ call[k].pod \in Pods /\ call[k].todo \subseteq Of(call[k].pod)
      /\ call[k].list \subseteq Of(call[k].pod) /\ call[k].running \subseteq Of(call[k].pod)
  BY <1>1, <1>2 DEF CallOK
<1>4. CASE UNCHANGED cni /\ (Return(k, "ok") \/ Return(k, "err"))
  BY <1>2, <1>4, ReadReturn
<1>5. CASE StopRecord(k)
  <2> DEFINE r == [call[k] EXCEPT !.pc = "stop",
                     !.cached = IF Present(call[k].ctr) THEN @ \cup {call[k].ctr} ELSE @]
  <2>1. call[k].ctr \in Containers
    BY <1>1, <1>2, <1>5 DEF StopRecord, CallOK, Of
  <2>2. r \in Call
    BY <1>1, <2>1 DEF Call
  <2>3. /\ r.pc = "stop" /\ r.op = call[k].op /\ r.pod = call[k].pod /\ r.todo = call[k].todo
        /\ r.list = call[k].list /\ r.running = call[k].running
    BY <1>1 DEF Call
  <2>4. UNCHANGED cni /\ Set(k, r)
    BY <1>5 DEF StopRecord
  <2> HIDE DEF r
  <2>5. r.pc \in Path(r.op)
    BY <1>3, <1>5, <2>3, Paths DEF StopRecord
  <2> QED BY <1>2, <1>3, <2>2, <2>3, <2>4, <2>5, ReadSet
<1>6. CASE StopDone(k)
  <2> DEFINE r == [call[k] EXCEPT !.todo = call[k].list, !.pc = "delete"]
  <2>1. /\ r \in Call /\ r.pc = "delete" /\ r.op = call[k].op /\ r.pod = call[k].pod /\ r.todo = call[k].list
        /\ r.list = call[k].list /\ r.running = call[k].running
    BY <1>1 DEF Call
  <2>2. /\ call[k].op \in {"StopContainer", "StopPodSandbox", "RemovePodSandbox"}
        /\ call[k].op = "StopPodSandbox" => "notready" \in Path(call[k].op)
        /\ call[k].op = "RemovePodSandbox" => "delete" \in Path(call[k].op)
    BY <1>3, <1>6, Paths DEF StopDone
  <2>3. UNCHANGED cni
    BY <1>6 DEF StopDone
  <2>4. CASE call[k].op = "StopContainer"
    <3>1. Return(k, "ok")
      BY <1>6, <2>4 DEF StopDone
    <3> QED BY <1>4, <2>3, <3>1
  <2>5. CASE call[k].op = "StopPodSandbox"
    <3>1. Goto(k, "notready")
      BY <1>6, <2>5 DEF StopDone
    <3> QED BY <1>1, <1>2, <2>2, <2>3, <2>5, <3>1, ReadGoto DEF TypeOK
  <2>6. CASE call[k].op = "RemovePodSandbox"
    <3>1. Set(k, r)
      BY <1>6, <2>6 DEF StopDone
    <3> HIDE DEF r
    <3> QED BY <1>2, <1>3, <2>1, <2>2, <2>3, <2>6, <3>1, ReadSet
  <2> QED BY <2>2, <2>4, <2>5, <2>6
<1>7. CASE DeleteSandboxLookup(k)
  <2>1. "detach" \in Path(call[k].op) /\ call[k].ctr \in Of(call[k].pod)
    BY <1>1, <1>2, <1>3, <1>7, Paths DEF DeleteSandboxLookup, CallOK
  <2> QED BY <1>1, <1>2, <1>4, <1>7, <2>1, ReadGoto DEF DeleteSandboxLookup, TypeOK
<1>8. CASE Detach(k)
  <2>1. cni' \in [Pods -> SUBSET Pids]
    BY <1>1, <1>8, BoundsAssumption DEF Detach, TypeOK
  <2>2. "delete" \in Path(call[k].op)
    BY <1>3, <1>8, Paths DEF Detach
  <2> QED BY <1>1, <1>2, <1>8, <2>1, <2>2, ReadGoto DEF Detach
<1>9. CASE DeleteDone(k)
  <2>1. call[k].op # "RemoveContainer" => "remove" \in Path(call[k].op)
    BY <1>3, <1>9, Paths DEF DeleteDone
  <2> QED BY <1>1, <1>2, <1>4, <1>9, <2>1, ReadGoto DEF DeleteDone, TypeOK
<1>10. CASE CreateValidate(k)
  <2>1. "lxdcreate" \in Path(call[k].op)
    BY <1>3, <1>10, Paths DEF CreateValidate
  <2> QED BY <1>1, <1>2, <1>4, <1>10, <2>1, ReadGoto DEF CreateValidate, TypeOK
<1>11. CASE CreateNetwork(k) \/ StartRecord(k)
  BY <1>4, <1>11 DEF CreateNetwork, StartRecord
<1> QED BY <1>5, <1>6, <1>7, <1>8, <1>9, <1>10, <1>11

-----------------------------------------------------------------------------
(* The requests that change the profile of the call's own pod.              *)
LEMMA ProfileStep ==
    ASSUME IInv, NEW k \in Callers, Active(k),
           UNCHANGED <<ctr, pids, cni, event, crashes, mode>>,
           NEW v \in Profile, v.state # "absent",
           profile' = [profile EXCEPT ![call[k].pod] = v],
           \/ Goto(k, "refresh") /\ call[k].op = "RunPodSandbox"
           \/ Goto(k, "saved") /\ call[k].op = "RunPodSandbox"
           \/ Return(k, "ok")
    PROVE  IInv'
<1>1. TypeOK /\ CallOK(k)
  BY DEF IInv, Shape
<1>2. /\ call[k].pod \in Pods /\ profile' \in [Pods -> Profile]
      /\ profile'[call[k].pod] = v
      /\ \A p \in Pods : p # call[k].pod => profile'[p] = profile[p]
  BY <1>1 DEF CallOK, TypeOK
<1>3. /\ Others(k) /\ call' \in [Callers -> Call] /\ call'[k].pod = call[k].pod
      /\ call'[k].pc \in {"idle", "refresh", "saved"} /\ call'[k].op = call[k].op
      /\ call'[k].pc # "idle" => call[k].op = "RunPodSandbox"
      /\ call'[k].pc # "idle" => /\ call'[k].todo = call[k].todo
                                 /\ call'[k].list = call[k].list
                                 /\ call'[k].running = call[k].running
  BY <1>1, GotoFacts, ReturnFacts
<1>4. CallOK(k)'
  BY <1>1, <1>2, <1>3 DEF CallOK, Active, Of, Creating, Path
<1>5. CtrsKept /\ StepOf(k)
  BY <1>2, <1>3 DEF CtrsKept, StepOf
<1>6. TypeOK'
  BY <1>2, <1>3 DEF IInv, TypeOK
<1>7. /\ \A c \in Containers : CtrOK(c)'
      /\ \A i \in Pids : EventOK(i)'
  BY <1>2, <1>5, StepKeepsEvents, StepKeepsCtrs
<1>8. \A p \in Pods : profile'[p].state = "absent" => profile'[p].data = 0
  BY <1>2 DEF IInv, Shape
<1> QED BY <1>4, <1>5, <1>6, <1>7, <1>8, StepKeepsCalls DEF IInv, Shape

LEMMA ProfileSteps ==
    ASSUME IInv, NEW k \in Callers,
           RunCreate(k) \/ RunSave(k) \/ SandboxStop(k) \/ SandboxDelete(k)
    PROVE  IInv'
<1>1. TypeOK /\ CallOK(k) /\ call[k] \in Call
  BY DEF IInv, TypeOK, Shape
<1>2. Active(k) /\ UNCHANGED <<ctr, pids, cni, event, crashes, mode>>
  BY DEF RunCreate, RunSave, SandboxStop, SandboxDelete, Active
<1>3. call[k].pod \in Pods
  BY <1>1, <1>2 DEF CallOK
<1>4. CASE RunCreate(k)
  <2>1. NewProfile \in Profile /\ NewProfile.state # "absent"
    BY DEF NewProfile, Profile
  <2>2. call[k].op = "RunPodSandbox"
    BY <1>1, <1>2, <1>4, Paths DEF RunCreate, CallOK
  <2> QED BY <1>2, <1>4, <2>1, <2>2, ProfileStep DEF RunCreate
<1>5. CASE RunSave(k)
  <2>1. [state |-> "ready", data |-> 1, entries |-> TRUE] \in Profile
    BY DEF Profile
  <2>2. call[k].op = "RunPodSandbox"
    BY <1>1, <1>2, <1>5, Paths DEF RunSave, CallOK
  <2> QED BY <1>2, <1>5, <2>1, <2>2, ProfileStep, ReadReturn DEF RunSave
<1>6. CASE SandboxStop(k)
  <2>1. Stopped(call[k].etag) \in Profile /\ Stopped(call[k].etag).state = "notready"
    BY <1>1 DEF Stopped, Profile, Call
  <2> QED BY <1>2, <1>6, <2>1, ProfileStep, ReadReturn DEF SandboxStop
<1>7. CASE SandboxDelete(k)
  <2> DEFINE v == [profile[call[k].pod] EXCEPT !.state = "deleted"]
  <2>1. v \in Profile /\ v.state = "deleted"
    BY <1>1, <1>3 DEF Profile, TypeOK
  <2>2. \/ Return(k, "err") /\ UNCHANGED profile
        \/ Return(k, "ok") /\ profile' = [profile EXCEPT ![call[k].pod] = v]
    BY <1>7 DEF SandboxDelete
  <2> HIDE DEF v
  <2> QED BY <1>2, <1>7, <2>1, <2>2, ProfileStep, ReadReturn DEF SandboxDelete
<1> QED BY <1>4, <1>5, <1>6, <1>7

-----------------------------------------------------------------------------
(* The requests that change a container.                                    *)
LEMMA CtrStep ==
    ASSUME IInv, NEW k \in Callers, Active(k), call[k].pc # "create",
           UNCHANGED <<profile, cni, crashes, mode>>, TypeOK',
           Others(k), call'[k].pod = call[k].pod,
           call'[k].pc \notin {"create", "validate", "lxdcreate"},
           NEW c \in Containers, \A d \in Containers : d # c => ctr'[d] = ctr[d],
           ctr'[c].st # "absent", ctr'[c].pod \in Pods,
           profile[ctr'[c].pod].state # "absent",
           ctr'[c].st = "running" => ctr'[c].pid # 0,
           \/ ctr[c].st # "absent" /\ ctr'[c].pod = ctr[c].pod
           \/ call[k].pc = "lxdcreate" /\ c = call[k].ctr /\ ctr[c].st = "absent",
           \A i \in Pids : EventOK(i)', CallOK(k)'
    PROVE  IInv'
<1>1. call[k].pod \in Pods /\ profile[call[k].pod].state # "absent"
  BY DEF IInv, Shape, CallOK
<1>2. CtrsKept /\ StepOf(k)
  BY <1>1 DEF CtrsKept, StepOf, TypeOK
<1>3. \A d \in Containers : CtrOK(d)'
  BY DEF IInv, Shape, CtrOK
<1>4. \A p \in Pods : profile'[p].state = "absent" => profile'[p].data = 0
  BY DEF IInv, Shape
<1> QED BY <1>2, <1>3, <1>4, StepKeepsCalls DEF IInv, Shape

LEMMA StopOrDelete ==
    ASSUME IInv, NEW k \in Callers, StopContainer(k) \/ DeleteContainer(k)
    PROVE  IInv'
<1>1. TypeOK /\ CallOK(k) /\ call[k] \in Call
  BY DEF IInv, TypeOK, Shape
<1>2. /\ Active(k) /\ call[k].pc \in {"stop", "delete"}
      /\ UNCHANGED <<profile, pids, cni, event, crashes, mode>>
  BY DEF StopContainer, DeleteContainer, Active
<1>3. /\ call[k].pc \in Path(call[k].op)
      /\ call[k].pod \in Pods /\ call[k].todo \subseteq Of(call[k].pod)
      /\ call[k].list \subseteq Of(call[k].pod) /\ call[k].running \subseteq Of(call[k].pod)
  BY <1>1, <1>2 DEF CallOK
<1>4. CASE Return(k, "err") /\ UNCHANGED ctr
  BY <1>2, <1>4, ReadReturn
<1>5. ASSUME NEW c \in call[k].todo, UNCHANGED ctr, call[k].pc = "stop",
             Set(k, [call[k] EXCEPT !.todo = @ \ {c}])
      PROVE  IInv'
  <2> DEFINE r == [call[k] EXCEPT !.todo = @ \ {c}]
  <2>1. /\ r \in Call /\ r.pc = "stop" /\ r.op = call[k].op /\ r.pod = call[k].pod
        /\ r.todo = call[k].todo \ {c}
        /\ r.list = call[k].list /\ r.running = call[k].running
    BY <1>1, <1>5 DEF Call
  <2>2. Set(k, r)
    BY <1>5
  <2> HIDE DEF r
  <2> QED BY <1>2, <1>3, <1>5, <2>1, <2>2, ReadSet
<1>6. ASSUME NEW c \in call[k].todo, NEW st \in {"stopped", "deleted"}, NEW pc,
             \/ call[k].pc = "stop" /\ pc = "record"
             \/ call[k].pc = "delete" /\ pc = "sandbox",
             ctr' = [ctr EXCEPT ![c].st = st],
             Set(k, [call[k] EXCEPT !.todo = @ \ {c}, !.ctr = c, !.pc = pc])
      PROVE  IInv'
  <2> DEFINE r == [call[k] EXCEPT !.todo = @ \ {c}, !.ctr = c, !.pc = pc]
  <2>1. c \in Containers /\ c \in Of(call[k].pod)
    BY <1>3, <1>6 DEF Of
  <2>2. pc \in Path(call[k].op)
    BY <1>3, <1>6, Paths
  <2>3. r \in Call
    BY <1>1, <1>6, <2>1 DEF Call
  <2>4. /\ r.pc = pc /\ r.op = call[k].op /\ r.pod = call[k].pod /\ r.ctr = c
        /\ r.todo = call[k].todo \ {c}
        /\ r.list = call[k].list /\ r.running = call[k].running
    BY <1>1 DEF Call
  <2>5. Set(k, r)
    BY <1>6
  <2> HIDE DEF r
  <2>6. call'[k] = r /\ Others(k) /\ call' \in [Callers -> Call]
    BY <1>1, <2>3, <2>5, SetFacts
  <2>7. /\ ctr' \in [Containers -> Ctr]
        /\ ctr'[c].st = st /\ ctr'[c].pod = ctr[c].pod
        /\ \A d \in Containers : d # c => ctr'[d] = ctr[d]
    BY <1>1, <1>6, <2>1 DEF TypeOK, Ctr
  <2>8. CtrsKept /\ \A p \in Pods : Of(p) \subseteq Of(p)'
    BY <1>6, <2>1, <2>7 DEF CtrsKept, Of
  <2>9. CallOK(k)'
    BY <1>1, <1>2, <1>3, <1>6, <2>1, <2>2, <2>4, <2>6, <2>8 DEF CallOK, Active, Creating
  <2>10. TypeOK'
    BY <1>1, <1>2, <2>6, <2>7 DEF TypeOK
  <2>11. \A i \in Pids : EventOK(i)'
    BY <1>2, <2>8, StepKeepsEvents
  <2>12. ctr[c].st # "absent" /\ ctr[c].pod = call[k].pod /\ profile[call[k].pod].state # "absent"
    BY <1>1, <1>2, <2>1 DEF Of, CallOK
  <2> QED BY <1>2, <1>3, <1>6, <2>1, <2>4, <2>6, <2>7, <2>9, <2>10, <2>11, <2>12, CtrStep
<1>7. CASE StopContainer(k)
  BY <1>4, <1>5, <1>6, <1>7 DEF StopContainer
<1>8. CASE DeleteContainer(k)
  BY <1>4, <1>6, <1>8 DEF DeleteContainer
<1> QED BY <1>7, <1>8

LEMMA CreateStep ==
    ASSUME IInv, NEW k \in Callers, CreateContainer(k)
    PROVE  IInv'
<1> DEFINE c == call[k].ctr
<1>1. TypeOK /\ CallOK(k) /\ call[k] \in Call
  BY DEF IInv, TypeOK, Shape
<1>2. /\ Active(k) /\ call[k].pc = "lxdcreate"
      /\ UNCHANGED <<profile, pids, cni, event, crashes, mode>>
  BY DEF CreateContainer, Active
<1>3. CASE Return(k, "err") /\ UNCHANGED ctr
  BY <1>2, <1>3, ReadReturn
<1>4. CASE /\ Exists(call[k].pod) /\ Goto(k, "created")
           /\ ctr' = [ctr EXCEPT ![c] = [st |-> "stopped", pod |-> call[k].pod, pid |-> 0]]
  <2>1. c \in Containers /\ ctr[c].st = "absent" /\ call[k].pod \in Pods
    BY <1>1, <1>2 DEF CallOK, Creating
  <2>2. [st |-> "stopped", pod |-> call[k].pod, pid |-> 0] \in Ctr
    BY <2>1, BoundsAssumption DEF Ctr
  <2>3. /\ ctr' \in [Containers -> Ctr]
        /\ ctr'[c].st = "stopped" /\ ctr'[c].pod = call[k].pod
        /\ \A d \in Containers : d # c => ctr'[d] = ctr[d]
    BY <1>1, <1>4, <2>1, <2>2 DEF TypeOK
  <2>4. CtrsKept /\ \A p \in Pods : Of(p) \subseteq Of(p)'
    BY <2>1, <2>3 DEF CtrsKept, Of
  <2>5. /\ call'[k].pc = "created" /\ call'[k].op = call[k].op
        /\ call'[k].pod = call[k].pod /\ call'[k].ctr = c
        /\ call'[k].todo = call[k].todo
        /\ call'[k].list = call[k].list /\ call'[k].running = call[k].running
        /\ Others(k) /\ call' \in [Callers -> Call]
    BY <1>1, <1>4, GotoFacts
  <2>6. "created" \in Path(call[k].op)
    BY <1>1, <1>2, Paths DEF CallOK
  <2>7. c \in Of(call[k].pod)'
    BY <2>1, <2>3, <2>5 DEF Of
  <2>8. CallOK(k)'
    BY <1>1, <1>2, <2>1, <2>4, <2>5, <2>6, <2>7 DEF CallOK, Active, Creating
  <2>9. TypeOK'
    BY <1>1, <1>2, <2>3, <2>5 DEF TypeOK
  <2>10. \A i \in Pids : EventOK(i)'
    BY <1>2, <2>4, StepKeepsEvents
  <2>11. profile[call[k].pod].state # "absent"
    BY <1>4 DEF Exists
  <2> QED BY <1>2, <2>1, <2>3, <2>5, <2>8, <2>9, <2>10, <2>11, CtrStep
<1> QED BY <1>3, <1>4 DEF CreateContainer

LEMMA StartStep ==
    ASSUME IInv, NEW k \in Callers, StartContainer(k)
    PROVE  IInv'
<1> DEFINE c == call[k].ctr
<1>1. TypeOK /\ CallOK(k)
  BY DEF IInv, Shape
<1>2. /\ Active(k) /\ call[k].pc = "start"
      /\ UNCHANGED <<profile, pids, cni, event, crashes, mode>>
  BY DEF StartContainer, Active
<1>3. CASE Return(k, "err") /\ UNCHANGED ctr
  BY <1>2, <1>3, ReadReturn
<1>4. CASE ctr' = [ctr EXCEPT ![c].st = "starting"] /\ Goto(k, "starting")
  <2>1. c \in Containers /\ c \in Of(call[k].pod) /\ call[k].pod \in Pods
    BY <1>1, <1>2 DEF CallOK, Of
  <2>2. /\ ctr' \in [Containers -> Ctr]
        /\ ctr'[c].st = "starting" /\ ctr'[c].pod = ctr[c].pod
        /\ \A d \in Containers : d # c => ctr'[d] = ctr[d]
    BY <1>1, <1>4, <2>1 DEF TypeOK, Ctr
  <2>3. CtrsKept /\ \A p \in Pods : Of(p) \subseteq Of(p)'
    BY <2>1, <2>2 DEF CtrsKept, Of
  <2>4. /\ call'[k].pc = "starting" /\ call'[k].op = call[k].op
        /\ call'[k].pod = call[k].pod /\ call'[k].ctr = c
        /\ call'[k].todo = call[k].todo
        /\ call'[k].list = call[k].list /\ call'[k].running = call[k].running
        /\ Others(k) /\ call' \in [Callers -> Call]
    BY <1>1, <1>4, GotoFacts
  <2>5. "starting" \in Path(call[k].op)
    BY <1>1, <1>2, Paths DEF CallOK
  <2>6. CallOK(k)'
    BY <1>1, <1>2, <2>1, <2>3, <2>4, <2>5 DEF CallOK, Active, Creating
  <2>7. TypeOK'
    BY <1>1, <1>2, <2>2, <2>4 DEF TypeOK
  <2>8. \A i \in Pids : EventOK(i)'
    BY <1>2, <2>3, StepKeepsEvents
  <2>9. ctr[c].st # "absent" /\ ctr[c].pod = call[k].pod /\ profile[call[k].pod].state # "absent"
    BY <1>1, <1>2, <2>1 DEF Of, CallOK
  <2> QED BY <1>2, <2>1, <2>2, <2>4, <2>6, <2>7, <2>8, <2>9, CtrStep
<1> QED BY <1>3, <1>4 DEF StartContainer

\* How LXD ends a start, whether somebody waits for it or not.
LEMMA StartEnds ==
    ASSUME IInv, NEW c \in Containers, ctr[c].st # "absent", NEW pc \in {"pending", "done"},
           Started(c, pc) \/ StartFailed(c)
    PROVE  /\ ctr' \in [Containers -> Ctr] /\ pids' \in 0 .. MaxPid /\ event' \in [Pids -> Event]
           /\ ctr'[c].st \in {"stopped", "running"} /\ ctr'[c].pod = ctr[c].pod
           /\ ctr'[c].st = "running" => ctr'[c].pid # 0
           /\ \A d \in Containers : d # c => ctr'[d] = ctr[d]
           /\ CtrsKept /\ \A p \in Pods : Of(p) \subseteq Of(p)'
           /\ \A i \in Pids : EventOK(i)'
<1> DEFINE e == [NoEvent EXCEPT !.pc = pc, !.ctr = c]
<1>1. TypeOK
  BY DEF IInv
<1>2. CASE Started(c, pc)
  <2>1. pids + 1 \in Pids /\ pids + 1 \in 0 .. MaxPid /\ pids + 1 # 0
    BY <1>1, <1>2, BoundsAssumption DEF TypeOK, Pids, Started
  <2>2. /\ ctr' \in [Containers -> Ctr]
        /\ ctr'[c].st = "running" /\ ctr'[c].pod = ctr[c].pod /\ ctr'[c].pid = pids + 1
        /\ \A d \in Containers : d # c => ctr'[d] = ctr[d]
    BY <1>1, <1>2, <2>1 DEF TypeOK, Ctr, Started
  <2>3. CtrsKept /\ \A p \in Pods : Of(p) \subseteq Of(p)'
    BY <2>2 DEF CtrsKept, Of
  <2>4. e \in Event /\ e.pc = pc /\ e.ctr = c
    BY NoneTypes DEF Event, NoEvent
  <2>5. event' = [event EXCEPT ![pids + 1] = e] /\ pids' = pids + 1
    BY <1>2 DEF Started
  <2> HIDE DEF e
  <2>6. /\ event' \in [Pids -> Event] /\ event'[pids + 1] = e
        /\ \A i \in Pids : i # pids + 1 => event'[i] = event[i]
    BY <1>1, <2>1, <2>4, <2>5 DEF TypeOK
  <2>7. \A i \in Pids : EventOK(i)'
    BY <2>2, <2>3, <2>4, <2>6 DEF IInv, Shape, EventOK, CtrsKept
  <2> QED BY <2>1, <2>2, <2>3, <2>5, <2>6, <2>7
<1>3. CASE StartFailed(c)
  <2>1. /\ ctr' \in [Containers -> Ctr]
        /\ ctr'[c].st = "stopped" /\ ctr'[c].pod = ctr[c].pod
        /\ \A d \in Containers : d # c => ctr'[d] = ctr[d]
    BY <1>1, <1>3 DEF TypeOK, Ctr, StartFailed
  <2>2. CtrsKept /\ \A p \in Pods : Of(p) \subseteq Of(p)'
    BY <2>1 DEF CtrsKept, Of
  <2>3. UNCHANGED <<pids, event>>
    BY <1>3 DEF StartFailed
  <2> QED BY <1>1, <2>1, <2>2, <2>3, StepKeepsEvents DEF TypeOK
<1> QED BY <1>2, <1>3

LEMMA WaitStep ==
    ASSUME IInv, NEW k \in Callers, StartWait(k)
    PROVE  IInv'
<1> DEFINE c == call[k].ctr
<1>1. TypeOK /\ CallOK(k)
  BY DEF IInv, Shape
<1>2. /\ Active(k) /\ call[k].pc = "starting" /\ UNCHANGED <<profile, cni, crashes, mode>>
      /\ \/ Started(c, "pending") /\ Goto(k, "started")
         \/ StartFailed(c) /\ Return(k, "fault")
  BY DEF StartWait, Active
<1>3. /\ c \in Containers /\ c \in Of(call[k].pod) /\ call[k].pod \in Pods
      /\ ctr[c].st # "absent" /\ ctr[c].pod = call[k].pod
      /\ profile[call[k].pod].state # "absent"
  BY <1>1, <1>2 DEF CallOK, Of
<1>4. /\ ctr' \in [Containers -> Ctr] /\ pids' \in 0 .. MaxPid /\ event' \in [Pids -> Event]
      /\ ctr'[c].st \in {"stopped", "running"} /\ ctr'[c].pod = ctr[c].pod
      /\ ctr'[c].st = "running" => ctr'[c].pid # 0
      /\ \A d \in Containers : d # c => ctr'[d] = ctr[d]
      /\ CtrsKept /\ \A p \in Pods : Of(p) \subseteq Of(p)'
      /\ \A i \in Pids : EventOK(i)'
  BY <1>2, <1>3, StartEnds
<1>5. /\ call'[k].pc \in {"idle", "started"} /\ call'[k].op = call[k].op
      /\ call'[k].pod = call[k].pod
      /\ call'[k].pc # "idle" => /\ call'[k].ctr = c /\ call'[k].todo = call[k].todo
                                 /\ call'[k].list = call[k].list
                                 /\ call'[k].running = call[k].running
      /\ Others(k) /\ call' \in [Callers -> Call]
  BY <1>1, <1>2, GotoFacts, ReturnFacts
<1>6. "started" \in Path(call[k].op)
  BY <1>1, <1>2, Paths DEF CallOK
<1>7. CallOK(k)'
  BY <1>1, <1>2, <1>3, <1>4, <1>5, <1>6 DEF CallOK, Active, Creating
<1>8. TypeOK'
  BY <1>1, <1>2, <1>4, <1>5 DEF TypeOK
<1> QED BY <1>2, <1>3, <1>4, <1>5, <1>7, <1>8, CtrStep

-----------------------------------------------------------------------------
(* A call arrives.                                                          *)
LEMMA BeginFacts ==
    ASSUME TypeOK, NEW k \in Callers, NEW op \in PodOps \cup CtrOps, NEW p \in Pods,
           NEW c \in Containers \cup {None}, NEW pc \in {"create", "get", "validate"},
           Begin(k, op, p, c, pc)
    PROVE  /\ ~Active(k) /\ UNCHANGED <<profile, ctr, pids, cni, event, crashes, mode>>
           /\ call'[k].op = op /\ call'[k].pc = pc /\ call'[k].pod = p /\ call'[k].ctr = c
           /\ call'[k].todo = {} /\ call'[k].list = {} /\ call'[k].running = {}
           /\ Others(k) /\ call' \in [Callers -> Call]
<1> DEFINE r == [NoCall EXCEPT !.op = op, !.pc = pc, !.pod = p, !.ctr = c]
<1>1. r \in Call
  BY NoneTypes DEF NoCall, Call
<1>2. /\ r.op = op /\ r.pc = pc /\ r.pod = p /\ r.ctr = c
      /\ r.todo = {} /\ r.list = {} /\ r.running = {}
  BY DEF NoCall
<1>3. Set(k, r)
  BY DEF Begin
<1> HIDE DEF r
<1>4. call'[k] = r /\ Others(k) /\ call' \in [Callers -> Call]
  BY <1>1, <1>3, SetFacts
<1> QED BY <1>2, <1>4 DEF Begin

LEMMA BeginStep ==
    ASSUME IInv, NEW k \in Callers, NEW op \in PodOps \cup CtrOps, NEW p \in Pods,
           NEW c \in Containers \cup {None}, NEW pc \in {"create", "get", "validate"},
           Begin(k, op, p, c, pc), pc \in Path(op),
           profile[p].state = "absent" <=> pc = "create",
           pc = "create" => \A j \in Callers : Active(j) => call[j].pod # p,
           pc = "validate" => /\ c \in Containers /\ ctr[c].st = "absent"
                              /\ \A j \in Callers : Active(j) => call[j].ctr # c,
           pc = "get" /\ op \in CtrOps => c \in Of(p)
    PROVE  IInv'
<1>1. TypeOK
  BY DEF IInv
<1>2. /\ ~Active(k) /\ UNCHANGED <<profile, ctr, pids, cni, event, crashes, mode>>
      /\ call'[k].op = op /\ call'[k].pc = pc /\ call'[k].pod = p /\ call'[k].ctr = c
      /\ call'[k].todo = {} /\ call'[k].list = {} /\ call'[k].running = {}
      /\ Others(k) /\ call' \in [Callers -> Call]
  BY <1>1, BeginFacts
<1>3. TypeOK'
  BY <1>1, <1>2 DEF TypeOK
<1>4. CallOK(k)'
  BY <1>2 DEF CallOK, Active, Creating, Of
<1>5. ASSUME NEW j \in Callers, j # k PROVE CallOK(j)'
  BY <1>2, <1>5 DEF IInv, Shape, Others, CallOK, Active, Creating, Of
<1>6. Apart'
  <2> SUFFICES ASSUME NEW i \in Callers, NEW j \in Callers, i # j, Active(i)', Active(j)'
               PROVE  /\ call'[j].pc = "create" => call'[i].pod # call'[j].pod
                      /\ Creating(i)' /\ Creating(j)' => call'[i].ctr # call'[j].ctr
    BY DEF Apart
  <2>1. /\ i # k => call'[i] = call[i] /\ Active(i) /\ CallOK(i)
        /\ j # k => call'[j] = call[j] /\ Active(j) /\ CallOK(j)
    BY <1>2 DEF Others, Active, IInv, Shape
  <2>2. CASE i = k
    BY <1>2, <2>1, <2>2 DEF CallOK, Creating
  <2>3. CASE j = k
    BY <1>2, <2>1, <2>3 DEF CallOK, Creating
  <2>4. CASE i # k /\ j # k
    BY <2>1, <2>4 DEF IInv, Shape, Apart, Creating
  <2> QED BY <2>2, <2>3, <2>4
<1>7. /\ \A d \in Containers : CtrOK(d)'
      /\ \A i \in Pids : EventOK(i)'
      /\ \A q \in Pods : profile'[q].state = "absent" => profile'[q].data = 0
  BY <1>2 DEF IInv, Shape, CtrOK, EventOK
<1> QED BY <1>3, <1>4, <1>5, <1>6, <1>7 DEF IInv, Shape

LEMMA ArriveStep ==
    ASSUME IInv, NEW k \in Callers, Arrive(k)
    PROVE  IInv'
<1>1. ASSUME NEW p \in Pods, BeginRun(k, p) PROVE IInv'
  BY <1>1, BeginStep DEF BeginRun, PodOps, Path
<1>2. ASSUME NEW p \in Pods, NEW op \in PodOps, BeginPod(k, op, p) PROVE IInv'
  <2>1. op \notin CtrOps /\ "get" \in Path(op)
    BY <1>2 DEF BeginPod, CtrOps, Path
  <2> QED BY <1>2, <2>1, BeginStep DEF BeginPod
<1>3. ASSUME NEW p \in Pods, NEW c \in Containers, BeginCreate(k, p, c) PROVE IInv'
  BY <1>3, BeginStep DEF BeginCreate, CtrOps, Path
<1>4. ASSUME NEW c \in Containers, NEW op \in CtrOps, BeginContainer(k, op, c) PROVE IInv'
  <2>1. /\ ctr[c].pod \in Pods /\ profile[ctr[c].pod].state # "absent"
        /\ c \in Of(ctr[c].pod)
    BY <1>4 DEF BeginContainer, IInv, Shape, CtrOK, Of
  <2>2. "get" \in Path(op)
    BY <1>4 DEF BeginContainer, CtrOps, Path
  <2> QED BY <1>4, <2>1, <2>2, BeginStep DEF BeginContainer
<1> QED BY <1>1, <1>2, <1>3, <1>4 DEF Arrive

-----------------------------------------------------------------------------
(* The event handlers and the environment.                                  *)
LEMMA HandlerKeeps ==
    ASSUME IInv, NEW i \in Pids, UNCHANGED <<ctr, pids, call, crashes, mode>>,
           cni' \in [Pods -> SUBSET Pids], profile' \in [Pods -> Profile],
           \A p \in Pods : /\ profile'[p].state = profile[p].state
                           /\ profile[p].state = "absent" => profile'[p] = profile[p],
           NEW r \in Event, SetEvent(i, r), r.ctr = event[i].ctr, event[i].pc # "none",
           r.pc \in {"adding", "save"} => r.pid # 0
    PROVE  IInv'
<1>1. /\ event' \in [Pids -> Event] /\ event'[i] = r
      /\ \A j \in Pids : j # i => event'[j] = event[j]
  BY DEF IInv, TypeOK, SetEvent
<1>2. TypeOK'
  BY <1>1 DEF IInv, TypeOK
<1>3. \A j \in Pids : EventOK(j)'
  BY <1>1 DEF IInv, Shape, EventOK
<1>4. /\ \A d \in Containers : CtrOK(d)'
      /\ \A k \in Callers : CallOK(k)'
      /\ \A p \in Pods : profile'[p].state = "absent" => profile'[p].data = 0
  BY DEF IInv, Shape, CtrOK, CallOK, Active, Creating, Of
<1>5. Apart'
  BY DEF IInv, Shape, Apart, Active, Creating
<1> QED BY <1>2, <1>3, <1>4, <1>5 DEF IInv, Shape

LEMMA HandleStep ==
    ASSUME IInv, NEW i \in Pids, Handle(i)
    PROVE  IInv'
<1> DEFINE c == event[i].ctr
           Moved(pc) == [event[i] EXCEPT !.pc = pc]
<1>1. TypeOK /\ event[i] \in Event /\ EventOK(i)
  BY DEF IInv, TypeOK, Shape
<1>2. event[i].pc # "none" /\ UNCHANGED <<ctr, pids, call, crashes, mode>>
  BY DEF Handle, EventGetContainer, EventGetSandbox, EventGetState, EventAdd,
         EventAdded, EventSave
<1>3. c \in Containers /\ ctr[c].st # "absent" /\ ctr[c].pod \in Pods
  BY <1>1, <1>2 DEF EventOK, IInv, Shape, CtrOK
<1>4. \A pc \in {"sandbox", "adding", "save", "done"} :
         Moved(pc) \in Event /\ Moved(pc).pc = pc /\ Moved(pc).ctr = c /\ Moved(pc).pid = event[i].pid
  BY <1>1 DEF Event
<1>5. CASE UNCHANGED <<profile, cni>> /\ EventGoto(i, "done")
  <2>1. SetEvent(i, Moved("done"))
    BY <1>5 DEF EventGoto
  <2> HIDE DEF Moved
  <2> QED BY <1>1, <1>2, <1>4, <1>5, <2>1, HandlerKeeps DEF TypeOK
<1>6. CASE UNCHANGED <<profile, cni>> /\ EventGoto(i, "sandbox")
  <2>1. SetEvent(i, Moved("sandbox"))
    BY <1>6 DEF EventGoto
  <2> HIDE DEF Moved
  <2> QED BY <1>1, <1>2, <1>4, <1>6, <2>1, HandlerKeeps DEF TypeOK
<1>7. CASE EventGetContainer(i)
  BY <1>5, <1>6, <1>7 DEF EventGetContainer
<1>8. CASE EventGetSandbox(i)
  <2> DEFINE r == [event[i] EXCEPT !.etag = profile[ctr[c].pod], !.pc = "state"]
  <2>1. r \in Event /\ r.pc = "state" /\ r.ctr = c
    BY <1>1, <1>3 DEF Event, TypeOK
  <2>2. UNCHANGED <<profile, cni>> /\ (EventGoto(i, "done") \/ SetEvent(i, r))
    BY <1>8 DEF EventGetSandbox
  <2> HIDE DEF r
  <2> QED BY <1>1, <1>2, <1>5, <2>1, <2>2, HandlerKeeps DEF TypeOK
<1>9. CASE EventGetState(i)
  <2> DEFINE r == [event[i] EXCEPT !.pc = "add",
                     !.pid = IF ctr[c].st = "running" THEN ctr[c].pid ELSE 0]
  <2>1. ctr[c].pid \in 0 .. MaxPid /\ 0 \in 0 .. MaxPid
    BY <1>1, <1>3, BoundsAssumption DEF TypeOK, Ctr
  <2>2. r \in Event /\ r.pc = "add" /\ r.ctr = c
    BY <1>1, <2>1 DEF Event
  <2>3. UNCHANGED <<profile, cni>> /\ (EventGoto(i, "done") \/ SetEvent(i, r))
    BY <1>9 DEF EventGetState
  <2> HIDE DEF r
  <2> QED BY <1>1, <1>2, <1>5, <2>2, <2>3, HandlerKeeps DEF TypeOK
<1>10. CASE EventAdd(i) \/ EventAdded(i)
  <2>1. UNCHANGED profile
    BY <1>10 DEF EventAdd, EventAdded
  <2>2. CASE UNCHANGED cni /\ EventGoto(i, "done")
    BY <1>5, <2>1, <2>2
  <2>3. CASE event[i].pid # 0 /\ (Attach(i) \/ (UNCHANGED cni /\ EventGoto(i, "adding")))
    <3>1. event[i].pid \in Pids
      BY <1>1, <2>3, BoundsAssumption DEF Event, Pids
    <3>2. cni' \in [Pods -> SUBSET Pids]
      BY <1>1, <2>3, <3>1 DEF TypeOK, Attach
    <3>3. SetEvent(i, Moved("save")) \/ SetEvent(i, Moved("adding"))
      BY <2>3 DEF Attach, EventGoto
    <3> HIDE DEF Moved
    <3> QED BY <1>1, <1>2, <1>4, <2>1, <2>3, <3>2, <3>3, HandlerKeeps DEF TypeOK
  <2>4. Alive(i) => event[i].pid # 0
    BY <1>1, <1>3 DEF Alive, IInv, Shape, CtrOK
  <2>5. event[i].pc = "adding" => event[i].pid # 0
    BY <1>1 DEF EventOK
  <2>6. CASE EventAdd(i)
    BY <2>2, <2>3, <2>4, <2>6 DEF EventAdd
  <2>7. CASE EventAdded(i)
    BY <2>2, <2>3, <2>5, <2>7 DEF EventAdded
  <2> QED BY <1>10, <2>6, <2>7
<1>11. CASE EventSave(i)
  <2> DEFINE p == ctr[c].pod
             v == [event[i].etag EXCEPT !.data = event[i].pid]
  <2>1. SetEvent(i, Moved("done")) /\ UNCHANGED cni
    BY <1>11 DEF EventSave, EventGoto
  <2>2. v \in Profile /\ v.state = event[i].etag.state
    BY <1>1 DEF Event, Profile
  <2>3. \/ Exists(p) /\ event[i].etag = profile[p] /\ profile' = [profile EXCEPT ![p] = v]
        \/ UNCHANGED profile
    BY <1>11 DEF EventSave
  <2> HIDE DEF v, Moved
  <2>4. /\ profile' \in [Pods -> Profile]
        /\ \A q \in Pods : /\ profile'[q].state = profile[q].state
                           /\ profile[q].state = "absent" => profile'[q] = profile[q]
    BY <1>1, <1>3, <2>2, <2>3 DEF TypeOK, Exists
  <2> QED BY <1>1, <1>2, <1>4, <2>1, <2>4, HandlerKeeps DEF TypeOK
<1> QED BY <1>7, <1>8, <1>9, <1>10, <1>11 DEF Handle

\* LXD changes the status of a container by itself.
LEMMA StatusStep ==
    ASSUME IInv, TypeOK', UNCHANGED <<profile, cni, call, crashes, mode>>,
           NEW c \in Containers, \A d \in Containers : d # c => ctr'[d] = ctr[d],
           ctr[c].st # "absent", ctr'[c].st # "absent", ctr'[c].pod = ctr[c].pod,
           ctr'[c].st = "running" => ctr'[c].pid # 0,
           \A i \in Pids : EventOK(i)'
    PROVE  IInv'
<1>1. \A p \in Pods : Of(p) = Of(p)'
  BY DEF Of
<1>2. \A k \in Callers : CallOK(k)'
  <2> SUFFICES ASSUME NEW k \in Callers, Active(k) PROVE CallOK(k)'
    BY DEF CallOK, Active
  <2>1. CallOK(k)
    BY DEF IInv, Shape
  <2>2. Creating(k) => ctr'[call[k].ctr].st = "absent"
    BY <2>1 DEF CallOK
  <2> QED BY <1>1, <2>1, <2>2 DEF CallOK, Active, Creating
<1>3. /\ \A d \in Containers : CtrOK(d)'
      /\ \A p \in Pods : profile'[p].state = "absent" => profile'[p].data = 0
  BY DEF IInv, Shape, CtrOK
<1>4. Apart'
  BY DEF IInv, Shape, Apart, Active, Creating
<1> QED BY <1>2, <1>3, <1>4 DEF IInv, Shape

LEMMA ExitStep ==
    ASSUME IInv, NEW c \in Containers, ContainerExits(c) \/ StartGoesOn(c)
    PROVE  IInv'
<1>1. ctr[c].st # "absent" /\ UNCHANGED <<profile, cni, call, crashes, mode>>
  BY DEF ContainerExits, StartGoesOn
<1>2. CASE ContainerExits(c)
  <2>1. /\ ctr' \in [Containers -> Ctr]
        /\ ctr'[c].st = "stopped" /\ ctr'[c].pod = ctr[c].pod
        /\ \A d \in Containers : d # c => ctr'[d] = ctr[d]
    BY <1>2 DEF IInv, TypeOK, Ctr, ContainerExits
  <2>2. UNCHANGED <<pids, event>> /\ CtrsKept
    BY <1>2, <2>1 DEF ContainerExits, CtrsKept
  <2>3. TypeOK'
    BY <1>1, <2>1, <2>2 DEF IInv, TypeOK
  <2>4. \A i \in Pids : EventOK(i)'
    BY <2>2, StepKeepsEvents
  <2> QED BY <1>1, <2>1, <2>3, <2>4, StatusStep
<1>3. CASE StartGoesOn(c)
  <2>1. Started(c, "pending") \/ Started(c, "done") \/ StartFailed(c)
    BY <1>3 DEF StartGoesOn
  <2>2. /\ ctr' \in [Containers -> Ctr] /\ pids' \in 0 .. MaxPid /\ event' \in [Pids -> Event]
        /\ ctr'[c].st \in {"stopped", "running"} /\ ctr'[c].pod = ctr[c].pod
        /\ ctr'[c].st = "running" => ctr'[c].pid # 0
        /\ \A d \in Containers : d # c => ctr'[d] = ctr[d]
        /\ \A i \in Pids : EventOK(i)'
    BY <1>1, <2>1, StartEnds
  <2>3. TypeOK'
    BY <1>1, <2>2 DEF IInv, TypeOK
  <2> QED BY <1>1, <2>2, <2>3, StatusStep
<1> QED BY <1>2, <1>3

LEMMA CrashStep == ASSUME IInv, Crash PROVE IInv'
<1>1. /\ UNCHANGED <<profile, ctr, pids, cni, mode>>
      /\ crashes < MaxCrashes /\ crashes' = crashes + 1
      /\ call' = [k \in Callers |-> NoCall]
  BY DEF Crash
<1>2. \A i \in Pids : event'[i] = IF event[i].pc = "none" THEN NoEvent
                                  ELSE [event[i] EXCEPT !.pc = "done"]
  BY DEF Crash
<1>3. \A i \in Pids : /\ event'[i] \in Event /\ event'[i].pc \notin {"adding", "save"}
                      /\ event'[i].pc # "none" => /\ event[i].pc # "none"
                                                  /\ event'[i].ctr = event[i].ctr
  <2> SUFFICES ASSUME NEW i \in Pids
               PROVE  /\ event'[i] \in Event /\ event'[i].pc \notin {"adding", "save"}
                      /\ event'[i].pc # "none" => /\ event[i].pc # "none"
                                                  /\ event'[i].ctr = event[i].ctr
    OBVIOUS
  <2>1. event[i] \in Event
    BY DEF IInv, TypeOK
  <2>2. CASE event[i].pc = "none"
    <3>1. event'[i] = NoEvent
      BY <1>2, <2>2
    <3>2. NoEvent.pc = "none"
      BY DEF NoEvent
    <3> QED BY <3>1, <3>2, NoneTypes
  <2>3. CASE event[i].pc # "none"
    BY <1>2, <2>1, <2>3 DEF Event
  <2> QED BY <2>2, <2>3
<1>4. event' \in [Pids -> Event]
  BY <1>3 DEF Crash
<1>5. \A k \in Callers : call'[k].pc = "idle"
  BY <1>1 DEF NoCall
<1>6. TypeOK'
  BY <1>1, <1>4, NoneTypes, BoundsAssumption DEF IInv, TypeOK
<1>7. /\ \A i \in Pids : EventOK(i)'
      /\ \A c \in Containers : CtrOK(c)'
      /\ \A p \in Pods : profile'[p].state = "absent" => profile'[p].data = 0
  BY <1>1, <1>3 DEF IInv, Shape, EventOK, CtrOK
<1>8. (\A k \in Callers : CallOK(k)') /\ Apart'
  BY <1>5 DEF CallOK, Apart, Active
<1> QED BY <1>6, <1>7, <1>8 DEF IInv, Shape

-----------------------------------------------------------------------------
LEMMA IInvInit == Init => IInv
<1> SUFFICES ASSUME Init PROVE IInv
  OBVIOUS
<1>1. /\ \A p \in Pods : profile[p].state = "absent" /\ profile[p].data = 0
      /\ \A c \in Containers : ctr[c].st = "absent"
      /\ \A k \in Callers : call[k].pc = "idle"
      /\ \A i \in Pids : event[i].pc = "none"
  BY DEF Init, NoProfile, NoCall, NoEvent
<1>2. TypeOK
  BY NoneTypes, BoundsAssumption DEF Init, TypeOK, Ctr
<1> QED BY <1>1, <1>2 DEF IInv, Shape, CtrOK, CallOK, Active, Apart, EventOK

LEMMA IInvStutter == ASSUME IInv, UNCHANGED vars PROVE IInv'
<1> USE DEF vars
<1>1. TypeOK'
  BY DEF IInv, TypeOK
<1>2. /\ \A c \in Containers : CtrOK(c)'
      /\ \A i \in Pids : EventOK(i)'
      /\ \A p \in Pods : profile'[p].state = "absent" => profile'[p].data = 0
  BY DEF IInv, Shape, CtrOK, EventOK
<1>3. \A k \in Callers : CallOK(k)'
  BY DEF IInv, Shape, CallOK, Active, Creating, Of
<1>4. Apart'
  BY DEF IInv, Shape, Apart, Active, Creating
<1> QED BY <1>1, <1>2, <1>3, <1>4 DEF IInv, Shape

LEMMA IInvNext == IInv /\ [Next]_vars => IInv'
<1> SUFFICES ASSUME IInv, [Next]_vars PROVE IInv'
  OBVIOUS
<1>1. ASSUME NEW k \in Callers, Step(k) PROVE IInv'
  BY <1>1, RunReads, GetReads, MovesOn, ProfileSteps, StopOrDelete, CreateStep, StartStep,
     WaitStep, FaultStep DEF Step
<1>2. ASSUME NEW k \in Callers, Arrive(k) PROVE IInv'
  BY <1>2, ArriveStep
<1>3. ASSUME NEW i \in Pids, Handle(i) PROVE IInv'
  BY <1>3, HandleStep
<1>4. ASSUME NEW c \in Containers, ContainerExits(c) \/ StartGoesOn(c) PROVE IInv'
  BY <1>4, ExitStep
<1> QED BY <1>1, <1>2, <1>3, <1>4, CrashStep, IInvStutter DEF Next

\* Every reachable state is well formed and satisfies the invariant above,
\* for any number of pods, containers, overlapping calls and crashes.
THEOREM TypeCorrect == Spec => []TypeOK
<1>1. Spec => []IInv
  BY IInvInit, IInvNext, PTL DEF Spec
<1>2. IInv => TypeOK
  BY DEF IInv
<1> QED BY <1>1, <1>2, PTL

-----------------------------------------------------------------------------
(* What a single step may do to the profile of a pod: an event handler or a *)
(* stop that read an older sandbox never gets past the ETag check.          *)
LEMMA ProfileChanges ==
    ASSUME IInv, [Next]_vars, NEW p \in Pods
    PROVE  \/ profile'[p] = profile[p]
           \/ profile[p].state = "absent" /\ profile'[p].state = "ready"
           \/ mode = "bridged" /\ profile'[p].state = "ready" /\ profile'[p].data = 1
           \/ profile'[p].state = "notready" /\ profile'[p].data = profile[p].data
           \/ profile'[p].state = "deleted" /\ profile'[p].data = profile[p].data
           \/ profile'[p].state = profile[p].state /\ profile'[p].data # 0
<1> DEFINE Goal == \/ profile'[p] = profile[p]
                   \/ profile[p].state = "absent" /\ profile'[p].state = "ready"
                   \/ mode = "bridged" /\ profile'[p].state = "ready" /\ profile'[p].data = 1
                   \/ profile'[p].state = "notready" /\ profile'[p].data = profile[p].data
                   \/ profile'[p].state = "deleted" /\ profile'[p].data = profile[p].data
                   \/ profile'[p].state = profile[p].state /\ profile'[p].data # 0
<1> SUFFICES Goal
  OBVIOUS
<1>1. TypeOK /\ profile[p] \in Profile
  BY DEF IInv, TypeOK
<1>2. CASE UNCHANGED profile
  BY <1>2
<1>3. ASSUME NEW k \in Callers, Active(k),
             RunCreate(k) \/ RunSave(k) \/ SandboxStop(k) \/ SandboxDelete(k)
      PROVE  Goal
  <2>1. CallOK(k) /\ call[k].pod \in Pods
    BY <1>3 DEF IInv, Shape, CallOK
  <2>2. CASE RunCreate(k)
    BY <1>1, <1>3, <2>1, <2>2 DEF RunCreate, CallOK, TypeOK, NewProfile
  <2>3. CASE RunSave(k)
    BY <1>1, <1>3, <2>1, <2>3 DEF RunSave, CallOK, TypeOK
  <2>4. CASE SandboxStop(k)
    <3>1. /\ Stopped(call[k].etag).state = "notready"
          /\ Stopped(call[k].etag).data = call[k].etag.data
      BY <1>1 DEF Stopped, TypeOK, Call, Profile
    <3> QED BY <1>1, <1>3, <2>1, <2>4, <3>1 DEF SandboxStop, TypeOK
  <2>5. CASE SandboxDelete(k)
    BY <1>1, <1>3, <2>1, <2>5 DEF SandboxDelete, TypeOK, Profile
  <2> QED BY <1>3, <2>2, <2>3, <2>4, <2>5
<1>4. ASSUME NEW i \in Pids, EventSave(i) PROVE Goal
  <2>1. event[i].pid # 0 /\ event[i].etag \in Profile
    BY <1>1, <1>4 DEF EventSave, IInv, Shape, EventOK, TypeOK, Event
  <2>2. ctr[event[i].ctr].pod \in Pods
    BY <1>4 DEF EventSave, IInv, Shape, EventOK, CtrOK
  <2> QED BY <1>1, <1>4, <2>1, <2>2 DEF EventSave, TypeOK, Profile
<1>5. ASSUME NEW k \in Callers, Arrive(k) PROVE UNCHANGED profile
  BY <1>5 DEF Arrive, BeginRun, BeginPod, BeginCreate, BeginContainer, Begin
<1>6. ASSUME NEW k \in Callers, Step(k)
      PROVE  \/ UNCHANGED profile
             \/ Active(k) /\ (RunCreate(k) \/ RunSave(k) \/ SandboxStop(k) \/ SandboxDelete(k))
  BY <1>6 DEF Step, RunCreate, RunRefresh, RunNetwork, RunSave, RunSaved, GetSandbox,
     ListContainers, GetContainer, StopContainer, StopRecord, StopDone, SandboxStop,
     DeleteContainer, DeleteSandboxLookup, Detach, DeleteDone, SandboxDelete,
     CreateValidate, CreateContainer, CreateNetwork, StartContainer, StartWait, StartRecord,
     RequestFails, Active
<1>7. ASSUME NEW i \in Pids, Handle(i) PROVE UNCHANGED profile \/ EventSave(i)
  BY <1>7 DEF Handle, EventGetContainer, EventGetSandbox, EventGetState, EventAdd, EventAdded
<1>8. ASSUME (\E c \in Containers : ContainerExits(c) \/ StartGoesOn(c)) \/ Crash \/ UNCHANGED vars
      PROVE  UNCHANGED profile
  BY <1>8 DEF ContainerExits, StartGoesOn, Crash, vars
<1> HIDE DEF Goal
<1> QED BY <1>2, <1>3, <1>4, <1>5, <1>6, <1>7, <1>8 DEF Next

\* With the CNI plugin, or on the host's network, a sandbox that was stopped
\* never becomes ready again, however many calls and handlers overlap.
THEOREM NotReadyIsFinal == Spec => NotReadyFinal
<1>1. IInv /\ [Next]_vars =>
        [\A p \in Pods : (mode # "bridged" /\ profile[p].state = "notready") =>
            profile'[p].state \in {"notready", "deleted"}]_vars
  <2> SUFFICES ASSUME IInv, [Next]_vars, NEW p \in Pods, mode # "bridged",
                      profile[p].state = "notready"
               PROVE  profile'[p].state \in {"notready", "deleted"}
    OBVIOUS
  <2> QED BY ProfileChanges
<1> QED BY <1>1, IInvInit, IInvNext, PTL DEF Spec, NotReadyFinal

\* Whichever plugin is used, and however calls and handlers overlap, a network
\* result (ModeData) that was saved in a sandbox is never dropped.
THEOREM ResultIsKept == Spec => ResultKept
<1>1. IInv /\ [Next]_vars =>
        [\A p \in Pods : profile[p].data # 0 => profile'[p].data # 0]_vars
  <2> SUFFICES ASSUME IInv, [Next]_vars, NEW p \in Pods, profile[p].data # 0
               PROVE  profile'[p].data # 0
    OBVIOUS
  <2>1. profile[p].state # "absent"
    BY DEF IInv, Shape
  <2> QED BY <2>1, ProfileChanges
<1> QED BY <1>1, IInvInit, IInvNext, PTL DEF Spec, ResultKept

=============================================================================
