------------------------ MODULE ContainerRecordProofs ------------------------
(* Proofs about ContainerRecord, for every set of callers and all bounds.   *)
EXTENDS ContainerRecord, TLAPS

\* The typing of the ways a step changes one goroutine's call.
LEMMA ConfigType == /\ NewConfig \in Config /\ NoConfig \in Config
                    /\ NoCall \in Call
  BY DEF NewConfig, NoConfig, Config, NoCall, Call

LEMMA SetType ==
    ASSUME TypeOK, NEW k \in Callers, NEW r \in Call, Set(k, r)
    PROVE  call' \in [Callers -> Call]
  BY DEF TypeOK, Set

LEMMA GotoType ==
    ASSUME TypeOK, NEW k \in Callers,
           NEW pc \in {"idle", "get", "start", "starting", "stop", "force", "refresh",
                       "lookup", "create", "update", "saved", "delete"},
           Goto(k, pc)
    PROVE  call' \in [Callers -> Call]
<1>1. [call[k] EXCEPT !.pc = pc] \in Call
  BY DEF TypeOK, Call
<1> QED BY <1>1, SetType DEF Goto

LEMMA ReturnType ==
    ASSUME TypeOK, NEW k \in Callers, NEW res \in {"ok", "err"}, Return(k, res)
    PROVE  call' \in [Callers -> Call]
<1>1. [NoCall EXCEPT !.op = call[k].op, !.res = res] \in Call
  BY ConfigType DEF TypeOK, Call, NoCall
<1> QED BY <1>1, SetType DEF Return

LEMMA NotFoundType ==
    ASSUME TypeOK, NEW k \in Callers, ReturnNotFound(k)
    PROVE  call' \in [Callers -> Call]
  BY ReturnType DEF ReturnNotFound

LEMMA TypeInit == Init => TypeOK
<1> SUFFICES ASSUME Init PROVE TypeOK
  OBVIOUS
<1>1. 0 \in 0 .. MaxRuns /\ 0 \in 0 .. MaxFaults
  BY BoundsAssumption
<1>2. call \in [Callers -> Call]
  BY ConfigType DEF Init
<1> QED BY <1>1, <1>2, ConfigType DEF Init, TypeOK, Status

LEMMA TypeNext == TypeOK /\ [Next]_vars => TypeOK'
<1> SUFFICES ASSUME TypeOK, [Next]_vars PROVE TypeOK'
  OBVIOUS
<1> USE BoundsAssumption
<1>1. ASSUME NEW k \in Callers, NEW op \in Ops, Begin(k, op) PROVE TypeOK'
  <2> DEFINE new == [NoCall EXCEPT !.op = op, !.run = runs,
                       !.pc = IF op = "CreateContainer" THEN "lookup" ELSE "get"]
  <2>1. runs \in Nat
    BY DEF TypeOK
  <2>2. new \in Call
    BY <2>1, ConfigType DEF Call, NoCall
  <2>3. Set(k, new)
    BY <1>1 DEF Begin
  <2> HIDE DEF new
  <2> QED BY <1>1, <2>2, <2>3, SetType DEF Begin, TypeOK
<1>2. ASSUME NEW k \in Callers, GetContainer(k), UNCHANGED overlapped PROVE TypeOK'
  <2> DEFINE new == [call[k] EXCEPT !.c = config, !.etag = config,
                                    !.pc = FirstRequest(call[k].op)]
  <2>1. new \in Call
    BY DEF TypeOK, Call, FirstRequest
  <2>2. Return(k, "ok") \/ Return(k, "err") \/ Set(k, new)
    BY <1>2 DEF GetContainer
  <2> HIDE DEF new
  <2> QED BY <1>2, <2>1, <2>2, ReturnType, SetType DEF GetContainer, TypeOK
<1>3. ASSUME NEW k \in Callers, StartContainer(k), UNCHANGED overlapped PROVE TypeOK'
  BY <1>3, GotoType, ReturnType DEF StartContainer, TypeOK, Status
<1>4. ASSUME NEW k \in Callers, StartWait(k), UNCHANGED overlapped PROVE TypeOK'
  BY <1>4, GotoType, ReturnType DEF StartWait, TypeOK, Status, Config
<1>5. ASSUME NEW k \in Callers, StopContainer(k), UNCHANGED overlapped PROVE TypeOK'
  BY <1>5, GotoType, ReturnType DEF StopContainer, TypeOK, Status, Config
<1>6. ASSUME NEW k \in Callers, Refresh(k), UNCHANGED overlapped PROVE TypeOK'
  <2> DEFINE new == [call[k] EXCEPT !.etag = config, !.pc = "lookup",
                                    !.c = Stamped(call[k].op, call[k].c)]
  <2>1. runs \in Nat /\ call[k].c \in Config
    BY DEF TypeOK, Call
  <2>2. Stamped(call[k].op, call[k].c) \in Config
    BY <2>1 DEF Stamped, Config
  <2>3. new \in Call
    BY <2>2 DEF TypeOK, Call
  <2>4. ReturnNotFound(k) \/ Set(k, new)
    BY <1>6 DEF Refresh
  <2> HIDE DEF new
  <2> QED BY <1>6, <2>3, <2>4, NotFoundType, SetType DEF Refresh, TypeOK
<1>7. ASSUME NEW k \in Callers, Lookup(k), UNCHANGED overlapped PROVE TypeOK'
  BY <1>7, GotoType, NotFoundType DEF Lookup, TypeOK
<1>8. ASSUME NEW k \in Callers, CreateContainer(k), UNCHANGED overlapped PROVE TypeOK'
  BY <1>8, GotoType, ReturnType, ConfigType DEF CreateContainer, TypeOK, Status
<1>9. ASSUME NEW k \in Callers, UpdateContainer(k), UNCHANGED overlapped PROVE TypeOK'
  <2>1. call[k].c \in Config
    BY DEF TypeOK, Call
  <2> QED BY <1>9, <2>1, GotoType, ReturnType, NotFoundType DEF UpdateContainer, TypeOK
<1>10. ASSUME NEW k \in Callers, Saved(k), UNCHANGED overlapped PROVE TypeOK'
  BY <1>10, ReturnType, NotFoundType DEF Saved, TypeOK
<1>11. ASSUME NEW k \in Callers, DeleteContainer(k), UNCHANGED overlapped PROVE TypeOK'
  BY <1>11, ReturnType DEF DeleteContainer, TypeOK, Status
<1>12. CASE ContainerExits
  BY <1>12 DEF ContainerExits, TypeOK, Status, Config
<1>13. CASE ImageChanges
  BY <1>13 DEF ImageChanges, TypeOK
<1>14. CASE Crash
  BY <1>14, ConfigType DEF Crash, TypeOK, Status, Config
<1>15. CASE UNCHANGED vars
  BY <1>15 DEF vars, TypeOK
<1> QED
  BY <1>1, <1>2, <1>3, <1>4, <1>5, <1>6, <1>7, <1>8, <1>9, <1>10, <1>11,
     <1>12, <1>13, <1>14, <1>15 DEF Next, Step, Request

\* Every reachable state of the container, of its LXD configuration and of
\* the calls in progress is well formed, for all bounds and any overlap.
THEOREM TypeCorrect == Spec => []TypeOK
  BY TypeInit, TypeNext, PTL DEF Spec

-----------------------------------------------------------------------------
(* What a step does to the call of its goroutine, and to the others.        *)
Others(k) == \A j \in Callers \ {k} : call'[j] = call[j]

LEMMA SetFacts ==
    ASSUME TypeOK, NEW k \in Callers, NEW r, Set(k, r)
    PROVE  call'[k] = r /\ Others(k)
  BY DEF TypeOK, Set, Others

LEMMA GotoFacts ==
    ASSUME TypeOK, NEW k \in Callers, NEW pc, Goto(k, pc)
    PROVE  /\ call'[k].pc = pc /\ call'[k].op = call[k].op /\ call'[k].c = call[k].c
           /\ call'[k].etag = call[k].etag /\ call'[k].run = call[k].run
           /\ Others(k)
<1>1. call[k] \in Call
  BY DEF TypeOK
<1>2. call'[k] = [call[k] EXCEPT !.pc = pc] /\ Others(k)
  BY SetFacts DEF Goto
<1> QED BY <1>1, <1>2 DEF Call

LEMMA ReturnFacts ==
    ASSUME TypeOK, NEW k \in Callers, NEW res, Return(k, res)
    PROVE  /\ call'[k].pc = "idle" /\ call'[k].op = call[k].op
           /\ call'[k].res = res /\ call'[k].run = 0
           /\ Others(k)
<1>1. call'[k] = [NoCall EXCEPT !.op = call[k].op, !.res = res] /\ Others(k)
  BY SetFacts DEF Return
<1> QED BY <1>1 DEF NoCall

LEMMA NotFoundFacts ==
    ASSUME TypeOK, NEW k \in Callers, ReturnNotFound(k)
    PROVE  /\ call'[k].pc = "idle" /\ call'[k].op = call[k].op /\ call'[k].run = 0
           /\ call'[k].res = (IF call[k].op = "StopContainer" THEN "ok" ELSE "err")
           /\ Others(k)
  BY ReturnFacts DEF ReturnNotFound

LEMMA BeginFacts ==
    ASSUME TypeOK, NEW k \in Callers, NEW op \in Ops, Begin(k, op)
    PROVE  /\ call'[k].op = op /\ call'[k].run = runs
           /\ call'[k].pc = IF op = "CreateContainer" THEN "lookup" ELSE "get"
           /\ Others(k)
<1>1. /\ call'[k] = [NoCall EXCEPT !.op = op, !.run = runs,
                      !.pc = IF op = "CreateContainer" THEN "lookup" ELSE "get"]
      /\ Others(k)
  BY SetFacts DEF Begin
<1> QED BY <1>1 DEF NoCall

LEMMA GetFacts ==
    ASSUME TypeOK, NEW k \in Callers, GetContainer(k)
    PROVE  /\ Others(k) /\ call'[k].op = call[k].op
           /\ \/ /\ call'[k].pc = "idle" /\ call'[k].run = 0
                 /\ call[k].op = "StopContainer" => status # "Running"
                 /\ call[k].op = "StartContainer" => call'[k].res = "err"
              \/ /\ call'[k].pc = FirstRequest(call[k].op)
                 /\ call'[k].run = call[k].run /\ call'[k].c = config
<1>1. CASE Set(k, [call[k] EXCEPT !.c = config, !.etag = config,
                                  !.pc = FirstRequest(call[k].op)])
  <2>1. call[k] \in Call
    BY DEF TypeOK
  <2>2. /\ call'[k] = [call[k] EXCEPT !.c = config, !.etag = config,
                                     !.pc = FirstRequest(call[k].op)]
        /\ Others(k)
    BY <1>1, SetFacts
  <2> QED BY <2>1, <2>2 DEF Call
<1>2. CASE Gone /\ Return(k, IF call[k].op = "StartContainer" THEN "err" ELSE "ok")
  BY <1>2, ReturnFacts DEF Gone
<1>3. CASE /\ call[k].op = "StopContainer" /\ StateName # "running"
           /\ Return(k, "ok")
  BY <1>3, ReturnFacts DEF StateName
<1> QED BY <1>1, <1>2, <1>3 DEF GetContainer

LEMMA RefreshFacts ==
    ASSUME TypeOK, NEW k \in Callers, Refresh(k)
    PROVE  \/ Gone /\ ReturnNotFound(k)
           \/ /\ Others(k) /\ call'[k].op = call[k].op /\ call'[k].pc = "lookup"
              /\ call'[k].run = call[k].run
              /\ call'[k].c = Stamped(call[k].op, call[k].c)
<1>1. CASE Gone /\ ReturnNotFound(k)
  BY <1>1
<1>2. CASE Set(k, [call[k] EXCEPT !.etag = config, !.pc = "lookup",
                                  !.c = Stamped(call[k].op, call[k].c)])
  <2>1. call[k] \in Call
    BY DEF TypeOK
  <2>2. /\ call'[k] = [call[k] EXCEPT !.etag = config, !.pc = "lookup",
                                     !.c = Stamped(call[k].op, call[k].c)]
        /\ Others(k)
    BY <1>2, SetFacts
  <2> QED BY <2>1, <2>2 DEF Call
<1> QED BY <1>1, <1>2 DEF Refresh

-----------------------------------------------------------------------------
(* StopEndsRun.  A StopContainer call that has passed its stop request      *)
(* leaves no run that is as old as the call; a later StartWait only makes   *)
(* newer ones.                                                              *)
PastStop(k) == /\ call[k].op = "StopContainer"
               /\ call[k].pc \in {"refresh", "lookup", "update", "saved"}

StopInv == \A k \in Callers :
              /\ call[k].run <= runs
              /\ PastStop(k) /\ status = "Running" => runs > call[k].run

StopAct == \A k \in Callers : Returns(k, "StopContainer", "ok") =>
              (status' = "Running" => runs' > call[k].run)

LEMMA StopStep == TypeOK /\ StopInv /\ [Next]_vars => StopInv' /\ StopAct
<1> SUFFICES ASSUME TypeOK, StopInv, [Next]_vars PROVE StopInv' /\ StopAct
  OBVIOUS
<1>0. /\ runs \in Nat
      /\ \A k \in Callers : call[k].run \in Nat
  BY BoundsAssumption DEF TypeOK, Call
<1> USE <1>0 DEF StopInv, StopAct, PastStop, Returns, Active, Gone, Others
<1>1. ASSUME NEW k \in Callers, NEW op \in Ops, Begin(k, op) PROVE StopInv' /\ StopAct
  <2>1. UNCHANGED <<status, runs>>
    BY <1>1 DEF Begin
  <2> QED BY <1>1, <2>1, BeginFacts
<1>2. ASSUME NEW k \in Callers, GetContainer(k) PROVE StopInv' /\ StopAct
  <2>1. UNCHANGED <<status, runs>> /\ call[k].pc = "get"
    BY <1>2 DEF GetContainer
  <2> QED BY <1>2, <2>1, GetFacts DEF FirstRequest
<1>3. ASSUME NEW k \in Callers, StartContainer(k) PROVE StopInv' /\ StopAct
  BY <1>3, GotoFacts, ReturnFacts DEF StartContainer
<1>4. ASSUME NEW k \in Callers, StartWait(k) PROVE StopInv' /\ StopAct
  BY <1>4, GotoFacts, ReturnFacts DEF StartWait
<1>5. ASSUME NEW k \in Callers, StopContainer(k) PROVE StopInv' /\ StopAct
  BY <1>5, GotoFacts, ReturnFacts DEF StopContainer
<1>6. ASSUME NEW k \in Callers, Refresh(k) PROVE StopInv' /\ StopAct
  <2>1. UNCHANGED <<status, runs>> /\ call[k].pc = "refresh"
    BY <1>6 DEF Refresh
  <2> QED BY <1>6, <2>1, RefreshFacts, NotFoundFacts
<1>7. ASSUME NEW k \in Callers, Lookup(k) PROVE StopInv' /\ StopAct
  BY <1>7, GotoFacts, NotFoundFacts DEF Lookup
<1>8. ASSUME NEW k \in Callers, CreateContainer(k) PROVE StopInv' /\ StopAct
  BY <1>8, GotoFacts, ReturnFacts DEF CreateContainer
<1>9. ASSUME NEW k \in Callers, UpdateContainer(k) PROVE StopInv' /\ StopAct
  BY <1>9, GotoFacts, ReturnFacts, NotFoundFacts DEF UpdateContainer
<1>10. ASSUME NEW k \in Callers, Saved(k) PROVE StopInv' /\ StopAct
  BY <1>10, ReturnFacts, NotFoundFacts DEF Saved
<1>11. ASSUME NEW k \in Callers, DeleteContainer(k) PROVE StopInv' /\ StopAct
  BY <1>11, ReturnFacts DEF DeleteContainer
<1>12. CASE ContainerExits
  BY <1>12 DEF ContainerExits
<1>13. CASE ImageChanges
  BY <1>13 DEF ImageChanges
<1>14. CASE Crash
  BY <1>14 DEF Crash, NoCall
<1>15. CASE UNCHANGED vars
  BY <1>15 DEF vars
<1> QED
  BY <1>1, <1>2, <1>3, <1>4, <1>5, <1>6, <1>7, <1>8, <1>9, <1>10, <1>11,
     <1>12, <1>13, <1>14, <1>15 DEF Next, Step, Request

\* However calls overlap, and whatever faults, exits and image removals
\* happen, a StopContainer that reports success has ended the run that was on
\* when it arrived.
THEOREM StopEndsRunHolds == Spec => StopEndsRun
<1>1. Init => StopInv
  <2>1. NoCall.run = 0 /\ NoCall.pc = "idle"
    BY DEF NoCall
  <2>2. ASSUME Init, NEW k \in Callers
        PROVE  call[k].run <= runs /\ ~PastStop(k)
    <3>1. call[k] = NoCall /\ runs = 0
      BY <2>2 DEF Init
    <3> QED BY <2>1, <3>1 DEF PastStop
  <2> QED BY <2>2 DEF StopInv
<1>2. TypeOK /\ StopInv /\ [Next]_vars => [StopAct]_vars
  BY StopStep
<1> QED
  BY <1>1, <1>2, StopStep, TypeCorrect, PTL DEF Spec, StopEndsRun, StopAct

-----------------------------------------------------------------------------
(* Calls that do not overlap.  SerialInv is what makes one call's snapshot  *)
(* as good as a lock: only one call is active, so what it read still holds  *)
(* when it saves, up to what LXD itself changes.                            *)
OneActive == \A j, k \in Callers : Active(j) /\ Active(k) => j = k

CreatePcs == \A k \in Callers : call[k].op = "CreateContainer" =>
                /\ call[k].pc \in {"idle", "lookup", "create", "saved"}
                /\ call[k].pc \in {"lookup", "create"} => status = "absent"

StartPcs == \A k \in Callers : call[k].op = "StartContainer" =>
                call[k].pc \in {"idle", "get", "start", "starting", "refresh",
                                "lookup", "update", "saved"}

OtherPcs == \A k \in Callers : call[k].pc = "create" => call[k].op = "CreateContainer"

SnapshotMark == \A k \in Callers :
    /\ call[k].op # "CreateContainer"
    /\ call[k].pc \in {"start", "starting", "stop", "force", "refresh", "lookup", "update"}
    => (call[k].c.state => config.state)

StartSaves == \A k \in Callers : call[k].op = "StartContainer" =>
    /\ call[k].pc \in {"lookup", "update"} => ~call[k].c.state /\ call[k].c.startedAt = runs
    /\ call[k].pc = "saved" => ~config.state /\ config.startedAt = runs

SerialInv == OneActive /\ CreatePcs /\ StartPcs /\ OtherPcs /\ SnapshotMark /\ StartSaves

MarkAct  == ~Gone /\ ~config.state => ~config'.state

StartAct == \A k \in Callers : Returns(k, "StartContainer", "ok") =>
               ~config'.state /\ config'.startedAt = runs'

LEMMA SerialInit == Init => SerialInv
<1> SUFFICES ASSUME Init PROVE SerialInv
  OBVIOUS
<1>1. \A k \in Callers : call[k].pc = "idle"
  <2>1. NoCall.pc = "idle"
    BY DEF NoCall
  <2> QED BY <2>1 DEF Init
<1> QED
  BY <1>1 DEF SerialInv, OneActive, Active, CreatePcs, StartPcs, OtherPcs, SnapshotMark,
              StartSaves

LEMMA SerialStep ==
    ASSUME ~overlapped', TypeOK, SerialInv, [Next]_vars
    PROVE  SerialInv' /\ MarkAct /\ StartAct
<1>0. /\ runs \in Nat /\ config \in Config
      /\ \A k \in Callers : call[k].c \in Config
  BY BoundsAssumption DEF TypeOK, Call
<1> DEFINE Goal == SerialInv' /\ MarkAct /\ StartAct
<1> USE <1>0 DEF SerialInv, OneActive, Active, CreatePcs, StartPcs, OtherPcs, SnapshotMark,
                 StartSaves, MarkAct, StartAct, Returns, Gone, Others
<1>1. ASSUME NEW k \in Callers, NEW op \in Ops, Begin(k, op) PROVE Goal
  <2>1. /\ UNCHANGED <<status, config, runs>>
        /\ \A j \in Callers : call[j].pc = "idle"
        /\ op = "CreateContainer" => status = "absent"
    BY <1>1 DEF Begin
  <2> QED BY <1>1, <2>1, BeginFacts
<1>2. ASSUME NEW k \in Callers, GetContainer(k) PROVE Goal
  <2>1. UNCHANGED <<status, config, runs>> /\ call[k].pc = "get"
    BY <1>2 DEF GetContainer
  <2> QED BY <1>2, <2>1, GetFacts DEF FirstRequest
<1>3. ASSUME NEW k \in Callers, StartContainer(k) PROVE Goal
  BY <1>3, GotoFacts, ReturnFacts DEF StartContainer
<1>4. ASSUME NEW k \in Callers, StartWait(k) PROVE Goal
  BY <1>4, GotoFacts, ReturnFacts DEF StartWait, Config
<1>5. ASSUME NEW k \in Callers, StopContainer(k) PROVE Goal
  BY <1>5, GotoFacts, ReturnFacts DEF StopContainer, Config
<1>6. ASSUME NEW k \in Callers, Refresh(k) PROVE Goal
  <2>1. UNCHANGED <<status, config, runs>> /\ call[k].pc = "refresh"
    BY <1>6 DEF Refresh
  <2>2. CASE Gone /\ ReturnNotFound(k)
    BY <2>1, <2>2, NotFoundFacts
  <2>3. CASE /\ Others(k) /\ call'[k].op = call[k].op /\ call'[k].pc = "lookup"
             /\ call'[k].c = Stamped(call[k].op, call[k].c)
    <3>1. /\ call[k].op = "StartContainer" =>
                ~call'[k].c.state /\ call'[k].c.startedAt = runs
          /\ call'[k].c.state => call[k].c.state
      BY <2>3 DEF Stamped, Config
    <3> QED BY <2>1, <2>3, <3>1
  <2> QED BY <1>6, <2>2, <2>3, RefreshFacts
<1>7. ASSUME NEW k \in Callers, Lookup(k) PROVE Goal
  BY <1>7, GotoFacts, NotFoundFacts DEF Lookup
<1>8. ASSUME NEW k \in Callers, CreateContainer(k) PROVE Goal
  BY <1>8, GotoFacts, ReturnFacts DEF CreateContainer
<1>9. ASSUME NEW k \in Callers, UpdateContainer(k) PROVE Goal
  BY <1>9, GotoFacts, ReturnFacts, NotFoundFacts DEF UpdateContainer
<1>10. ASSUME NEW k \in Callers, Saved(k) PROVE Goal
  BY <1>10, ReturnFacts, NotFoundFacts DEF Saved
<1>11. ASSUME NEW k \in Callers, DeleteContainer(k) PROVE Goal
  BY <1>11, ReturnFacts DEF DeleteContainer
<1>12. CASE ContainerExits
  BY <1>12 DEF ContainerExits, Config
<1>13. CASE ImageChanges
  BY <1>13 DEF ImageChanges
<1>14. CASE Crash
  <2>1. \A k \in Callers : call'[k] = NoCall
    BY <1>14 DEF Crash
  <2>2. NoCall.pc = "idle" /\ NoCall.op = "none"
    BY DEF NoCall
  <2>3. config'.state = config.state
    BY <1>14 DEF Crash, Config
  <2> QED BY <2>1, <2>2, <2>3
<1>15. CASE UNCHANGED vars
  BY <1>15 DEF vars
<1> QED
  BY <1>1, <1>2, <1>3, <1>4, <1>5, <1>6, <1>7, <1>8, <1>9, <1>10, <1>11,
     <1>12, <1>13, <1>14, <1>15 DEF Next, Step, Request

LEMMA OverlappedKept == TypeOK /\ [Next]_vars /\ overlapped => overlapped'
  BY DEF TypeOK, Next, Begin, Step, ContainerExits, ImageChanges, Crash, vars

\* As long as calls have not overlapped, a container that lost its "created"
\* mark never gets it back, whatever faults, exits and image removals happen.
THEOREM SerialMarkFinal == Spec => CreatedMarkFinal
<1>1. TypeOK /\ (overlapped \/ SerialInv) /\ [Next]_vars
        => (overlapped \/ SerialInv)' /\ [~overlapped' => MarkAct]_vars
  BY SerialStep, OverlappedKept
<1>2. [~overlapped' => MarkAct]_vars
        => [~overlapped' /\ ~Gone /\ ~config.state => ~config'.state]_vars
  BY DEF MarkAct
<1> QED
  BY <1>1, <1>2, SerialInit, TypeCorrect, PTL DEF Spec, CreatedMarkFinal

\* As long as calls have not overlapped, a StartContainer that reports success
\* has saved the start: no mark and the StartedAt of that run.
THEOREM SerialStartRecorded == Spec => StartReturnsRecorded
<1>1. TypeOK /\ (overlapped \/ SerialInv) /\ [Next]_vars
        => (overlapped \/ SerialInv)' /\ [~overlapped' => StartAct]_vars
  BY SerialStep, OverlappedKept
<1>2. [~overlapped' => StartAct]_vars
        => [\A k \in Callers : ~overlapped' /\ Returns(k, "StartContainer", "ok") =>
              ~config'.state /\ config'.startedAt = runs']_vars
  BY DEF StartAct
<1> QED
  BY <1>1, <1>2, SerialInit, TypeCorrect, PTL DEF Spec, StartReturnsRecorded

-----------------------------------------------------------------------------
(* TruthfulRecord.  Without faults and overlap the image stays, the status  *)
(* changes only under a call that knows it, and a call that has changed the *)
(* status carries the record that is true of it.                            *)
PcOps == \A k \in Callers :
    /\ call[k].pc \in {"start", "starting"} => call[k].op = "StartContainer"
    /\ call[k].pc \in {"stop", "force"} => call[k].op = "StopContainer"
    /\ call[k].pc = "refresh" => call[k].op \in {"StartContainer", "StopContainer"}
    /\ call[k].pc \in {"lookup", "update"} => call[k].op # "RemoveContainer"
    /\ call[k].op \in Ops \cup {"none"} /\ (call[k].op = "none" => call[k].pc = "idle")

\* Start has started the container, or Stop has stopped it, and the record
\* does not say so yet.
Unsaved(k) == /\ call[k].op \in {"StartContainer", "StopContainer"}
              /\ call[k].pc \in {"refresh", "lookup", "update"}

StatusTrue ==
    /\ image
    /\ status = "absent" => runs = 0
    /\ status = "Running" => runs > 0
    /\ status = "Starting" => \E k \in Callers : call[k].pc = "starting"
    /\ \A k \in Callers :
          /\ call[k].pc = "starting" => status = "Starting"
          /\ call[k].pc \in {"stop", "force"} => status = "Running"
          /\ Unsaved(k) => /\ runs > 0
                           /\ status = IF call[k].op = "StartContainer" THEN "Running"
                                                                        ELSE "Stopped"

\* c is the record of a container that ran runs times, and its last run is
\* over if its status says so.
True(c) == c.startedAt = runs /\ (c.state <=> runs = 0)
Over(c) == status \in {"Stopped", "Starting"} /\ runs > 0 => c.finishedAt = runs

ConfigTrue == ~Gone /\ (\A k \in Callers : ~Unsaved(k)) => True(config) /\ Over(config)

CallTrue == \A k \in Callers :
    /\ call[k].pc \in {"stop", "force"} => call[k].c = config
    /\ Unsaved(k) /\ call[k].op = "StopContainer" => True(call[k].c)
    /\ Unsaved(k) /\ call[k].pc \in {"lookup", "update"} =>
          True(call[k].c) /\ Over(call[k].c) /\ call[k].etag = config

TruthInv == PcOps /\ StatusTrue /\ ConfigTrue /\ CallTrue

LEMMA RefreshETag ==
    ASSUME TypeOK, NEW k \in Callers, Refresh(k), ~Gone
    PROVE  call'[k].etag = config
<1>1. call[k] \in Call
  BY DEF TypeOK
<1>2. call'[k] = [call[k] EXCEPT !.etag = config, !.pc = "lookup",
                                 !.c = Stamped(call[k].op, call[k].c)]
  BY SetFacts DEF Refresh
<1> QED BY <1>1, <1>2 DEF Call

LEMMA GetStop ==
    ASSUME TypeOK, NEW k \in Callers, GetContainer(k), call'[k].pc = "stop"
    PROVE  status = "Running"
<1>1. call[k] \in Call
  BY DEF TypeOK
<1>2. ~Return(k, "ok") /\ ~Return(k, "err")
  BY ReturnFacts
<1>3. /\ call'[k].pc = FirstRequest(call[k].op)
      /\ call[k].op = "StopContainer" => StateName = "running"
  BY <1>1, <1>2, GetFacts DEF GetContainer
<1>4. call[k].op = "StopContainer"
  BY <1>3 DEF FirstRequest
<1> QED BY <1>3, <1>4 DEF StateName

LEMMA TruthInit == Init => TruthInv
<1> SUFFICES ASSUME Init PROVE TruthInv
  OBVIOUS
<1>1. \A k \in Callers : call[k].pc = "idle" /\ call[k].op = "none"
  <2>1. NoCall.pc = "idle" /\ NoCall.op = "none"
    BY DEF NoCall
  <2> QED BY <2>1 DEF Init
<1>2. status = "absent" /\ runs = 0 /\ image
  BY DEF Init
<1> QED
  BY <1>1, <1>2 DEF TruthInv, PcOps, StatusTrue, ConfigTrue, CallTrue, Unsaved, Gone

LEMMA TruthStep ==
    ASSUME ~overlapped', faults' = 0, TypeOK, SerialInv, TruthInv, [Next]_vars
    PROVE  TruthInv'
<1>0. /\ runs \in Nat /\ config \in Config /\ status \in Status
      /\ \A k \in Callers : call[k].c \in Config
  BY BoundsAssumption DEF TypeOK, Call
<1> USE <1>0 DEF SerialInv, OneActive, Active, CreatePcs, Gone, Others, Ops, Status,
                 TruthInv, PcOps, StatusTrue, ConfigTrue, CallTrue, Unsaved, True, Over
<1>1. ASSUME NEW k \in Callers, NEW op \in Ops, Begin(k, op) PROVE TruthInv'
  <2>1. /\ UNCHANGED <<status, config, runs, image>>
        /\ \A j \in Callers : call[j].pc = "idle"
        /\ op = "CreateContainer" => status = "absent"
    BY <1>1 DEF Begin
  <2> QED BY <1>1, <2>1, BeginFacts
<1>2. ASSUME NEW k \in Callers, GetContainer(k) PROVE TruthInv'
  <2>1. UNCHANGED <<status, config, runs, image>> /\ call[k].pc = "get"
    BY <1>2 DEF GetContainer
  <2> QED BY <1>2, <2>1, GetFacts, GetStop DEF FirstRequest
<1>3. ASSUME NEW k \in Callers, StartContainer(k) PROVE TruthInv'
  BY <1>3, GotoFacts, ReturnFacts DEF StartContainer
<1>4. ASSUME NEW k \in Callers, StartWait(k) PROVE TruthInv'
  BY <1>4, GotoFacts, ReturnFacts DEF StartWait, Config
<1>5. ASSUME NEW k \in Callers, StopContainer(k) PROVE TruthInv'
  BY <1>5, GotoFacts, ReturnFacts DEF StopContainer, Config
<1>6. ASSUME NEW k \in Callers, Refresh(k) PROVE TruthInv'
  <2>1. UNCHANGED <<status, config, runs, image>> /\ call[k].pc = "refresh"
    BY <1>6 DEF Refresh
  <2>2. Unsaved(k) /\ status \in {"Running", "Stopped"}
    BY <2>1
  <2>3. /\ Others(k) /\ call'[k].op = call[k].op /\ call'[k].pc = "lookup"
        /\ call'[k].c = Stamped(call[k].op, call[k].c) /\ call'[k].etag = config
    BY <1>6, <2>2, RefreshFacts, RefreshETag
  <2>4. True(call'[k].c) /\ Over(call'[k].c)
    BY <2>1, <2>2, <2>3 DEF Stamped, Config
  <2> QED BY <2>1, <2>2, <2>3, <2>4
<1>7. ASSUME NEW k \in Callers, Lookup(k) PROVE TruthInv'
  BY <1>7, GotoFacts, NotFoundFacts DEF Lookup
<1>8. ASSUME NEW k \in Callers, CreateContainer(k) PROVE TruthInv'
  <2>1. call[k].op = "CreateContainer" /\ status = "absent" /\ runs = 0 /\ call[k].pc = "create"
    BY <1>8 DEF CreateContainer, OtherPcs
  <2>2. \A j \in Callers : j # k => call[j].pc = "idle"
    BY <2>1
  <2>3. CASE status' = "Stopped" /\ config' = NewConfig /\ Goto(k, "saved")
    BY <1>8, <2>1, <2>2, <2>3, GotoFacts DEF CreateContainer, NewConfig
  <2>4. CASE Return(k, "err") /\ UNCHANGED <<status, config>>
    BY <1>8, <2>1, <2>2, <2>4, ReturnFacts DEF CreateContainer
  <2> QED BY <1>8, <2>3, <2>4 DEF CreateContainer
<1>9. ASSUME NEW k \in Callers, UpdateContainer(k) PROVE TruthInv'
  BY <1>9, GotoFacts, ReturnFacts, NotFoundFacts DEF UpdateContainer
<1>10. ASSUME NEW k \in Callers, Saved(k) PROVE TruthInv'
  BY <1>10, ReturnFacts, NotFoundFacts DEF Saved
<1>11. ASSUME NEW k \in Callers, DeleteContainer(k) PROVE TruthInv'
  BY <1>11, ReturnFacts DEF DeleteContainer
<1>12. ~ContainerExits /\ ~ImageChanges /\ ~Crash
  <2>1. faults \in Nat
    BY BoundsAssumption DEF TypeOK
  <2>2. ContainerExits \/ ImageChanges \/ Crash => faults' = faults + 1
    BY Zenon DEF ContainerExits, ImageChanges, Crash
  <2> QED BY <2>1, <2>2
<1>13. CASE UNCHANGED vars
  BY <1>13 DEF vars
<1> QED
  BY <1>1, <1>2, <1>3, <1>4, <1>5, <1>6, <1>7, <1>8, <1>9, <1>10, <1>11,
     <1>12, <1>13 DEF Next, Step, Request

\* As long as calls have not overlapped and nothing has failed or ended by
\* itself, the state and the times that CRI reports between calls are true.
THEOREM SerialTruthfulRecord == Spec => []TruthfulRecord
<1> DEFINE Calm == ~overlapped /\ faults = 0
           I == Calm => SerialInv /\ TruthInv
<1>1. TypeOK /\ [Next]_vars /\ Calm' => Calm
  <2>1. TypeOK /\ [Next]_vars /\ faults' = 0 => faults = 0
    <3>1. [Next]_vars => faults' = faults \/ faults' = faults + 1
      BY Zenon DEF Next, Begin, Step, Request, GetContainer, StartContainer, StartWait,
         StopContainer, Refresh, Lookup, CreateContainer, UpdateContainer, Saved,
         DeleteContainer, ContainerExits, ImageChanges, Crash, vars
    <3>2. TypeOK => faults \in Nat
      BY BoundsAssumption DEF TypeOK
    <3> QED BY <3>1, <3>2
  <2> QED BY <2>1, OverlappedKept
<1>2. TypeOK /\ I /\ [Next]_vars => I'
  BY <1>1, SerialStep, TruthStep
<1>3. Init => I
  BY SerialInit, TruthInit
<1>4. TypeOK /\ I => TruthfulRecord
  <2> SUFFICES ASSUME TypeOK, I, faults = 0, ~overlapped, ~Gone,
                      \A k \in Callers : ~Active(k)
               PROVE  /\ (StateName = "created") <=> (runs = 0)
                      /\ config.startedAt = runs
                      /\ (StateName = "exited") => config.finishedAt = runs
    BY DEF TruthfulRecord
  <2>1. TruthInv /\ \A k \in Callers : call[k].pc = "idle"
    BY DEF Active
  <2>2. True(config) /\ Over(config) /\ status \in {"Stopped", "Running"}
    BY <2>1 DEF TruthInv, ConfigTrue, StatusTrue, Unsaved, TypeOK, Status, Gone
  <2>3. status = "Running" => runs > 0
    BY <2>1 DEF TruthInv, StatusTrue
  <2>4. runs \in Nat
    BY BoundsAssumption DEF TypeOK
  <2> QED BY <2>2, <2>3, <2>4 DEF True, Over, StateName
<1> HIDE DEF I
<1> QED BY <1>2, <1>3, <1>4, TypeCorrect, PTL DEF Spec

-----------------------------------------------------------------------------
(* The safety part of CallsReturn: the requests a call has left at most.     *)
Left(pc) ==
    CASE pc = "get"                  -> 7
      [] pc \in {"start", "stop"}    -> 6
      [] pc \in {"starting", "force"} -> 5
      [] pc = "refresh"              -> 4
      [] pc = "lookup"               -> 3
      [] pc \in {"create", "update"} -> 2
      [] pc \in {"saved", "delete"}  -> 1
      [] OTHER                       -> 0

\* Each request brings a call nearer to its return and leaves the other calls
\* alone, and a call that goes on does so by its own requests only.  So a call
\* makes at most seven requests, the retry of lxo.StopContainer included, no
\* matter what overlapping calls, crashes and exits do meanwhile
\* (lxo/container.go, cri/runtime.go).
THEOREM CallsAdvance ==
    Spec => [][\A k \in Callers :
                 /\ Step(k) => Left(call'[k].pc) < Left(call[k].pc) /\ Others(k)
                 /\ Active(k) /\ Active(k)' => Step(k) \/ UNCHANGED call[k]]_vars
<1>1. ASSUME TypeOK, NEW k \in Callers, Step(k)
      PROVE  Left(call'[k].pc) < Left(call[k].pc) /\ Others(k)
  <2>1. CASE GetContainer(k)
    <3>1. call[k].pc = "get" /\ call'[k].pc \in {"idle", "start", "stop", "delete"} /\ Others(k)
      BY <1>1, <2>1, GetFacts DEF GetContainer, FirstRequest
    <3> QED BY <3>1 DEF Left
  <2>2. CASE StartContainer(k) \/ StartWait(k) \/ StopContainer(k)
    <3>1. /\ Others(k)
          /\ \/ call[k].pc = "start" /\ call'[k].pc \in {"idle", "starting"}
             \/ call[k].pc = "starting" /\ call'[k].pc \in {"idle", "refresh"}
             \/ call[k].pc = "stop" /\ call'[k].pc \in {"idle", "refresh", "force"}
             \/ call[k].pc = "force" /\ call'[k].pc \in {"idle", "refresh"}
      BY <1>1, <2>2, GotoFacts, ReturnFacts DEF StartContainer, StartWait, StopContainer
    <3> QED BY <3>1 DEF Left
  <2>3. CASE Refresh(k)
    <3>1. call[k].pc = "refresh" /\ call'[k].pc \in {"idle", "lookup"} /\ Others(k)
      BY <1>1, <2>3, RefreshFacts, NotFoundFacts DEF Refresh
    <3> QED BY <3>1 DEF Left
  <2>4. CASE Lookup(k) \/ CreateContainer(k) \/ UpdateContainer(k) \/ Saved(k)
    <3>1. /\ Others(k)
          /\ \/ call[k].pc = "lookup" /\ call'[k].pc \in {"idle", "create", "update"}
             \/ call[k].pc \in {"create", "update"} /\ call'[k].pc \in {"idle", "saved"}
             \/ call[k].pc = "saved" /\ call'[k].pc = "idle"
      BY <1>1, <2>4, GotoFacts, ReturnFacts, NotFoundFacts
         DEF Lookup, CreateContainer, UpdateContainer, Saved
    <3> QED BY <3>1 DEF Left
  <2>5. CASE DeleteContainer(k)
    <3>1. call[k].pc = "delete" /\ call'[k].pc = "idle" /\ Others(k)
      BY <1>1, <2>5, ReturnFacts DEF DeleteContainer
    <3> QED BY <3>1 DEF Left
  <2> QED BY <1>1, <2>1, <2>2, <2>3, <2>4, <2>5 DEF Step, Request
<1>2. ASSUME TypeOK, [Next]_vars, NEW k \in Callers, Active(k), Active(k)', ~Step(k)
      PROVE  UNCHANGED call[k]
  <2>1. ASSUME NEW j \in Callers, Step(j) PROVE UNCHANGED call[k]
    BY <1>1, <1>2, <2>1 DEF Others
  <2>2. ASSUME NEW j \in Callers, NEW op \in Ops, Begin(j, op) PROVE UNCHANGED call[k]
    <3>1. j # k
      BY <1>2, <2>2 DEF Begin
    <3> QED BY <1>2, <2>2, <3>1, BeginFacts DEF Others
  <2>3. ~Crash
    BY <1>2 DEF Crash, Active, NoCall
  <2> QED BY <1>2, <2>1, <2>2, <2>3 DEF Next, ContainerExits, ImageChanges, vars
<1>3. TypeOK /\ [Next]_vars =>
        [\A k \in Callers :
           /\ Step(k) => Left(call'[k].pc) < Left(call[k].pc) /\ Others(k)
           /\ Active(k) /\ Active(k)' => Step(k) \/ UNCHANGED call[k]]_vars
  BY <1>1, <1>2
<1> QED BY <1>3, TypeCorrect, PTL DEF Spec
=============================================================================
