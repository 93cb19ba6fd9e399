--------------------------- MODULE ContainerRecord ---------------------------
(***************************************************************************)
(* The life of ONE container and of the record lxe keeps about it in the   *)
(* configuration of the LXD container: lxf/container.go, lxf_container.go,  *)
(* lxo/container.go and the four CRI container calls of cri/runtime.go.     *)
(*                                                                         *)
(* lxe has no memory of its own.  Every call reads the container, keeps    *)
(* that snapshot while it makes one LXD request after another, and saves   *)
(* the whole snapshot back under an ETag.  One action is one LXD request,  *)
(* so calls interleave between any two requests.                           *)
(*                                                                         *)
(* LXD is external.  Its ETag is a hash of the user visible configuration, *)
(* volatile keys included ("when changing state of container, need to      *)
(* refresh ETag", container.go:245), so here the ETag IS that content.     *)
(***************************************************************************)
EXTENDS Naturals

CONSTANTS
    Callers,         \* gRPC handler goroutines
    MaxRuns,         \* bound: how often LXD starts the container
    MaxFaults        \* bound: how often lxe dies, the container ends by itself,
                     \* or the image is removed or pulled

ASSUME CallersAssumption == Callers # {}
ASSUME BoundsAssumption  == MaxRuns \in Nat /\ MaxFaults \in Nat

VARIABLES
    status,    \* LXD's status of the container
    config,    \* the configuration LXD keeps for it
    image,     \* is the container's image in LXD's local image store?
    runs,      \* number of times the container ran; also the clock lxe reads
    call,      \* per goroutine: the CRI call it handles
    faults,    \* number of faults so far
    overlapped \* history: two calls about this container have overlapped

vars == <<status, config, image, runs, call, faults, overlapped>>

Status == {"absent", "Stopped", "Starting", "Running", "deleted"}

\* The part of the LXD configuration that changes: the "user.state=created"
\* mark, user.started_at, user.finished_at (0: never) and LXD's own
\* volatile.last_state.power.
Config == [state : BOOLEAN, startedAt : Nat, finishedAt : Nat,
           power : {"STOPPED", "RUNNING"}]

NewConfig == [state |-> TRUE, startedAt |-> 0, finishedAt |-> 0, power |-> "STOPPED"]
NoConfig  == [NewConfig EXCEPT !.state = FALSE]

Ops == {"CreateContainer", "StartContainer", "StopContainer", "RemoveContainer"}

\* What a goroutine holds: c is the lxf.Container it works on, etag its ETag.
\* (run is not in the code: it remembers which run was on when the call came.)
Call == [op : Ops \cup {"none"},
         pc : {"idle", "get", "start", "starting", "stop", "force", "refresh",
               "lookup", "create", "update", "saved", "delete"},
         c : Config, etag : Config, res : {"none", "ok", "err"},
         run : Nat]

NoCall == [op |-> "none", pc |-> "idle", c |-> NoConfig, etag |-> NoConfig,
           res |-> "none", run |-> 0]

Active(k) == call[k].pc # "idle"

Gone == status \in {"absent", "deleted"}

Init == /\ status = "absent"
        /\ config = NoConfig
        /\ image = TRUE
        /\ runs = 0
        /\ call = [k \in Callers |-> NoCall]
        /\ faults = 0
        /\ overlapped = FALSE

-----------------------------------------------------------------------------
Set(k, r) == call' = [call EXCEPT ![k] = r]

Goto(k, pc) == Set(k, [call[k] EXCEPT !.pc = pc])

Return(k, res) == Set(k, [NoCall EXCEPT !.op = call[k].op, !.res = res])

\* An LXD "not found", or the same error made by lxe for a missing image:
\* StopContainer takes it for success, the other calls report it.
ReturnNotFound(k) ==
    Return(k, IF call[k].op = "StopContainer" THEN "ok" ELSE "err")

\* toContainer's mapping of LXD's status to the CRI state name.
StateName ==
    CASE status = "Running" -> "running"
      [] status = "Stopped" -> IF config.state THEN "created" ELSE "exited"
      [] OTHER              -> "unknown"

-----------------------------------------------------------------------------
(* A CRI call arrives.  A caller can name the container once LXD has it,    *)
(* and a second creation would make another container, not this one.        *)
Begin(k, op) ==
    /\ ~Active(k)
    /\ overlapped' = (overlapped \/ \E j \in Callers : Active(j))
    /\ IF op = "CreateContainer"
         THEN status = "absent" /\ \A j \in Callers : ~Active(j)
         ELSE status # "absent"
    /\ Set(k, [NoCall EXCEPT !.op = op, !.run = runs,
                             !.pc = IF op = "CreateContainer" THEN "lookup" ELSE "get"])
    /\ UNCHANGED <<status, config, image, runs, faults>>

FirstRequest(op) == CASE op = "StartContainer" -> "start"
                      [] op = "StopContainer"  -> "stop"
                      [] OTHER                 -> "delete"

\* Mutant: the call works on a container built with defaults instead of the
\* one it read.
GetContainer_Defaults(k) ==
    /\ call[k].pc = "get"
    /\ IF Gone
         THEN Return(k, "ok")
         ELSE Set(k, [call[k] EXCEPT !.c = NewConfig, !.etag = config,
                                     !.pc = FirstRequest(call[k].op)])
    /\ UNCHANGED <<status, config, image, runs, faults>>

(* lxf.GetContainer, and what StartContainer, StopContainer and             *)
(* RemoveContainer decide from the answer.                                  *)
GetContainer(k) ==
    /\ call[k].pc = "get"
    /\ \/ /\ Gone
          /\ Return(k, IF call[k].op = "StartContainer" THEN "err" ELSE "ok")
       \/ /\ ~Gone
          /\ call[k].op = "StopContainer" /\ StateName # "running"
          /\ Return(k, "ok")
       \/ /\ ~Gone
          /\ call[k].op = "StopContainer" => StateName = "running"
          /\ Set(k, [call[k] EXCEPT !.c = config, !.etag = config,
                                    !.pc = FirstRequest(call[k].op)])
    /\ UNCHANGED <<status, config, image, runs, faults>>

(* The start request: LXD accepts it only for a stopped container.          *)
StartContainer(k) ==
    /\ call[k].pc = "start"
    /\ IF status = "Stopped"
         THEN status' = "Starting" /\ Goto(k, "starting")
         ELSE Return(k, "err") /\ UNCHANGED status
    /\ UNCHANGED <<config, image, runs, faults>>

(* op.Wait() of the start request.                                          *)
StartWait(k) ==
    /\ call[k].pc = "starting"
    /\ \/ /\ runs < MaxRuns
          /\ status' = "Running"
          /\ runs' = runs + 1
          /\ config' = [config EXCEPT !.power = "RUNNING"]
          /\ Goto(k, "refresh")
       \/ /\ status' = "Stopped"
          /\ Return(k, "err")
          /\ UNCHANGED <<runs, config>>
    /\ UNCHANGED <<image, faults>>

\* Mutant: an attempt that times out counts as a stop.
StopContainer_TimeoutIsSuccess(k) ==
    /\ call[k].pc \in {"stop", "force"}
    /\ Goto(k, "refresh")
    /\ \/ status = "Running" /\ status' = "Stopped"
             /\ config' = [config EXCEPT !.power = "STOPPED"]
       \/ UNCHANGED <<status, config>>
    /\ UNCHANGED <<image, runs, faults>>

\* Mutant: the graceful attempt is repeated without end.
StopContainer_NoForce(k) ==
    /\ call[k].pc = "stop"
    /\ \/ Gone /\ Return(k, "ok") /\ UNCHANGED <<status, config>>
       \/ status = "Stopped" /\ Goto(k, "refresh") /\ UNCHANGED <<status, config>>
       \/ status = "Running" /\ Goto(k, "stop") /\ UNCHANGED <<status, config>>
    /\ UNCHANGED <<image, runs, faults>>

(* lxo.StopContainer: one graceful attempt, then one with Force.            *)
StopContainer(k) ==
    /\ call[k].pc \in {"stop", "force"}
    /\ \/ /\ Gone
          /\ Return(k, "ok")
          /\ UNCHANGED <<status, config>>
       \/ /\ status = "Stopped"                  \* "already stopped"
          /\ Goto(k, "refresh")
          /\ UNCHANGED <<status, config>>
       \/ /\ status = "Running"
          /\ status' = "Stopped"
          /\ config' = [config EXCEPT !.power = "STOPPED"]
          /\ Goto(k, "refresh")
       \/ /\ status \in {"Running", "Starting"}  \* timed out, or busy starting
          /\ call[k].pc = "stop"
          /\ Goto(k, "force")
          /\ UNCHANGED <<status, config>>
       \/ /\ status \in {"Running", "Starting"}  \* the forced attempt fails too
          /\ call[k].pc = "force"
          /\ Return(k, "err")
          /\ UNCHANGED <<status, config>>
    /\ UNCHANGED <<image, runs, faults>>

\* Mutant: Start does not drop the created mark.
Refresh_KeepsMark(k) ==
    /\ call[k].pc = "refresh"
    /\ LET c == call[k].c IN
       Set(k, [call[k] EXCEPT !.etag = config, !.pc = "lookup",
                 !.c = IF call[k].op = "StartContainer"
                         THEN [c EXCEPT !.startedAt = runs]
                         ELSE [c EXCEPT !.finishedAt = runs]])
    /\ UNCHANGED <<status, config, image, runs, faults>>

\* Mutant: Stop does not set FinishedAt.
Refresh_NoFinishedAt(k) ==
    /\ call[k].pc = "refresh"
    /\ LET c == call[k].c IN
       Set(k, [call[k] EXCEPT !.etag = config, !.pc = "lookup",
                 !.c = IF call[k].op = "StartContainer"
                         THEN [c EXCEPT !.state = FALSE, !.startedAt = runs] ELSE c])
    /\ UNCHANGED <<status, config, image, runs, faults>>

Stamped(op, c) ==
    IF op = "StartContainer" THEN [c EXCEPT !.state = FALSE, !.startedAt = runs]
                             ELSE [c EXCEPT !.finishedAt = runs]

(* refresh() takes the new ETag and keeps the old data; then Start drops    *)
(* the mark and sets StartedAt, Stop sets FinishedAt, in the snapshot.      *)
Refresh(k) ==
    /\ call[k].pc = "refresh"
    /\ \/ /\ Gone
          /\ ReturnNotFound(k)
       \/ /\ ~Gone
          /\ Set(k, [call[k] EXCEPT !.etag = config, !.pc = "lookup",
                                    !.c = Stamped(call[k].op, call[k].c)])
    /\ UNCHANGED <<status, config, image, runs, faults>>

(* apply() first looks the image up by the name or hash in the snapshot.    *)
Lookup(k) ==
    /\ call[k].pc = "lookup"
    /\ IF image
         THEN Goto(k, IF call[k].op = "CreateContainer" THEN "create" ELSE "update")
         ELSE ReturnNotFound(k)
    /\ UNCHANGED <<status, config, image, runs, faults>>

(* apply() of a new container: the mark is set and LXD creates it.          *)
CreateContainer(k) ==
    /\ call[k].pc = "create"
    /\ \/ /\ image
          /\ status' = "Stopped"
          /\ config' = NewConfig
          /\ Goto(k, "saved")
       \/ /\ ~image
          /\ Return(k, "err")
          /\ UNCHANGED <<status, config>>
    /\ UNCHANGED <<image, runs, faults>>

\* Mutant: the local object as a whole is stored as the configuration.
UpdateContainer_WholeObject(k) ==
    /\ call[k].pc = "update"
    /\ config' = call[k]
    /\ Goto(k, "saved")
    /\ UNCHANGED <<status, image, runs, faults>>

(* apply() of an existing container: the snapshot replaces the whole        *)
(* configuration, provided the ETag still matches.                          *)
UpdateContainer(k) ==
    /\ call[k].pc = "update"
    /\ \/ /\ Gone
          /\ ReturnNotFound(k)
          /\ UNCHANGED config
       \/ /\ ~Gone /\ call[k].etag # config
          /\ Return(k, "err")
          /\ UNCHANGED config
       \/ /\ ~Gone /\ call[k].etag = config
          /\ config' = call[k].c
          /\ Goto(k, "saved")
    /\ UNCHANGED <<status, image, runs, faults>>

(* The refresh() that ends Apply(), and the return of the call.             *)
Saved(k) ==
    /\ call[k].pc = "saved"
    /\ IF Gone THEN ReturnNotFound(k) ELSE Return(k, "ok")
    /\ UNCHANGED <<status, config, image, runs, faults>>

(* The delete request: LXD refuses to delete a container that is not        *)
(* stopped, and a missing one is a success.                                 *)
DeleteContainer(k) ==
    /\ call[k].pc = "delete"
    /\ \/ /\ status = "Stopped"
          /\ status' = "deleted"
          /\ Return(k, "ok")
       \/ /\ Gone
          /\ Return(k, "ok")
          /\ UNCHANGED status
       \/ /\ status \in {"Starting", "Running"}
          /\ Return(k, "err")
          /\ UNCHANGED status
    /\ UNCHANGED <<config, image, runs, faults>>

-----------------------------------------------------------------------------
(* The environment: the container's init process ends, the image is removed *)
(* or pulled (ImageServer), lxe dies in the middle of its calls while LXD   *)
(* carries on with a request it has accepted.                               *)
ContainerExits ==
    /\ status = "Running"
    /\ faults < MaxFaults /\ faults' = faults + 1
    /\ status' = "Stopped"
    /\ config' = [config EXCEPT !.power = "STOPPED"]
    /\ UNCHANGED <<image, runs, call, overlapped>>

ImageChanges ==
    /\ faults < MaxFaults /\ faults' = faults + 1
    /\ image' = ~image
    /\ UNCHANGED <<status, config, runs, call, overlapped>>

Crash ==
    /\ faults < MaxFaults
    /\ faults' = faults + 1
    /\ call' = [k \in Callers |-> NoCall]
    /\ \/ /\ status = "Starting" /\ runs < MaxRuns
          /\ status' = "Running"
          /\ runs' = runs + 1
          /\ config' = [config EXCEPT !.power = "RUNNING"]
       \/ /\ status' = IF status = "Starting" THEN "Stopped" ELSE status
          /\ UNCHANGED <<runs, config>>
    /\ UNCHANGED <<image, overlapped>>

-----------------------------------------------------------------------------
Request(k) == \/ GetContainer(k)
              \/ StartContainer(k)
              \/ StartWait(k)
              \/ StopContainer(k)
              \/ Refresh(k)
              \/ Lookup(k)
              \/ CreateContainer(k)
              \/ UpdateContainer(k)
              \/ Saved(k)
              \/ DeleteContainer(k)

Step(k) == Request(k) /\ UNCHANGED overlapped

Next == \/ \E k \in Callers, op \in Ops : Begin(k, op)
        \/ \E k \in Callers : Step(k)
        \/ ContainerExits
        \/ ImageChanges
        \/ Crash

Spec == Init /\ [][Next]_vars

\* A goroutine keeps running, and LXD answers every request and ends every
\* operation it accepted, so a call that can take a step eventually does.
FairSpec == Spec /\ \A k \in Callers : WF_vars(Step(k))

-----------------------------------------------------------------------------
(* Properties.                                                              *)

TypeOK == /\ status \in Status
          /\ config \in Config
          /\ image \in BOOLEAN
          /\ runs \in 0 .. MaxRuns
          /\ call \in [Callers -> Call]
          /\ faults \in 0 .. MaxFaults
          /\ overlapped \in BOOLEAN

Returns(k, op, res) ==
    /\ call[k].op = op /\ Active(k)
    /\ ~Active(k)' /\ call'[k].op = op /\ call'[k].res = res

\* A container that has lost its "created" mark never gets it back, so one
\* that was reported exited is never reported created again: Start deletes
\* user.state, and the save that ends Start or Stop is meant to be refused
\* when the record was changed since it was read (lxdobject.go:12).
MarkStaysOff == [][~Gone /\ ~config.state => ~config'.state]_vars

\* The same for calls that have not overlapped, whatever crashes, exits and
\* image removals do between their requests.
CreatedMarkFinal == [][~overlapped' /\ ~Gone /\ ~config.state => ~config'.state]_vars

\* When StartContainer reports success the saved record says so: no mark, and
\* StartedAt is the time of the run LXD started (Start, refresh, Apply), as
\* long as calls have not overlapped.
StartReturnsRecorded ==
    [][\A k \in Callers : ~overlapped' /\ Returns(k, "StartContainer", "ok") =>
         ~config'.state /\ config'.startedAt = runs']_vars

\* When StopContainer reports success, the run that was on when the call
\* arrived is over: stopped, killed by the forced attempt, or ended before.
\* It holds however calls overlap, lxe crashes or the container exits.
StopEndsRun ==
    [][\A k \in Callers : Returns(k, "StopContainer", "ok") =>
         (status' = "Running" => runs' > call[k].run)]_vars

\* Between calls that do not overlap, and without faults, the state and the times CRI reports are
\* the true ones: created iff it never ran, StartedAt of the last run, and
\* FinishedAt of the last run once it has exited.
TruthfulRecord ==
    (faults = 0 /\ ~overlapped /\ ~Gone /\ \A k \in Callers : ~Active(k)) =>
        /\ (StateName = "created") <=> (runs = 0)
        /\ config.startedAt = runs
        /\ (StateName = "exited") => config.finishedAt = runs

\* Every call ends, overlapping ones too: lxo.StopContainer's retries end
\* with a forced stop, and nobody waits for another call.
CallsReturn == \A k \in Callers : Active(k) ~> ~Active(k)
=============================================================================
