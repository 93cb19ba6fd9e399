# A TLA+ model of lxe

lxe lets Kubernetes run LXD containers: it serves the CRI gRPC services of the
kubelet (`cri/`), keeps pods and containers as LXD profiles and containers
(`lxf/`), and connects pods with a network plugin (`network/`). It has no
database. All it knows is in LXD, in `user.*` keys of profiles and containers,
and is read again for every call.

## Inventory

| component | state | operations | partners |
|---|---|---|---|
| CRI runtime service (`cri/runtime.go`, `runtime_helpers.go`) | none between calls; locals of each handler goroutine | RunPodSandbox, StopPodSandbox, RemovePodSandbox, CreateContainer, StartContainer, StopContainer, RemoveContainer; status and list calls; ContainerStarted, ContainerStopped | kubelet (gRPC), lxf, network |
| container record (`lxf/container.go`, `lxf_container.go`, `lxo/container.go`) | one LXD container: status, `user.*` config, ETag | Start, Stop, Delete, Apply, refresh, GetContainer, toContainer | LXD, image lookup, sandbox |
| sandbox (`lxf/sandbox.go`, `lxf_sandbox.go`) | one LXD profile: state, network mode and result, ETag, UsedBy | Apply, refresh, Stop, Delete, Containers, GetSandbox | LXD |
| lifecycle events (`lxf_container.go:224`, `runtime_helpers.go:268`) | one goroutine per event | container-started, container-stopped | LXD event stream, network, sandbox |
| CNI plugin (`network/cni.go`) | CNI's own allocation per pod | ADD at container start, DEL at container deletion, config lookup, Status | CNI binaries |
| bridge plugin (`network/lxdbridge.go`, `util.go`) | LXD network, leases; address stored in the profile | ensureBridge, WhenCreated, FindFreeIP | LXD |
| image service (`lxf/image.go`, `lxo/image.go`, `cri/image.go`) | LXD images and aliases | PullImage, RemoveImage, GetImage, ListImages | image servers, LXD |
| schema migration (`lxf/schema.go`) | schema number in each profile and container | Migrate at start-up | LXD |
| client (`lxf/client.go`, `cri/server.go`) | connection, event listener | connect, detectNeedReconnect, Serve | LXD socket |
| exec and streaming (`lxf/exec.go`, `cri/streaming.go`) | one LXD operation per exec | Exec, ExecSync with timeout, resize, cancel; PortForward | LXD |
| codec (`lxf/configstore.go`, `criobject.go`, `device/`) | none | reserved keys, devices to and from maps | |
| command line, logging (`cli/`, `cmd/`) | none | | |

What is hard: every gRPC call and every event runs in a goroutine of its own,
with no lock anywhere in lxe. A call reads a profile or a container, makes LXD
or CNI requests that take seconds, and writes back the *whole* object it read.
LXD's ETag is the only guard, and `refresh()` fetches a new ETag for old data.
The network belongs to the pod but is set up and torn down with its containers.
lxe, LXD and containers die independently, and events are never repeated.
`hazards` in PROJECT.json lists each of these at its line.

What makes it correct: a stopped container was really stopped, and its record
tells what happened to it; a sandbox goes ready, notready, deleted and never
back; nothing of a stopped pod runs; the network of a pod arrives and is given
back; a network result is not lost to somebody else's save; an image that was
pulled has a name and one that was removed has none; a migration that broke off
can be repeated; an exec returns, with the exit code of a command that has ended;
an address given to a pod is usable and its own; a restarted LXD is listened to
again, once.

## Modules

| module | models |
|---|---|
| `ContainerRecord` | the four container calls on one LXD container, request by request, and the record they keep in its configuration |
| `ContainerRecordProofs` | theorems about it |
| `PodRuntime` | the seven state-changing CRI calls and the container-started handler, on pods with containers and a network |
| `PodLifecycle` | abstract: what lxe promises of a pod |
| `PodRefinement` | `PodRuntime` seen as `PodLifecycle` |
| `PodRuntimeProofs` | theorems about `PodRuntime`, for overlapping calls |
| `PodSerialProofs` | theorems about `PodRuntime` with one call per pod at a time, and the refinement |
| `ImageStore` | PullImage, RemoveImage and ImageStatus on LXD's images and aliases, request by request |
| `ImageStoreProofs` | theorems about it |
| `Startup` | from NewClient to Serve: the schema migration, early events, and starts that die anywhere |
| `StartupProofs` | theorems about it |
| `Exec` | one command: the caller of Exec, the control handler, the resize goroutine, the timer |
| `ExecProofs` | theorems about it |
| `IPRange` | FindFreeIP as an operator, and the host addresses it should offer |
| `PodNetwork` | which network or address a pod gets from the two plugins, while the node changes |
| `PodNetworkProofs` | theorems about both |
| `Reconnect` | connect and detectNeedReconnect, over restarts of LXD and of lxe |
| `ReconnectProofs` | theorems about it |
| `MCContainerRecord`, `MCPodRuntime`, `MCImageStore`, `MCStartup`, `MCPodNetwork` | symmetry and constants for TLC |

### ContainerRecord

`status` is LXD's status; `config` the keys of `lxf/container.go` that calls
write: the `user.state` mark (present until the first start), StartedAt,
FinishedAt, and `volatile.last_state.power`, which LXD itself writes. LXD's ETag
of a container is a hash of its content, so it is modelled *as* the content.
The clock is the number of runs so far: two times are equal exactly when they
belong to the same run. `call[k]` is goroutine k: its operation, the request it
makes next (`pc`), the snapshot `c` and the ETag.

`GetContainer` reads both, `StartContainer`/`StartWait` and `StopContainer` are
the LXD operations (the graceful stop, its timeout and the forced retry of
`lxo`), `Refresh` takes the new ETag only and stamps the snapshot, `Lookup`
finds the image, `UpdateContainer` replaces the configuration if the ETag still
matches, `Saved` is the final refresh. "Not found" is swallowed by
`stopContainer` and by nobody else (`ReturnNotFound`); that a removed image also
counts as "not found" follows from the code. The environment may end the
container, remove or pull the image, and kill lxe; LXD then carries on with an
operation it has accepted. LXD's transient Stopping and Aborting are taken as
Stopped. The history variable `overlapped` is true from the moment two calls
have been active at once; three properties promise nothing after that, and
`MarkStaysOff`, the one without that condition, is the one that is violated.

### PodRuntime

`profile[p]` is the sandbox: state and network result (`data`: 0 for none, else
the process it was obtained for; 1 for the address of the bridge plugin).
`ctr[c]` is LXD's view of a container, `cni[p]` the processes whose namespaces
CNI has attached for the pod. `event[i]` is the handler of the started event of
process i: LXD emits one event per start, it may be handled arbitrarily late,
and it names the container only, so the handler reads everything again. How a
container's own record is saved is `ContainerRecord`'s subject; `StopRecord` and
`StartRecord` stand for it. `entries` says whether the profile has the cloud-init
entries of a bridge address, which lxe writes and never reads.

A call ends "ok", with "err" when what it finds in LXD makes it fail, or with
"fault" when a request fails for reasons of its own: `RequestFails` ends a call
at any request that `Faulty` allows, a stop that fails after its retries
included. A start is two steps, the request and the wait; if lxe dies between
them, LXD carries on (`StartGoesOn`), and a new lxe may have missed the event.
With `SlowAdd` a CNI ADD is two steps too (`EventAdd`, `EventAdded`), between
which the container may end and be deleted.

One action is one LXD request or CNI invocation with all that follows until the
next. `todo`, `list`, `running` and `cached` are the loops and the lazily loaded
pointers (`Sandbox.Containers()`, `Container.Sandbox()`). `Crash` drops all
calls and all events not yet handled. Requests to remove a profile in use, to
delete a running container and to enter the namespace of a dead process fail,
because LXD and the kernel refuse them.

The container-stopped handler is not an action: it reads and then calls
WhenStopped, a no-op in every plugin. The same holds for the pod's own WhenStarted,
WhenStopped and WhenDeleted.

### PodLifecycle and PodRefinement

The abstract pod has a phase, a flag "a container runs" and a flag "a network is
allocated". It is stopped and removed only while nothing runs, gets a network
only while it lives and runs, and is removed only after the network was given
back. Stopping leaves the network allocated, as the code does; the comment of
StopPodSandbox says that it reclaims it, which is the finding of `pod_stop`. `ImplementsLifecycle` states that `PodRuntime` implements it under the
mapping phase = state of the profile, up = some container of it runs, net = CNI
has attached something (`INSTANCE PodLifecycle WITH ...`).

### ImageStore

`images` and `alias` are LXD's, `remote` is what the image server publishes.
Names and fingerprints may be given for each other, as in ImageID.Hash, which
tries the alias first and then the fingerprint. `Resolve`, `CopyImage`,
`GetImageAliases`, `DeleteImageAlias` and `CreateImageAlias` are the requests of
PullImage (`Refuse` is a name that parseImage does not accept, an error before
any request, which ImageStatus alone takes for "not there" if the remote is
unknown), `GetImageAlias` and `HashOfImage` those of ImageID.Hash, `DeleteImage`
and `GetImage` what RemoveImage and ImageStatus do with the hash. `Fail` is a
request that fails, with or without its effect; `Crash` lets LXD complete what
it has begun. The ghosts are `pulled` (the last completed pull or removal left
the name pulled), and `pull` and `fault` of a call (a pull overlapped it; a
request of it failed).

Several pulls of one name delete and create its alias under each other. One may
find the alias deleted by another one and fail; `PulledNameResolves` says that
the one that comes last leaves the name with an image all the same.

### Startup

`object` is what LXD holds, reduced to the keys the migration steps look at or
write; `origin` is a ghost, the object as it was made. `Init` has every
combination of objects that some version of lxe leaves behind, and objects of
others. The migration steps keep their names. `UpdateOne` is one turn of the
loops of Ensure: it works on the list read earlier, writes without an ETag, and
fails if the object is gone. A start ends by an error (`log.Fatal`), by a kill,
or by a lifecycle event of a visible container before SetEventHandler, where the
handler is nil; the next start begins from what is in LXD. `Reference` says what
an object should look like in the current schema, from its original in one step,
and is what the chain of steps is compared with. Starts and deaths are not
counted: the state space is finite without a bound.

### Exec

The caller (`pc`) goes through client.Exec; `handler` is the goroutine in which
the LXD client calls controlHandler, `listener` that of listenResize. LXD, its
client and the command are external. The command may close its output before it
ends, in which case the select is over and op.Wait begins. ExecContainer may fail
with the control handler started, when a socket after the first cannot be
opened. The unsynchronised
read of the control socket in sendCancel may miss a socket that is there.

### IPRange and PodNetwork

An address is a number and a subnet its first address and its size. `FindFreeIP`
is the set of addresses the random trials may end with; the byte arithmetic of
`util.go` on the last byte is kept, so that a range that ends at .255 or is
smaller than four addresses behaves as in the code. `Hosts` is the reference.

In `PodNetwork`, `plugin` is the one the running lxe was started with, `bridge`
LXD's network, `dir` the CNI configuration directory (a file is absent, does not
load, or describes one of `Networks`, and may be edited in place), `addr[p]` the address in the pod's profile and `cni`
the attachments CNI holds, by network and pod. `EnsureBridge` and
`GetCNINetworkConfig` are the functions of those names. NewServer always
sets CreateOnly, so an existing bridge keeps its subnet whatever range lxe is
given. RunPodSandbox is split at its requests: `GetNetwork`, `GetNetworkLeases`,
`Trial`, `Save`; the calls on a container are one action each, because
`PodRuntime` has their interleavings, saves and failing plugins (DEL succeeds
here). LXD's leases are the static addresses of the pods that have a container,
and any of `Foreign`. GetNetwork and CreateNetwork in ensureBridge are one step,
as nobody else makes that bridge. The administrator removes the bridge only from
an idle node: LXD itself would also allow it while a RunPodSandbox is between
its reads and its save, and if lxe then made the bridge anew with another range,
the address found would be of the old one. `AddressUsable` does not cover that.

The history variables record what lxe cannot know: `unseen[p]`, the pods without
a lease when p read the leases, and `moved`, the pods that were attached while
the choice of the network changed.

### Reconnect

The starts of LXD are numbered; a connection belongs to the start it was made in.
`worker[0]` is NewClient, the others are the goroutines that created sockets
start. Each goes through connect: `Dial`, `GetEvents`, `AddHandler`,
`SetServer`, `SetOpwait`. `pending` are creations of the socket that the
watcher has not delivered. Two history variables name the cases in which lxe
promises less. `missed`: LXD was restarted after NewClient connected and before
the watch was added, and no event will tell. `rushed`: LXD came back while lxe
still dealt with its previous return; two goroutines may then both reach the new
LXD, which has two listeners, or the slower one puts the older connection back.

## Runs

| run | outcome | shows |
|---|---|---|
| `container` | pass | two calls that may overlap, faults anywhere: a successful StopContainer has ended the run it met (`StopEndsRun`) and every call returns (`CallsReturn`); without overlap, the created mark never returns (`CreatedMarkFinal`), a successful start is recorded (`StartReturnsRecorded`), and the record is true until the first fault (`TruthfulRecord`) |
| `container_lost_update` | violation | a StopContainer that overlaps a StartContainer restores `user.state=created` (`MarkStaysOff`) |
| `pod_overlap` | pass | all three networks, overlapping calls, late handlers, slow ADDs, a crash, all faults: `NotReadyFinal` (not for bridge pods), `ResultKept` |
| `pod_serial` | pass | two containers, one call per pod at a time, working CNI, failing requests: `NoNetworkLeak`, `StartedHasNetwork`, `StopPodStopsAll`, `RemoveNeverRefused`, `ImplementsLifecycle`, `LastingRunAttached`, and `NetworkArrives` under fairness |
| `pod_leak` | violation | RemoveContainer against RemovePodSandbox leaves the CNI network allocated |
| `pod_stop` | violation | StopPodSandbox reports success and has not reclaimed the network, as its comment says (`StopReclaimsNetwork`) |
| `image_overlap` | pass | two overlapping calls, refused names, a changing image server, a fault: `PulledNameResolves`, `RemoveIdempotent`, `RemovedIsGone` |
| `image_status` | violation | ImageStatus fails, where it should answer "none", if the image is removed between its two requests |
| `startup` | pass | repeated starts that die anywhere: `MigratedOnce`, `ServedIsVisible` |
| `exec` | pass | `ExitIsReal`, `OneWriter`, and under fairness `ExecReturns` and `ListenerStops` |
| `network` | pass | two pods, either plugin, an edit of the node, a restart: `AddressUsable`, `SharedOnlyUnseen`, `DetachedUnlessMoved`, and `SearchEnds` under fairness |
| `reconnect` | pass | four starts of LXD, two of lxe: `HandledOnce`, `RestIsConnected`, `ClientMovesOn`, and under fairness `ListenerArrives` and `ClientArrives` |

The largest runs have 1.9 million (`pod_overlap`), 1.3 million (`image_overlap`),
940,000 (`network`), 860,000 (`pod_serial`) and 680,000 (`container`) distinct
states and take one to two minutes with two workers; `reconnect` has 7,000.

Bounds. Two goroutines show every pairwise overlap, and no step waits for or
counts other goroutines; the theorems drop the bound. Two runs and two faults let a container
be started, fail, and be restarted with a fault in each; two processes per pod let a late handler
of one run meet the next run. One pod is enough: an action reads and writes one pod and its
containers only, and pods share no state. Two containers show the pod's network
and its stop loop shared. Every counter is bounded in the guard of the action
that increments it (`MaxRuns`, `MaxFaults`, `MaxPid`, `MaxCrashes`, `MaxMoves`,
`MaxResizes`, `MaxRestarts`, `MaxEdits`, `MaxStarts`, `MaxExits`). Two names and two fingerprints let an alias move and two names
share an image; the theorems drop these bounds too. Objects are migrated
independently of each other, so one profile and two containers show
a migration that has done one object and not the next. The terminal is resized
twice, once before and once after the other events. In `network` the two
configurable ranges are the smallest with a host to spare (four addresses, one
of them at the end of a byte), so that a search finds exactly one address or
none at all; the bridge made beforehand has eight, so that pods can get
different ones. Four starts of LXD let three reconnecting goroutines overlap, or
a restart fall into each phase of NewClient.

`Overlap`, the fault switches and the history variables separate what lxe
promises always from what it promises to a kubelet that makes one call per pod
at a time. The violations need overlapping calls, except `pod_stop`. Where the
code does not keep what a property should say, the property names the exception,
and "Defects the properties except" below lists it.

Deadlock is checked in every run but three: the one command of `exec` is over
when it is over, LXD or lxe may end for good in `reconnect`, and in `network`
each pod name is used once.

Fairness. `FairSpec` is weak fairness of each goroutine's next step: the Go
scheduler runs every goroutine, LXD answers requests and ends operations, and
CNI invocations end within a timeout. Nothing is assumed about calls arriving,
containers ending or faults. No step waits for another goroutine, so weak
fairness is enough. In `Exec` each goroutine, the timer and the LXD client's copy
of the output are weakly fair; the command need not end, the user need not
resize. With a timeout Exec returns even then, except that op.Wait is not
subject to it: a command that closes its output and runs on keeps Exec waiting,
which is why `ExecReturns` allows it. After a timeout the channel that ends
listenResize is never closed, so `ListenerStops` is about the other ends.
In `PodNetwork` a call in progress is weakly fair: its goroutine runs, LXD
answers, and a generator that keeps drawing from the subnet draws an address that
fits some time. If none fits, FindFreeIP loops for ever and nothing cancels it;
that is why `SearchEnds` is about searches with a free host. In `Reconnect` LXD,
once started, becomes ready, and the watcher and the goroutines run; LXD and lxe
may stop and never come back.

## Proofs

TLAPS proves, for any set of callers, pods and containers and all bounds:

* `ContainerRecordProofs`: `TypeCorrect`; `StopEndsRunHolds`, with overlap and
  all faults; `SerialMarkFinal`, `SerialStartRecorded` and
  `SerialTruthfulRecord`, until calls overlap. `StopEndsRun` needs to know that
  a call that is past its stop request met a run not younger than the one it
  saw, and that a run once over does not come back. The next two need that at
  most one call is active and that its snapshot agrees with the configuration
  (`SerialInv`). The last one adds `TruthInv`: the configuration tells the truth
  except while a call has something to save, and then its snapshot does.
  `CallsAdvance`: each request lowers the number of requests its call has `Left`,
  seven at first, and nothing else moves a call.
* `PodRuntimeProofs!TypeCorrect`, `NotReadyIsFinal` and `ResultIsKept`, with
  overlap, crashes and all faults allowed. The types alone are not inductive (a
  call without a pod would store an undefined profile), so `IInv` adds `Shape`:
  a call goes through the requests of its operation in order (`Path`), the
  containers it has read belong to its pod, a pod that is being created is known
  to its creator only and no two calls create the same container (`Apart`),
  containers belong to pods that exist or existed, handlers have a container,
  and a handler about to save has a process. `ProfileChanges` then lists what a
  step can do to a profile: the ETag comparison turns every save of an old
  snapshot into a save of the current content with one field changed.
* `PodSerialProofs`, about a kubelet that makes one call per pod at a time
  (`~Overlap`), on top of `IInv`. Any number of pods still have calls and
  handlers at work side by side.
  - `StopPodStops` and `RemoveIsNeverRefused`, with crashes, slow ADDs and all
    faults. The invariant `Serial` says that a pod has one active call (`OnePerPod`), that a
    container in LXD has its profile (`Housed`), and per call, that what it has
    read of its pod is still so (`Work`): the lists of StopPodSandbox and
    RemovePodSandbox hold every container LXD has in the pod, and those that run
    are still to be stopped. It is preserved because a step changes its own pod
    only (`Frame`), and handlers and exits start no container; and `Awaited`: a
    container that is being started has the call that waits for it, or else its
    pod has no call at all. `PodCallEnds` then lists the ways the two calls can end.
  - `NetworkGivenBack`, also for working plugins (`~NetFaults`), ADDs that end
    before anything else happens (`~SlowAdd`), a sandbox lookup that does not fail
    after a deletion (`"sandbox" \notin Faulty`), and until lxe crashes: `NetInv` says that an attached pod has a container left, or a call
    that has deleted one and is about to detach the pod (`Giving`). After a crash
    between those two requests the attachment stays, and the theorem says nothing.
  - `LifecycleKept`, under the same hypotheses and without crashes: every step is a step of `PodLifecycle` or
    none. `Work` gives that nothing runs when a sandbox is stopped or deleted,
    `Housed` that a container starts and is attached in a live sandbox, `NetInv`
    that the network is gone when the sandbox is deleted.
  - `LastingRunsAttached`, for working plugins, with crashes and slow ADDs: `PidInv` ties a run to the one event that
    is about it, and says that a handler that asked for the process of a run that
    lasts got that run.
* `ImageStoreProofs`: `TypeCorrect`, `PulledNamesResolve`, `RemoveIsIdempotent`
  and `RemovedStaysGone`, for any callers, names, fingerprints and bounds.
  `Shape` gives the types and what a call at each request knows. `OwnAlias`: an
  alias that is a fingerprint stands for itself. `Handover`: a pulled name without
  alias has a pull that is about to create it, so the alias is never lost
  between the delete of one pull and the create of another. `Removals`: while no
  pull overlaps a removal, the alias it has looked up still stands for the hash
  it will delete, or is gone.
* `StartupProofs`: `TypeCorrect`, `MigrationIsIdempotent` and
  `ServesTheMigrated`. `ContainerMigrates` and `ProfileMigrates` show that the
  chain of steps equals `Reference` on every object of every schema, and leaves
  a migrated one alone. The invariant is that origins are objects some version
  makes (`Origins`), that the list Ensure works on agrees with LXD for every
  name still to do (`Listed`), and that names passed are migrated (`Passed`).
* `ExecProofs`: `ExecTypes`, `ExecExitIsReal` and `ExecOneWriter`. `DataInv`:
  the caller waits for the operation only once all output has arrived, and that is
  never taken back. `WriterInv`: only a call with a timeout cancels, only one with
  terminal sizes resizes, and no call has both. `ExecWaitsForWhatComes`, from
  `Provided`: what a goroutine waits for has come, or comes from one that does
  not wait, if the command was executed and did not time out.
* `PodNetworkProofs`: `SearchIsExact` (in a subnet of at least four addresses
  FindFreeIP offers exactly the hosts that are not leased, whatever the byte
  wrap does) and `TinySubnetsHaveNone` (in one of one or two addresses it never
  returns); `NetworkTypes`; `AddressesStayUsable`, from `AddrInv`: what a search
  has read of the bridge still holds when it saves, because no action changes
  the subnet of a bridge in use; `SharingNeedsBlindness`, from `ShareInv`: an
  address about to be saved is free of every pod that had a lease when the
  leases were read; `NetworksGivenBack`, from `DetachInv`: a pod that has not
  been moved is attached to nothing but the network chosen now.
* `ReconnectProofs`: `ReconnectTypes`, `ReconnectHandledOnce`,
  `ReconnectClientMovesOn` and `ReconnectRestIsConnected`, for any number of starts. `SpawnInv` counts
  goroutines against creations of the socket, so that their array is never
  exceeded; `CalmInv`: while LXD was not in a rush, one goroutine at most is at
  work and nothing is pending besides; `OrderInv` and `StoredInv`: later
  goroutines have later connections, and the client's is one of theirs.
  `ComingInv`: a creation of the socket, a goroutine that has to connect yet or a
  connection to the LXD that runs is always there; `LatestInv`: whoever has
  stored its client has left that one or a later one.

The constants' assumptions are stated, and named, in the modules that declare
them.

Only model-checked: the liveness properties, because fairness and ENABLED are out
of the prover's reach: `CallsReturn`, `NetworkArrives`, `ExecReturns`,
`ListenerStops`, `SearchEnds`, `ListenerArrives` and `ClientArrives`. Their safety
parts are proved: `CallsAdvance`, `LastingRunsAttached`, `ExecWaitsForWhatComes`,
`SearchIsExact` (a search that has a free host can end) and
`ReconnectRestIsConnected`. What is left to fairness and to TLC is that the
goroutines keep taking steps. All other properties of the passing runs are theorems but
`StartedHasNetwork`, the state in which `LastingRunAttached` leaves a container;
those about `PodRuntime` in `pod_serial` have the hypotheses the list above names,
which that run satisfies.

## Plan

1. Done: `ContainerRecord`, `PodRuntime`, `PodLifecycle`, `PodRefinement`, their
   runs and first proofs.
2. Done: `ImageStore`, `Startup` (migration and start-up order) and `Exec`, their
   runs and proofs.
3. Done: `PodNetwork` with `IPRange`, and `Reconnect`, their runs and proofs.
4. Done: the proofs for one call per pod at a time (`PodSerialProofs`), and the
   safety parts of the liveness properties.
5. Open: the round trip of a profile through the codec. Saving what was read is
   not the identity there: an empty list of nameservers is split into one empty
   entry. And the address that PodSandboxStatus reports after lxe was restarted
   with the other plugin.

## Defects the properties except

The code does not keep these, so that a property would be false without its
exception. Each was confirmed with TLC, by dropping the exception in the run
named; the four findings of PROJECT.json have runs of their own.

| where | what happens | exception | run |
|---|---|---|---|
| `lxf/sandbox.go:188` | with the bridge plugin RunPodSandbox saves the sandbox it has built under an ETag fetched afterwards, so that a StopPodSandbox between the two is undone | `NotReadyFinal`: not for bridge pods | `pod_overlap` |
| `lxf/sandbox.go:295` | the save of StopPodSandbox drops the cloud-init entries of a bridge address | `ResultKept`: about the saved result (`data`), not `entries` | `pod_overlap` |
| `cri/runtime_helpers.go:188` | a container started by an overlapping call after the listing runs on when StopPodSandbox reports success | `StopPodStopsAll`: one call per pod at a time | `pod_overlap` |
| `network/cni.go:269` | removing one container of a pod disconnects the others | `StartedHasNetwork`: not once a container of the pod was removed | `pod_serial` |
| `cri/runtime_helpers.go:247` | if the sandbox lookup after the deletion of a container fails, the network is never torn down; a retry does not find the container | `NoNetworkLeak`: `"sandbox" \notin Faulty` | `pod_serial` |
| `cri/runtime_helpers.go:291` | a CNI ADD that ends after the DEL of a removed container leaves its attachment | `NoNetworkLeak`: `~SlowAdd` | `pod_serial` |
| `network/lxdbridge.go:144` | two pods get the same address, if neither held a lease when the other read them | `SharedOnlyUnseen` | `network` |
| `network/cni.go:97` | a network is not given back if the choice of the network changed while the pod was attached | `DetachedUnlessMoved`: `moved` | `network` |
| `lxf/exec.go:77` | after a timeout the goroutine of listenResize stays | `ListenerStops`: `result.err # "timeout"` | `exec` |
| `lxf/exec.go:59` | the same after an ExecContainer that failed with the control handler started, if LXD's client does so | `ListenerStops`: `command # "none"` | `exec` |
| `lxf/exec.go:87` | op.Wait has no timeout: a command that closes its output and runs on outlives that of ExecSync | `ExecReturns`: `output = "closed"` | `exec` |
| `lxf/client.go:98` | a restart of LXD between NewClient's connect and its watch goes unnoticed | `missed` | `reconnect` |
| `lxf/client.go:214` | overlapping reconnects: two listeners, or the older connection is put back | `rushed` | `reconnect` |

## Not modelled

* The generated fakes (`lxdfakes`, `crifakes`, `libcnifake`): test doubles that
  count and replay calls. They are about 20,000 of the 26,700 lines of Go that
  are not tests, so the share of mapped lines is small whatever is modelled.
* Flag parsing, logging and error texts: no state of their own.
* The codec: tables of reserved keys and device options without control. Labels,
  annotations, mounts, resource limits and cloud-init data are copied and never
  decided upon by what is modelled.
* Status and list calls: they only read. The reported state of a container is
  `StateName` of `ContainerRecord`.
* PortForward: it copies bytes between two streams.
