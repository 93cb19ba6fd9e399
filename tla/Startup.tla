------------------------------- MODULE Startup -------------------------------
(***************************************************************************)
(* What lxe does before it serves the kubelet (cri/server.go NewServer,    *)
(* lxf/client.go connect): it connects to LXD and listens to its events,   *)
(* migrates the profiles and containers that earlier versions of lxe left  *)
(* (lxf/schema.go), initialises the network plugin, sets the event handler *)
(* and serves.                                                             *)
(*                                                                         *)
(* Every error on the way ends the process, and so does an event that is   *)
(* delivered before the event handler is set: lifecycleEventHandler calls  *)
(* a nil handler.  The next start begins again with whatever the last one  *)
(* has migrated.  One action is one request to LXD.                        *)
(***************************************************************************)
EXTENDS Naturals, Sequences

CONSTANTS
    Profiles,       \* names of LXD profiles
    Containers,     \* names of LXD containers
    Others          \* the profiles of a container besides its sandbox, in order

ASSUME DisjointAssumption == Profiles \cap Containers = {}
ASSUME OthersAssumption   == Others \in Seq({"default", "extra"})

VARIABLES
    there,     \* LXD: the profiles and containers it has
    object,    \* LXD: what is in each of them
    origin,    \* (not in the code) what was in it when it was made
    pc,        \* what the lxe process does next
    list,      \* the answer to GetProfiles or GetContainers, as modified
    todo       \* names in the list that the loop has not reached

vars == <<there, object, origin, pc, list, todo>>

Names == Profiles \cup Containers

-----------------------------------------------------------------------------
(* The keys a migration looks at.  schema n stands for "0.n", 0 for none.   *)
(* cri is user.cri, oldCri its predecessor user.is_cri_sandbox or           *)
(* user.is_cri_container; label is user.metadata.uid of a profile and       *)
(* user.metadata.name of a container, oldLabel is user.containerName.       *)
Times == {"none", "set", "now", "zero"}

Object == [schema : 0..5, cri : {"none", "set"}, oldCri : {"none", "set"},
           label : {"none", "set", "name"}, oldLabel : {"none", "set"},
           createdAt : Times, startedAt : Times, finishedAt : Times,
           profiles : Seq({"default", "extra", "sandbox"})]

Foreign == [schema |-> 0, cri |-> "none", oldCri |-> "none", label |-> "none",
            oldLabel |-> "none", createdAt |-> "none", startedAt |-> "none",
            finishedAt |-> "none", profiles |-> << >>]

SchemaVersion(n) == IF n \in Profiles THEN 3 ELSE 5

IsSchemaCurrent(n, o) == o.schema = SchemaVersion(n)

IsCRI(n, o) == IsSchemaCurrent(n, o) /\ o.cri = "set"

\* Ensure leaves alone what is not created by lxe.
ByLXE(o) == o.cri # "none" \/ o.oldCri # "none"

-----------------------------------------------------------------------------
ensureProfileZeroOne(p) ==
    IF p.schema = 0 THEN [p EXCEPT !.label = "name", !.schema = 1] ELSE p

ensureProfileZeroTwo(p) ==
    IF p.schema = 1 THEN [p EXCEPT !.cri = p.oldCri, !.schema = 2] ELSE p

ensureProfileZeroThree(p) ==
    IF p.schema = 2 THEN [p EXCEPT !.oldCri = "none", !.schema = 3] ELSE p

ensureContainerZeroOne(c) ==
    IF c.schema = 0 THEN [c EXCEPT !.schema = 1] ELSE c

ensureContainerZeroTwo(c) ==
    IF c.schema = 1
      THEN [c EXCEPT !.cri = c.oldCri, !.label = c.oldLabel, !.schema = 2]
      ELSE c

ensureContainerZeroThree(c) ==
    IF c.schema = 2
      THEN [c EXCEPT !.oldCri = "none", !.oldLabel = "none",
              !.createdAt = IF c.createdAt # "none" THEN c.createdAt
                            ELSE IF c.startedAt = "none" THEN "now" ELSE c.startedAt,
              !.startedAt = IF c.startedAt = "none" THEN "zero" ELSE c.startedAt,
              !.finishedAt = IF c.finishedAt = "none" THEN "zero" ELSE c.finishedAt,
              !.schema = 3]
      ELSE c

ensureContainerZeroFour(c) ==
    IF c.schema = 3 THEN [c EXCEPT !.schema = 4] ELSE c

\* Mutant: the profiles are rotated, but the schema is not raised.
ensureContainerZeroFive_Again(c) ==
    IF c.schema = 4
      THEN [c EXCEPT !.profiles = Append(Tail(c.profiles), Head(c.profiles))]
      ELSE c

\* Mutant: the object is marked with a schema that this version does not know.
ensureContainerZeroFive_Ahead(c) ==
    IF c.schema = 4
      THEN [c EXCEPT !.profiles = Append(Tail(c.profiles), Head(c.profiles)),
                     !.schema = 6]
      ELSE c

ensureContainerZeroFive(c) ==
    IF c.schema = 4
      THEN [c EXCEPT !.profiles = Append(Tail(c.profiles), Head(c.profiles)),
                     !.schema = 5]
      ELSE c

\* One object after all the steps that Ensure applies to it.
Migrated(n, o) ==
    IF n \in Profiles
      THEN ensureProfileZeroThree(ensureProfileZeroTwo(ensureProfileZeroOne(o)))
      ELSE ensureContainerZeroFive(ensureContainerZeroFour(ensureContainerZeroThree(
             ensureContainerZeroTwo(ensureContainerZeroOne(o)))))

-----------------------------------------------------------------------------
(* What earlier versions left behind: objects of each schema, and objects   *)
(* that are none of lxe's.  The old keys are there up to 0.1, may be there  *)
(* in 0.2 and are gone in 0.3; a profile has a uid from 0.1 on, a container *)
(* has all its times from 0.3 on and its sandbox in the last place in 0.5.  *)
OldProfile(v) ==
    [Foreign EXCEPT !.schema = v.schema, !.oldCri = v.old,
                    !.cri = IF v.schema >= 2 THEN "set" ELSE "none",
                    !.label = IF v.schema = 0 THEN "none" ELSE "set"]

OldContainer(v) ==
    [schema |-> v.schema, cri |-> IF v.schema >= 2 THEN "set" ELSE "none", oldCri |-> v.old,
     label |-> IF v.schema >= 2 THEN "set" ELSE "none", oldLabel |-> v.old,
     createdAt |-> v.createdAt, startedAt |-> v.startedAt, finishedAt |-> v.finishedAt,
     profiles |-> IF v.schema = 5 THEN Append(Others, "sandbox")
                                  ELSE <<"sandbox">> \o Others]

ProfileVersions ==
    {v \in [schema : 0..3, old : {"none", "set"}] :
        /\ v.schema <= 1 => v.old = "set"
        /\ v.schema >= 3 => v.old = "none"}

ContainerVersions ==
    {v \in [schema : 0..5, old : {"none", "set"}, createdAt : {"none", "set"},
            startedAt : {"none", "set"}, finishedAt : {"none", "set"}] :
        /\ v.schema <= 1 => v.old = "set"
        /\ v.schema >= 3 => /\ v.old = "none" /\ v.createdAt = "set"
                            /\ v.startedAt = "set" /\ v.finishedAt = "set"}

OldProfiles   == {OldProfile(v) : v \in ProfileVersions}
OldContainers == {OldContainer(v) : v \in ContainerVersions}

Left(n) == {Foreign} \cup IF n \in Profiles THEN OldProfiles ELSE OldContainers

\* What the service makes once it serves: objects of the current schema.
New(n) == {o \in Left(n) : IsCRI(n, o)}

NoList == [n \in Names |-> Foreign]

Init == /\ there = Names
        /\ origin \in {f \in [Names -> UNION {Left(n) : n \in Names}] :
                          \A n \in Names : f[n] \in Left(n)}
        /\ object = origin
        /\ pc = "down"
        /\ list = NoList
        /\ todo = {}

-----------------------------------------------------------------------------
(* NewClient: connect to LXD and register for its events.                   *)
Connect ==
    /\ pc = "down"
    /\ pc' = "getprofiles"
    /\ UNCHANGED <<there, object, origin, list, todo>>

\* Ensure lists the objects of one kind, and goes through those of lxe.
List(kind, next) ==
    /\ list' = object
    /\ todo' = {n \in there \cap kind : ByLXE(object[n])}
    /\ pc' = next
    /\ UNCHANGED <<there, object, origin>>

GetProfiles == pc = "getprofiles" /\ List(Profiles, "profiles")

\* Mutant: the containers are left for later.
GetContainers_Skipped ==
    /\ pc = "profiles" /\ todo = {}
    /\ pc' = "containers"
    /\ UNCHANGED <<there, object, origin, list, todo>>

GetContainers == pc = "profiles" /\ todo = {} /\ List(Containers, "containers")

\* log.Fatal, a panic or a kill.  What is in LXD stays.
Dies ==
    /\ pc' = "down"
    /\ list' = NoList
    /\ todo' = {}
    /\ UNCHANGED <<there, object, origin>>

(* The loops of Ensure: an object that some step has changed is written     *)
(* back, whole and without an ETag; if it is gone by then the start fails.  *)
UpdateOne(n) ==
    /\ pc \in {"profiles", "containers"} /\ n \in todo
    /\ LET o == Migrated(n, list[n])
       IN  \/ /\ o = list[n]
              /\ todo' = todo \ {n}
              /\ UNCHANGED <<there, object, origin, pc, list>>
           \/ /\ o # list[n] /\ n \in there
              /\ object' = [object EXCEPT ![n] = o]
              /\ todo' = todo \ {n}
              /\ UNCHANGED <<there, origin, pc, list>>
           \/ /\ o # list[n] /\ n \notin there
              /\ Dies

(* The network plugin is initialised; an error ends the process (Dies).     *)
InitPlugin ==
    /\ pc = "containers" /\ todo = {}
    /\ pc' = "plugin"
    /\ list' = NoList
    /\ UNCHANGED <<there, object, origin, todo>>

(* SetEventHandler, and then the servers are started.                       *)
Serve ==
    /\ pc = "plugin"
    /\ pc' = "serving"
    /\ UNCHANGED <<there, object, origin, list, todo>>

(* A container of the current schema starts or stops while lxe listens and  *)
(* has no handler yet: lifecycleEventHandler panics.                        *)
EventTooEarly ==
    /\ pc \in {"getprofiles", "profiles", "containers", "plugin"}
    /\ \E n \in there \cap Containers : IsCRI(n, object[n])
    /\ Dies

(* A request fails, or lxe is killed.                                       *)
Killed == pc # "down" /\ Dies

(* The service makes an object, or removes one that it can see.             *)
ServiceCreates(n) ==
    /\ pc = "serving" /\ n \notin there
    /\ \E o \in New(n) : /\ object' = [object EXCEPT ![n] = o]
                         /\ origin' = [origin EXCEPT ![n] = o]
    /\ there' = there \cup {n}
    /\ UNCHANGED <<pc, list, todo>>

Removed(n) ==
    /\ n \in there
    /\ there' = there \ {n}
    /\ object' = [object EXCEPT ![n] = Foreign]
    /\ origin' = [origin EXCEPT ![n] = Foreign]
    /\ UNCHANGED <<pc, list, todo>>

ServiceRemoves(n) == pc = "serving" /\ IsCRI(n, object[n]) /\ Removed(n)

(* Somebody else deletes an object in LXD, at any time.                     *)
AdminDeletes(n) == Removed(n)

Next ==
    \/ Connect \/ GetProfiles \/ GetContainers \/ InitPlugin \/ Serve
    \/ \E n \in Names : \/ UpdateOne(n)
                        \/ ServiceCreates(n) \/ ServiceRemoves(n) \/ AdminDeletes(n)
    \/ EventTooEarly \/ Killed

Spec == Init /\ [][Next]_vars

-----------------------------------------------------------------------------
(* What an object is to look like in the current schema, told from what it  *)
(* was at first and not step by step.                                       *)
Given(new, old) == IF new # "none" THEN new ELSE old

Reference(n, o) ==
    IF ~ByLXE(o) THEN o
    ELSE IF n \in Profiles
      THEN [o EXCEPT !.schema = 3, !.cri = "set", !.oldCri = "none",
                     !.label = Given(o.label, "name")]
    ELSE [o EXCEPT !.schema = 5, !.cri = "set", !.oldCri = "none",
             !.label = Given(o.label, o.oldLabel), !.oldLabel = "none",
             !.createdAt = Given(o.createdAt, Given(o.startedAt, "now")),
             !.startedAt = Given(o.startedAt, "zero"),
             !.finishedAt = Given(o.finishedAt, "zero"),
             !.profiles = Append(Others, "sandbox")]

-----------------------------------------------------------------------------
(* Well-formed states.                                                      *)
TypeOK ==
    /\ there \subseteq Names
    /\ object \in [Names -> Object]
    /\ origin \in [Names -> Object]
    /\ pc \in {"down", "getprofiles", "profiles", "containers", "plugin", "serving"}
    /\ list \in [Names -> Object]
    /\ todo \subseteq Names

(* MigrationWorkspace.Ensure, however often it is run and wherever a run    *)
(* breaks off: an object is as it was, or completely migrated and exactly   *)
(* once; what is not lxe's is never touched.                                *)
MigratedOnce ==
    \A n \in there : object[n] \in {origin[n], Reference(n, origin[n])}

(* NewServer migrates before it serves: once lxe serves, every object it    *)
(* ever made is one that GetSandbox, GetContainer and the lists can see.    *)
ServedIsVisible ==
    pc = "serving" => \A n \in there : ByLXE(origin[n]) => IsCRI(n, object[n])
=============================================================================
