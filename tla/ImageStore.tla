------------------------------ MODULE ImageStore ------------------------------
(***************************************************************************)
(* The image service: PullImage, RemoveImage and ImageStatus of            *)
(* cri/image.go, lxf/image.go and lxo/image.go.                            *)
(*                                                                         *)
(* LXD keeps images by fingerprint, and aliases that name them.  lxe names *)
(* an image it pulled by an alias "remote/alias" (ImageID.Tag).  LXD has   *)
(* no request that moves an alias, so ensureImageAlias deletes it and      *)
(* creates it again.  One action is one request to LXD or to the image     *)
(* server, so calls interleave between any two.                            *)
(*                                                                         *)
(* LXD is external.  An alias always has an image: deleting the image      *)
(* deletes its aliases, and an alias for a missing image is refused.       *)
(***************************************************************************)
EXTENDS Naturals

CONSTANTS
    Callers,      \* gRPC handler goroutines
    Names,        \* image names that parseImage accepts
    Unknown,      \* image names of a remote that lxe does not know
    Malformed,    \* image names that make no remote and alias
    Hashes,       \* fingerprints; a caller may give one in place of a name
    NoHash,       \* no fingerprint
    MaxMoves,     \* bound: how often the image server changes
    MaxFaults     \* bound: failing requests, lost replies and deaths of lxe

ASSUME ImagesAssumption == /\ Names \cap Hashes = {}
                           /\ NoHash \notin Names \cup Hashes
                           /\ (Unknown \cup Malformed) \cap (Names \cup Hashes) = {}
ASSUME BoundsAssumption == MaxMoves \in Nat /\ MaxFaults \in Nat

VARIABLES
    remote,    \* the image server: the fingerprint each name stands for
    images,    \* LXD: the images it has
    alias,     \* LXD: the fingerprint each alias stands for
    call,      \* per goroutine: the call it handles
    pulled,    \* names whose last completed pull or removal left them pulled
    moves,     \* number of changes of the image server so far
    faults     \* number of faults so far

vars == <<remote, images, alias, call, pulled, moves, faults>>

Refs    == Names \cup Hashes
Refused == Unknown \cup Malformed
Target  == Hashes \cup {NoHash}

\* A goroutine: what it was asked for (ref), the request it makes next (pc),
\* and the fingerprint it works with.  (pull and fault are not in the code:
\* they remember whether a pull, or a failing request, met the call.)
Call == [op : {"PullImage", "RemoveImage", "ImageStatus", "none"},
         pc : {"idle", "resolve", "copy", "aliases", "deletealias", "createalias",
               "getalias", "gethash", "delete", "getimage"},
         ref : Refs \cup Refused \cup {NoHash}, hash : Target,
         res : {"none", "ok", "empty", "err"}, pull : BOOLEAN, fault : BOOLEAN]

NoCall == [op |-> "none", pc |-> "idle", ref |-> NoHash, hash |-> NoHash,
           res |-> "none", pull |-> FALSE, fault |-> FALSE]

Active(k)     == call[k].pc # "idle"
Pulling(k, r) == call[k].op = "PullImage" /\ Active(k) /\ call[k].ref = r

Init == /\ remote \in [Names -> Target]
        /\ images = {}
        /\ alias = [r \in Refs |-> NoHash]
        /\ call = [k \in Callers |-> NoCall]
        /\ pulled = [r \in Refs |-> FALSE]
        /\ moves = 0
        /\ faults = 0

-----------------------------------------------------------------------------
Set(k, r) == call' = [call EXCEPT ![k] = r]

Goto(k, pc) == Set(k, [call[k] EXCEPT !.pc = pc])

Return(k, res) == Set(k, [NoCall EXCEPT !.op = call[k].op, !.res = res])

\* Mutant: the name is used as a fingerprint when the image server has no alias.
Dereference_Unchecked(ref) ==
    IF ref \in Names /\ remote[ref] # NoHash THEN remote[ref] ELSE ref

\* What dereferenceAlias and GetImage find on the image server.
Dereference(ref) == IF ref \in Names THEN remote[ref] ELSE ref

(* A call arrives: parseImage makes an ImageID of the name it carries.      *)
Begin(k, op, ref) ==
    /\ ~Active(k)
    /\ call' = [j \in Callers |->
          IF j = k
            THEN [NoCall EXCEPT !.op = op, !.ref = ref,
                    !.pc = IF op = "PullImage" THEN "resolve" ELSE "getalias",
                    !.pull = \E i \in Callers : call[i].op = "PullImage" /\ Active(i)]
            ELSE [call[j] EXCEPT !.pull = @ \/ (Active(j) /\ op = "PullImage")]]
    /\ UNCHANGED <<remote, images, alias, pulled, moves, faults>>

(* parseImage makes none of it: the call ends before any request.  Only     *)
(* ImageStatus takes an unknown remote for an image that is not there.      *)
Refuse(k, op, ref) ==
    /\ ~Active(k)
    /\ Set(k, [NoCall EXCEPT !.op = op, !.ref = ref,
                 !.res = IF op = "ImageStatus" /\ ref \in Unknown THEN "empty" ELSE "err"])
    /\ UNCHANGED <<remote, images, alias, pulled, moves, faults>>

-----------------------------------------------------------------------------
(* PullImage: the fingerprint of the image on the image server.             *)
Resolve(k) ==
    /\ call[k].pc = "resolve"
    /\ LET h == Dereference(call[k].ref)
       IN  IF h = NoHash
             THEN Return(k, "err")
             ELSE Set(k, [call[k] EXCEPT !.hash = h, !.pc = "copy"])
    /\ UNCHANGED <<remote, images, alias, pulled, moves, faults>>

(* lxo.CopyImage, waited for.  LXD keeps one image per fingerprint.         *)
CopyImage(k) ==
    /\ call[k].pc = "copy"
    /\ images' = images \cup {call[k].hash}
    /\ Goto(k, "aliases")
    /\ UNCHANGED <<remote, alias, pulled, moves, faults>>

(* ensureImageAlias looks at the aliases there are.                         *)
GetImageAliases(k) ==
    /\ call[k].pc = "aliases"
    /\ \/ /\ alias[call[k].ref] = call[k].hash
          /\ Return(k, "ok")
          /\ pulled' = [pulled EXCEPT ![call[k].ref] = TRUE]
       \/ /\ alias[call[k].ref] # call[k].hash
          /\ Goto(k, IF alias[call[k].ref] = NoHash THEN "createalias" ELSE "deletealias")
          /\ UNCHANGED pulled
    /\ UNCHANGED <<remote, images, alias, moves, faults>>

\* Mutant: the alias counts as correct once the old one is gone.
DeleteImageAlias_Done(k) ==
    /\ call[k].pc = "deletealias"
    /\ alias' = [alias EXCEPT ![call[k].ref] = NoHash]
    /\ Return(k, "ok")
    /\ UNCHANGED <<remote, images, pulled, moves, faults>>

(* The alias that is in the way is deleted.  Somebody else may have done it. *)
DeleteImageAlias(k) ==
    /\ call[k].pc = "deletealias"
    /\ IF alias[call[k].ref] = NoHash
         THEN Return(k, "err") /\ UNCHANGED alias
         ELSE /\ alias' = [alias EXCEPT ![call[k].ref] = NoHash]
              /\ Goto(k, "createalias")
    /\ UNCHANGED <<remote, images, pulled, moves, faults>>

(* The alias is created, unless there is one again or the image is gone.    *)
CreateImageAlias(k) ==
    /\ call[k].pc = "createalias"
    /\ LET r == call[k].ref
           h == call[k].hash
       IN  \/ /\ alias[r] = NoHash /\ h \in images
              /\ alias' = [alias EXCEPT ![r] = h]
              /\ pulled' = [pulled EXCEPT ![r] = TRUE]
              /\ Return(k, "ok")
           \/ /\ alias[r] # NoHash
              /\ Return(k, "err")
              /\ UNCHANGED <<alias, pulled>>
           \/ /\ alias[r] = NoHash /\ h \notin images
              /\ pulled' = [pulled EXCEPT ![r] = FALSE]
              /\ Return(k, "err")
              /\ UNCHANGED alias
    /\ UNCHANGED <<remote, images, moves, faults>>

-----------------------------------------------------------------------------
Found(k, h) == Set(k, [call[k] EXCEPT !.hash = h,
                  !.pc = IF call[k].op = "RemoveImage" THEN "delete" ELSE "getimage"])

\* An image that is not there is removed already; ImageStatus has no answer.
NotFound(k) == Return(k, IF call[k].op = "RemoveImage" THEN "ok" ELSE "empty")

(* ImageID.Hash: the alias first ...                                        *)
GetImageAlias(k) ==
    /\ call[k].pc = "getalias"
    /\ IF alias[call[k].ref] # NoHash
         THEN Found(k, alias[call[k].ref])
         ELSE Goto(k, "gethash")
    /\ UNCHANGED <<remote, images, alias, pulled, moves, faults>>

\* Mutant: a name without alias is taken as unknown, though it may be a hash.
HashOfImage_Never(k) ==
    /\ call[k].pc = "gethash"
    /\ NotFound(k)
    /\ UNCHANGED <<remote, images, alias, pulled, moves, faults>>

(* ... and then the name might still be a fingerprint.                      *)
HashOfImage(k) ==
    /\ call[k].pc = "gethash"
    /\ IF call[k].ref \in images THEN Found(k, call[k].ref) ELSE NotFound(k)
    /\ UNCHANGED <<remote, images, alias, pulled, moves, faults>>

\* LXD deletes images, with their aliases.
Without(H) ==
    /\ images' = images \ H
    /\ alias' = [r \in Refs |-> IF alias[r] \in H THEN NoHash ELSE alias[r]]
    /\ pulled' = [r \in Refs |-> pulled[r] /\ alias[r] \notin H]

\* Mutant: an image that somebody else has removed is an error.
DeleteImage_Strict(k) ==
    /\ call[k].pc = "delete"
    /\ Return(k, IF call[k].hash \in images THEN "ok" ELSE "err")
    /\ Without({call[k].hash})
    /\ UNCHANGED <<remote, moves, faults>>

(* RemoveImage deletes the image it found; "not found" is a success.        *)
DeleteImage(k) ==
    /\ call[k].pc = "delete"
    /\ Return(k, "ok")
    /\ Without({call[k].hash})
    /\ UNCHANGED <<remote, moves, faults>>

(* ImageStatus reads the image it found.  lxf wraps the "not found" of LXD, *)
(* and IsErrNotFound knows only the bare one.                               *)
GetImage(k) ==
    /\ call[k].pc = "getimage"
    /\ Return(k, IF call[k].hash \in images THEN "ok" ELSE "err")
    /\ UNCHANGED <<remote, images, alias, pulled, moves, faults>>

-----------------------------------------------------------------------------
(* A request fails, and with it the call.  It may have had its effect when  *)
(* only the reply is late (lxdHTTPTimeout).                                 *)
Fail(k) ==
    /\ faults < MaxFaults
    /\ Active(k)
    /\ faults' = faults + 1
    /\ Set(k, [NoCall EXCEPT !.op = call[k].op, !.res = "err", !.fault = TRUE])
    /\ LET r == call[k].ref
           h == call[k].hash
       IN  \/ /\ pulled' = [pulled EXCEPT ![r] = @ /\ call[k].pc # "createalias"]
              /\ UNCHANGED <<images, alias>>
           \/ /\ call[k].pc = "copy"
              /\ images' = images \cup {h}
              /\ UNCHANGED <<alias, pulled>>
           \/ /\ call[k].pc = "deletealias"
              /\ alias' = [alias EXCEPT ![r] = NoHash]
              /\ pulled' = [pulled EXCEPT ![r] = FALSE]
              /\ UNCHANGED images
           \/ /\ call[k].pc = "createalias" /\ alias[r] = NoHash /\ h \in images
              /\ alias' = [alias EXCEPT ![r] = h]
              /\ UNCHANGED <<images, pulled>>
           \/ call[k].pc = "delete" /\ Without({h})
    /\ UNCHANGED <<remote, moves>>

(* lxe dies.  LXD completes the copies and deletions it has begun.          *)
Crash ==
    /\ faults < MaxFaults
    /\ faults' = faults + 1
    /\ \E K \in SUBSET {k \in Callers : call[k].pc \in {"copy", "delete"}} :
         LET copied  == {call[k].hash : k \in {j \in K : call[j].pc = "copy"}}
             deleted == {call[k].hash : k \in {j \in K : call[j].pc = "delete"}}
         IN  /\ images' = (images \cup copied) \ deleted
             /\ alias' = [r \in Refs |-> IF alias[r] \in deleted THEN NoHash ELSE alias[r]]
             /\ pulled' = [r \in Refs |->
                   /\ pulled[r] /\ alias[r] \notin deleted
                   /\ \A k \in Callers : ~(Pulling(k, r) /\ call[k].pc = "createalias")]
    /\ call' = [k \in Callers |-> NoCall]
    /\ UNCHANGED <<remote, moves>>

(* The image server publishes another image under a name, or withdraws it.  *)
RemoteChanges(n, h) ==
    /\ moves < MaxMoves
    /\ h # remote[n]
    /\ remote' = [remote EXCEPT ![n] = h]
    /\ moves' = moves + 1
    /\ UNCHANGED <<images, alias, call, pulled, faults>>

Step(k) ==
    \/ Resolve(k) \/ CopyImage(k) \/ GetImageAliases(k)
    \/ DeleteImageAlias(k) \/ CreateImageAlias(k)
    \/ GetImageAlias(k) \/ HashOfImage(k) \/ DeleteImage(k) \/ GetImage(k)

Next ==
    \/ \E k \in Callers : Step(k) \/ Fail(k)
    \/ \E k \in Callers, r \in Refs, op \in {"PullImage", "RemoveImage", "ImageStatus"} :
         Begin(k, op, r)
    \/ \E k \in Callers, r \in Refused, op \in {"PullImage", "RemoveImage", "ImageStatus"} :
         Refuse(k, op, r)
    \/ Crash
    \/ \E n \in Names, h \in Target : RemoteChanges(n, h)

Spec == Init /\ [][Next]_vars

-----------------------------------------------------------------------------
(* Well-formed states.  Every alias has its image.                          *)
TypeOK ==
    /\ remote \in [Names -> Target]
    /\ images \subseteq Hashes
    /\ alias \in [Refs -> images \cup {NoHash}]
    /\ call \in [Callers -> Call]
    /\ pulled \in [Refs -> BOOLEAN]
    /\ moves \in Nat
    /\ faults \in Nat

(* ensureImageAlias, with any number of pulls of the same name that delete  *)
(* and create its alias under each other: when they have all returned, a    *)
(* name that was pulled still has its image, unless that was removed or a   *)
(* pull was cut short by a fault or by the removal of its image.            *)
PulledNameResolves ==
    \A r \in Refs :
        pulled[r] /\ (\A k \in Callers : ~Pulling(k, r)) => alias[r] # NoHash

(* RemoveImage: when a call that no pull overlapped reports success, the    *)
(* name or fingerprint it was given is unknown, under an alias and as a     *)
(* fingerprint, whatever other removals do at the same time.                *)
RemovedIsGone ==
    [][\A k \in Callers :
         /\ call[k].op = "RemoveImage" /\ Active(k)
         /\ call'[k].pc = "idle" /\ call'[k].res = "ok" /\ ~call[k].pull
         => alias'[call[k].ref] = NoHash /\ call[k].ref \notin images']_vars

(* RemoveImage "must not return an error if the image has already been      *)
(* removed" (cri/image.go:124): the removal of a name that parseImage       *)
(* accepts fails only when a request to LXD failed, although other calls    *)
(* may remove the image between its lookup and its deletion.  (A name of an *)
(* unknown remote is an error, image.go:60, which GetImage takes for "not   *)
(* found", image.go:159.)                                                   *)
RemoveIdempotent ==
    \A k \in Callers :
        call[k].op = "RemoveImage" /\ call[k].res = "err" =>
            call[k].fault \/ call[k].ref \in Refused

(* ImageStatus: "if the image is not present, returns a response with       *)
(* ImageStatusResponse.Image set to nil" (cri/image.go:75), not an error,   *)
(* for every well-formed name.                                              *)
StatusAbsentIsEmpty ==
    \A k \in Callers :
        call[k].op = "ImageStatus" /\ call[k].res = "err" =>
            call[k].fault \/ call[k].ref \in Malformed
=============================================================================
