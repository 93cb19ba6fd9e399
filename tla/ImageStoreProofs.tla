--------------------------- MODULE ImageStoreProofs ---------------------------
(* Proofs about ImageStore, for any callers, names, fingerprints and bounds. *)
EXTENDS ImageStore, TLAPS

(* The requests of a pull, and the requests with a fingerprint in hand.     *)
PullPcs == {"resolve", "copy", "aliases", "deletealias", "createalias"}
HashPcs == {"copy", "aliases", "deletealias", "createalias", "delete", "getimage"}

(* A call makes the requests of its operation, and knows what they need.    *)
Path(c) ==
    /\ c.pc # "idle" => c.ref \in Refs
    /\ c.pc \in PullPcs => c.op = "PullImage"
    /\ c.op = "PullImage" => c.pc \in PullPcs \cup {"idle"}
    /\ c.pc \in {"getalias", "gethash"} => c.op \in {"RemoveImage", "ImageStatus"}
    /\ c.pc = "delete" => c.op = "RemoveImage"
    /\ c.pc = "getimage" => c.op = "ImageStatus"
    /\ c.pc \in HashPcs => c.hash \in Hashes
    /\ c.pc \in PullPcs \cap HashPcs /\ c.ref \in Hashes => c.hash = c.ref

Shape == \A k \in Callers : Path(call[k])

(* An alias that looks like a fingerprint stands for that fingerprint.      *)
OwnAlias == \A h \in Hashes : alias[h] \in {h, NoHash}

(* A pulled name without an alias is between deletealias and createalias.   *)
Handover ==
    \A r \in Refs : pulled[r] /\ alias[r] = NoHash
        => \E k \in Callers : call[k].pc = "createalias" /\ call[k].ref = r

(* A removal that no pull overlaps: what it found out is still true.        *)
Alone(c) ==
    /\ \A j \in Callers : call[j].pc \notin PullPcs
    /\ c.pc = "gethash" => alias[c.ref] = NoHash
    /\ c.pc = "delete" => /\ alias[c.ref] \in {c.hash, NoHash}
                          /\ c.ref \in images => c.hash = c.ref

Removals == \A k \in Callers :
    call[k].op = "RemoveImage" /\ Active(k) /\ ~call[k].pull => Alone(call[k])

(* The inductive invariant.                                                 *)
IInv == TypeOK /\ Shape /\ OwnAlias /\ Handover /\ Removals /\ RemoveIdempotent

-----------------------------------------------------------------------------
(* What a step does to the call of its goroutine, and to the others.        *)
Others(k) == \A j \in Callers \ {k} : call'[j] = call[j]

LEMMA SetFacts ==
    ASSUME TypeOK, NEW k \in Callers, NEW r, Set(k, r)
    PROVE  /\ call'[k] = r /\ Others(k)
           /\ r \in Call => call' \in [Callers -> Call]
  BY DEF TypeOK, Set, Others

LEMMA GotoFacts ==
    ASSUME TypeOK, NEW k \in Callers, NEW pc, Goto(k, pc)
    PROVE  /\ Others(k)
           /\ call'[k] = [call[k] EXCEPT !.pc = pc]
           /\ pc \in PullPcs \cup {"gethash"} => call' \in [Callers -> Call]
<1> DEFINE new == [call[k] EXCEPT !.pc = pc]
<1>1. Set(k, new)
  BY DEF Goto
<1>2. pc \in PullPcs \cup {"gethash"} => new \in Call
  BY DEF TypeOK, Call, PullPcs
<1> HIDE DEF new
<1>3. /\ call'[k] = new /\ Others(k)
      /\ pc \in PullPcs \cup {"gethash"} => call' \in [Callers -> Call]
  BY <1>1, <1>2, SetFacts
<1> QED BY <1>3 DEF new

LEMMA ReturnFacts ==
    ASSUME TypeOK, NEW k \in Callers, NEW res \in {"ok", "empty", "err"}, Return(k, res)
    PROVE  /\ Others(k)
           /\ call'[k] = [NoCall EXCEPT !.op = call[k].op, !.res = res]
           /\ call' \in [Callers -> Call]
<1> DEFINE new == [NoCall EXCEPT !.op = call[k].op, !.res = res]
<1>1. Set(k, new)
  BY DEF Return
<1>2. new \in Call
  BY DEF TypeOK, Call, NoCall, Target
<1> HIDE DEF new
<1>3. call'[k] = new /\ Others(k) /\ call' \in [Callers -> Call]
  BY <1>1, <1>2, SetFacts
<1> QED BY <1>3 DEF new

(* A call is a record: its fields can be read off.                          *)
LEMMA CallFields ==
    ASSUME TypeOK, NEW k \in Callers
    PROVE  /\ call[k] \in Call
           /\ call[k] = [op |-> call[k].op, pc |-> call[k].pc, ref |-> call[k].ref,
                         hash |-> call[k].hash, res |-> call[k].res,
                         pull |-> call[k].pull, fault |-> call[k].fault]
  BY DEF TypeOK, Call

(* What goroutine k has to keep to when it takes a step: with it, the parts *)
(* of the invariant about calls are kept.                                   *)
Keeps(k) ==
    /\ Others(k)
    /\ Path(call'[k])
    /\ call'[k].pc \in PullPcs => call[k].pc \in PullPcs
    /\ call[k].pc \in PullPcs \/ /\ \A r \in Refs : alias'[r] \in {alias[r], NoHash}
                                 /\ images' \subseteq images
    /\ call'[k].op = "RemoveImage" =>
         /\ call'[k].res = "err" => call'[k].fault \/ call'[k].ref \in Refused
         /\ call'[k].pc # "idle" => /\ call[k].op = "RemoveImage" /\ call[k].pc # "idle"
                                    /\ call'[k].pull = call[k].pull
         /\ call'[k].pc = "gethash" => alias'[call'[k].ref] = NoHash
         /\ call'[k].pc = "delete" => /\ alias'[call'[k].ref] \in {call'[k].hash, NoHash}
                                      /\ call'[k].ref \in images' => call'[k].hash = call'[k].ref

LEMMA KeepsCalls ==
    ASSUME IInv, NEW k \in Callers, Keeps(k)
    PROVE  Shape' /\ Removals' /\ RemoveIdempotent'
<1>1. Shape'
  <2> SUFFICES ASSUME NEW j \in Callers PROVE Path(call'[j])
    BY DEF Shape
  <2> QED BY DEF IInv, Shape, Keeps, Others
<1>2. RemoveIdempotent'
  <2> SUFFICES ASSUME NEW j \in Callers, call'[j].op = "RemoveImage", call'[j].res = "err"
               PROVE  call'[j].fault \/ call'[j].ref \in Refused
    BY DEF RemoveIdempotent
  <2> QED BY DEF IInv, RemoveIdempotent, Keeps, Others
<1>3. Removals'
  <2> SUFFICES ASSUME NEW j \in Callers,
                      call'[j].op = "RemoveImage", call'[j].pc # "idle", ~call'[j].pull
               PROVE  /\ \A i \in Callers : call'[i].pc \notin PullPcs
                      /\ call'[j].pc = "gethash" => alias'[call'[j].ref] = NoHash
                      /\ call'[j].pc = "delete" =>
                           /\ alias'[call'[j].ref] \in {call'[j].hash, NoHash}
                           /\ call'[j].ref \in images' => call'[j].hash = call'[j].ref
    BY DEF Removals, Alone, Active
  <2>1. call[j].op = "RemoveImage" /\ call[j].pc # "idle" /\ ~call[j].pull
    BY DEF Keeps, Others
  <2>2. Alone(call[j])
    BY <2>1 DEF IInv, Removals, Active
  <2>3. \A i \in Callers : call'[i].pc \notin PullPcs
    BY <2>2 DEF Alone, Keeps, Others
  <2>4. call[k].pc \notin PullPcs
    BY <2>2 DEF Alone
  <2>5. call[j].ref \in Refs
    BY <2>1 DEF IInv, Shape, Path
  <2>6. CASE j = k
    BY <2>3, <2>6 DEF Keeps
  <2>7. CASE j # k
    <3>1. call'[j] = call[j]
      BY <2>7 DEF Keeps, Others
    <3> QED BY <2>2, <2>3, <2>4, <2>5, <3>1 DEF Alone, Keeps
  <2> QED BY <2>6, <2>7
<1> QED BY <1>1, <1>2, <1>3

(* A step that leaves LXD alone, by a call that is not in the handover.     *)
LEMMA ReadOnly ==
    ASSUME IInv, NEW k \in Callers, Keeps(k), call' \in [Callers -> Call],
           call[k].pc # "createalias",
           UNCHANGED <<remote, images, alias, pulled, moves, faults>>
    PROVE  IInv'
<1>1. TypeOK' /\ OwnAlias'
  BY DEF IInv, TypeOK, OwnAlias
<1>2. Handover'
  BY DEF IInv, Handover, Keeps, Others
<1> QED BY <1>1, <1>2, KeepsCalls DEF IInv

LEMMA ReturnKeeps ==
    ASSUME IInv, NEW k \in Callers, NEW res \in {"ok", "empty", "err"}, Return(k, res),
           res = "err" => call[k].op # "RemoveImage",
           call[k].pc \in PullPcs \/ /\ \A r \in Refs : alias'[r] \in {alias[r], NoHash}
                                     /\ images' \subseteq images
    PROVE  Keeps(k) /\ call' \in [Callers -> Call]
<1>1. /\ Others(k) /\ call' \in [Callers -> Call]
      /\ call'[k] = [NoCall EXCEPT !.op = call[k].op, !.res = res]
  BY ReturnFacts DEF IInv
<1>2. /\ call'[k].pc = "idle" /\ call'[k].op = call[k].op /\ call'[k].res = res
      /\ ~call'[k].fault
  BY <1>1 DEF NoCall
<1> QED BY <1>1, <1>2 DEF Keeps, Path, PullPcs, HashPcs

LEMMA BeginInv ==
    ASSUME IInv, NEW k \in Callers, NEW r \in Refs,
           NEW op \in {"PullImage", "RemoveImage", "ImageStatus"}, Begin(k, op, r)
    PROVE  IInv'
<1> DEFINE pc0 == IF op = "PullImage" THEN "resolve" ELSE "getalias"
           p0  == \E i \in Callers : call[i].op = "PullImage" /\ Active(i)
           new == [NoCall EXCEPT !.op = op, !.ref = r, !.pc = pc0, !.pull = p0]
           old(j) == [call[j] EXCEPT !.pull = @ \/ (Active(j) /\ op = "PullImage")]
<1>1. /\ call'[k] = new
      /\ \A j \in Callers \ {k} : call'[j] = old(j)
      /\ call' = [j \in Callers |-> IF j = k THEN new ELSE old(j)]
  BY DEF Begin
<1>2. new \in Call
  <2>1. p0 \in BOOLEAN
    OBVIOUS
  <2> HIDE DEF p0
  <2> QED BY <2>1 DEF Call, NoCall, Target
<1>3. \A j \in Callers : old(j) \in Call
  <2> SUFFICES ASSUME NEW j \in Callers PROVE old(j) \in Call
    OBVIOUS
  <2> DEFINE p1 == call[j].pull \/ (Active(j) /\ op = "PullImage")
  <2>1. p1 \in BOOLEAN
    OBVIOUS
  <2>2. old(j) = [call[j] EXCEPT !.pull = p1]
    BY CallFields DEF IInv
  <2>3. call[j] \in Call
    BY DEF IInv, TypeOK
  <2> HIDE DEF p1, old
  <2> QED BY <2>1, <2>2, <2>3 DEF Call
<1>4. /\ call'[k].op = op /\ call'[k].ref = r /\ call'[k].pc = pc0
      /\ call'[k].pull = p0 /\ call'[k].res = "none"
  BY <1>1 DEF NoCall
<1>5. ASSUME NEW j \in Callers, j # k
      PROVE  /\ call'[j].op = call[j].op /\ call'[j].ref = call[j].ref
             /\ call'[j].pc = call[j].pc /\ call'[j].hash = call[j].hash
             /\ call'[j].res = call[j].res /\ call'[j].fault = call[j].fault
             /\ ~call'[j].pull => /\ ~call[j].pull
                                  /\ call[j].pc # "idle" => op # "PullImage"
  <2> DEFINE p1 == call[j].pull \/ (Active(j) /\ op = "PullImage")
  <2>1. call'[j] = [call[j] EXCEPT !.pull = p1]
    BY <1>1, <1>5, CallFields DEF IInv
  <2>2. call[j] \in Call
    BY CallFields DEF IInv
  <2>3. p1 = (call[j].pull \/ (Active(j) /\ op = "PullImage"))
    OBVIOUS
  <2> HIDE DEF p1
  <2>4. /\ call'[j].op = call[j].op /\ call'[j].ref = call[j].ref
        /\ call'[j].pc = call[j].pc /\ call'[j].hash = call[j].hash
        /\ call'[j].res = call[j].res /\ call'[j].fault = call[j].fault
        /\ call'[j].pull = p1
    BY <2>1, <2>2 DEF Call
  <2> QED BY <2>3, <2>4 DEF Active
<1> HIDE DEF new, old
<1>6. call' \in [Callers -> Call]
  BY <1>1, <1>2, <1>3
<1>7. TypeOK' /\ OwnAlias'
  BY <1>6 DEF Begin, IInv, TypeOK, OwnAlias
<1>8. Shape'
  <2> SUFFICES ASSUME NEW j \in Callers PROVE Path(call'[j])
    BY DEF Shape
  <2>1. CASE j = k
    BY <1>4, <2>1 DEF Path, PullPcs, HashPcs
  <2>2. CASE j # k
    BY <1>5, <2>2 DEF IInv, Shape, Path
  <2> QED BY <2>1, <2>2
<1>9. Handover'
  <2>1. call[k].pc = "idle"
    BY DEF Begin, Active
  <2> SUFFICES ASSUME NEW q \in Refs, pulled'[q], alias'[q] = NoHash
               PROVE  \E j \in Callers : call'[j].pc = "createalias" /\ call'[j].ref = q
    BY DEF Handover
  <2>2. PICK j \in Callers : call[j].pc = "createalias" /\ call[j].ref = q
    BY DEF Begin, IInv, Handover
  <2>3. j # k
    BY <2>1, <2>2
  <2> QED BY <1>5, <2>2, <2>3
<1>10. RemoveIdempotent'
  <2> SUFFICES ASSUME NEW j \in Callers, call'[j].op = "RemoveImage", call'[j].res = "err"
               PROVE  call'[j].fault \/ call'[j].ref \in Refused
    BY DEF RemoveIdempotent
  <2> QED BY <1>4, <1>5 DEF IInv, RemoveIdempotent
<1>11. Removals'
  <2> SUFFICES ASSUME NEW j \in Callers,
                      call'[j].op = "RemoveImage", call'[j].pc # "idle", ~call'[j].pull
               PROVE  /\ \A i \in Callers : call'[i].pc \notin PullPcs
                      /\ call'[j].pc = "gethash" => alias'[call'[j].ref] = NoHash
                      /\ call'[j].pc = "delete" =>
                           /\ alias'[call'[j].ref] \in {call'[j].hash, NoHash}
                           /\ call'[j].ref \in images' => call'[j].hash = call'[j].ref
    BY DEF Removals, Alone, Active
  <2>1. CASE j = k
    <3>1. op = "RemoveImage" /\ call'[k].pc = "getalias" /\ ~p0
      BY <1>4, <2>1
    <3>2. \A i \in Callers : call[i].pc \notin PullPcs
      BY <3>1 DEF IInv, Shape, Path, PullPcs, Active
    <3> QED BY <1>4, <1>5, <2>1, <3>1, <3>2 DEF PullPcs
  <2>2. CASE j # k
    <3>1. /\ call[j].op = "RemoveImage" /\ call[j].pc # "idle" /\ ~call[j].pull
          /\ op # "PullImage"
      BY <1>5, <2>2
    <3>2. Alone(call[j])
      BY <3>1 DEF IInv, Removals, Active
    <3>3. call'[k].pc \notin PullPcs
      BY <1>4, <3>1 DEF PullPcs
    <3>4. \A i \in Callers : call'[i].pc \notin PullPcs
      BY <1>5, <3>2, <3>3 DEF Alone
    <3>5. alias' = alias /\ images' = images
      BY DEF Begin
    <3>6. /\ call'[j].pc = call[j].pc /\ call'[j].ref = call[j].ref
          /\ call'[j].hash = call[j].hash
      BY <1>5, <2>2
    <3> QED BY <3>2, <3>4, <3>5, <3>6 DEF Alone
  <2> QED BY <2>1, <2>2
<1> QED BY <1>7, <1>8, <1>9, <1>10, <1>11 DEF IInv

(* A call that parseImage ends.                                             *)
LEMMA RefuseInv ==
    ASSUME IInv, NEW k \in Callers, NEW r \in Refused,
           NEW op \in {"PullImage", "RemoveImage", "ImageStatus"}, Refuse(k, op, r)
    PROVE  IInv'
<1> DEFINE res == IF op = "ImageStatus" /\ r \in Unknown THEN "empty" ELSE "err"
           new == [NoCall EXCEPT !.op = op, !.ref = r, !.res = res]
<1>1. new \in Call
  BY DEF Call, NoCall, Target
<1>2. /\ new.pc = "idle" /\ new.op = op /\ new.ref = r
  BY DEF NoCall
<1>3. Set(k, new) /\ call[k].pc = "idle"
  BY DEF Refuse, Active
<1> HIDE DEF new
<1>4. call'[k] = new /\ Others(k) /\ call' \in [Callers -> Call]
  BY <1>1, <1>3, SetFacts DEF IInv
<1>5. UNCHANGED <<remote, images, alias, pulled, moves, faults>>
  BY DEF Refuse
<1>6. Keeps(k)
  BY <1>2, <1>3, <1>4, <1>5 DEF Keeps, Path, PullPcs, HashPcs
<1> QED BY <1>3, <1>4, <1>5, <1>6, ReadOnly

(* The requests that only read.                                             *)
LEMMA ReadersInv ==
    ASSUME IInv, NEW k \in Callers,
           Resolve(k) \/ GetImageAlias(k) \/ HashOfImage(k) \/ GetImage(k)
    PROVE  IInv'
<1> DEFINE c == call[k]
           same == UNCHANGED <<remote, images, alias, pulled, moves, faults>>
<1>1. TypeOK /\ c \in Call /\ Path(c) /\ same /\ c.pc # "createalias"
  BY DEF IInv, TypeOK, Shape, Resolve, GetImageAlias, HashOfImage, GetImage
<1>2. \A r \in Refs : alias'[r] \in {alias[r], NoHash}
  BY <1>1
<1>3. ASSUME NEW res \in {"ok", "empty", "err"}, Return(k, res),
             res = "err" => c.op # "RemoveImage"
      PROVE  IInv'
  BY <1>1, <1>2, <1>3, ReturnKeeps, ReadOnly
<1>4. ASSUME NEW h \in Hashes, Found(k, h), c.pc \in {"getalias", "gethash"},
             alias[c.ref] \in {h, NoHash}, c.ref \in images => h = c.ref
      PROVE  IInv'
  <2> DEFINE pc1 == IF c.op = "RemoveImage" THEN "delete" ELSE "getimage"
             new == [c EXCEPT !.hash = h, !.pc = pc1]
  <2>1. new \in Call
    BY <1>1 DEF Call, Target
  <2>2. call'[k] = new /\ Others(k) /\ call' \in [Callers -> Call]
    BY <1>1, <1>4, <2>1, SetFacts DEF Found
  <2>3. /\ new.op = c.op /\ new.ref = c.ref /\ new.pc = pc1 /\ new.hash = h
        /\ new.pull = c.pull /\ new.res = c.res /\ new.fault = c.fault
    BY <1>1 DEF Call
  <2>4. c.op = "RemoveImage" => (c.res = "err" => c.fault \/ c.ref \in Refused)
    BY DEF IInv, RemoveIdempotent
  <2> HIDE DEF new
  <2>5. Path(new)
    BY <1>1, <1>4, <2>3 DEF Path, PullPcs, HashPcs
  <2>6. Keeps(k)
    BY <1>1, <1>2, <1>4, <2>2, <2>3, <2>4, <2>5 DEF Keeps, PullPcs
  <2> QED BY <1>1, <2>2, <2>6, ReadOnly
<1>5. CASE Resolve(k)
  <2> DEFINE h   == Dereference(c.ref)
             new == [c EXCEPT !.hash = h, !.pc = "copy"]
  <2>1. c.pc = "resolve" /\ c.op = "PullImage" /\ c.ref \in Refs
    BY <1>1, <1>5 DEF Resolve, Path, PullPcs
  <2>2. CASE h = NoHash
    <3>1. Return(k, "err")
      BY <1>5, <2>2 DEF Resolve
    <3> QED BY <1>3, <2>1, <3>1
  <2>3. CASE h # NoHash
    <3>1. h \in Hashes /\ (c.ref \in Hashes => h = c.ref)
      BY <1>1, <2>1, <2>3, ImagesAssumption DEF Dereference, Refs, Target, TypeOK
    <3> HIDE DEF h
    <3>2. Set(k, new)
      BY <1>5, <2>3 DEF Resolve, h
    <3>3. new \in Call
      BY <1>1, <3>1 DEF Call, Target
    <3>4. call'[k] = new /\ Others(k) /\ call' \in [Callers -> Call]
      BY <1>1, <3>2, <3>3, SetFacts
    <3>5. /\ new.op = c.op /\ new.ref = c.ref /\ new.pc = "copy" /\ new.hash = h
      BY <1>1 DEF Call
    <3> HIDE DEF new
    <3>6. Path(new)
      BY <2>1, <3>1, <3>5 DEF Path, PullPcs, HashPcs
    <3>7. Keeps(k)
      BY <2>1, <3>4, <3>5, <3>6 DEF Keeps, PullPcs
    <3> QED BY <1>1, <3>4, <3>7, ReadOnly
  <2> QED BY <2>2, <2>3
<1>6. CASE GetImageAlias(k)
  <2>1. c.pc = "getalias" /\ c.ref \in Refs /\ c.op \in {"RemoveImage", "ImageStatus"}
    BY <1>1, <1>6 DEF GetImageAlias, Path
  <2>2. CASE alias[c.ref] # NoHash
    <3>1. alias[c.ref] \in Hashes /\ (c.ref \in images => alias[c.ref] = c.ref)
      BY <1>1, <2>1, <2>2 DEF IInv, TypeOK, OwnAlias
    <3>2. Found(k, alias[c.ref])
      BY <1>6, <2>2 DEF GetImageAlias
    <3> QED BY <1>4, <2>1, <3>1, <3>2
  <2>3. CASE alias[c.ref] = NoHash
    <3>1. Goto(k, "gethash")
      BY <1>6, <2>3 DEF GetImageAlias
    <3>2. /\ Others(k) /\ call' \in [Callers -> Call]
          /\ call'[k] = [c EXCEPT !.pc = "gethash"]
      BY <1>1, <3>1, GotoFacts
    <3>3. /\ call'[k].pc = "gethash" /\ call'[k].op = c.op /\ call'[k].ref = c.ref
          /\ call'[k].pull = c.pull /\ call'[k].res = c.res /\ call'[k].fault = c.fault
      BY <1>1, <3>2 DEF Call
    <3>4. c.op = "RemoveImage" => (c.res = "err" => c.fault \/ c.ref \in Refused)
      BY DEF IInv, RemoveIdempotent
    <3>5. Path(call'[k])
      BY <2>1, <3>3 DEF Path, PullPcs, HashPcs
    <3>6. Keeps(k)
      BY <1>1, <1>2, <2>1, <2>3, <3>2, <3>3, <3>4, <3>5 DEF Keeps, PullPcs
    <3> QED BY <1>1, <3>2, <3>6, ReadOnly
  <2> QED BY <2>2, <2>3
<1>7. CASE HashOfImage(k)
  <2>1. c.pc = "gethash" /\ c.ref \in Refs
    BY <1>1, <1>7 DEF HashOfImage, Path
  <2>2. CASE c.ref \in images
    <3>1. c.ref \in Hashes /\ Found(k, c.ref) /\ alias[c.ref] \in {c.ref, NoHash}
      BY <1>1, <1>7, <2>1, <2>2 DEF HashOfImage, IInv, OwnAlias, TypeOK
    <3> QED BY <1>4, <2>1, <3>1
  <2>3. CASE c.ref \notin images
    <3>1. Return(k, "ok") \/ Return(k, "empty")
      BY <1>7, <2>3 DEF HashOfImage, NotFound
    <3> QED BY <1>3, <3>1
  <2> QED BY <2>2, <2>3
<1>8. CASE GetImage(k)
  <2>1. c.op # "RemoveImage" /\ (Return(k, "ok") \/ Return(k, "err"))
    BY <1>1, <1>8 DEF GetImage, Path
  <2> QED BY <1>3, <2>1
<1> QED BY <1>5, <1>6, <1>7, <1>8

(* A pull goes on to its next request.                                      *)
LEMMA PullGoes ==
    ASSUME IInv, NEW k \in Callers, NEW pc \in PullPcs \cap HashPcs, Goto(k, pc),
           call[k].pc \in PullPcs \cap HashPcs
    PROVE  /\ Keeps(k) /\ call' \in [Callers -> Call]
           /\ call'[k].pc = pc /\ call'[k].ref = call[k].ref
<1>1. TypeOK /\ call[k] \in Call /\ Path(call[k])
  BY DEF IInv, TypeOK, Shape
<1>2. /\ Others(k) /\ call' \in [Callers -> Call]
      /\ call'[k] = [call[k] EXCEPT !.pc = pc]
  BY <1>1, GotoFacts
<1>3. /\ call'[k].pc = pc /\ call'[k].op = call[k].op /\ call'[k].ref = call[k].ref
      /\ call'[k].hash = call[k].hash
  BY <1>1, <1>2 DEF Call
<1>4. Path(call'[k]) /\ call'[k].op = "PullImage"
  BY <1>1, <1>3 DEF Path, PullPcs, HashPcs
<1> QED BY <1>2, <1>3, <1>4 DEF Keeps

(* Handover, for a step that gives at most the name r an alias or a pull.   *)
LEMMA HandoverStep ==
    ASSUME IInv, NEW k \in Callers, Keeps(k), NEW r,
           call[k].pc = "createalias" => call[k].ref = r,
           \A q \in Refs \ {r} : pulled'[q] => pulled[q] /\ alias'[q] = alias[q],
           r \in Refs /\ pulled'[r] /\ alias'[r] = NoHash =>
               \/ call'[k].pc = "createalias" /\ call'[k].ref = r
               \/ pulled[r] /\ alias[r] = NoHash /\ call[k].pc # "createalias"
    PROVE  Handover'
<1> SUFFICES ASSUME NEW q \in Refs, pulled'[q], alias'[q] = NoHash
             PROVE  \E j \in Callers : call'[j].pc = "createalias" /\ call'[j].ref = q
  BY DEF Handover
<1>1. CASE q = r /\ call'[k].pc = "createalias" /\ call'[k].ref = r
  BY <1>1
<1>2. CASE ~(q = r /\ call'[k].pc = "createalias" /\ call'[k].ref = r)
  <2>1. pulled[q] /\ alias[q] = NoHash
    BY <1>2
  <2>2. PICK j \in Callers : call[j].pc = "createalias" /\ call[j].ref = q
    BY <2>1 DEF IInv, Handover
  <2>3. j # k
    BY <1>2, <2>2
  <2> QED BY <2>2, <2>3 DEF Keeps, Others
<1> QED BY <1>1, <1>2

LEMMA PullInv ==
    ASSUME IInv, NEW k \in Callers,
           CopyImage(k) \/ GetImageAliases(k) \/ DeleteImageAlias(k) \/ CreateImageAlias(k)
    PROVE  IInv'
<1> DEFINE c == call[k]
           r == c.ref
           h == c.hash
<1>1. /\ TypeOK /\ c \in Call
      /\ c.pc \in PullPcs \cap HashPcs /\ c.op = "PullImage" /\ r \in Refs
      /\ h \in Hashes /\ (r \in Hashes => h = r) /\ h # NoHash
  BY ImagesAssumption DEF IInv, TypeOK, Shape, Path, PullPcs, HashPcs,
     CopyImage, GetImageAliases, DeleteImageAlias, CreateImageAlias
<1>2. ASSUME NEW res \in {"ok", "err"}, Return(k, res)
      PROVE  /\ Keeps(k) /\ call' \in [Callers -> Call] /\ call'[k].pc = "idle"
  BY <1>1, <1>2, ReturnKeeps, ReturnFacts DEF NoCall
<1>3. CASE CopyImage(k)
  <2>1. Keeps(k) /\ call' \in [Callers -> Call]
    BY <1>1, <1>3, PullGoes DEF CopyImage, PullPcs, HashPcs
  <2>2. TypeOK' /\ OwnAlias'
    BY <1>1, <1>3, <2>1 DEF CopyImage, IInv, TypeOK, OwnAlias
  <2>3. Handover'
    BY <1>1, <1>3, <2>1, HandoverStep DEF CopyImage
  <2> QED BY <2>1, <2>2, <2>3, KeepsCalls DEF IInv
<1>4. CASE GetImageAliases(k)
  <2>1. CASE alias[r] = h
    <3>1. /\ Return(k, "ok") /\ pulled' = [pulled EXCEPT ![r] = TRUE] /\ c.pc = "aliases"
          /\ UNCHANGED <<remote, images, alias, moves, faults>>
      BY <1>4, <2>1 DEF GetImageAliases
    <3>2. Keeps(k) /\ call' \in [Callers -> Call]
      BY <1>2, <3>1
    <3>3. TypeOK' /\ OwnAlias'
      BY <1>1, <3>1, <3>2 DEF IInv, TypeOK, OwnAlias
    <3>4. \A q \in Refs \ {r} : pulled'[q] = pulled[q] /\ alias'[q] = alias[q]
      BY <1>1, <3>1 DEF TypeOK
    <3>5. Handover'
      BY <1>1, <2>1, <3>1, <3>2, <3>4, HandoverStep
    <3> QED BY <3>2, <3>3, <3>5, KeepsCalls DEF IInv
  <2>2. CASE alias[r] # h
    <3>1. /\ Goto(k, "createalias") \/ Goto(k, "deletealias")
          /\ c.pc = "aliases"
          /\ UNCHANGED <<remote, images, alias, pulled, moves, faults>>
      BY <1>4, <2>2 DEF GetImageAliases
    <3>2. Keeps(k) /\ call' \in [Callers -> Call]
      BY <1>1, <3>1, PullGoes DEF PullPcs, HashPcs
    <3> QED BY <3>1, <3>2, ReadOnly
  <2> QED BY <2>1, <2>2
<1>5. CASE DeleteImageAlias(k)
  <2>1. CASE alias[r] = NoHash
    <3>1. /\ Return(k, "err") /\ c.pc = "deletealias"
          /\ UNCHANGED <<remote, images, alias, pulled, moves, faults>>
      BY <1>5, <2>1 DEF DeleteImageAlias
    <3> QED BY <1>2, <3>1, ReadOnly
  <2>2. CASE alias[r] # NoHash
    <3>1. /\ alias' = [alias EXCEPT ![r] = NoHash] /\ Goto(k, "createalias")
          /\ c.pc = "deletealias"
          /\ UNCHANGED <<remote, images, pulled, moves, faults>>
      BY <1>5, <2>2 DEF DeleteImageAlias
    <3>2. /\ Keeps(k) /\ call' \in [Callers -> Call]
          /\ call'[k].pc = "createalias" /\ call'[k].ref = r
      BY <1>1, <3>1, PullGoes DEF PullPcs, HashPcs
    <3>3. TypeOK' /\ OwnAlias'
      BY <1>1, <3>1, <3>2 DEF IInv, TypeOK, OwnAlias
    <3>4. \A q \in Refs \ {r} : pulled'[q] = pulled[q] /\ alias'[q] = alias[q]
      BY <1>1, <3>1 DEF TypeOK
    <3>5. Handover'
      BY <1>1, <3>1, <3>2, <3>4, HandoverStep
    <3> QED BY <3>2, <3>3, <3>5, KeepsCalls DEF IInv
  <2> QED BY <2>1, <2>2
<1>6. CASE CreateImageAlias(k)
  <2>1. /\ c.pc = "createalias" /\ UNCHANGED <<remote, images, moves, faults>>
        /\ Return(k, "ok") \/ Return(k, "err")
    BY <1>6 DEF CreateImageAlias
  <2>2. Keeps(k) /\ call' \in [Callers -> Call]
    BY <1>2, <2>1
  <2>3. \/ alias' = [alias EXCEPT ![r] = h] /\ pulled' = [pulled EXCEPT ![r] = TRUE] /\ h \in images
        \/ alias' = alias /\ pulled' = pulled /\ alias[r] # NoHash
        \/ alias' = alias /\ pulled' = [pulled EXCEPT ![r] = FALSE]
    BY <1>6 DEF CreateImageAlias
  <2>4. TypeOK' /\ OwnAlias'
    <3>1. \/ alias' = alias
          \/ alias' = [alias EXCEPT ![r] = h] /\ h \in images
      BY <2>3
    <3>2. alias' \in [Refs -> images \cup {NoHash}] /\ OwnAlias'
      <4>1. CASE alias' = alias
        BY <4>1 DEF IInv, TypeOK, OwnAlias
      <4>2. CASE alias' = [alias EXCEPT ![r] = h] /\ h \in images
        BY <1>1, <4>2 DEF IInv, TypeOK, OwnAlias
      <4> QED BY <3>1, <4>1, <4>2
    <3>3. pulled' \in [Refs -> BOOLEAN]
      BY <1>1, <2>3 DEF TypeOK
    <3> QED BY <1>1, <2>1, <2>2, <3>2, <3>3 DEF TypeOK
  <2>5. /\ \A q \in Refs \ {r} : pulled'[q] = pulled[q] /\ alias'[q] = alias[q]
        /\ pulled'[r] => alias'[r] # NoHash
    BY <1>1, <2>3 DEF TypeOK
  <2>6. Handover'
    BY <1>1, <2>2, <2>5, HandoverStep
  <2> QED BY <2>2, <2>4, <2>6, KeepsCalls DEF IInv
<1> QED BY <1>3, <1>4, <1>5, <1>6

(* LXD deletes the images H with their aliases, and a call returns.         *)
LEMMA WithoutInv ==
    ASSUME IInv, NEW k \in Callers, Keeps(k), call' \in [Callers -> Call],
           call[k].pc # "createalias", NEW H, Without(H),
           UNCHANGED <<remote, moves>>, faults' \in Nat
    PROVE  IInv'
<1>1. \A r \in Refs : /\ alias'[r] = IF alias[r] \in H THEN NoHash ELSE alias[r]
                      /\ pulled'[r] = (pulled[r] /\ alias[r] \notin H)
  BY DEF Without
<1>2. pulled' \in [Refs -> BOOLEAN]
  BY DEF Without
<1>3. alias' \in [Refs -> images' \cup {NoHash}] /\ images' \subseteq Hashes
  BY <1>1 DEF Without, IInv, TypeOK
<1>4. TypeOK'
  BY <1>2, <1>3 DEF IInv, TypeOK
<1>5. OwnAlias'
  BY <1>1 DEF IInv, OwnAlias, Refs
<1>6. Handover'
  <2> SUFFICES ASSUME NEW q \in Refs, pulled'[q], alias'[q] = NoHash
               PROVE  \E j \in Callers : call'[j].pc = "createalias" /\ call'[j].ref = q
    BY DEF Handover
  <2>1. pulled[q] /\ alias[q] = NoHash
    BY <1>1
  <2>2. PICK j \in Callers : call[j].pc = "createalias" /\ call[j].ref = q
    BY <2>1 DEF IInv, Handover
  <2> QED BY <2>2 DEF Keeps, Others
<1> QED BY <1>4, <1>5, <1>6, KeepsCalls DEF IInv

LEMMA WithoutShrinks ==
    ASSUME NEW H, Without(H)
    PROVE  /\ \A r \in Refs : alias'[r] \in {alias[r], NoHash}
           /\ images' \subseteq images
  BY DEF Without

LEMMA DeleteImageInv ==
    ASSUME IInv, NEW k \in Callers, DeleteImage(k) PROVE IInv'
<1>1. /\ Return(k, "ok") /\ Without({call[k].hash}) /\ call[k].pc = "delete"
      /\ UNCHANGED <<remote, moves, faults>>
  BY DEF DeleteImage
<1>2. Keeps(k) /\ call' \in [Callers -> Call]
  BY <1>1, ReturnKeeps, WithoutShrinks
<1>3. faults' \in Nat
  BY <1>1 DEF IInv, TypeOK
<1> QED BY <1>1, <1>2, <1>3, WithoutInv

(* A failing request.                                                       *)
LEMMA FailInv ==
    ASSUME IInv, NEW k \in Callers, Fail(k) PROVE IInv'
<1> DEFINE c == call[k]
           r == c.ref
           h == c.hash
           new == [NoCall EXCEPT !.op = c.op, !.res = "err", !.fault = TRUE]
<1>1. TypeOK /\ c \in Call /\ Path(c) /\ r \in Refs /\ faults' \in Nat
  BY DEF IInv, TypeOK, Shape, Path, Fail, Active
<1>2. new \in Call
  BY <1>1 DEF Call, NoCall, Target
<1>3. call'[k] = new /\ Others(k) /\ call' \in [Callers -> Call]
  BY <1>1, <1>2, SetFacts DEF Fail
<1>4. new.pc = "idle" /\ new.op = c.op /\ new.fault
  BY DEF NoCall
<1> HIDE DEF new
<1>5. ASSUME c.pc \in PullPcs \/ /\ \A q \in Refs : alias'[q] \in {alias[q], NoHash}
                                 /\ images' \subseteq images
      PROVE  Keeps(k)
  <2>1. Path(new)
    BY <1>4 DEF Path, PullPcs, HashPcs
  <2> QED BY <1>3, <1>4, <1>5, <2>1 DEF Keeps, PullPcs
<1>6. CASE /\ pulled' = [pulled EXCEPT ![r] = @ /\ c.pc # "createalias"]
           /\ UNCHANGED <<images, alias>>
  <2>1. Keeps(k)
    BY <1>5, <1>6
  <2>2. /\ pulled' \in [Refs -> BOOLEAN]
        /\ \A q \in Refs \ {r} : pulled'[q] = pulled[q]
        /\ pulled'[r] = (pulled[r] /\ c.pc # "createalias")
    BY <1>1, <1>6 DEF TypeOK
  <2>3. TypeOK'
    BY <1>1, <1>3, <1>6, <2>2 DEF TypeOK, Fail
  <2>4. OwnAlias'
    BY <1>6 DEF IInv, OwnAlias
  <2>5. Handover'
    <3>1. \A q \in Refs \ {r} : pulled'[q] => pulled[q] /\ alias'[q] = alias[q]
      BY <1>6, <2>2
    <3>2. pulled'[r] /\ alias'[r] = NoHash =>
              pulled[r] /\ alias[r] = NoHash /\ c.pc # "createalias"
      BY <1>6, <2>2
    <3> QED BY <2>1, <3>1, <3>2, HandoverStep
  <2> QED BY <2>1, <2>3, <2>4, <2>5, KeepsCalls DEF IInv
<1>7. CASE /\ c.pc = "copy" /\ images' = images \cup {h} /\ UNCHANGED <<alias, pulled>>
  <2>1. Keeps(k) /\ h \in Hashes
    BY <1>1, <1>5, <1>7 DEF PullPcs, HashPcs, Path
  <2>2. TypeOK' /\ OwnAlias'
    BY <1>1, <1>3, <1>7, <2>1 DEF IInv, TypeOK, OwnAlias, Fail
  <2>3. Handover'
    BY <1>7, <2>1, HandoverStep
  <2> QED BY <2>1, <2>2, <2>3, KeepsCalls DEF IInv
<1>8. CASE /\ c.pc = "deletealias" /\ alias' = [alias EXCEPT ![r] = NoHash]
           /\ pulled' = [pulled EXCEPT ![r] = FALSE] /\ UNCHANGED images
  <2>1. Keeps(k)
    BY <1>5, <1>8 DEF PullPcs
  <2>2. TypeOK' /\ OwnAlias'
    BY <1>1, <1>3, <1>8 DEF IInv, TypeOK, OwnAlias, Fail
  <2>3. /\ \A q \in Refs \ {r} : pulled'[q] = pulled[q] /\ alias'[q] = alias[q]
        /\ ~pulled'[r]
    BY <1>1, <1>8 DEF TypeOK
  <2>4. Handover'
    BY <1>8, <2>1, <2>3, HandoverStep
  <2> QED BY <2>1, <2>2, <2>4, KeepsCalls DEF IInv
<1>9. CASE /\ c.pc = "createalias" /\ alias[r] = NoHash /\ h \in images
           /\ alias' = [alias EXCEPT ![r] = h] /\ UNCHANGED <<images, pulled>>
  <2>1. Keeps(k) /\ h \in Hashes /\ h # NoHash /\ (r \in Hashes => h = r)
    BY <1>1, <1>5, <1>9, ImagesAssumption DEF PullPcs, HashPcs, Path
  <2>2. TypeOK' /\ OwnAlias'
    BY <1>1, <1>3, <1>9, <2>1 DEF IInv, TypeOK, OwnAlias, Fail
  <2>3. /\ \A q \in Refs \ {r} : pulled'[q] = pulled[q] /\ alias'[q] = alias[q]
        /\ alias'[r] # NoHash
    BY <1>1, <1>9, <2>1 DEF TypeOK
  <2>4. Handover'
    BY <2>1, <2>3, HandoverStep
  <2> QED BY <2>1, <2>2, <2>4, KeepsCalls DEF IInv
<1>10. CASE c.pc = "delete" /\ Without({h})
  <2>1. Keeps(k)
    BY <1>5, <1>10, WithoutShrinks
  <2> QED BY <1>1, <1>3, <1>10, <2>1, WithoutInv DEF Fail
<1> QED BY <1>6, <1>7, <1>8, <1>9, <1>10 DEF Fail

LEMMA CrashInv == IInv /\ Crash => IInv'
<1> SUFFICES ASSUME IInv, Crash PROVE IInv'
  OBVIOUS
<1>1. PICK K \in SUBSET {k \in Callers : call[k].pc \in {"copy", "delete"}} :
         LET copied  == {call[k].hash : k \in {j \in K : call[j].pc = "copy"}}
             deleted == {call[k].hash : k \in {j \in K : call[j].pc = "delete"}}
         IN  /\ images' = (images \cup copied) \ deleted
             /\ alias' = [r \in Refs |-> IF alias[r] \in deleted THEN NoHash ELSE alias[r]]
             /\ pulled' = [r \in Refs |->
                   /\ pulled[r] /\ alias[r] \notin deleted
                   /\ \A k \in Callers : ~(Pulling(k, r) /\ call[k].pc = "createalias")]
  BY DEF Crash
<1> DEFINE copied  == {call[k].hash : k \in {j \in K : call[j].pc = "copy"}}
           deleted == {call[k].hash : k \in {j \in K : call[j].pc = "delete"}}
<1>2. copied \subseteq Hashes
  BY DEF IInv, Shape, Path, HashPcs
<1>3. /\ images' = (images \cup copied) \ deleted
      /\ alias' = [r \in Refs |-> IF alias[r] \in deleted THEN NoHash ELSE alias[r]]
      /\ pulled' \in [Refs -> BOOLEAN]
      /\ \A r \in Refs : pulled'[r] => /\ pulled[r] /\ alias[r] \notin deleted
                                       /\ \A k \in Callers : ~(Pulling(k, r) /\ call[k].pc = "createalias")
  BY <1>1
<1> HIDE DEF copied, deleted
<1>4. call' = [k \in Callers |-> NoCall] /\ UNCHANGED <<remote, moves>> /\ faults' = faults + 1
  BY DEF Crash
<1>5. NoCall \in Call /\ NoCall.pc = "idle" /\ NoCall.op = "none"
  BY DEF NoCall, Call, Target
<1>6. TypeOK'
  <2>1. images' \subseteq Hashes /\ alias' \in [Refs -> images' \cup {NoHash}]
    BY <1>2, <1>3 DEF IInv, TypeOK
  <2>2. call' \in [Callers -> Call]
    BY <1>4, <1>5
  <2> QED BY <1>3, <1>4, <2>1, <2>2 DEF IInv, TypeOK
<1>7. OwnAlias'
  BY <1>3 DEF IInv, OwnAlias, Refs
<1>8. Shape' /\ Removals' /\ RemoveIdempotent'
  BY <1>4, <1>5 DEF Shape, Path, PullPcs, HashPcs, Removals, RemoveIdempotent
<1>9. Handover'
  <2>1. ASSUME NEW r \in Refs, pulled'[r], alias'[r] = NoHash PROVE FALSE
    <3>1. pulled[r] /\ alias[r] = NoHash
      BY <1>3, <2>1
    <3>2. PICK k \in Callers : call[k].pc = "createalias" /\ call[k].ref = r
      BY <3>1 DEF IInv, Handover
    <3>3. Pulling(k, r)
      BY <3>2 DEF IInv, Shape, Path, PullPcs, Pulling, Active
    <3> QED BY <1>3, <2>1, <3>2, <3>3
  <2> QED BY <2>1 DEF Handover
<1> QED BY <1>6, <1>7, <1>8, <1>9 DEF IInv

-----------------------------------------------------------------------------
LEMMA InvInit == Init => IInv
  BY BoundsAssumption DEF Init, IInv, TypeOK, Shape, Path, PullPcs, HashPcs, OwnAlias,
     Handover, Removals, RemoveIdempotent, NoCall, Call, Target, Refs, Active

LEMMA InvNext == IInv /\ [Next]_vars => IInv'
<1> SUFFICES ASSUME IInv, [Next]_vars PROVE IInv'
  OBVIOUS
<1>1. ASSUME NEW n \in Names, NEW h \in Target, RemoteChanges(n, h) PROVE IInv'
  <2>1. TypeOK'
    BY <1>1 DEF RemoteChanges, IInv, TypeOK
  <2> QED BY <1>1, <2>1 DEF RemoteChanges, IInv, Shape, OwnAlias, Handover,
             Removals, Alone, Active, RemoveIdempotent
<1>2. CASE UNCHANGED vars
  BY <1>2 DEF vars, IInv, TypeOK, Shape, OwnAlias, Handover, Removals, Alone, Active,
     RemoveIdempotent
<1> QED BY <1>1, <1>2, BeginInv, RefuseInv, ReadersInv, PullInv, DeleteImageInv, FailInv, CrashInv
           DEF Next, Step

LEMMA InvAlways == Spec => []IInv
  BY InvInit, InvNext, PTL DEF Spec

\* Every alias has its image and every call is well formed.
THEOREM TypeCorrect == Spec => []TypeOK
<1>1. IInv => TypeOK
  BY DEF IInv
<1> QED BY <1>1, InvAlways, PTL

\* ensureImageAlias, for any number of overlapping pulls and removals and any
\* faults: a pulled name keeps an image when its pulls have returned.
THEOREM PulledNamesResolve == Spec => []PulledNameResolves
<1>1. IInv => PulledNameResolves
  BY DEF IInv, Handover, PulledNameResolves, Shape, Path, PullPcs, Pulling, Active
<1> QED BY <1>1, InvAlways, PTL

\* RemoveImage of a name that parseImage accepts fails only when a request
\* failed, however many calls remove the same image between its lookup and its
\* deletion (image.go:59-78).
THEOREM RemoveIsIdempotent == Spec => []RemoveIdempotent
<1>1. IInv => RemoveIdempotent
  BY DEF IInv
<1> QED BY <1>1, InvAlways, PTL

\* RemoveImage: what a successful call that no pull overlapped was given is
\* unknown when it returns, for any number of overlapping removals.
THEOREM RemovedStaysGone == Spec => RemovedIsGone
<1> DEFINE Gone == \A k \in Callers :
         /\ call[k].op = "RemoveImage" /\ Active(k)
         /\ call'[k].pc = "idle" /\ call'[k].res = "ok" /\ ~call[k].pull
         => alias'[call[k].ref] = NoHash /\ call[k].ref \notin images'
<1>1. ASSUME IInv, [Next]_vars PROVE [Gone]_vars
  <2> SUFFICES ASSUME Next, NEW k \in Callers,
                      call[k].op = "RemoveImage", Active(k), ~call[k].pull,
                      call'[k].pc = "idle", call'[k].res = "ok"
               PROVE  alias'[call[k].ref] = NoHash /\ call[k].ref \notin images'
    BY <1>1 DEF vars
  <2> DEFINE c == call[k]
  <2>1. /\ TypeOK /\ Path(c) /\ Alone(c) /\ c \in Call /\ c.ref \in Refs
        /\ c.pc \in {"getalias", "gethash", "delete"}
    BY <1>1 DEF IInv, TypeOK, Shape, Path, Removals, Active, Call, PullPcs
  <2>2. ASSUME NEW j \in Callers, j # k, Others(j) PROVE FALSE
    BY <2>2 DEF Others, Active
  <2>3. ASSUME NEW j \in Callers, Step(j)
        PROVE  alias'[c.ref] = NoHash /\ c.ref \notin images'
    <3>1. Others(j)
      BY <2>1, <2>3, SetFacts DEF Step, Resolve, CopyImage, GetImageAliases, DeleteImageAlias,
         CreateImageAlias, GetImageAlias, HashOfImage, DeleteImage, GetImage, Return, Goto,
         Found, NotFound
    <3>2. j = k
      BY <2>2, <3>1
    <3>3. GetImageAlias(k) \/ HashOfImage(k) \/ DeleteImage(k)
      BY <2>1, <2>3, <3>2 DEF Step, Resolve, CopyImage, GetImageAliases, DeleteImageAlias,
         CreateImageAlias, GetImage
    <3>4. CASE GetImageAlias(k)
      <4> DEFINE pc1 == IF c.op = "RemoveImage" THEN "delete" ELSE "getimage"
      <4>1. \/ Set(k, [c EXCEPT !.pc = "gethash"])
            \/ Set(k, [c EXCEPT !.hash = alias[c.ref], !.pc = pc1])
        BY <3>4 DEF GetImageAlias, Goto, Found
      <4>2. \/ call'[k] = [c EXCEPT !.pc = "gethash"]
            \/ call'[k] = [c EXCEPT !.hash = alias[c.ref], !.pc = pc1]
        BY <2>1, <4>1, SetFacts
      <4>3. call'[k].pc # "idle"
        BY <2>1, <4>2 DEF Call
      <4> QED BY <4>3
    <3>5. CASE HashOfImage(k)
      <4> DEFINE pc1 == IF c.op = "RemoveImage" THEN "delete" ELSE "getimage"
      <4>1. ASSUME c.ref \in images PROVE FALSE
        <5>1. Set(k, [c EXCEPT !.hash = c.ref, !.pc = pc1])
          BY <3>5, <4>1 DEF HashOfImage, Found
        <5>2. call'[k] = [c EXCEPT !.hash = c.ref, !.pc = pc1]
          BY <2>1, <5>1, SetFacts
        <5> QED BY <2>1, <5>2 DEF Call
      <4> QED BY <2>1, <3>5, <4>1 DEF HashOfImage, Alone
    <3>6. CASE DeleteImage(k)
      <4>1. /\ c.pc = "delete" /\ images' = images \ {c.hash}
            /\ alias'[c.ref] = IF alias[c.ref] = c.hash THEN NoHash ELSE alias[c.ref]
        BY <2>1, <3>6 DEF DeleteImage, Without
      <4> QED BY <2>1, <4>1 DEF Alone
    <3> QED BY <3>3, <3>4, <3>5, <3>6
  <2>4. ASSUME NEW j \in Callers, Fail(j) PROVE FALSE
    <3> DEFINE new == [NoCall EXCEPT !.op = call[j].op, !.res = "err", !.fault = TRUE]
    <3>1. call'[j] = new /\ Others(j)
      BY <2>1, <2>4, SetFacts DEF Fail
    <3>2. new.res = "err"
      BY DEF NoCall
    <3> QED BY <2>2, <3>1, <3>2
  <2>5. ASSUME NEW j \in Callers, NEW r \in Refs,
               NEW op \in {"PullImage", "RemoveImage", "ImageStatus"}, Begin(j, op, r)
        PROVE  FALSE
    <3>1. j # k
      BY <2>5 DEF Begin
    <3>2. call'[k] = [c EXCEPT !.pull = @ \/ (Active(k) /\ op = "PullImage")]
      BY <2>5, <3>1 DEF Begin
    <3> DEFINE p1 == c.pull \/ (Active(k) /\ op = "PullImage")
    <3>3. call'[k] = [c EXCEPT !.pull = p1]
      BY <2>1, <3>2 DEF Call
    <3> HIDE DEF p1
    <3>4. call'[k].pc = c.pc
      BY <2>1, <3>3 DEF Call
    <3> QED BY <3>4 DEF Active
  <2>8. ASSUME NEW j \in Callers, NEW r \in Refused,
               NEW op \in {"PullImage", "RemoveImage", "ImageStatus"}, Refuse(j, op, r)
        PROVE  FALSE
    <3>1. j # k /\ Others(j)
      BY <2>1, <2>8, SetFacts DEF Refuse
    <3> QED BY <2>2, <3>1
  <2>6. ~Crash
    BY DEF Crash, NoCall
  <2>7. ASSUME NEW n \in Names, NEW h \in Target, RemoteChanges(n, h) PROVE FALSE
    BY <2>7 DEF RemoteChanges, Active
  <2> QED BY <2>3, <2>4, <2>5, <2>6, <2>7, <2>8 DEF Next
<1>2. Spec => []IInv /\ [][Next]_vars
  BY InvAlways, PTL DEF Spec
<1>3. Spec => [][Gone]_vars
  BY <1>1, <1>2, PTL
<1> QED BY <1>3 DEF RemovedIsGone
=============================================================================
