---------------------------- MODULE StartupProofs ----------------------------
(* Proofs about Startup, for any profiles, containers and other profiles.   *)
EXTENDS Startup, TLAPS

LEMMA Rotation ==
    /\ Head(<<"sandbox">> \o Others) = "sandbox"
    /\ Tail(<<"sandbox">> \o Others) = Others
    /\ Append(Others, "sandbox") \in Seq({"default", "extra", "sandbox"})
    /\ <<"sandbox">> \o Others \in Seq({"default", "extra", "sandbox"})
<1> DEFINE S == {"default", "extra", "sandbox"}
           t == <<"sandbox">> \o Others
<1>1. Others \in Seq(S) /\ <<"sandbox">> \in Seq(S) /\ Len(<<"sandbox">>) = 1
  BY OthersAssumption
<1>2. t \in Seq(S) /\ Len(t) = 1 + Len(Others) /\ t[1] = "sandbox"
  BY <1>1
<1>3. \A i \in 1..Len(Others) : t[i + 1] = Others[i]
  BY <1>1
<1>4. Head(t) = "sandbox"
  BY <1>2
<1>5. Tail(t) = Others
  <2>1. Tail(t) \in Seq(S) /\ Len(Tail(t)) = Len(Others)
    BY <1>1, <1>2
  <2>2. \A i \in 1..Len(Others) : Tail(t)[i] = Others[i]
    BY <1>1, <1>2, <1>3
  <2> QED BY <1>1, <2>1, <2>2
<1> QED BY <1>1, <1>2, <1>4, <1>5

(* An object that lxe made is as it should be after one migration, and a    *)
(* second one changes nothing.                                              *)
LEMMA ContainerMigrates ==
    ASSUME NEW n \in Names, n \notin Profiles, NEW c \in OldContainers
    PROVE  /\ Migrated(n, c) = Reference(n, c)
           /\ Migrated(n, Reference(n, c)) = Reference(n, c)
           /\ IsCRI(n, Reference(n, c)) /\ ByLXE(c) /\ ByLXE(Reference(n, c))
           /\ c \in Object /\ Reference(n, c) \in Object
<1>1. PICK v \in ContainerVersions : c = OldContainer(v)
  BY DEF OldContainers
<1>2. /\ v.schema \in 0..5 /\ v.old \in {"none", "set"}
      /\ v.createdAt \in {"none", "set"} /\ v.startedAt \in {"none", "set"}
      /\ v.finishedAt \in {"none", "set"}
      /\ v.schema <= 1 => v.old = "set"
      /\ v.schema >= 3 => v.old = "none" /\ v.createdAt = "set" /\ v.startedAt = "set"
                                 /\ v.finishedAt = "set"
  BY DEF ContainerVersions
<1> DEFINE t1 == Given(v.createdAt, Given(v.startedAt, "now"))
           t2 == Given(v.startedAt, "zero")
           t3 == Given(v.finishedAt, "zero")
           last == Append(Others, "sandbox")
           first == <<"sandbox">> \o Others
           r == [schema |-> 5, cri |-> "set", oldCri |-> "none", label |-> "set",
                 oldLabel |-> "none", createdAt |-> t1, startedAt |-> t2,
                 finishedAt |-> t3, profiles |-> last]
<1>3. ByLXE(c)
  BY <1>1, <1>2 DEF ByLXE, OldContainer
<1>4. Reference(n, c) = r
  <2>1. /\ c.label = (IF v.schema >= 2 THEN "set" ELSE "none") /\ c.oldLabel = v.old
        /\ c.createdAt = v.createdAt /\ c.startedAt = v.startedAt
        /\ c.finishedAt = v.finishedAt
    BY <1>1 DEF OldContainer
  <2>2. Given(c.label, c.oldLabel) = "set"
    BY <1>2, <2>1 DEF Given
  <2>3. Reference(n, c) = [schema |-> 5, cri |-> "set", oldCri |-> "none",
                 label |-> Given(c.label, c.oldLabel),
                 oldLabel |-> "none", createdAt |-> t1, startedAt |-> t2,
                 finishedAt |-> t3, profiles |-> last]
    BY <1>1, <1>3, <2>1 DEF Reference, OldContainer
  <2> QED BY <2>2, <2>3
<1>5. r \in Object
  BY <1>2, Rotation DEF Object, Times, Given
<1>6. c \in Object
  BY <1>1, <1>2, Rotation DEF Object, Times, OldContainer
<1>7. Migrated(n, r) = r
  BY DEF Migrated, ensureContainerZeroOne, ensureContainerZeroTwo,
     ensureContainerZeroThree, ensureContainerZeroFour, ensureContainerZeroFive
<1>8. Migrated(n, c) = r
  <2> DEFINE m(s, tt1, tt2, tt3, p) ==
               [schema |-> s, cri |-> "set", oldCri |-> "none", label |-> "set",
                oldLabel |-> "none", createdAt |-> tt1, startedAt |-> tt2,
                finishedAt |-> tt3, profiles |-> p]
             two(o) == [schema |-> 2, cri |-> "set", oldCri |-> o, label |-> "set",
                oldLabel |-> o, createdAt |-> v.createdAt,
                startedAt |-> v.startedAt, finishedAt |-> v.finishedAt, profiles |-> first]
             c1 == ensureContainerZeroOne(c)
             c2 == ensureContainerZeroTwo(c1)
             c3 == ensureContainerZeroThree(c2)
             c4 == ensureContainerZeroFour(c3)
  <2>1. Migrated(n, c) = ensureContainerZeroFive(c4)
    BY DEF Migrated
  <2>2. \/ v.schema <= 2 /\ c2 = two(v.old)
        \/ v.schema \in {3, 4} /\ c2 = m(v.schema, t1, t2, t3, first)
        \/ v.schema = 5 /\ c2 = r
    <3> DEFINE old(s) == [schema |-> s, cri |-> "none", oldCri |-> "set", label |-> "none",
                oldLabel |-> "set", createdAt |-> v.createdAt,
                startedAt |-> v.startedAt, finishedAt |-> v.finishedAt, profiles |-> first]
    <3>1. CASE v.schema \in {0, 1}
      <4>1. c = old(v.schema) /\ v.old = "set"
        <5>1. v.old = "set" /\ ~(v.schema >= 2) /\ v.schema # 5
          BY <1>2, <3>1
        <5> QED BY <1>1, <5>1 DEF OldContainer
      <4>2. c1 = old(1)
        BY <3>1, <4>1 DEF ensureContainerZeroOne
      <4>3. ensureContainerZeroTwo(old(1)) = two("set")
        BY DEF ensureContainerZeroTwo
      <4> QED BY <1>2, <3>1, <4>1, <4>2, <4>3
    <3>2. CASE v.schema \notin {0, 1}
      <4>1. c.schema = v.schema
        BY <1>1 DEF OldContainer
      <4>2. c2 = c
        BY <3>2, <4>1 DEF ensureContainerZeroOne, ensureContainerZeroTwo
      <4>3. v.schema = 2 => c = two(v.old)
        BY <1>1 DEF OldContainer
      <4>4. v.schema \in {3, 4, 5} => t1 = "set" /\ t2 = "set" /\ t3 = "set"
        BY <1>2 DEF Given
      <4>5. v.schema \in {3, 4} => c = m(v.schema, "set", "set", "set", first)
        <5>1. ASSUME v.schema \in {3, 4}
              PROVE  /\ v.old = "none" /\ v.schema >= 2 /\ v.schema # 5
                     /\ v.createdAt = "set" /\ v.startedAt = "set" /\ v.finishedAt = "set"
          BY <1>2, <5>1
        <5> QED BY <1>1, <5>1 DEF OldContainer
      <4>6. v.schema = 5 => c = m(5, "set", "set", "set", last)
        <5>1. ASSUME v.schema = 5
              PROVE  /\ v.old = "none" /\ v.schema >= 2
                     /\ v.createdAt = "set" /\ v.startedAt = "set" /\ v.finishedAt = "set"
          BY <1>2, <5>1
        <5> QED BY <1>1, <5>1 DEF OldContainer
      <4> QED BY <1>2, <3>2, <4>2, <4>3, <4>4, <4>5, <4>6
    <3> QED BY <3>1, <3>2
  <2>3. c3 \in {m(3, t1, t2, t3, first), m(4, t1, t2, t3, first), r}
    <3>1. CASE c2 = two(v.old)
      <4>1. c3 = m(3, t1, t2, t3, first)
        <5>1. ensureContainerZeroThree(two(v.old)) =
                m(3, IF v.createdAt # "none" THEN v.createdAt
                     ELSE IF v.startedAt = "none" THEN "now" ELSE v.startedAt,
                  IF v.startedAt = "none" THEN "zero" ELSE v.startedAt,
                  IF v.finishedAt = "none" THEN "zero" ELSE v.finishedAt, first)
          BY DEF ensureContainerZeroThree
        <5>2. /\ t1 = IF v.createdAt # "none" THEN v.createdAt
                     ELSE IF v.startedAt = "none" THEN "now" ELSE v.startedAt
              /\ t2 = IF v.startedAt = "none" THEN "zero" ELSE v.startedAt
              /\ t3 = IF v.finishedAt = "none" THEN "zero" ELSE v.finishedAt
          BY <1>2 DEF Given
        <5> QED BY <3>1, <5>1, <5>2
      <4> QED BY <4>1
    <3>2. CASE v.schema \in {3, 4} /\ c2 = m(v.schema, t1, t2, t3, first)
      <4>1. c2.schema = v.schema
        BY <3>2
      <4>2. c3 = c2
        BY <3>2, <4>1 DEF ensureContainerZeroThree
      <4> QED BY <3>2, <4>2
    <3>3. CASE c2 = r
      <4>1. c3 = c2
        BY <3>3 DEF ensureContainerZeroThree
      <4> QED BY <3>3, <4>1
    <3> QED BY <2>2, <3>1, <3>2, <3>3
  <2> HIDE DEF c3
  <2>4. c4 \in {m(4, t1, t2, t3, first), r}
    <3>1. ensureContainerZeroFour(m(3, t1, t2, t3, first)) = m(4, t1, t2, t3, first)
      BY DEF ensureContainerZeroFour
    <3>2. ensureContainerZeroFour(m(4, t1, t2, t3, first)) = m(4, t1, t2, t3, first)
      BY DEF ensureContainerZeroFour
    <3>3. ensureContainerZeroFour(r) = r
      BY DEF ensureContainerZeroFour
    <3> QED BY <2>3, <3>1, <3>2, <3>3
  <2> HIDE DEF c4
  <2>5. ensureContainerZeroFive(m(4, t1, t2, t3, first)) = r
    BY Rotation DEF ensureContainerZeroFive
  <2>6. ensureContainerZeroFive(r) = r
    BY DEF ensureContainerZeroFive
  <2> QED BY <2>1, <2>4, <2>5, <2>6
<1>9. IsCRI(n, r) /\ ByLXE(r)
  BY DEF IsCRI, IsSchemaCurrent, SchemaVersion, ByLXE
<1> QED BY <1>3, <1>4, <1>5, <1>6, <1>7, <1>8, <1>9

LEMMA ProfileMigrates ==
    ASSUME NEW n \in Profiles, NEW p \in OldProfiles
    PROVE  /\ Migrated(n, p) = Reference(n, p)
           /\ Migrated(n, Reference(n, p)) = Reference(n, p)
           /\ IsCRI(n, Reference(n, p)) /\ ByLXE(p) /\ ByLXE(Reference(n, p))
           /\ p \in Object /\ Reference(n, p) \in Object
<1>1. PICK v \in ProfileVersions : p = OldProfile(v)
  BY DEF OldProfiles
<1>2. /\ v.schema \in 0..3 /\ v.old \in {"none", "set"}
      /\ v.schema <= 1 => v.old = "set"
      /\ v.schema >= 3 => v.old = "none"
  BY DEF ProfileVersions
<1> DEFINE m(s, cri, old, label) ==
             [schema |-> s, cri |-> cri, oldCri |-> old, label |-> label,
              oldLabel |-> "none", createdAt |-> "none", startedAt |-> "none",
              finishedAt |-> "none", profiles |-> << >>]
           cri0 == IF v.schema >= 2 THEN "set" ELSE "none"
           label0 == IF v.schema = 0 THEN "none" ELSE "set"
           r == m(3, "set", "none", Given(label0, "name"))
<1>3. p = m(v.schema, cri0, v.old, label0)
  BY <1>1 DEF OldProfile, Foreign
<1>4. ByLXE(p)
  BY <1>2, <1>3 DEF ByLXE
<1>5. Reference(n, p) = r
  BY <1>3, <1>4 DEF Reference
<1>6. r \in Object /\ p \in Object
  <2>1. << >> \in Seq({"default", "extra", "sandbox"})
    OBVIOUS
  <2> QED BY <1>2, <1>3, <2>1 DEF Object, Times, Given
<1>7. Migrated(n, r) = r
  BY DEF Migrated, ensureProfileZeroOne, ensureProfileZeroTwo, ensureProfileZeroThree
<1>8. Migrated(n, p) = r
  <2> DEFINE p1 == ensureProfileZeroOne(p)
             p2 == ensureProfileZeroTwo(p1)
  <2>1. Migrated(n, p) = ensureProfileZeroThree(p2)
    BY DEF Migrated
  <2>2. CASE v.schema = 0
    <3>1. p = m(0, "none", "set", "none")
      BY <1>2, <1>3, <2>2
    <3>2. p1 = m(1, "none", "set", "name")
      BY <3>1 DEF ensureProfileZeroOne
    <3>3. ensureProfileZeroTwo(m(1, "none", "set", "name")) = m(2, "set", "set", "name")
      BY DEF ensureProfileZeroTwo
    <3>4. ensureProfileZeroThree(m(2, "set", "set", "name")) = m(3, "set", "none", "name")
      BY DEF ensureProfileZeroThree
    <3>5. Given(label0, "name") = "name"
      BY <2>2 DEF Given
    <3> QED BY <2>1, <3>2, <3>3, <3>4, <3>5
  <2>3. CASE v.schema = 1
    <3>1. p = m(1, "none", "set", "set")
      BY <1>2, <1>3, <2>3
    <3>2. p1 = m(1, "none", "set", "set")
      BY <3>1 DEF ensureProfileZeroOne
    <3>3. ensureProfileZeroTwo(m(1, "none", "set", "set")) = m(2, "set", "set", "set")
      BY DEF ensureProfileZeroTwo
    <3>4. ensureProfileZeroThree(m(2, "set", "set", "set")) = m(3, "set", "none", "set")
      BY DEF ensureProfileZeroThree
    <3>5. Given(label0, "name") = "set"
      BY <2>3 DEF Given
    <3> QED BY <2>1, <3>2, <3>3, <3>4, <3>5
  <2>4. CASE v.schema \in {2, 3}
    <3>1. p = m(v.schema, "set", v.old, "set")
      BY <1>2, <1>3, <2>4
    <3>2. p.schema = v.schema
      BY <3>1
    <3>3. p2 = p
      BY <2>4, <3>2 DEF ensureProfileZeroOne, ensureProfileZeroTwo
    <3>4. ensureProfileZeroThree(p) = m(3, "set", "none", "set")
      <4>1. CASE v.schema = 2
        BY <3>1, <4>1 DEF ensureProfileZeroThree
      <4>2. CASE v.schema = 3
        <5>1. p = m(3, "set", "none", "set")
          BY <1>2, <3>1, <4>2
        <5> QED BY <5>1 DEF ensureProfileZeroThree
      <4> QED BY <2>4, <4>1, <4>2
    <3>5. Given(label0, "name") = "set"
      BY <2>4 DEF Given
    <3> QED BY <2>1, <3>3, <3>4, <3>5
  <2> QED BY <1>2, <2>2, <2>3, <2>4
<1>9. IsCRI(n, r) /\ ByLXE(r)
  BY DEF IsCRI, IsSchemaCurrent, SchemaVersion, ByLXE
<1> QED BY <1>4, <1>5, <1>6, <1>7, <1>8, <1>9

LEMMA Migrates ==
    ASSUME NEW n \in Names, NEW o \in Left(n)
    PROVE  /\ o \in Object /\ Reference(n, o) \in Object
           /\ ByLXE(Reference(n, o)) <=> ByLXE(o)
           /\ ByLXE(o) => /\ Migrated(n, o) = Reference(n, o)
                          /\ Migrated(n, Reference(n, o)) = Reference(n, o)
                          /\ IsCRI(n, Reference(n, o))
<1>1. CASE o = Foreign
  <2>1. ~ByLXE(Foreign)
    BY DEF ByLXE, Foreign
  <2>2. Reference(n, Foreign) = Foreign
    BY <2>1 DEF Reference
  <2>3. << >> \in Seq({"default", "extra", "sandbox"})
    OBVIOUS
  <2>4. Foreign \in Object
    BY <2>3 DEF Foreign, Object, Times
  <2> QED BY <1>1, <2>1, <2>2, <2>4
<1>2. CASE o # Foreign /\ n \in Profiles
  BY <1>2, ProfileMigrates DEF Left
<1>3. CASE o # Foreign /\ n \notin Profiles
  BY <1>3, ContainerMigrates DEF Left
<1> QED BY <1>1, <1>2, <1>3

-----------------------------------------------------------------------------
(* The inductive invariant.  Objects are what somebody made, migrated or    *)
(* not; the list the loop works on is still true of what is there; and what *)
(* the loops have passed is visible.                                        *)
Origins == \A n \in Names : /\ origin[n] \in Left(n)
                            /\ object[n] \in {origin[n], Reference(n, origin[n])}

Visible(n) == n \in there /\ ByLXE(origin[n]) => IsCRI(n, object[n])

Kind == CASE pc = "profiles" -> Profiles [] pc = "containers" -> Containers [] OTHER -> {}

Listed == /\ todo \subseteq Kind
          /\ \A n \in todo \cap there : list[n] = object[n] /\ ByLXE(origin[n])

Passed == /\ pc \in {"profiles", "containers", "plugin", "serving"} =>
               \A n \in Profiles \ todo : Visible(n)
          /\ pc \in {"containers", "plugin", "serving"} =>
               \A n \in Containers \ todo : Visible(n)

IInv == TypeOK /\ Origins /\ Listed /\ Passed

LEMMA ForeignLeft == \A n \in Names : Foreign \in Left(n) /\ Foreign \in Object
  BY Migrates DEF Left

LEMMA InvInit == Init => IInv
<1> SUFFICES ASSUME Init PROVE IInv
  OBVIOUS
<1>1. \A n \in Names : origin[n] \in Left(n) /\ origin[n] \in Object
  BY Migrates DEF Init
<1>2. origin \in [Names -> Object] /\ list \in [Names -> Object]
  BY <1>1, ForeignLeft DEF Init, NoList
<1>3. TypeOK
  BY <1>2 DEF Init, TypeOK
<1> QED BY <1>1, <1>3 DEF Init, IInv, Origins, Listed, Passed, Kind

LEMMA DiesInv == IInv /\ Dies => IInv'
<1> SUFFICES ASSUME IInv, Dies PROVE IInv'
  OBVIOUS
<1>1. list' \in [Names -> Object]
  BY ForeignLeft DEF Dies, NoList
<1>2. TypeOK'
  BY <1>1 DEF IInv, TypeOK, Dies
<1>3. Origins'
  BY DEF IInv, Origins, Dies
<1> QED BY <1>2, <1>3 DEF IInv, Dies, Listed, Passed, Kind

LEMMA ListInv ==
    ASSUME IInv, \/ pc = "getprofiles" /\ List(Profiles, "profiles")
                 \/ pc = "profiles" /\ todo = {} /\ List(Containers, "containers")
    PROVE  IInv'
<1> DEFINE kind == IF pc = "getprofiles" THEN Profiles ELSE Containers
<1>1. /\ list' = object /\ todo' = {n \in there \cap kind : ByLXE(object[n])}
      /\ pc' = IF pc = "getprofiles" THEN "profiles" ELSE "containers"
      /\ UNCHANGED <<there, object, origin>>
  BY DEF List
<1>2. TypeOK' /\ Origins'
  BY <1>1 DEF IInv, TypeOK, Origins, Names
<1>3. \A n \in Names : ByLXE(object[n]) <=> ByLXE(origin[n])
  BY Migrates DEF IInv, Origins
<1>4. Listed'
  <2>1. todo' \subseteq Kind'
    BY <1>1 DEF Kind
  <2> QED BY <1>1, <1>3, <2>1 DEF Listed, Names
<1>5. ASSUME NEW n \in kind \ todo' PROVE Visible(n)'
  BY <1>1, <1>3 DEF Visible, Names
<1>6. pc = "profiles" => \A n \in Profiles : Visible(n)'
  BY <1>1 DEF IInv, Passed, Visible
<1> QED BY <1>1, <1>2, <1>4, <1>5, <1>6 DEF IInv, Passed

LEMMA UpdateInv ==
    ASSUME IInv, NEW n \in Names, UpdateOne(n) PROVE IInv'
<1> DEFINE o == Migrated(n, list[n])
<1>1. n \in todo /\ pc \in {"profiles", "containers"}
  BY DEF UpdateOne
<1>2. CASE Dies
  BY <1>2, DiesInv
<1>3. ASSUME todo' = todo \ {n}, UNCHANGED <<there, origin, pc, list>>,
             \/ o = list[n] /\ object' = object
             \/ n \in there /\ object' = [object EXCEPT ![n] = o]
      PROVE  IInv'
  <2>1. n \in there => /\ ByLXE(origin[n])
                       /\ o = Reference(n, origin[n]) /\ o \in Object /\ IsCRI(n, o)
                       /\ o = list[n] => object[n] = o
    BY <1>1, Migrates DEF IInv, Listed, Origins
  <2>2. \A m \in Names : m # n => object'[m] = object[m]
    BY <1>3 DEF IInv, TypeOK
  <2>3. n \in there => object'[n] = o
    BY <1>3, <2>1 DEF IInv, TypeOK
  <2>4. n \notin there => object'[n] = object[n]
    BY <1>3
  <2>5. object' \in [Names -> Object]
    BY <1>3, <2>1 DEF IInv, TypeOK
  <2>6. TypeOK'
    BY <1>3, <2>5 DEF IInv, TypeOK
  <2>7. Origins'
    BY <1>3, <2>1, <2>2, <2>3, <2>4 DEF IInv, Origins
  <2>8. Listed'
    <3>1. Kind' = Kind
      BY <1>3 DEF Kind
    <3>2. \A m \in todo' \cap there' : list'[m] = object'[m] /\ ByLXE(origin'[m])
      <4> SUFFICES ASSUME NEW m \in todo' \cap there'
                   PROVE  list'[m] = object'[m] /\ ByLXE(origin'[m])
        OBVIOUS
      <4>1. m # n /\ m \in todo \cap there /\ m \in Names
        BY <1>3 DEF IInv, TypeOK
      <4> QED BY <1>3, <2>2, <4>1 DEF IInv, Listed
    <3> QED BY <1>3, <3>1, <3>2 DEF IInv, Listed
  <2>9. ASSUME NEW m \in Names, m # n => Visible(m) PROVE Visible(m)'
    BY <1>3, <2>1, <2>2, <2>3, <2>9 DEF Visible
  <2>10. Passed'
    BY <1>3, <2>9 DEF IInv, Passed, Names
  <2> QED BY <2>6, <2>7, <2>8, <2>10 DEF IInv
<1> QED BY <1>2, <1>3 DEF UpdateOne

LEMMA RemovedInv ==
    ASSUME IInv, NEW n \in Names, Removed(n) PROVE IInv'
<1>1. /\ object' = [object EXCEPT ![n] = Foreign] /\ origin' = [origin EXCEPT ![n] = Foreign]
      /\ there' = there \ {n} /\ UNCHANGED <<pc, list, todo>>
  BY DEF Removed
<1>2. TypeOK'
  BY <1>1, ForeignLeft DEF IInv, TypeOK
<1>3. \A m \in Names : m # n => object'[m] = object[m] /\ origin'[m] = origin[m]
  BY <1>1 DEF IInv, TypeOK
<1>4. object'[n] = Foreign /\ origin'[n] = Foreign
  BY <1>1 DEF IInv, TypeOK
<1>5. Origins'
  BY <1>3, <1>4, ForeignLeft DEF IInv, Origins
<1>6. Listed'
  <2>1. Kind' = Kind
    BY <1>1 DEF Kind
  <2> QED BY <1>1, <1>3, <2>1 DEF IInv, Listed, TypeOK
<1>7. \A m \in Names : Visible(m) => Visible(m)'
  BY <1>1, <1>3 DEF Visible
<1>8. Passed'
  BY <1>1, <1>7 DEF IInv, Passed, Names
<1> QED BY <1>2, <1>5, <1>6, <1>8 DEF IInv

LEMMA CreatesInv ==
    ASSUME IInv, NEW n \in Names, ServiceCreates(n) PROVE IInv'
<1>1. PICK o \in New(n) : /\ object' = [object EXCEPT ![n] = o]
                          /\ origin' = [origin EXCEPT ![n] = o]
  BY DEF ServiceCreates
<1>2. pc = "serving" /\ there' = there \cup {n} /\ UNCHANGED <<pc, list, todo>>
  BY DEF ServiceCreates
<1>3. o \in Left(n) /\ IsCRI(n, o) /\ o \in Object
  BY Migrates DEF New
<1>4. TypeOK'
  BY <1>1, <1>2, <1>3 DEF IInv, TypeOK
<1>5. /\ \A m \in Names : m # n => object'[m] = object[m] /\ origin'[m] = origin[m]
      /\ object'[n] = o /\ origin'[n] = o
  BY <1>1 DEF IInv, TypeOK
<1>6. Origins'
  BY <1>3, <1>5 DEF IInv, Origins
<1>7. todo = {}
  BY <1>2 DEF IInv, Listed, Kind
<1>8. Listed'
  BY <1>2, <1>7 DEF Listed
<1>9. \A m \in Names : Visible(m) \/ m = n => Visible(m)'
  BY <1>2, <1>3, <1>5 DEF Visible
<1>10. Passed'
  BY <1>2, <1>9 DEF IInv, Passed, Names
<1> QED BY <1>4, <1>6, <1>8, <1>10 DEF IInv

LEMMA InvNext == IInv /\ [Next]_vars => IInv'
<1> SUFFICES ASSUME IInv, [Next]_vars PROVE IInv'
  OBVIOUS
<1>1. CASE Connect
  <2>1. TypeOK' /\ Origins'
    BY <1>1 DEF Connect, IInv, TypeOK, Origins
  <2>2. todo = {}
    BY <1>1 DEF Connect, IInv, Listed, Kind
  <2> QED BY <1>1, <2>1, <2>2 DEF Connect, IInv, Listed, Passed
<1>2. CASE GetProfiles \/ GetContainers
  BY <1>2, ListInv DEF GetProfiles, GetContainers
<1>3. CASE InitPlugin
  <2>1. list' \in [Names -> Object]
    BY <1>3, ForeignLeft DEF InitPlugin, NoList
  <2>2. TypeOK' /\ Origins'
    BY <1>3, <2>1 DEF InitPlugin, IInv, TypeOK, Origins
  <2>3. Passed'
    BY <1>3 DEF InitPlugin, IInv, Passed, Visible
  <2> QED BY <1>3, <2>2, <2>3 DEF InitPlugin, IInv, Listed
<1>4. CASE Serve
  <2>1. TypeOK' /\ Origins'
    BY <1>4 DEF Serve, IInv, TypeOK, Origins
  <2>2. todo = {}
    BY <1>4 DEF Serve, IInv, Listed, Kind
  <2>3. Passed'
    BY <1>4 DEF Serve, IInv, Passed, Visible
  <2> QED BY <1>4, <2>1, <2>2, <2>3 DEF Serve, IInv, Listed
<1>5. ASSUME NEW n \in Names, ServiceRemoves(n) \/ AdminDeletes(n) PROVE IInv'
  BY <1>5, RemovedInv DEF ServiceRemoves, AdminDeletes
<1>6. CASE EventTooEarly \/ Killed
  BY <1>6, DiesInv DEF EventTooEarly, Killed
<1>7. CASE UNCHANGED vars
  BY <1>7 DEF vars, IInv, TypeOK, Origins, Listed, Passed, Visible, Kind
<1> QED BY <1>1, <1>2, <1>3, <1>4, <1>5, <1>6, <1>7, UpdateInv, CreatesInv DEF Next

LEMMA InvAlways == Spec => []IInv
  BY InvInit, InvNext, PTL DEF Spec

-----------------------------------------------------------------------------
\* Every object and every list is well formed.
THEOREM TypeCorrect == Spec => []TypeOK
<1>1. IInv => TypeOK
  BY DEF IInv
<1> QED BY <1>1, InvAlways, PTL

\* Ensure, for any number of objects and of broken starts: each object is
\* untouched or migrated exactly once.
THEOREM MigrationIsIdempotent == Spec => []MigratedOnce
<1>1. IInv => MigratedOnce
  BY DEF IInv, Origins, TypeOK, MigratedOnce
<1> QED BY <1>1, InvAlways, PTL

\* NewServer: lxe serves only when all it ever made is visible to it.
THEOREM ServesTheMigrated == Spec => []ServedIsVisible
<1>1. IInv => ServedIsVisible
  BY DEF IInv, Passed, Listed, Kind, Visible, TypeOK, ServedIsVisible, Names
<1> QED BY <1>1, InvAlways, PTL
=============================================================================
