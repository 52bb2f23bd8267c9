---------------------------- MODULE SaiVlan_proofs ----------------------------
(***************************************************************************)
(* Proofs about SaiVlan, for any VLANs, ports and objects and a cache of   *)
(* any length: the cache agrees with the SAI, and only a failed allocation *)
(* loses a VLAN the agent created.                                       *)
(***************************************************************************)
EXTENDS SaiVlan, SequenceTheorems, WellFoundedInduction, TLAPS

Entry == [id : Vid, oid : Oid]

(* The cache after saiagent_vlan_add_new (saiagent_vlan.c:31-45).          *)
LEMMA AddNewShape ==
  ASSUME list \in Seq(Entry), NEW v \in Vid, NEW o \in Oid, AddNew(v, o)
  PROVE  /\ list' \in Seq(Entry)
         /\ DOMAIN list' = 1..(Len(list) + 1)
         /\ list'[1] = [id |-> v, oid |-> o]
         /\ \A i \in DOMAIN list : i + 1 \in DOMAIN list' /\ list'[i + 1] = list[i]
         /\ \A i \in DOMAIN list' : i = 1 \/ (i - 1 \in DOMAIN list /\ list'[i] = list[i - 1])
<1> DEFINE e == [id |-> v, oid |-> o]
<1>1. <<e>> \in Seq(Entry) /\ Len(<<e>>) = 1 /\ <<e>>[1] = e
  BY DEF Entry
<1>2. list' = <<e>> \o list
  BY DEF AddNew
<1> HIDE DEF e
<1>3. /\ list' \in Seq(Entry)
      /\ Len(list') = 1 + Len(list)
      /\ \A i \in 1..(1 + Len(list)) : list'[i] = IF i <= 1 THEN <<e>>[i] ELSE list[i - 1]
  BY <1>1, <1>2, ConcatProperties
<1>4. Len(list) \in Nat /\ DOMAIN list = 1..Len(list) /\ DOMAIN list' = 1..(Len(list) + 1)
  BY <1>3
<1>5. list'[1] = e
  BY <1>1, <1>3, <1>4
<1>6. \A i \in DOMAIN list : i + 1 \in DOMAIN list' /\ list'[i + 1] = list[i]
  BY <1>3, <1>4
<1>7. \A i \in DOMAIN list' : i = 1 \/ (i - 1 \in DOMAIN list /\ list'[i] = list[i - 1])
  BY <1>3, <1>4
<1> QED
  BY <1>3, <1>4, <1>5, <1>6, <1>7 DEF e

(* What a request may do to the cache and the SAI's VLANs: nothing, create *)
(* a VLAN without caching it, create and cache it, or cache the default.   *)
VlanStep ==
  \/ (registered => registered') /\ UNCHANGED <<list, saiVlan, oom>>
  \/ /\ registered /\ oom' /\ UNCHANGED <<list, registered>>
     /\ \E v \in Vid, o \in Oid : ~Cached(v) /\ CreateVlan(v, o)
  \/ /\ registered /\ UNCHANGED <<registered, oom>>
     /\ \E v \in Vid, o \in Oid : ~Cached(v) /\ CreateVlan(v, o) /\ AddNew(v, o)
  \/ /\ registered' /\ UNCHANGED <<saiVlan, oom>>
     /\ AddNew(DefaultVid, DefaultOid)

LEMMA StepIsVlanStep == [Next]_vars => VlanStep
<1> SUFFICES ASSUME [Next]_vars PROVE VlanStep
  OBVIOUS
<1>1. CASE InitFails
  BY <1>1 DEF InitFails, VlanStep
<1>2. CASE InitEarly \/ InitDone
  BY <1>2 DEF InitEarly, InitDone, VlanStep
<1>3. ASSUME NEW v \in Vid, NEW p \in Port, VlanPortSet(v, p) PROVE VlanStep
  <2>1. CASE QueryFails(v, p) \/ PortRefused(v, p) \/ VlanRefused(v, p)
    BY <1>3, <2>1 DEF VlanPortSet, QueryFails, PortRefused, VlanRefused, VlanStep
  <2>2. CASE VlanNotCached(v, p)
    BY <1>3, <2>2 DEF VlanPortSet, VlanNotCached, VlanStep
  <2>3. CASE MembersUnread(v, p) \/ MemberFails(v, p) \/ UpFails(v, p) \/ PortSetDone(v, p)
    <3>1. \E o \in Oid : EnsureVlan(v, o)
      BY <2>3 DEF MembersUnread, MemberFails, UpFails, PortSetDone
    <3>2. UNCHANGED oom /\ registered /\ UNCHANGED registered
      BY <1>3, <2>3 DEF VlanPortSet, MembersUnread, MemberFails, UpFails, PortSetDone
    <3> QED
      BY <3>1, <3>2 DEF EnsureVlan, VlanStep
  <2> QED
    BY <1>3, <2>1, <2>2, <2>3 DEF VlanPortSet
<1>4. CASE VlanPvidSet \/ VlanAcknowledged
  BY <1>4 DEF VlanPvidSet, VlanAcknowledged, VlanStep
<1>5. CASE UNCHANGED vars
  BY <1>5 DEF vars, VlanStep
<1> QED
  BY <1>1, <1>2, <1>3, <1>4, <1>5 DEF Next

(* The part of the types the cache invariants need.                        *)
CacheTypes ==
  /\ list \in Seq(Entry)
  /\ saiVlan \in [Vid -> Oid \cup {Null}]
  /\ saiVlan[DefaultVid] = DefaultOid

LEMMA CacheTypesInductive ==
  ASSUME CacheTypes, VlanStep
  PROVE  CacheTypes'
<1> USE VlanAssumption
<1>1. CASE (registered => registered') /\ UNCHANGED <<list, saiVlan, oom>>
  BY <1>1 DEF CacheTypes
<1>2. ASSUME NEW v \in Vid, NEW o \in Oid, CreateVlan(v, o)
      PROVE  saiVlan' \in [Vid -> Oid \cup {Null}] /\ saiVlan'[DefaultVid] = DefaultOid
  BY <1>2 DEF CacheTypes, CreateVlan
<1>3. ASSUME NEW v \in Vid, NEW o \in Oid, AddNew(v, o) PROVE list' \in Seq(Entry)
  BY <1>3, AddNewShape DEF CacheTypes
<1> QED
  BY <1>1, <1>2, <1>3 DEF VlanStep, CacheTypes

(* A new entry and the SAI agree, and a VLAN that is created has no entry  *)
(* that could become stale.                                                *)
LEMMA CacheInductive ==
  ASSUME CacheTypes, CacheMatchesSai, VlanStep
  PROVE  CacheMatchesSai'
<1> USE VlanAssumption
<1>1. CASE (registered => registered') /\ UNCHANGED <<list, saiVlan, oom>>
  BY <1>1 DEF CacheMatchesSai
<1>2. ASSUME NEW v \in Vid, NEW o \in Oid, ~Cached(v), CreateVlan(v, o)
      PROVE  /\ \A i \in DOMAIN list : saiVlan'[list[i].id] = list[i].oid
             /\ saiVlan'[v] = o /\ o # Null
  <2>1. \A i \in DOMAIN list : list[i].id # v /\ list[i].id \in Vid
    <3>1. \A i \in DOMAIN list : list[i] \in Entry
      BY DEF CacheTypes
    <3> QED
      BY <1>2, <3>1 DEF Cached, Entry
  <2> QED
    BY <1>2, <2>1 DEF CacheTypes, CacheMatchesSai, CreateVlan
<1>3. ASSUME NEW v \in Vid, NEW o \in Oid, ~Cached(v), CreateVlan(v, o), list' = list
      PROVE  CacheMatchesSai'
  BY <1>2, <1>3 DEF CacheMatchesSai
<1>4. ASSUME NEW v \in Vid, NEW o \in Oid, AddNew(v, o), saiVlan'[v] = o,
             \A i \in DOMAIN list : saiVlan'[list[i].id] = list[i].oid
      PROVE  CacheMatchesSai'
  <2> SUFFICES ASSUME NEW i \in DOMAIN list'
               PROVE  list'[i].oid # Null /\ saiVlan'[list'[i].id] = list'[i].oid
    BY DEF CacheMatchesSai
  <2>1. i = 1 \/ (i - 1 \in DOMAIN list /\ list'[i] = list[i - 1])
    BY <1>4, AddNewShape DEF CacheTypes
  <2>2. list'[1] = [id |-> v, oid |-> o]
    BY <1>4, AddNewShape DEF CacheTypes
  <2>3. CASE i = 1
    BY <1>4, <2>2, <2>3
  <2>4. CASE i - 1 \in DOMAIN list /\ list'[i] = list[i - 1]
    BY <1>4, <2>4 DEF CacheMatchesSai
  <2> QED
    BY <2>1, <2>3, <2>4
<1>5. CASE AddNew(DefaultVid, DefaultOid) /\ UNCHANGED saiVlan
  BY <1>4, <1>5 DEF CacheTypes, CacheMatchesSai
<1> QED
  BY <1>1, <1>2, <1>3, <1>4, <1>5 DEF VlanStep

LEMMA InitCache == Init => CacheTypes /\ CacheMatchesSai
  BY VlanAssumption DEF Init, CacheTypes, CacheMatchesSai

(* Every cache entry names the object of its VLAN                          *)
(* (saiagent_vlan.c:31-45, 110-126).                                       *)
THEOREM CacheCoherent == Spec => []CacheMatchesSai
<1>1. CacheTypes /\ CacheMatchesSai /\ [Next]_vars => CacheTypes' /\ CacheMatchesSai'
  BY StepIsVlanStep, CacheTypesInductive, CacheInductive
<1> QED
  BY InitCache, <1>1, PTL DEF Spec

(* Every VLAN the agent created is cached, until an allocation fails.      *)
CachedInv ==
  ~oom => \A v \in Vid \ {DefaultVid} : saiVlan[v] # Null => Cached(v)

LEMMA CachedInductive ==
  ASSUME CacheTypes, CachedInv, VlanStep
  PROVE  CachedInv'
<1> USE VlanAssumption
<1>1. CASE (registered => registered') /\ UNCHANGED <<list, saiVlan, oom>>
  BY <1>1 DEF CachedInv, Cached
<1>2. CASE oom'
  BY <1>2 DEF CachedInv
<1>3. ASSUME NEW v \in Vid, NEW o \in Oid, AddNew(v, o)
      PROVE  Cached(v)' /\ \A w \in Vid : Cached(w) => Cached(w)'
  <2>1. 1 \in DOMAIN list' /\ list'[1].id = v
    <3>1. list'[1] = [id |-> v, oid |-> o] /\ DOMAIN list' = 1..(Len(list) + 1)
      BY <1>3, AddNewShape DEF CacheTypes
    <3>2. Len(list) \in Nat
      BY DEF CacheTypes
    <3> QED
      BY <3>1, <3>2
  <2>2. \A i \in DOMAIN list : i + 1 \in DOMAIN list' /\ list'[i + 1] = list[i]
    BY <1>3, AddNewShape DEF CacheTypes
  <2> QED
    BY <2>1, <2>2 DEF Cached
<1>4. ASSUME registered, UNCHANGED <<registered, oom>>,
             NEW v \in Vid, NEW o \in Oid, CreateVlan(v, o), AddNew(v, o)
      PROVE  CachedInv'
  BY <1>3, <1>4 DEF CacheTypes, CachedInv, CreateVlan
<1>5. CASE registered' /\ UNCHANGED <<saiVlan, oom>> /\ AddNew(DefaultVid, DefaultOid)
  BY <1>3, <1>5 DEF CachedInv
<1> QED
  BY <1>1, <1>2, <1>4, <1>5 DEF VlanStep

(* Only a failed calloc loses a VLAN the agent created                     *)
(* (saiagent_vlan.c:123-125).                                              *)
THEOREM OrphanOnlyByAllocFailure == Spec => []OrphanNeedsAllocFailure
<1>1. Init => CachedInv
  BY DEF Init, CachedInv
<1>2. CacheTypes /\ CachedInv /\ [Next]_vars => CacheTypes' /\ CachedInv'
  BY StepIsVlanStep, CacheTypesInductive, CachedInductive
<1>3. CachedInv => OrphanNeedsAllocFailure
  BY DEF CachedInv, OrphanNeedsAllocFailure, Orphan
<1> QED
  BY InitCache, <1>1, <1>2, <1>3, PTL DEF Spec
-----------------------------------------------------------------------------
(* What VLAN_PORT_SET does to members and bridge ports.                    *)

(* A set of numbers that is not empty has a least one.                     *)
LEMMA Least == ASSUME NEW T, T \subseteq Nat, T # {} PROVE \E x \in T : \A y \in T : x <= y
<1>1. PICK x \in T : \A y \in T : ~(<<y, x>> \in OpToRel(<, Nat))
  BY NatLessThanWellFounded, WFMin
<1>2. OpToRel(<, Nat) = {ss \in Nat \X Nat : ss[1] < ss[2]}
  BY Zenon DEF OpToRel
<1>3. ASSUME NEW y \in T PROVE ~(y < x)
  <2>1. <<y, x>> \notin {ss \in Nat \X Nat : ss[1] < ss[2]}
    BY <1>1, <1>2, Zenon
  <2> QED
    BY <2>1
<1> QED
  BY <1>3

\* saiagent_vlan_get finds an entry with the id (saiagent_vlan.c:47-55).
LEMMA GetFinds ==
  ASSUME CacheTypes, CacheMatchesSai, NEW v \in Vid, Cached(v)
  PROVE  Get(v) = saiVlan[v]
<1> DEFINE Hits == {i \in DOMAIN list : list[i].id = v}
<1>1. Hits \subseteq Nat /\ Hits # {}
  BY DEF Cached, CacheTypes
<1>2. PICK i \in Hits : \A j \in Hits : i <= j
  BY <1>1, Least
<1>3. /\ i \in DOMAIN list /\ list[i].id = v
      /\ \A j \in 1..(i - 1) : list[j].id # v
  BY <1>1, <1>2 DEF CacheTypes
<1>4. PICK k \in DOMAIN list : /\ list[k].id = v /\ Get(v) = list[k].oid
  BY <1>3 DEF Get
<1> QED
  BY <1>4 DEF CacheMatchesSai

(* What the SAI has of the agent's requests: members belong to VLANs it    *)
(* has, and a port that is up is a member of one in the cache.             *)
MemberInv ==
  /\ CacheTypes /\ CacheMatchesSai
  /\ members \subseteq Oid \X Port /\ brUp \subseteq Port
  /\ \A m \in members : \E w \in Vid : m[1] = saiVlan[w]
  /\ UpNeedsMember

LEMMA AddNewFacts ==
  ASSUME CacheTypes, NEW v \in Vid, NEW o \in Oid, AddNew(v, o)
  PROVE  /\ 1 \in DOMAIN list' /\ list'[1].id = v /\ list'[1].oid = o
         /\ \A i \in DOMAIN list : i + 1 \in DOMAIN list' /\ list'[i + 1] = list[i]
         /\ \A i \in DOMAIN list' : i = 1 \/ (i - 1 \in DOMAIN list /\ list'[i] = list[i - 1])
<1>1. list \in Seq(Entry) /\ Len(list) \in Nat
  BY DEF CacheTypes
<1>2. list'[1] = [id |-> v, oid |-> o] /\ DOMAIN list' = 1..(Len(list) + 1)
  BY <1>1, AddNewShape
<1>3. list'[1].id = v /\ list'[1].oid = o
  BY <1>2
<1> QED
  BY <1>1, <1>2, <1>3, AddNewShape

(* The object a handler goes on with is the SAI's for the VLAN, and the    *)
(* cache only grows.                                                       *)
LEMMA Ensured ==
  ASSUME CacheTypes, CacheMatchesSai, NEW v \in Vid, NEW o \in Oid, EnsureVlan(v, o)
  PROVE  /\ CacheTypes' /\ CacheMatchesSai'
         /\ Cached(v)' /\ saiVlan'[v] = o
         /\ \A w \in Vid : Cached(w)' <=> Cached(w) \/ w = v
         /\ \A w \in Vid : saiVlan[w] # Null => saiVlan'[w] = saiVlan[w]
         /\ \A i \in DOMAIN list : \E j \in DOMAIN list' : list'[j] = list[i]
<1>1. CASE Cached(v) /\ o = Get(v) /\ UNCHANGED <<list, saiVlan>>
  BY <1>1, GetFinds DEF CacheTypes, CacheMatchesSai, Cached
<1>2. CASE ~Cached(v) /\ CreateVlan(v, o) /\ AddNew(v, o)
  <2>1. CacheTypes' /\ CacheMatchesSai'
    <3>1. CacheTypes'
      BY <1>2, AddNewShape, VlanAssumption DEF CacheTypes, CreateVlan
    <3>2. CacheMatchesSai'
      <4>1. \A i \in DOMAIN list : list[i] \in Entry /\ list[i].id # v
        BY <1>2 DEF CacheTypes, Cached
      <4>2. \A i \in DOMAIN list : list[i].oid # Null /\ saiVlan'[list[i].id] = list[i].oid
        BY <1>2, <4>1 DEF CacheTypes, CacheMatchesSai, CreateVlan, Entry
      <4>3. list'[1].oid = o /\ list'[1].id = v /\ o # Null /\ saiVlan'[v] = o
        BY <1>2, AddNewFacts, VlanAssumption DEF CacheTypes, CreateVlan
      <4>4. \A i \in DOMAIN list' : i = 1 \/ (i - 1 \in DOMAIN list /\ list'[i] = list[i - 1])
        BY <1>2, AddNewFacts
      <4> QED
        BY <4>2, <4>3, <4>4 DEF CacheMatchesSai
    <3> QED
      BY <3>1, <3>2
  <2>2. saiVlan'[v] = o /\ \A w \in Vid : saiVlan[w] # Null => saiVlan'[w] = saiVlan[w]
    BY <1>2 DEF CacheTypes, CreateVlan
  <2>3. /\ \A i \in DOMAIN list : i + 1 \in DOMAIN list' /\ list'[i + 1] = list[i]
        /\ \A i \in DOMAIN list' : i = 1 \/ (i - 1 \in DOMAIN list /\ list'[i] = list[i - 1])
        /\ list'[1].id = v /\ 1 \in DOMAIN list'
    BY <1>2, AddNewFacts
  <2>4. \A w \in Vid : Cached(w)' <=> Cached(w) \/ w = v
    BY <2>3 DEF Cached
  <2> QED
    BY <2>1, <2>2, <2>3, <2>4
<1> QED
  BY <1>1, <1>2 DEF EnsureVlan

\* A request that leaves members and bridge ports, or adds to them.
LEMMA MemberGrows ==
  ASSUME MemberInv, CacheTypes', CacheMatchesSai',
         \A w \in Vid : saiVlan[w] # Null => saiVlan'[w] = saiVlan[w],
         \A i \in DOMAIN list : \E j \in DOMAIN list' : list'[j] = list[i],
         NEW new \in SUBSET (Oid \X Port), members' = members \cup new,
         \A m \in new : \E w \in Vid : m[1] = saiVlan'[w],
         NEW up \in SUBSET Port, brUp' = brUp \cup up,
         \A p \in up : \E i \in DOMAIN list' : <<list'[i].oid, p>> \in members'
  PROVE  MemberInv'
<1>1. \A m \in members : m[1] \in Oid
  BY DEF MemberInv
<1>2. \A m \in members : \E w \in Vid : m[1] = saiVlan'[w]
  BY <1>1, VlanAssumption DEF MemberInv
<1>3. UpNeedsMember'
  BY DEF MemberInv, UpNeedsMember
<1>4. members' \subseteq Oid \X Port /\ brUp' \subseteq Port
  BY DEF MemberInv
<1> QED
  BY <1>2, <1>3, <1>4 DEF MemberInv

LEMMA InitMembers == Init => MemberInv
<1> SUFFICES ASSUME Init PROVE MemberInv
  OBVIOUS
<1>1. CacheTypes /\ CacheMatchesSai
  BY InitCache
<1>2. members \subseteq Oid \X Port /\ \A m \in members : m[1] = saiVlan[DefaultVid]
  BY VlanAssumption DEF Init
<1> QED
  BY <1>1, <1>2, VlanAssumption DEF Init, MemberInv, UpNeedsMember

LEMMA MemberInductive == MemberInv /\ [Next]_vars => MemberInv'
<1> SUFFICES ASSUME MemberInv, [Next]_vars PROVE MemberInv'
  OBVIOUS
<1>1. CacheTypes' /\ CacheMatchesSai'
  BY StepIsVlanStep, CacheTypesInductive, CacheInductive DEF MemberInv
<1>2. CASE UNCHANGED <<list, saiVlan, members, brUp>>
  BY <1>2 DEF MemberInv, CacheTypes, CacheMatchesSai, Cached, UpNeedsMember
<1>3. CASE InitDone
  <2>1. \A i \in DOMAIN list : i + 1 \in DOMAIN list' /\ list'[i + 1] = list[i]
    BY <1>3, AddNewFacts, VlanAssumption DEF InitDone, MemberInv
  <2>3. UNCHANGED <<saiVlan, members, brUp>>
    BY <1>3 DEF InitDone
  <2>4. UpNeedsMember'
    BY <2>1, <2>3 DEF UpNeedsMember, MemberInv
  <2> QED
    BY <1>1, <2>3, <2>4 DEF MemberInv
<1>4. ASSUME NEW v \in Vid, NEW p \in Port, VlanNotCached(v, p)
      PROVE  MemberInv'
  <2>1. UNCHANGED <<list, members, brUp>>
        /\ \A w \in Vid : saiVlan[w] # Null => saiVlan'[w] = saiVlan[w]
    BY <1>4 DEF VlanNotCached, CreateVlan, MemberInv, CacheTypes
  <2>2. \A m \in members : \E w \in Vid : m[1] = saiVlan'[w]
    <3>1. \A m \in members : m[1] \in Oid
      BY DEF MemberInv
    <3> QED
      BY <2>1, <3>1, VlanAssumption DEF MemberInv
  <2> QED
    BY <1>1, <1>4, <2>1, <2>2 DEF MemberInv, Cached, UpNeedsMember
<1>5. ASSUME NEW v \in Vid, NEW p \in Port, p \in BrPort,
             NEW o \in Oid, EnsureVlan(v, o),
             \/ UNCHANGED <<members, brUp>>
             \/ EnsureMember(o, p) /\ brUp' \in {brUp, brUp \cup {p}}
      PROVE  MemberInv'
  <2>1. /\ Cached(v)' /\ saiVlan'[v] = o
        /\ \A w \in Vid : Cached(w)' <=> Cached(w) \/ w = v
        /\ \A w \in Vid : saiVlan[w] # Null => saiVlan'[w] = saiVlan[w]
        /\ \A i \in DOMAIN list : \E j \in DOMAIN list' : list'[j] = list[i]
    BY <1>5, Ensured DEF MemberInv
  <2>3. PICK i \in DOMAIN list' : list'[i].oid = o
    BY <1>1, <2>1 DEF Cached, CacheMatchesSai
  <2>4. CASE UNCHANGED <<members, brUp>>
    <3>1. UpNeedsMember'
      BY <2>1, <2>4 DEF MemberInv, UpNeedsMember
    <3>2. \A m \in members' : \E w \in Vid : m[1] = saiVlan'[w]
      <4>1. \A m \in members : m[1] \in Oid
        BY DEF MemberInv
      <4> QED
        BY <2>1, <2>4, <4>1, VlanAssumption DEF MemberInv
    <3> QED
      BY <1>1, <2>4, <3>1, <3>2 DEF MemberInv
  <2>5. CASE EnsureMember(o, p) /\ brUp' \in {brUp, brUp \cup {p}}
    <3> DEFINE new == {<<o, p>>}
    <3>1. PICK up \in SUBSET {p} : brUp' = brUp \cup up
      <4>1. brUp' = brUp \cup {} \/ brUp' = brUp \cup {p}
        BY <2>5
      <4>2. {} \in SUBSET {p} /\ {p} \in SUBSET {p}
        OBVIOUS
      <4> QED
        BY <4>1, <4>2
    <3>2. members' = members \cup new /\ <<o, p>> \in members'
      BY <2>5 DEF EnsureMember
    <3>3. new \in SUBSET (Oid \X Port) /\ up \in SUBSET Port
      BY <1>5
    <3>4. \A m \in new : \E w \in Vid : m[1] = saiVlan'[w]
      BY <2>1
    <3>5. \A q \in up : \E j \in DOMAIN list' : <<list'[j].oid, q>> \in members'
      BY <2>3, <3>1, <3>2
    <3> HIDE DEF new
    <3> QED
      BY <1>1, <2>1, <3>1, <3>2, <3>3, <3>4, <3>5, MemberGrows
  <2> QED
    BY <1>5, <2>4, <2>5
<1>6. ASSUME NEW v \in Vid, NEW p \in Port, VlanPortSet(v, p) PROVE MemberInv'
  <2>1. CASE QueryFails(v, p) \/ PortRefused(v, p) \/ VlanRefused(v, p)
    BY <1>2, <2>1 DEF QueryFails, PortRefused, VlanRefused
  <2>2. CASE VlanNotCached(v, p)
    BY <1>4, <2>2
  <2>3. CASE MembersUnread(v, p) \/ MemberFails(v, p) \/ UpFails(v, p) \/ PortSetDone(v, p)
    BY <1>5, <2>3 DEF MembersUnread, MemberFails, UpFails, PortSetDone
  <2> QED
    BY <1>6, <2>1, <2>2, <2>3 DEF VlanPortSet
<1>7. CASE InitFails \/ InitEarly \/ VlanPvidSet \/ VlanAcknowledged \/ UNCHANGED vars
  BY <1>2, <1>7 DEF InitFails, InitEarly, VlanPvidSet, VlanAcknowledged, vars
<1> QED
  BY <1>3, <1>6, <1>7 DEF Next

LEMMA MembersInvariant == Spec => []MemberInv
  BY InitMembers, MemberInductive, PTL DEF Spec

(* A bridge port is up only over a member of a VLAN in the cache, however  *)
(* requests failed halfway (saiagent_vlan.c:163-175).                      *)
THEOREM UpHasMember == Spec => []UpNeedsMember
<1>1. MemberInv => UpNeedsMember
  BY DEF MemberInv
<1> QED
  BY <1>1, MembersInvariant, PTL

(* A VLAN_PORT_SET that was acknowledged and met no failing call has made  *)
(* the port a member and up (saiagent_vlan.c:163-177, 211-216).            *)
THEOREM AckHasMember == Spec => []AckMeansMember
<1>1. Init => AckMeansMember
  BY DEF Init, AckMeansMember
<1>2. MemberInv /\ AckMeansMember /\ [Next]_vars => AckMeansMember'
  <2> SUFFICES ASSUME MemberInv, AckMeansMember, [Next]_vars PROVE AckMeansMember'
    OBVIOUS
  <2>1. ASSUME NEW v \in Vid, NEW p \in Port, PortSetDone(v, p) PROVE AckMeansMember'
    <3>1. PICK o \in Oid : EnsureVlan(v, o) /\ EnsureMember(o, p)
      BY <2>1 DEF PortSetDone
    <3>2. Cached(v)' /\ saiVlan'[v] = o
      BY <3>1, Ensured DEF MemberInv
    <3>3. IsMember(v, p)'
      BY <3>1, <3>2 DEF IsMember, EnsureMember
    <3>4. last'.vid = v /\ last'.port = p /\ p \in brUp'
      BY <2>1 DEF PortSetDone, Asked
    <3> QED
      BY <3>2, <3>3, <3>4 DEF AckMeansMember, Cached, IsMember
  <2>2. ASSUME NEW v \in Vid, NEW p \in Port, VlanPortSet(v, p), ~PortSetDone(v, p)
        PROVE  reply' = "FAILED" \/ last'.fault
    BY <2>2 DEF VlanPortSet, QueryFails, PortRefused, VlanRefused, VlanNotCached,
       MembersUnread, MemberFails, UpFails, Asked
  <2>3. CASE InitFails \/ InitEarly \/ InitDone \/ VlanPvidSet \/ VlanAcknowledged
    BY <2>3 DEF InitFails, InitEarly, InitDone, VlanPvidSet, VlanAcknowledged, AckMeansMember
  <2>4. CASE UNCHANGED vars
    BY <2>4 DEF vars, AckMeansMember, Cached, IsMember
  <2> QED
    BY <2>1, <2>2, <2>3, <2>4 DEF Next, AckMeansMember
<1> QED
  BY <1>1, <1>2, MembersInvariant, PTL DEF Spec

(* A request for a new member that meets no failure is acknowledged        *)
(* (saiagent_vlan.c:86-178).                                               *)
THEOREM NewMemberAccepted == Spec => []NewMemberSucceeds
<1>1. Init => NewMemberSucceeds
  BY DEF Init, NewMemberSucceeds
<1>2. MemberInv /\ NewMemberSucceeds /\ [Next]_vars => NewMemberSucceeds'
  <2> SUFFICES ASSUME MemberInv, NewMemberSucceeds, [Next]_vars PROVE NewMemberSucceeds'
    OBVIOUS
  <2>1. ASSUME NEW v \in Vid, NEW p \in Port, VlanPortSet(v, p) PROVE NewMemberSucceeds'
    <3>1. CASE PortRefused(v, p)
      BY <3>1 DEF PortRefused, Asked, NewMemberSucceeds
    <3>2. CASE VlanRefused(v, p)
      <4>1. /\ last'.vid = v /\ last'.fault = (saiVlan[v] = Null)
            /\ ~Cached(v) /\ UNCHANGED <<list, saiVlan>>
        BY <3>2 DEF VlanRefused, Asked
      <4>2. registered /\ registered'
        BY <2>1 DEF VlanPortSet
      <4> QED
        BY <4>1, <4>2 DEF NewMemberSucceeds, Orphan, Cached
    <3>3. CASE QueryFails(v, p) \/ VlanNotCached(v, p) \/ MembersUnread(v, p) \/ UpFails(v, p)
      BY <3>3 DEF QueryFails, VlanNotCached, MembersUnread, UpFails, Asked, NewMemberSucceeds
    <3>4. CASE MemberFails(v, p)
      <4>1. PICK o \in Oid, fault \in BOOLEAN :
              /\ EnsureVlan(v, o) /\ Asked(v, p, fault)
              /\ fault \/ MemberRefused(o, p)
        BY <3>4 DEF MemberFails
      <4>2. last'.fault = fault /\ last'.had = IsMember(v, p)
        BY <4>1 DEF Asked
      <4>3. CASE <<o, p>> \in members
        <5>1. PICK w \in Vid : o = saiVlan[w]
          BY <4>3 DEF MemberInv
        <5>2. Cached(v) /\ o = Get(v)
          BY <4>1, <5>1 DEF EnsureVlan, CreateVlan
        <5>3. IsMember(v, p)
          BY <4>3, <5>2, GetFinds DEF IsMember, MemberInv
        <5> QED
          BY <4>2, <5>3 DEF NewMemberSucceeds
      <4> QED
        BY <4>1, <4>2, <4>3 DEF MemberRefused, NewMemberSucceeds
    <3>5. CASE PortSetDone(v, p)
      BY <3>5 DEF PortSetDone, NewMemberSucceeds
    <3> QED
      BY <2>1, <3>1, <3>2, <3>3, <3>4, <3>5 DEF VlanPortSet
  <2>2. CASE InitFails \/ InitEarly \/ InitDone \/ VlanPvidSet \/ VlanAcknowledged
    BY <2>2 DEF InitFails, InitEarly, InitDone, VlanPvidSet, VlanAcknowledged,
       NewMemberSucceeds
  <2>3. CASE UNCHANGED vars
    BY <2>3 DEF vars, NewMemberSucceeds, Orphan, Cached
  <2> QED
    BY <2>1, <2>2, <2>3 DEF Next
<1> QED
  BY <1>1, <1>2, MembersInvariant, PTL DEF Spec

-----------------------------------------------------------------------------
(* SaiVlan implements Membership.                                          *)

(* No two VLANs have one object: the SAI returns a fresh one each time.    *)
Distinct ==
  \A v \in Vid : \A w \in Vid : saiVlan[v] # Null /\ saiVlan[v] = saiVlan[w] => v = w

vlans == {v \in Vid : saiVlan[v] # Null}
member == {m \in Vid \X Port : <<saiVlan[m[1]], m[2]>> \in members}

\* A handler has a VLAN created, or finds it: no other VLAN and no member changes.
LEMMA VlanAdded ==
  ASSUME MemberInv, Distinct, NEW v \in Vid, NEW o \in Oid,
         CreateVlan(v, o) \/ EnsureVlan(v, o)
  PROVE  /\ Distinct'
         /\ vlans' = vlans \cup {v}
         /\ saiVlan'[v] = o /\ o # Null
         /\ \A w \in Vid, p \in Port :
              <<saiVlan'[w], p>> \in members <=> <<saiVlan[w], p>> \in members
<1> USE VlanAssumption
<1>1. saiVlan \in [Vid -> Oid \cup {Null}] /\ members \subseteq Oid \X Port
  BY DEF MemberInv, CacheTypes
<1>2. CASE CreateVlan(v, o)
  <2>1. /\ saiVlan[v] = Null /\ \A w \in Vid : saiVlan[w] # o
        /\ saiVlan' = [saiVlan EXCEPT ![v] = o]
    BY <1>2 DEF CreateVlan
  <2>2. Distinct'
    BY <1>1, <2>1 DEF Distinct
  <2>3. vlans' = vlans \cup {v}
    BY <1>1, <2>1 DEF vlans
  <2>4. \A m \in members : m[1] # o /\ m[1] # Null
    <3>1. \A m \in members : m[1] \in Oid /\ \E w \in Vid : m[1] = saiVlan[w]
      BY <1>1 DEF MemberInv
    <3> QED
      BY <2>1, <3>1
  <2>5. ASSUME NEW w \in Vid, NEW p \in Port
        PROVE  <<saiVlan'[w], p>> \in members <=> <<saiVlan[w], p>> \in members
    <3>1. CASE w = v
      <4>1. saiVlan'[w] = o /\ saiVlan[w] = Null
        BY <1>1, <2>1, <3>1
      <4>2. <<o, p>> \notin members /\ <<Null, p>> \notin members
        BY <2>4
      <4> QED
        BY <4>1, <4>2
    <3>2. CASE w # v
      BY <1>1, <2>1, <3>2
    <3> QED
      BY <3>1, <3>2
  <2> QED
    BY <1>1, <2>1, <2>2, <2>3, <2>5
<1>3. CASE Cached(v) /\ o = Get(v) /\ UNCHANGED <<list, saiVlan>>
  <2>1. saiVlan[v] = o /\ UNCHANGED saiVlan
    BY <1>3, GetFinds DEF MemberInv
  <2> QED
    BY <2>1 DEF Distinct, vlans
<1> QED
  BY <1>2, <1>3 DEF EnsureVlan

\* The same with the member of the request.
LEMMA MemberAdded ==
  ASSUME MemberInv, Distinct, NEW v \in Vid, NEW p \in Port, NEW o \in Oid,
         EnsureVlan(v, o), EnsureMember(o, p)
  PROVE  member' = member \cup {<<v, p>>}
<1>1. /\ Distinct' /\ saiVlan'[v] = o /\ o # Null
      /\ \A w \in Vid, q \in Port :
           <<saiVlan'[w], q>> \in members <=> <<saiVlan[w], q>> \in members
  BY VlanAdded
<1>2. ASSUME NEW w \in Vid, NEW q \in Port
      PROVE  <<saiVlan'[w], q>> \in members'
               <=> <<saiVlan[w], q>> \in members \/ (w = v /\ q = p)
  <2>1. members' = members \cup {<<o, p>>}
    BY DEF EnsureMember
  <2>2. saiVlan'[w] = o <=> w = v
    BY <1>1 DEF Distinct
  <2> QED
    BY <1>1, <2>1, <2>2
<1> QED
  BY <1>2 DEF member

LEMMA InitMembership == Init => Distinct /\ M!Init
<1> SUFFICES ASSUME Init PROVE Distinct /\ M!Init
  OBVIOUS
<1>1. Distinct
  BY VlanAssumption DEF Init, Distinct
<1>2. \A v \in Vid : saiVlan[v] # Null \/ \A p \in Port : <<saiVlan[v], p>> \notin members
  BY VlanAssumption DEF Init
<1> QED
  BY <1>1, <1>2 DEF Init, M!Init, IsMember

\* What the history says of a request.
LEMMA Remembered ==
  ASSUME NEW v \in Vid, NEW p \in Port, VlanPortSet(v, p)
  PROVE  last' # Null /\ last'.vid = v /\ last'.port = p /\ last'.fault \in BOOLEAN
<1>1. PICK fault \in BOOLEAN : Asked(v, p, fault)
  BY DEF VlanPortSet, QueryFails, PortRefused, VlanRefused, VlanNotCached, MembersUnread,
     MemberFails, UpFails, PortSetDone
<1>2. last' \in PortSetRequest
  BY <1>1 DEF Asked, IsMember, PortSetRequest
<1>3. last'.fault \in BOOLEAN
  BY <1>2 DEF PortSetRequest
<1> QED
  BY <1>1, <1>2, <1>3, VlanAssumption DEF Asked

\* A way out of sai_vlan_add_port_member is one of Membership's.
LEMMA PortSetIsMembership ==
  ASSUME MemberInv, Distinct, NEW v \in Vid, NEW p \in Port, VlanPortSet(v, p)
  PROVE  Distinct' /\ M!PortSet(v, p)
<1>1. last' # Null /\ last'.vid = v /\ last'.port = p /\ last'.fault \in BOOLEAN
  BY Remembered
<1> DEFINE askedNext == IF last' = Null THEN Null ELSE <<last'.vid, last'.port>>
<1>2. askedNext = <<v, p>>
  BY <1>1
<1> DEFINE Stops == reply' = "FAILED" \/ (reply' = "ACK" /\ last'.fault)
<1>3. SUFFICES /\ Distinct'
               /\ \/ UNCHANGED <<vlans, member, brUp>> /\ Stops
                  \/ vlans' = vlans \cup {v} /\ UNCHANGED <<member, brUp>> /\ Stops
                  \/ /\ vlans' = vlans \cup {v} /\ member' = member \cup {<<v, p>>}
                     /\ UNCHANGED brUp /\ reply' = "FAILED"
                  \/ /\ vlans' = vlans \cup {v} /\ member' = member \cup {<<v, p>>}
                     /\ brUp' = brUp \cup {p} /\ reply' = "ACK"
  BY <1>1, <1>2 DEF M!PortSet, M!Stops, M!Create, M!Join, M!Enable, vlans, member, IsMember
<1>4. CASE QueryFails(v, p) \/ PortRefused(v, p) \/ VlanRefused(v, p)
  BY <1>4 DEF QueryFails, PortRefused, VlanRefused, Asked, Distinct, vlans, member
<1>5. CASE VlanNotCached(v, p)
  <2>1. PICK o \in Oid : CreateVlan(v, o)
    BY <1>5 DEF VlanNotCached
  <2>2. UNCHANGED <<members, brUp>> /\ reply' = "FAILED"
    BY <1>5 DEF VlanNotCached
  <2>3. Distinct' /\ vlans' = vlans \cup {v} /\ UNCHANGED member
    BY <2>1, <2>2, VlanAdded DEF member
  <2> QED
    BY <2>2, <2>3
<1>6. CASE MembersUnread(v, p) \/ MemberFails(v, p)
  <2>1. PICK o \in Oid : EnsureVlan(v, o)
    BY <1>6 DEF MembersUnread, MemberFails
  <2>2. UNCHANGED <<members, brUp>> /\ Stops
    BY <1>6 DEF MembersUnread, MemberFails, Asked
  <2>3. Distinct' /\ vlans' = vlans \cup {v} /\ UNCHANGED member
    BY <2>1, <2>2, VlanAdded DEF member
  <2> QED
    BY <2>2, <2>3
<1>7. CASE UpFails(v, p) \/ PortSetDone(v, p)
  <2>1. PICK o \in Oid : EnsureVlan(v, o) /\ EnsureMember(o, p)
    BY <1>7 DEF UpFails, PortSetDone
  <2>2. Distinct' /\ vlans' = vlans \cup {v}
    BY <2>1, VlanAdded
  <2>3. member' = member \cup {<<v, p>>}
    BY <2>1, MemberAdded
  <2>4. \/ UNCHANGED brUp /\ reply' = "FAILED"
        \/ brUp' = brUp \cup {p} /\ reply' = "ACK"
    BY <1>7 DEF UpFails, PortSetDone
  <2> QED
    BY <2>2, <2>3, <2>4
<1> QED
  BY <1>4, <1>5, <1>6, <1>7 DEF VlanPortSet

LEMMA StepIsMembership ==
  MemberInv /\ Distinct /\ [Next]_vars => Distinct' /\ [M!Next]_(M!vars)
<1> SUFFICES ASSUME MemberInv, Distinct, [Next]_vars
             PROVE  Distinct' /\ (M!Next \/ UNCHANGED <<saiVlan, members, brUp, last, reply>>)
  BY DEF M!vars, IsMember
<1>1. ASSUME NEW v \in Vid, NEW p \in Port, VlanPortSet(v, p) PROVE Distinct' /\ M!Next
  BY <1>1, PortSetIsMembership DEF M!Next
<1>2. CASE InitFails \/ InitEarly \/ InitDone \/ VlanPvidSet \/ VlanAcknowledged
  <2>1. /\ last' = Null /\ reply' \in {"ACK", "FAILED"}
        /\ UNCHANGED <<saiVlan, members, brUp>>
    BY <1>2 DEF InitFails, InitEarly, InitDone, VlanPvidSet, VlanAcknowledged
  <2> QED
    BY <2>1 DEF Distinct, M!Next, M!Other, IsMember
<1>3. CASE UNCHANGED vars
  BY <1>3 DEF vars, Distinct
<1> QED
  BY <1>1, <1>2, <1>3 DEF Next

LEMMA DistinctInvariant == Spec => []Distinct
  BY InitMembership, StepIsMembership, MembersInvariant, PTL DEF Spec

(* A request adds its VLAN, its member and its port's admin state, in this *)
(* order, and touches no other, whatever is cached or was left by requests *)
(* that failed (saiagent_vlan.c:86-178): SaiVlan implements Membership.    *)
THEOREM MembershipImplemented == Spec => ImplementsMembership
  BY InitMembership, StepIsMembership, MembersInvariant, PTL DEF Spec, ImplementsMembership,
     M!Spec

(* A VLAN that was created and lost stays lost: no membership of it        *)
(* changes, and a request for it is acknowledged only where a failing call *)
(* is made twice (saiagent_vlan.c:110-125).                                *)
THEOREM OrphanStaysLost == Spec => OrphanForever
<1> DEFINE Same(v) == /\ Orphan(v)'
                      /\ \A p \in Port : IsMember(v, p)' = IsMember(v, p)
           Refused(v) == last' # Null /\ last'.vid = v /\ ~last'.fault => reply' = "FAILED"
           Stays(v) == Orphan(v) =>
             /\ Orphan(v)'
             /\ \A p \in Port : IsMember(v, p)' = IsMember(v, p)
             /\ last' # Null /\ last'.vid = v /\ ~last'.fault => reply' = "FAILED"
<1>1. MemberInv /\ Distinct /\ [Next]_vars => [\A v \in Vid \ {DefaultVid} : Stays(v)]_vars
  <2> SUFFICES ASSUME MemberInv, Distinct, Next, NEW v \in Vid, v # DefaultVid, Orphan(v)
               PROVE  Same(v) /\ Refused(v)
    OBVIOUS
  <2>1. registered /\ saiVlan[v] # Null /\ ~Cached(v)
    BY DEF Orphan
  <2>2. CASE InitFails \/ InitEarly \/ VlanPvidSet \/ VlanAcknowledged
    BY <2>1, <2>2
       DEF InitFails, InitEarly, VlanPvidSet, VlanAcknowledged, Orphan, Cached, IsMember
  <2>3. CASE InitDone
    <3>1. /\ list'[1] = [id |-> DefaultVid, oid |-> DefaultOid]
          /\ \A i \in DOMAIN list' : i = 1 \/ (i - 1 \in DOMAIN list /\ list'[i] = list[i - 1])
      BY <2>3, AddNewShape, VlanAssumption DEF InitDone, MemberInv, CacheTypes
    <3>2. ~Cached(v)'
      BY <2>1, <3>1 DEF Cached
    <3> QED
      BY <2>1, <2>3, <3>2 DEF InitDone, Orphan, IsMember
  <2>4. ASSUME NEW w \in Vid, NEW p \in Port, VlanPortSet(w, p) PROVE Same(v) /\ Refused(v)
    <3>1. CASE QueryFails(w, p) \/ PortRefused(w, p) \/ VlanRefused(w, p)
      BY <2>1, <2>4, <3>1
         DEF VlanPortSet, QueryFails, PortRefused, VlanRefused, Asked, Orphan, Cached, IsMember
    <3>2. CASE VlanNotCached(w, p)
      <4>1. /\ saiVlan'[v] = saiVlan[v] /\ UNCHANGED <<list, members, registered>>
            /\ reply' = "FAILED"
        BY <2>1, <2>4, <3>2 DEF VlanPortSet, VlanNotCached, CreateVlan, MemberInv, CacheTypes
      <4> QED
        BY <2>1, <4>1 DEF Orphan, Cached, IsMember
    <3>3. CASE \/ MembersUnread(w, p) \/ MemberFails(w, p)
               \/ UpFails(w, p) \/ PortSetDone(w, p)
      <4>1. PICK o \in Oid : /\ EnsureVlan(w, o)
                             /\ UNCHANGED members \/ members' = members \cup {<<o, p>>}
        BY <3>3 DEF MembersUnread, MemberFails, UpFails, PortSetDone, EnsureMember
      <4>2. w # v
        BY <2>1, <4>1 DEF EnsureVlan, CreateVlan
      <4>3. saiVlan'[v] = saiVlan[v] /\ ~Cached(v)' /\ saiVlan'[w] = o
        BY <2>1, <4>1, <4>2, Ensured DEF MemberInv
      <4>4. saiVlan[v] # o
        <5>1. Distinct'
          BY <4>1, VlanAdded
        <5> QED
          BY <2>1, <4>2, <4>3, <5>1 DEF Distinct
      <4>5. last'.vid = w /\ registered'
        BY <2>4, <3>3
           DEF VlanPortSet, MembersUnread, MemberFails, UpFails, PortSetDone, Asked
      <4>6. \A q \in Port : IsMember(v, q)' = IsMember(v, q)
        BY <4>1, <4>3, <4>4 DEF IsMember
      <4> QED
        BY <2>1, <4>2, <4>3, <4>5, <4>6 DEF Orphan
    <3> QED
      BY <2>4, <3>1, <3>2, <3>3 DEF VlanPortSet
  <2> QED
    BY <2>2, <2>3, <2>4 DEF Next
<1>2. Spec => [][\A v \in Vid \ {DefaultVid} : Stays(v)]_vars
  BY <1>1, MembersInvariant, DistinctInvariant, PTL DEF Spec
<1> QED
  BY <1>2 DEF OrphanForever

(* A request for a port that is a member of the VLAN already is refused in *)
(* every state, unless a call fails on the way: the loop reads one         *)
(* attribute of two, so it finds no member, and the SAI has it already     *)
(* (saiagent_vlan.c:128-157).                                              *)
THEOREM ExistingMemberRefused ==
  Spec => [](last # Null /\ last.had => reply = "FAILED" \/ last.fault)
<1> DEFINE Refused == last # Null /\ last.had => reply = "FAILED" \/ last.fault
<1>1. Init => Refused
  BY DEF Init
<1>2. MemberInv /\ Refused /\ [Next]_vars => Refused'
  <2> SUFFICES ASSUME MemberInv, Refused, [Next]_vars PROVE Refused'
    OBVIOUS
  <2>1. ASSUME NEW v \in Vid, NEW p \in Port, PortSetDone(v, p) PROVE ~last'.had
    <3>1. PICK o \in Oid : EnsureVlan(v, o) /\ EnsureMember(o, p)
      BY <2>1 DEF PortSetDone
    <3>2. \A m \in members : Fetched(m, 1) # <<o, p>>
      BY VlanAssumption DEF Fetched
    <3>3. <<o, p>> \notin members
      BY <3>1, <3>2 DEF EnsureMember, MemberRefused, Existing
    <3>4. saiVlan[v] = o \/ saiVlan[v] = Null
      BY <3>1, GetFinds DEF EnsureVlan, CreateVlan, MemberInv
    <3>5. ~IsMember(v, p)
      BY <3>3, <3>4, VlanAssumption DEF IsMember, MemberInv
    <3> QED
      BY <2>1, <3>5 DEF PortSetDone, Asked
  <2>2. ASSUME NEW v \in Vid, NEW p \in Port, VlanPortSet(v, p), ~PortSetDone(v, p)
        PROVE  reply' = "FAILED" \/ last'.fault
    BY <2>2 DEF VlanPortSet, QueryFails, PortRefused, VlanRefused, VlanNotCached,
       MembersUnread, MemberFails, UpFails, Asked
  <2>3. CASE InitFails \/ InitEarly \/ InitDone \/ VlanPvidSet \/ VlanAcknowledged
    BY <2>3 DEF InitFails, InitEarly, InitDone, VlanPvidSet, VlanAcknowledged
  <2>4. CASE UNCHANGED vars
    BY <2>4 DEF vars
  <2> QED
    BY <2>1, <2>2, <2>3, <2>4 DEF Next
<1> QED
  BY <1>1, <1>2, MembersInvariant, PTL DEF Spec
=============================================================================
