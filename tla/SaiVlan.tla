------------------------------ MODULE SaiVlan ------------------------------
(***************************************************************************)
(* The VLAN component, src/src/saiagent_vlan.c: a cache of the VLANs the   *)
(* agent created, next to the VLANs, members and bridge ports of the SAI.  *)
(* The handlers run one at a time; each SAI call and each allocation may   *)
(* fail, and a handler that fails undoes nothing.  SAI_RET_ERR makes a     *)
(* call that failed again and returns the second result: a call that fails *)
(* only once ends its function early, with SUCCESS (saiagent_sai.h:6-10).  *)
(***************************************************************************)
EXTENDS Naturals, Sequences

CONSTANTS Vid,          \* VLAN ids the driver uses
          Port,         \* port numbers the driver uses
          BrPort,       \* the ports whose entry of br_port_list is set
          Oid,          \* object ids of VLANs
          Null,         \* SAI_NULL_OBJECT_ID
          DefaultVid,   \* the id of the default VLAN
          DefaultOid,   \* and its object id
          MaxCache      \* bound: no saiagent_vlan_init on a longer cache

\* had: the port was a member already; fault: a call failed for no reason of
\* the agent's making.
PortSetRequest == [vid : Vid, port : Port, had : BOOLEAN, fault : BOOLEAN]

ASSUME VlanAssumption ==
  /\ BrPort \subseteq Port
  /\ DefaultVid \in Vid /\ DefaultOid \in Oid
  /\ Null \notin Oid \cup Port \cup PortSetRequest
  /\ MaxCache \in Nat

VARIABLES
  list,         \* ctx.list, newest entry first
  saiVlan,      \* saiVlan[v]: the object of VLAN v in the SAI, or Null
  members,      \* the members of the SAI's VLANs: object of the VLAN, port
  brUp,         \* bridge ports with admin state up
  registered,   \* the VLAN commands have handlers
  oom,          \* history: an allocation failed after create_vlan
  last,         \* history: the last request if it was VLAN_PORT_SET, or Null
  reply         \* the reply to the last request, "ACK" or "FAILED"

vars == <<list, saiVlan, members, brUp, registered, oom, last, reply>>

TypeOK ==
  /\ list \in Seq([id : Vid, oid : Oid])
  /\ saiVlan \in [Vid -> Oid \cup {Null}]
  /\ members \subseteq Oid \X Port
  /\ brUp \subseteq Port
  /\ registered \in BOOLEAN /\ oom \in BOOLEAN
  /\ last \in PortSetRequest \cup {Null}
  /\ reply \in {"ACK", "FAILED"}

\* The switch is up; its ports may or may not be in the default VLAN.
Init ==
  /\ list = << >>
  /\ saiVlan = [v \in Vid |-> IF v = DefaultVid THEN DefaultOid ELSE Null]
  /\ members \in {{}, {DefaultOid} \X BrPort}
  /\ brUp = {}
  /\ registered = FALSE /\ oom = FALSE
  /\ last = Null /\ reply = "FAILED"
-----------------------------------------------------------------------------
(* The cache.                                                              *)
AddNew(v, o) == list' = <<[id |-> v, oid |-> o]>> \o list

Cached(v) == \E i \in DOMAIN list : list[i].id = v

MutGet(v) == list[1].oid     \* mutant: the head of the list, whatever its id

\* saiagent_vlan_get: the first entry with this id.
Get(v) ==
  list[CHOOSE i \in DOMAIN list :
         list[i].id = v /\ \A j \in 1..(i - 1) : list[j].id # v].oid

IsMember(v, p) == <<saiVlan[v], p>> \in members

Asked(v, p, fault) ==
  last' = [vid |-> v, port |-> p, had |-> IsMember(v, p), fault |-> fault]
-----------------------------------------------------------------------------
(* saiagent_vlan_init.                                                     *)
InitFails ==
  /\ last' = Null
  /\ reply' = "FAILED"
  /\ UNCHANGED <<list, saiVlan, members, brUp, registered, oom>>

MutInitDone ==              \* mutant: the switch object is cached for the VLAN
  /\ Len(list) < MaxCache
  /\ \E o \in Oid : AddNew(DefaultVid, o)
  /\ registered' = TRUE
  /\ last' = Null
  /\ reply' = "ACK"
  /\ UNCHANGED <<saiVlan, members, brUp, oom>>

\* The query or get_vlan_attribute failed once: SUCCESS, and nothing cached.
InitEarly ==
  /\ registered' = TRUE
  /\ last' = Null
  /\ reply' = "ACK"
  /\ UNCHANGED <<list, saiVlan, members, brUp, oom>>

InitDone ==
  /\ Len(list) < MaxCache
  /\ AddNew(DefaultVid, DefaultOid)
  /\ registered' = TRUE
  /\ last' = Null
  /\ reply' = "ACK"
  /\ UNCHANGED <<saiVlan, members, brUp, oom>>
-----------------------------------------------------------------------------
(* VLAN_PORT_SET, sai_vlan_add_port_member: one disjunct per way out.      *)

\* A query failed, once or twice.
QueryFails(v, p) ==
  /\ reply' \in {"ACK", "FAILED"} /\ Asked(v, p, TRUE)
  /\ UNCHANGED <<list, saiVlan, members, brUp, oom>>

\* br_port_list[port_id] is SAI_NULL_OBJECT_ID.
PortRefused(v, p) ==
  /\ p \notin BrPort
  /\ reply' = "FAILED" /\ Asked(v, p, FALSE)
  /\ UNCHANGED <<list, saiVlan, members, brUp, oom>>

\* create_vlan: the SAI refuses an id that exists and returns a fresh object.
CreateVlan(v, o) ==
  /\ saiVlan[v] = Null
  /\ o \in Oid \ {saiVlan[w] : w \in Vid}
  /\ saiVlan' = [saiVlan EXCEPT ![v] = o]

MutVlanRefused(v, p) ==     \* mutant: the error of create_vlan is not returned
  /\ p \in BrPort /\ ~Cached(v)
  /\ reply' = "ACK" /\ Asked(v, p, saiVlan[v] = Null)
  /\ UNCHANGED <<list, saiVlan, members, brUp, oom>>

VlanRefused(v, p) ==
  /\ p \in BrPort /\ ~Cached(v)
  /\ reply' = "FAILED" /\ Asked(v, p, saiVlan[v] = Null)
  /\ UNCHANGED <<list, saiVlan, members, brUp, oom>>

\* saiagent_vlan_add_new returned NULL.
VlanNotCached(v, p) ==
  /\ p \in BrPort /\ ~Cached(v)
  /\ \E o \in Oid : CreateVlan(v, o)
  /\ oom' = TRUE
  /\ reply' = "FAILED" /\ Asked(v, p, TRUE)
  /\ UNCHANGED <<list, members, brUp>>

MutEnsureVlan(v, o) ==      \* mutant: a new VLAN is left for the caller to cache
  \/ Cached(v) /\ o = Get(v) /\ UNCHANGED <<list, saiVlan>>
  \/ ~Cached(v) /\ CreateVlan(v, o) /\ UNCHANGED list

\* The object of VLAN v, from the cache or newly created and cached.
EnsureVlan(v, o) ==
  \/ Cached(v) /\ o = Get(v) /\ UNCHANGED <<list, saiVlan>>
  \/ ~Cached(v) /\ CreateVlan(v, o) /\ AddNew(v, o)

\* The member list could not be read once: SUCCESS, with the VLAN only.
MembersUnread(v, p) ==
  /\ p \in BrPort
  /\ \E o \in Oid : EnsureVlan(v, o)
  /\ reply' = "ACK" /\ Asked(v, p, TRUE)
  /\ UNCHANGED <<members, brUp, oom>>

(* What get_vlan_member_attribute fills in of a member: the first `count`  *)
(* attributes of VLAN and bridge port; the others keep SAI_NULL_OBJECT_ID. *)
Fetched(m, count) == <<m[1], IF count < 2 THEN Null ELSE m[2]>>

\* The member loop; it asks for one attribute.
Existing(o, p) == \E m \in members : Fetched(m, 1) = <<o, p>>

\* The SAI has no two members for one VLAN and bridge port.
MemberRefused(o, p) == ~Existing(o, p) /\ <<o, p>> \in members

\* No member: a read failed, the list's twice, or create_vlan_member did.
MemberFails(v, p) ==
  /\ p \in BrPort
  /\ \E o \in Oid, fault \in BOOLEAN :
       /\ EnsureVlan(v, o)
       /\ fault \/ MemberRefused(o, p)
       /\ Asked(v, p, fault)
  /\ reply' = "FAILED"
  /\ UNCHANGED <<members, brUp, oom>>

MutEnsureMember(o, p) ==    \* mutant: the status of create_vlan_member is ignored
  members' \in {members, members \cup {<<o, p>>}}

EnsureMember(o, p) ==
  /\ ~MemberRefused(o, p)
  /\ members' = members \cup {<<o, p>>}

\* The member is there, setting the bridge port up failed.
UpFails(v, p) ==
  /\ p \in BrPort
  /\ \E o \in Oid : EnsureVlan(v, o) /\ EnsureMember(o, p)
  /\ reply' = "FAILED" /\ Asked(v, p, TRUE)
  /\ UNCHANGED <<brUp, oom>>

\* The port may have been set up only by the second try.
PortSetDone(v, p) ==
  /\ p \in BrPort
  /\ \E o \in Oid : EnsureVlan(v, o) /\ EnsureMember(o, p)
  /\ brUp' = brUp \cup {p}
  /\ reply' = "ACK" /\ \E fault \in BOOLEAN : Asked(v, p, fault)
  /\ UNCHANGED oom

VlanPortSet(v, p) ==
  /\ registered
  /\ \/ QueryFails(v, p)
     \/ PortRefused(v, p)
     \/ VlanRefused(v, p)
     \/ VlanNotCached(v, p)
     \/ MembersUnread(v, p)
     \/ MemberFails(v, p)
     \/ UpFails(v, p)
     \/ PortSetDone(v, p)
  /\ UNCHANGED registered
-----------------------------------------------------------------------------
(* The other handlers.                                                     *)

\* VLAN_PVID_SET changes the port component's state and may fail there.
VlanPvidSet ==
  /\ registered
  /\ reply' \in {"ACK", "FAILED"} /\ last' = Null
  /\ UNCHANGED <<list, saiVlan, members, brUp, registered, oom>>

\* VLAN_CREATE, VLAN_DELETE and STP_PORT_SET change nothing.
VlanAcknowledged ==
  /\ registered
  /\ reply' = "ACK" /\ last' = Null
  /\ UNCHANGED <<list, saiVlan, members, brUp, registered, oom>>

Next ==
  \/ InitFails
  \/ InitEarly
  \/ InitDone
  \/ \E v \in Vid, p \in Port : VlanPortSet(v, p)
  \/ VlanPvidSet
  \/ VlanAcknowledged

Spec == Init /\ [][Next]_vars
-----------------------------------------------------------------------------
(* Whatever failed before, an entry of the cache names the object the SAI  *)
(* has for its VLAN id (saiagent_vlan.c:31-45, 110-126): no stale entry,   *)
(* and no two ids with one object.                                         *)
CacheMatchesSai ==
  \A i \in DOMAIN list : list[i].oid # Null /\ saiVlan[list[i].id] = list[i].oid

(* A VLAN of the SAI that the agent does not know.                         *)
Orphan(v) == registered /\ saiVlan[v] # Null /\ ~Cached(v)

(* No failure of an SAI call loses a VLAN the agent created, on any way    *)
(* out of sai_vlan_add_port_member: only a failed calloc does              *)
(* (saiagent_vlan.c:123-125).  The default VLAN is not created by the      *)
(* agent, and saiagent_vlan_init may end early without it (65, 76).        *)
OrphanNeedsAllocFailure == (\E v \in Vid \ {DefaultVid} : Orphan(v)) => oom

(* A lost VLAN stays lost: create_vlan is refused (saiagent_vlan.c:118)    *)
(* and nothing else fills the cache.  No request makes or ends a           *)
(* membership of it any more, and only a call that fails at random, by way *)
(* of SAI_RET_ERR, makes the agent acknowledge one.                        *)
OrphanForever ==
  [][\A v \in Vid \ {DefaultVid} : Orphan(v) =>
       /\ Orphan(v)'
       /\ \A p \in Port : IsMember(v, p)' = IsMember(v, p)
       /\ last' # Null /\ last'.vid = v /\ ~last'.fault => reply' = "FAILED"]_vars

(* VLAN_PORT_SET acknowledged, and no call failed on the way: the VLAN is  *)
(* cached, the port is a member of it and its bridge port is up            *)
(* (saiagent_vlan.c:163-177, 211-216).                                     *)
AckMeansMember ==
  last # Null /\ reply = "ACK" /\ ~last.fault =>
    Cached(last.vid) /\ IsMember(last.vid, last.port) /\ last.port \in brUp

(* A bridge port is up only if some VLAN of the cache has it as a member:  *)
(* it is set up last (saiagent_vlan.c:163-175).                            *)
UpNeedsMember ==
  \A p \in brUp : \E i \in DOMAIN list : <<list[i].oid, p>> \in members

(* Refinement: a request adds its VLAN, its member and its port's admin    *)
(* state, in this order, and touches nothing else, whatever is stale,      *)
(* cached or left by requests that failed; it is acknowledged too early    *)
(* only if a call failed on the way (saiagent_vlan.c:86-178).              *)
M == INSTANCE Membership WITH
       vlans  <- {v \in Vid : saiVlan[v] # Null},
       member <- {m \in Vid \X Port : IsMember(m[1], m[2])},
       up     <- brUp,
       asked  <- IF last = Null THEN Null ELSE <<last.vid, last.port>>,
       failed <- last # Null /\ last.fault,
       None   <- Null

ImplementsMembership == M!Spec

(* A request for a new member that meets no failure is acknowledged,       *)
(* whatever failed in earlier requests, unless the VLAN was lost or the    *)
(* port has no bridge port (saiagent_vlan.c:86-178).                       *)
NewMemberSucceeds ==
  last # Null /\ ~last.had /\ ~last.fault =>
    reply = "ACK" \/ last.port \notin BrPort \/ Orphan(last.vid)

(* "check if vlan member already exists", "Using existing vlan member"     *)
(* (saiagent_vlan.c:128, 152): a request for a member that exists is       *)
(* acknowledged when no call fails.                                        *)
ExistingMemberReused ==
  last # Null /\ last.had /\ ~last.fault =>
    reply = "ACK" \/ last.port \notin BrPort \/ Orphan(last.vid)
=============================================================================
