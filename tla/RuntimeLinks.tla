---------------------------- MODULE RuntimeLinks ----------------------------
(***************************************************************************)
(* The identifiers of runtime links and the network they name.             *)
(*                                                                         *)
(* Every mutation of a lab that touches its links rebuilds them from the   *)
(* saved topology and the placement of the VDs, merges the rebuilt list    *)
(* with the recorded one so that identifiers stay stable, and then creates *)
(* links on the hosts.  The identifier of a link on one host names a Linux *)
(* bridge there; a link between hosts is a VXLAN tunnel with its own VNI.  *)
(*                                                                         *)
(* Mutations are serialised by the lock of the API (NodeLifecycle), so one *)
(* `job' runs at a time.  All VDs have warm ports (hot links validated):   *)
(* host-side ports are named per lab, VD and interface, and one interface  *)
(* is used by one wire.  VDs stay in the saved topology, wires come and    *)
(* go.  A link may fail to be created; commands that delete do what they   *)
(* say (a lost transport and a dying service are NodeLifecycle's).         *)
(***************************************************************************)
EXTENDS Integers, FiniteSets

CONSTANTS
    Lab,        \* the labs
    Vd,         \* the VDs of all labs
    Host,       \* the hosts
    Wire,       \* the links a saved topology may contain: their position in it
    Ends,       \* Ends[w]: its VDs; one VD for a link to a real network
    VdLab,      \* the lab of a VD
    WireLab,    \* the lab of a wire
    Base,       \* Base[a]: dataplane_vxlan_base of lab a
    Settings    \* the settings considered: deployed labs, requests, failures

Requests == {"start", "stop", "add", "remove", "node", "all", "link", "edit"}

ASSUME WireAssumption ==
    /\ Wire \subseteq Nat /\ IsFiniteSet(Wire)
    /\ Ends \in [Wire -> (SUBSET Vd) \ {{}}]
    /\ VdLab \in [Vd -> Lab] /\ WireLab \in [Wire -> Lab]
    /\ \A w \in Wire : \A v \in Ends[w] : VdLab[v] = WireLab[w]
ASSUME BaseAssumption == Base \in [Lab -> Nat \ {0}]
ASSUME NoneAssumption == "none" \notin Host /\ "none" \notin Vd
ASSUME LinkSettingsAssumption ==
    Settings \subseteq [labs : SUBSET Lab, requests : SUBSET Requests, fails : BOOLEAN]

VARIABLES
    topo,       \* wires of the saved topologies
    rt,         \* VD -> runtime.state; "absent" without a runtime entry
    place,      \* VD -> runtime.host
    cont,       \* VDs whose container runs
    link,       \* wire -> its saved runtime link
    master,     \* port -> the bridge it is enslaved to
    tunnel,     \* port -> the VNI of the tunnel stitched to it, 0 without one
    carrier,    \* ports whose VD sees a carrier
    job,        \* the mutation in progress
    pc,         \* where it is
    todo,       \* wires it still has to merge or to create
    built,      \* wire -> the link in the controller's list
    used,       \* used_ids
    vnis,       \* used_vxlans
    setting     \* the setting of this behaviour, chosen once

vars == <<topo, rt, place, cont, link, master, tunnel, carrier,
          job, pc, todo, built, used, vnis, setting>>
nodes == <<rt, place, cont>>
net   == <<master, tunnel, carrier>>
merge == <<used, vnis>>

-----------------------------------------------------------------------------
(* Values *)

Kinds  == {"same_host", "cross_host", "real_net", "pending"}
LkState == {"down", "partial", "up", "error"}
Id     == (Kinds \cup {"none", "net"}) \X Nat     \* "l0" is <<"same_host", 0>>
None   == <<"none", 0>>
Net    == <<"net", 0>>                            \* the bridge of a real network
NoLink == [type |-> "none", id |-> None, vni |-> 0, state |-> "down"]
LinkRecord == [type : Kinds \cup {"none"}, id : Id, vni : Nat, state : LkState]
Exists(r) == r.type # "none"
NoLinks == [w \in Wire |-> NoLink]

Port == {p \in Wire \X Vd : p[2] \in Ends[p[1]]}
PortsOf(w) == {p \in Port : p[1] = w}
WiresOf(v) == {w \in Wire : v \in Ends[w]}

NoJob == [kind |-> "none", node |-> "none", lab |-> "none", goal |-> {}]

Deployed(a) == a \in setting.labs
May(r) == r \in setting.requests
RunningNodes == {v \in Vd : rt[v] \in {"running", "reconciling"}}

-----------------------------------------------------------------------------
(* build_runtime_links, pending_runtime_links and merge_runtime_links *)

\* classify_links with allow_unscheduled, real_net links and pending links
Type(w) ==
    IF \E v \in Ends[w] : place[v] = "none" THEN "pending"
    ELSE IF \E v \in Vd : Ends[w] = {v} THEN "real_net"
    ELSE IF \A u, v \in Ends[w] : place[u] = place[v] THEN "same_host"
    ELSE "cross_host"

\* The rebuilt list: local links, cross-host links, real networks, pending
\* links and pending real networks, each in the order of the topology.
Rank(w) ==
    CASE Type(w) = "same_host"  -> 1
      [] Type(w) = "cross_host" -> 2
      [] Type(w) = "real_net"   -> 3
      [] OTHER -> IF \E v \in Vd : Ends[w] = {v} THEN 5 ELSE 4
Before(x, w) == Rank(x) < Rank(w) \/ (Rank(x) = Rank(w) /\ x <= w)
First(w, ws) == w \in ws /\ \A x \in ws : Before(w, x)

\* enumerate(): the position of w among the wires ws of its type
Index(w, ws) == Cardinality({x \in ws : Type(x) = Type(w) /\ x < w})

\* A link as it is built from nothing: ids by position, VNIs from the base
Built(w, ws) ==
    [type  |-> Type(w), id |-> <<Type(w), Index(w, ws)>>,
     vni   |-> IF Type(w) = "cross_host" THEN Base[WireLab[w]] + Index(w, ws) ELSE 0,
     state |-> IF Type(w) = "pending" THEN "partial" ELSE "down"]

\* (mutant) identities are never carried over
KeepsNothing(w) == FALSE

\* merge: a link whose prior record has the same type keeps its identity
Keeps(w) == Exists(link[w]) /\ link[w].type = Type(w)

\* (mutant) an identifier is unused when this merge has not handed it out
UnusedInMerge(n, kind, ids) == \A w \in Wire : built[w].id # <<kind, n>>

\* the first index whose identifier is not in used_ids
FirstUnused(n, kind, ids) ==
    <<kind, n>> \notin ids /\ \A i \in 0..(n - 1) : <<kind, i>> \in ids

\* the first VNI from the candidate on that is not in used_vxlans
FirstFree(n, candidate, taken) ==
    n >= candidate /\ n \notin taken /\ \A i \in candidate..(n - 1) : i \in taken

\* At most two identifiers per wire, the old and the new, are ever in use.
MaxIndex == 2 * Cardinality(Wire)

Kept(w) ==
    /\ built' = [built EXCEPT ![w] = link[w]]
    /\ UNCHANGED merge

Renamed(w) ==
    LET new == Built(w, topo \cap {x \in Wire : WireLab[x] = job.lab}) IN
    \E n \in 0..MaxIndex, k \in new.vni..(new.vni + MaxIndex) :
        /\ FirstUnused(n, Type(w), used)
        /\ IF Type(w) = "cross_host" THEN FirstFree(k, new.vni, vnis) ELSE k = 0
        /\ built' = [built EXCEPT ![w] = [new EXCEPT !.id = <<Type(w), n>>, !.vni = k]]
        /\ used' = used \cup {<<Type(w), n>>}
        /\ vnis' = IF Type(w) = "cross_host" THEN vnis \cup {k} ELSE vnis

\* one turn of the loop of merge_runtime_links
Merge ==
    /\ pc = "merge"
    /\ \E w \in todo :
        /\ First(w, todo)
        /\ IF Keeps(w) THEN Kept(w) ELSE Renamed(w)
        /\ todo' = todo \ {w}
    /\ UNCHANGED <<topo, nodes, link, net, job, pc>>

-----------------------------------------------------------------------------
(* The network of the hosts *)

\* _runtime_bridge_name: a digest of the link's identifier, and of nothing else
Bridge(r) == r.id

\* What delete_link frees: every port of a deleted bridge, the port of a
\* real network, the tunnels of a link between hosts.
Freed(ws, rs) ==
    {p \in Port : \E w \in ws :
        \/ /\ rs[w].type = "same_host" /\ master[p] = Bridge(rs[w])
           /\ \E v \in Ends[w] : place[v] = place[p[2]]
        \/ rs[w].type = "real_net" /\ p[1] = w}
Unstitched(ws, rs) == {p \in Port : p[1] \in ws /\ rs[p[1]].type = "cross_host"}
Darkened(ws, rs)   == {p \in Port : p[1] \in ws /\ rs[p[1]].type # "pending"}

\* delete_link for the links ws of the list rs; the ports in lost vanish with
\* their container.
DeleteLinks(ws, rs, lost) ==
    /\ master'  = [p \in Port |-> IF p \in Freed(ws, rs) \cup lost THEN None ELSE master[p]]
    /\ tunnel'  = [p \in Port |-> IF p \in Unstitched(ws, rs) \cup lost THEN 0 ELSE tunnel[p]]
    /\ carrier' = carrier \ (Darkened(ws, rs) \cup lost)

\* create_link: enslave both ports, or stitch a tunnel to a port that has
\* none yet; then raise the carriers.
CreateLink(w, r) ==
    /\ master' = [p \in Port |->
                    IF p[1] # w THEN master[p]
                    ELSE IF r.type = "same_host" THEN Bridge(r)
                    ELSE IF r.type = "real_net" THEN Net ELSE master[p]]
    /\ tunnel' = [p \in Port |->
                    IF p[1] = w /\ r.type = "cross_host" /\ tunnel[p] = 0
                    THEN r.vni ELSE tunnel[p]]
    /\ carrier' = carrier \cup PortsOf(w)

PortsAt(v) == {p \in Port : p[2] = v}

-----------------------------------------------------------------------------
(* The mutations *)

Recorded(v) == {w \in WiresOf(v) : Exists(link[w])}

\* (mutant) the link takes over the state of the VD
StoppedLikeVd(r) == [r EXCEPT !.state = "stopped"]

\* what a stop records of the links of its VD
Stopped(r) == [r EXCEPT !.state = "partial"]

\* NodeLifecycleController.stop, with force
Stop(v) ==
    /\ pc = "idle" /\ May("stop") /\ rt[v] \in {"running", "error"}
    /\ DeleteLinks(Recorded(v), link, PortsAt(v))
    /\ cont' = cont \ {v}
    /\ rt' = [rt EXCEPT ![v] = "stopped"]
    /\ link' = [w \in Wire |-> IF w \in Recorded(v) THEN Stopped(link[w]) ELSE link[w]]
    /\ UNCHANGED <<topo, place, job, pc, todo, built, merge>>

\* NodeLifecycleController.remove: stop, then forget the VD and its links
Remove(v) ==
    /\ pc = "idle" /\ May("remove") /\ rt[v] # "absent"
    /\ \/ rt[v] = "stopped" /\ UNCHANGED net
       \/ rt[v] # "stopped" /\ DeleteLinks(Recorded(v), link, PortsAt(v))
    /\ cont' = cont \ {v}
    /\ rt' = [rt EXCEPT ![v] = "absent"]
    /\ place' = [place EXCEPT ![v] = "none"]
    /\ link' = [w \in Wire |-> IF w \in WiresOf(v) THEN NoLink ELSE link[w]]
    /\ UNCHANGED <<topo, job, pc, todo, built, merge>>

\* The GUI saves an edited topology.  A controller has parsed its copy when it
\* begins, so an edit during a mutation is an edit after it.
Edit(w) ==
    /\ pc = "idle" /\ May("edit") /\ Deployed(WireLab[w])
    /\ topo' = IF w \in topo THEN topo \ {w} ELSE topo \cup {w}
    /\ UNCHANGED <<nodes, link, net, job, pc, todo, built, merge>>

WiresIn(a) == {w \in Wire : WireLab[w] = a}

\* (mutant) used_ids starts from the links that stay in the topology
UsedByRemaining(a) == {link[w].id : w \in {x \in WiresIn(a) \cap topo : Exists(link[x])}}

\* used_ids and used_vxlans, as merge_runtime_links begins with them
UsedIds(a)  == {link[w].id : w \in {x \in WiresIn(a) : Exists(link[x])}}
UsedVnis(a) == {link[w].vni : w \in {x \in WiresIn(a) : link[x].vni # 0}}

\* The list is rebuilt from the topology of lab a; goal are the links the
\* mutation creates afterwards.
Begin(kind, v, a, goal) ==
    /\ pc = "idle" /\ May(kind) /\ Deployed(a)
    /\ job' = [kind |-> kind, node |-> v, lab |-> a, goal |-> goal]
    /\ pc' = "merge"
    /\ todo' = topo \cap WiresIn(a)
    /\ built' = NoLinks
    /\ used' = UsedIds(a) /\ vnis' = UsedVnis(a)
    /\ UNCHANGED <<topo, link, net>>

\* start: the container is deployed and the VD counts as running
Start(v) ==
    /\ rt[v] \in {"stopped", "error"}
    /\ Begin("start", v, VdLab[v], WiresOf(v))
    /\ rt' = [rt EXCEPT ![v] = "reconciling"]
    /\ cont' = cont \cup {v} /\ UNCHANGED place

\* add: a host is chosen first
Add(v, h) ==
    /\ rt[v] = "absent"
    /\ Begin("add", v, VdLab[v], WiresOf(v))
    /\ rt' = [rt EXCEPT ![v] = "reconciling"]
    /\ place' = [place EXCEPT ![v] = h]
    /\ cont' = cont \cup {v}

\* reconcile of a VD, of a lab, and of one link
Reconcile ==
    /\ \/ \E v \in Vd : Begin("node", v, VdLab[v], WiresOf(v))
       \/ \E a \in Lab : Begin("all", "none", a, WiresIn(a))
       \/ \E w \in Wire : Begin("link", "none", WireLab[w], {w})
    /\ UNCHANGED nodes

-----------------------------------------------------------------------------
(* The rest of a mutation, after the merge *)

Idle ==
    /\ pc' = "idle" /\ job' = NoJob /\ todo' = {} /\ built' = NoLinks
    /\ used' = {} /\ vnis' = {}

\* self.state.runtime_links = rebuilt, and the save at the end
Save(rs) == link' = [w \in Wire |-> IF WireLab[w] = job.lab THEN rs[w] ELSE link[w]]

\* (mutant) the links that left the topology are not deleted
ForgetDropped == {}

\* _refresh_runtime_links deletes the links that left the topology; add
\* merges without it and deletes nothing.
Dropped ==
    {w \in WiresIn(job.lab) : job.kind # "add" /\ Exists(link[w]) /\ ~ Exists(built[w])}

\* reconcile of an unknown VD or link raises after the refresh
Unknown ==
    \/ job.kind = "node" /\ rt[job.node] = "absent"
    \/ job.kind = "link" /\ \A w \in job.goal : ~ Exists(built[w])

\* reconcile_all_links and reconcile_link pass over pending links
ToCreate ==
    {w \in job.goal : Exists(built[w]) /\ (job.kind \in {"all", "link"} => built[w].type # "pending")}

Refreshed ==
    /\ pc = "merge" /\ todo = {}
    /\ DeleteLinks(Dropped, link, {})
    /\ \/ Unknown /\ Idle
       \/ /\ ~ Unknown
          /\ pc' = "create" /\ todo' = ToCreate
          /\ UNCHANGED <<job, built, merge>>
    /\ UNCHANGED <<topo, nodes, link>>

\* _stopped_endpoints; an empty set of running nodes stands for all of them
Missing(w) ==
    IF \E v \in RunningNodes : VdLab[v] = job.lab THEN Ends[w] \ RunningNodes ELSE {}

\* (mutant) a link that fails keeps the state it had
ErrorNotRecorded(w, s) ==
    IF s = "error" THEN built ELSE [built EXCEPT ![w] = [built[w] EXCEPT !.state = s]]

\* create_link: link.state = s
WithState(w, s) == [built EXCEPT ![w] = [built[w] EXCEPT !.state = s]]

CanConnect(w) == built[w].type # "pending" /\ Ends[w] \subseteq cont

Create ==
    /\ pc = "create"
    /\ \E w \in todo :
        /\ First(w, todo)
        /\ todo' = todo \ {w}
        /\ \/ /\ Missing(w) # {}
              /\ built' = WithState(w, "partial") /\ UNCHANGED net
           \/ /\ Missing(w) = {} /\ CanConnect(w)
              /\ built' = WithState(w, "up") /\ CreateLink(w, built[w])
    /\ UNCHANGED <<topo, nodes, link, job, pc, merge>>

\* create_link fails at w: the link is taken apart, unless the failure came
\* before anything was done.  start records the error, add rolls back,
\* reconcile saves nothing and reconcile_link saves the error.
TakenApart(w) == DeleteLinks({w}, built, {}) \/ UNCHANGED net
CreateFails ==
    /\ pc = "create"
    /\ \E w \in todo :
        /\ First(w, todo)
        /\ Missing(w) = {} /\ (setting.fails \/ ~ CanConnect(w))
        /\ \/ /\ job.kind = "start"
              /\ TakenApart(w) /\ Save(WithState(w, "error"))
              /\ rt' = [rt EXCEPT ![job.node] = "error"] /\ UNCHANGED <<place, cont>>
           \/ /\ job.kind = "add"
              /\ DeleteLinks({x \in WiresOf(job.node) : Exists(built[x])}, built, PortsAt(job.node))
              /\ rt' = [rt EXCEPT ![job.node] = "absent"]
              /\ place' = [place EXCEPT ![job.node] = "none"]
              /\ cont' = cont \ {job.node} /\ UNCHANGED link
           \/ /\ job.kind \in {"node", "all"}
              /\ TakenApart(w) /\ UNCHANGED <<nodes, link>>
           \/ /\ job.kind = "link"
              /\ TakenApart(w) /\ Save(WithState(w, "error")) /\ UNCHANGED nodes
    /\ Idle
    /\ UNCHANGED topo

Commit ==
    /\ pc = "create" /\ todo = {}
    /\ Save(built)
    /\ rt' = IF job.kind \in {"start", "add"} THEN [rt EXCEPT ![job.node] = "running"] ELSE rt
    /\ Idle
    /\ UNCHANGED <<topo, place, cont, net>>

-----------------------------------------------------------------------------
(* The specification *)

\* the wires lab a was deployed with
Deploys(a) == {w \in topo \cap WiresIn(a) : Ends[w] \subseteq cont}

\* Labs after their deploy: some VDs were deployed with the wires between
\* them, the other VDs and wires were saved to the topology later.
Init ==
    /\ setting \in Settings
    /\ cont \in SUBSET {v \in Vd : VdLab[v] \in setting.labs}
    /\ topo \in SUBSET {w \in Wire : WireLab[w] \in setting.labs}
    /\ rt = [v \in Vd |-> IF v \in cont THEN "running" ELSE "absent"]
    /\ \E h \in [Vd -> Host] : place = [v \in Vd |-> IF v \in cont THEN h[v] ELSE "none"]
    /\ link = [w \in Wire |->
                IF w \in Deploys(WireLab[w])
                THEN [Built(w, Deploys(WireLab[w])) EXCEPT !.state = "up"] ELSE NoLink]
    /\ master = [p \in Port |-> CASE link[p[1]].type = "same_host" -> Bridge(link[p[1]])
                                  [] link[p[1]].type = "real_net" -> Net
                                  [] OTHER -> None]
    /\ tunnel = [p \in Port |-> link[p[1]].vni]
    /\ carrier = {p \in Port : Exists(link[p[1]])}
    /\ pc = "idle" /\ job = NoJob /\ todo = {} /\ built = NoLinks
    /\ used = {} /\ vnis = {}

Next ==
    /\ \/ \E v \in Vd : Stop(v) \/ Remove(v) \/ Start(v)
       \/ \E v \in Vd, h \in Host : Add(v, h)
       \/ \E w \in Wire : Edit(w)
       \/ Reconcile \/ Merge \/ Refreshed \/ Create \/ CreateFails \/ Commit
    /\ UNCHANGED setting

Spec == Init /\ [][Next]_vars

-----------------------------------------------------------------------------
(* Properties *)

LinksTypeOK ==
    /\ topo \subseteq Wire /\ cont \subseteq Vd
    /\ rt \in [Vd -> {"absent", "stopped", "reconciling", "running", "error"}]
    /\ place \in [Vd -> Host \cup {"none"}]
    /\ link \in [Wire -> LinkRecord] /\ built \in [Wire -> LinkRecord]
    /\ master \in [Port -> Id] /\ tunnel \in [Port -> Nat] /\ carrier \subseteq Port
    /\ job \in [kind : Requests \cup {"none"}, node : Vd \cup {"none"},
                lab : Lab \cup {"none"}, goal : SUBSET Wire]
    /\ pc \in {"idle", "merge", "create"} /\ todo \subseteq Wire
    /\ used \subseteq Id /\ vnis \subseteq Nat
    /\ setting \in Settings

\* merge_runtime_links never gives two links of a lab one identifier or one
\* VNI, whatever was kept, renamed, dropped and brought back before.
IdsUnique ==
    \A w, x \in Wire :
        w # x /\ WireLab[w] = WireLab[x] /\ Exists(link[w]) /\ Exists(link[x]) =>
            /\ link[w].id # link[x].id
            /\ link[w].type = "cross_host" /\ link[x].type = "cross_host"
                => link[w].vni # link[x].vni

\* merge_runtime_links: "Keep runtime identifiers stable while applying a new
\* desired graph": a recorded link keeps its identifiers as long as its type.
IdsStable ==
    [][\A w \in Wire : Exists(link[w]) /\ link'[w].type = link[w].type
        => link'[w].id = link[w].id /\ link'[w].vni = link[w].vni]_vars

Active(w) ==
    /\ PortsOf(w) \subseteq carrier
    /\ \A p \in PortsOf(w) :
        CASE link[w].type = "same_host"  -> master[p] = Bridge(link[w])
          [] link[w].type = "cross_host" -> tunnel[p] = link[w].vni
          [] OTHER -> master[p] = Net

\* The record may lose track of the network.  A mutation that raises after it
\* changed the network saves nothing: reconcile when a link fails, reconcile of
\* something no longer known.  A hot add after a wire left the topology drops
\* its record and leaves its network in place.
Untracked ==
    \/ setting.fails /\ (May("node") \/ May("all"))
    \/ May("edit") /\ (May("node") \/ May("link") \/ May("add"))

\* USER_GUIDE: "`up`: both endpoints are running and the dataplane link is
\* active": between mutations, a link saved as up whose VDs run is connected
\* end to end, under the identifiers that were recorded for it.
UpIsActive ==
    pc = "idle" /\ ~ Untracked => \A w \in Wire :
        link[w].state = "up" /\ (\A v \in Ends[w] : rt[v] = "running") => Active(w)

\* The ports of two wires never share a runtime bridge or a tunnel, not even
\* while a mutation is under way: VDs reach each other over their own links
\* only.
LinksPrivate ==
    ~ Untracked => \A p, q \in Port : p[1] # q[1] =>
        /\ master[p] = master[q] /\ place[p[2]] = place[q[2]] => master[p] \in {None, Net}
        /\ tunnel[p] = tunnel[q] => tunnel[p] = 0

-----------------------------------------------------------------------------
(* The inductive strengthening of IdsUnique and IdsStable: what the merge    *)
(* loop has built so far, against the saved list and against itself.         *)

\* r and s, of different wires, share neither identifier nor VNI
Apart(r, s) ==
    Exists(r) /\ Exists(s) =>
        /\ r.id # s.id
        /\ r.type = "cross_host" /\ s.type = "cross_host" => r.vni # s.vni

\* the identifiers of r are taken
Taken(r) == Exists(r) => r.id \in used /\ (r.type = "cross_host" => r.vni \in vnis)

Numbered(r) == r.type = "cross_host" => r.vni # 0

BuiltInLab == \A w \in Wire : Exists(built[w]) => WireLab[w] = job.lab
BuiltApart == \A w, x \in Wire : w # x => Apart(built[w], built[x])
BuiltStable == \A w \in Wire :
    Exists(built[w]) /\ built[w].type = link[w].type
        => built[w].id = link[w].id /\ built[w].vni = link[w].vni
AllNumbered == \A w \in Wire : Numbered(link[w]) /\ Numbered(built[w])
MergeTaken == pc = "merge" =>
    /\ todo \subseteq WiresIn(job.lab)
    /\ \A w \in Wire : Taken(built[w])
    /\ \A w \in WiresIn(job.lab) : Taken(link[w])
\* a renamed link is apart from every saved one
MergeApart == pc = "merge" =>
    \A w \in Wire, x \in WiresIn(job.lab) :
        built[w].type # link[w].type => Apart(built[w], link[x])
IdleEmpty == pc = "idle" => built = NoLinks

IdsInv ==
    /\ IdsUnique /\ BuiltInLab /\ BuiltApart /\ BuiltStable /\ AllNumbered
    /\ MergeTaken /\ MergeApart /\ IdleEmpty
=============================================================================
