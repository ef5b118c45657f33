----------------------------- MODULE Topologies -----------------------------
(***************************************************************************)
(* The topology files of the labs and the editor that works on them:       *)
(* topology_routes, topology_controller, containerlab_service,             *)
(* realnet_bgp, device_catalog and drawio_service of the GUI.  Every edit  *)
(* loads the file, changes the topology and saves it without giving up the *)
(* event loop, so an edit is one step; what a client does with the answer  *)
(* of one edit when it sends the next is not.                              *)
(***************************************************************************)
EXTENDS Naturals, FiniteSets

CONSTANTS
    LabId,      \* labs
    NodeName,   \* names of nodes
    NodeId,     \* identities handed out by uuid4, never twice
    Subnet,     \* /24 subnets of realnet_network_pool
    Client,     \* browser tabs, each with a copy of a topology
    NoFile

ASSUME TopologiesAssumption == NoFile \notin NodeId /\ IsFiniteSet(NodeName)

VARIABLES
    file,   \* lab -> topology, or NoFile
    copy    \* client -> [lab, topo], what it holds

topoVars == <<file, copy>>

\* `id` keys the persistent disk of a VD, `feat` is the state of its catalogue
\* features ("wrapped" carries the materialize block of the sidecar as well), `lan`
\* the network of a real network, as the /24s it covers.
Empty == [node |-> [n \in {} |-> NoFile], link |-> {}]
Vd(id) == [kind |-> "vd", id |-> id, feat |-> "none", lan |-> {}]
RealNet(lan) == [kind |-> "_real_net", id |-> NoFile, feat |-> "none", lan |-> lan]

Names(t) == DOMAIN t.node
Nets(t) == {n \in Names(t) : t.node[n].kind = "_real_net"}
Lan(t) == UNION {t.node[n].lan : n \in Nets(t)}
Ids(t) == {t.node[n].id : n \in Names(t) \ Nets(t)}
OnDisk == {l \in LabId : file[l] # NoFile}

-----------------------------------------------------------------------------
(* Helpers of the controllers and services.                                *)

SetNode(t, n, rec) == [t EXCEPT !.node = [m \in Names(t) \cup {n} |->
                                            IF m = n THEN rec ELSE t.node[m]]]
DropNode(t, n) == [node |-> [m \in Names(t) \ {n} |-> t.node[m]],
                   link |-> {e \in t.link : n \notin e}]

\* (mutant) the sidecars stay under the old name and a new identity is made up
RenamedAfresh(t, n, m) ==
    LET fresh == CHOOSE i \in NodeId : TRUE
    IN [node |-> [x \in (Names(t) \ {n}) \cup {m} |->
                    IF x # m THEN t.node[x]
                    ELSE IF t.node[n].kind = "vd" THEN [t.node[n] EXCEPT !.id = fresh]
                    ELSE t.node[n]],
        link |-> {{IF x = n THEN m ELSE x : x \in e} : e \in t.link}]

\* The sidecar entries and the ends of the links move to the new name.
Renamed(t, n, m) ==
    [node |-> [x \in (Names(t) \ {n}) \cup {m} |-> IF x = m THEN t.node[n] ELSE t.node[x]],
     link |-> {{IF x = n THEN m ELSE x : x \in e} : e \in t.link}]

\* _used_realnet_lan_networks: every other file, and this one unless it already
\* holds what is asked for.
UsedLans(l, want) ==
    UNION {Lan(file[k]) : k \in OnDisk \ {l}}
        \cup (IF l \in OnDisk /\ Lan(file[l]) # want THEN Lan(file[l]) ELSE {})

\* (mutant) an explicit network is taken as it is
AnyLan(l, want) == IF want # {} THEN {want} ELSE {{s} : s \in Subnet \ UsedLans(l, want)}

\* normalize_realnet_lan: an explicit network must not overlap, a blank one is picked
\* from the pool; nothing to choose is an error.
NormalLans(l, want) ==
    IF want # {} THEN IF want \cap UsedLans(l, want) = {} THEN {want} ELSE {}
    ELSE {{s} : s \in Subnet \ UsedLans(l, want)}

\* _prepare_realnet_bgp: at most one real network, and its LAN normalised.
Prepared(l, t) ==
    IF Nets(t) = {} THEN {t}
    ELSE {[t EXCEPT !.node = [n \in Names(t) |->
             IF n \in Nets(t) THEN RealNet(lan) ELSE t.node[n]]] :
          lan \in IF Cardinality(Nets(t)) > 1 THEN {} ELSE NormalLans(l, Lan(t))}

\* save_topology_to: clean_node_features_state knows no item of a wrapped state and
\* drops it; load_topology_from_file unwraps what was saved.
Saved(t) == [t EXCEPT !.node = [n \in Names(t) |->
               [t.node[n] EXCEPT !.feat = IF @ = "wrapped" THEN "none" ELSE @]]]

\* What save_topology_to leaves in the topology that the route answers with.
Answer(t) ==
    IF \A n \in Names(t) : t.node[n].feat # "plain" THEN t
    ELSE [t EXCEPT !.node = [n \in Names(t) |->
            [t.node[n] EXCEPT !.feat = IF @ = "plain" THEN "wrapped" ELSE "none"]]]

\* An edit by client c of lab l: the file is written and the client gets the answer.
Edits(c, l, t) ==
    /\ file' = [file EXCEPT ![l] = Saved(t)]
    /\ copy' = [copy EXCEPT ![c] = [lab |-> l, topo |-> Answer(t)]]

FreshIds == NodeId \ UNION ({Ids(file[l]) : l \in OnDisk}
                            \cup {Ids(copy[c].topo) : c \in {d \in Client : copy[d] # NoFile}})

-----------------------------------------------------------------------------
(* Routes.                                                                 *)

CreateLabFile(c, l) == l \notin OnDisk /\ Edits(c, l, Empty)

GetTopology(c, l) ==
    /\ l \in OnDisk
    /\ copy' = [copy EXCEPT ![c] = [lab |-> l, topo |-> file[l]]]
    /\ UNCHANGED file

\* PUT: the client sends back the topology it holds, whatever happened meanwhile.
SaveTopology(c) ==
    /\ copy[c] # NoFile /\ copy[c].lab \in OnDisk
    /\ \E t \in Prepared(copy[c].lab, copy[c].topo) :
         file' = [file EXCEPT ![copy[c].lab] = Saved(t)]
    /\ UNCHANGED copy

AddNode(c, l, n) ==
    /\ l \in OnDisk /\ n \notin Names(file[l])
    /\ \/ \E id \in FreshIds : Edits(c, l, SetNode(file[l], n, Vd(id)))
       \/ /\ Nets(file[l]) = {}
          /\ \E want \in SUBSET Subnet : \E lan \in NormalLans(l, want) :
               Edits(c, l, SetNode(file[l], n, RealNet(lan)))

\* PATCH of the features of a VD or of the network of a real network.
UpdateNode(c, l, n) ==
    /\ l \in OnDisk /\ n \in Names(file[l])
    /\ \E t \in IF n \in Nets(file[l])
                THEN {SetNode(file[l], n, RealNet(want)) : want \in SUBSET Subnet}
                ELSE {SetNode(file[l], n, [file[l].node[n] EXCEPT !.feat = f]) :
                        f \in {"none", "plain"}} :
         \E p \in Prepared(l, t) : Edits(c, l, p)

RenameNode(c, l, n, m) ==
    /\ l \in OnDisk /\ n \in Names(file[l]) /\ m \notin Names(file[l])
    /\ \E p \in Prepared(l, Renamed(file[l], n, m)) : Edits(c, l, p)

\* The VD has been removed from the running lab before (RemoveNode of NodeLifecycle).
RemoveNode(c, l, n) ==
    /\ l \in OnDisk /\ n \in Names(file[l])
    /\ Edits(c, l, DropNode(file[l], n))

\* add_link takes any two ends; remove_link by its ends.
AddLink(c, l, n, m) ==
    /\ l \in OnDisk /\ Edits(c, l, [file[l] EXCEPT !.link = @ \cup {{n, m}}])

RemoveLink(c, l, n, m) ==
    /\ l \in OnDisk /\ Edits(c, l, [file[l] EXCEPT !.link = @ \ {{n, m}}])

\* to_xml: a drawing keeps kinds, extra fields (the LAN too) and links between known
\* nodes; it has neither identities nor sidecars.
Drawing(t) ==
    [node |-> [n \in Names(t) |-> [t.node[n] EXCEPT !.id = NoFile, !.feat = "none"]],
     link |-> {e \in t.link : e \subseteq Names(t)}]

\* The drawing of some lab is imported, over another file or a new one; it is saved as
\* it is, and the nodes get new identities.
ImportDrawio(c, l) ==
    \E k \in OnDisk :
        LET d == Drawing(file[k])
        IN \E id \in [Names(d) \ Nets(d) -> FreshIds] :
             /\ \A n, m \in DOMAIN id : id[n] = id[m] => n = m
             /\ Edits(c, l, [d EXCEPT !.node = [n \in Names(d) |->
                               IF n \in DOMAIN id THEN [d.node[n] EXCEPT !.id = id[n]]
                               ELSE d.node[n]]])

\* _materialize_topology_metadata before a plan or a deploy: load and save, called by
\* both on the event loop without an await in between, as every edit is.
\* (resolve_node_host would call it in a worker thread; nothing calls resolve_node_host.)
Materialize(l) ==
    /\ l \in OnDisk /\ file' = [file EXCEPT ![l] = Saved(file[l])]
    /\ UNCHANGED copy

DeleteFile(l) ==
    /\ l \in OnDisk /\ file' = [file EXCEPT ![l] = NoFile]
    /\ UNCHANGED copy

TopologiesInit ==
    /\ file = [l \in LabId |-> NoFile]
    /\ copy = [c \in Client |-> NoFile]

NodeEdit(c, l) ==
    \E n \in NodeName :
        \/ AddNode(c, l, n) \/ UpdateNode(c, l, n) \/ RemoveNode(c, l, n)
        \/ \E m \in NodeName \ {n} : \/ RenameNode(c, l, n, m)
                                     \/ AddLink(c, l, n, m) \/ RemoveLink(c, l, n, m)

TopologiesNext ==
    \/ \E c \in Client, l \in LabId :
         \/ CreateLabFile(c, l) \/ GetTopology(c, l) \/ NodeEdit(c, l) \/ ImportDrawio(c, l)
    \/ \E c \in Client : SaveTopology(c)
    \/ \E l \in LabId : Materialize(l) \/ DeleteFile(l)

TopologiesSpec == TopologiesInit /\ [][TopologiesNext]_topoVars

-----------------------------------------------------------------------------
(* Properties.                                                             *)

Disjoint == \A k, l \in OnDisk : k # l => Lan(file[k]) \cap Lan(file[l]) = {}

\* The LANs of the real networks of two labs never come to overlap by an edit, a save
\* of a stale copy or a file that is written again: normalize_realnet_lan refuses it
\* with "RealNet LAN network overlaps an existing RealNet network".  The import of a
\* drawing is the one operation that does not go through it.
OverlapOnlyByImport ==
    [][Disjoint /\ ~Disjoint' => \E c \in Client, l \in LabId : ImportDrawio(c, l)]_topoVars

\* Two VDs never have the same identity and hence the same persistent disk, through
\* renames, stale copies that are saved again, removals and imports.
DisksAreDistinct ==
    /\ \A l \in OnDisk : Cardinality(Ids(file[l])) = Cardinality(Names(file[l]) \ Nets(file[l]))
    /\ \A k, l \in OnDisk : k # l => Ids(file[k]) \cap Ids(file[l]) = {}
=============================================================================
