------------------------- MODULE RuntimeLinksProofs -------------------------
(***************************************************************************)
(* What holds of the identifiers of runtime links, and of the network that *)
(* they name, for every set of labs, hosts, VDs and wires, every placement *)
(* and every sequence of mutations.                                        *)
(***************************************************************************)
EXTENDS RuntimeLinks, FiniteSetTheorems, TLAPS

-----------------------------------------------------------------------------
(* The rebuilt list *)

\* classify_links finds a type for every wire.
LEMMA TypeIsKind ==
    ASSUME NEW w \in Wire
    PROVE  Type(w) \in Kinds
BY DEF Type, Kinds

\* A position in the rebuilt list is a natural number.
LEMMA IndexIsNat ==
    ASSUME NEW w \in Wire, NEW ws \in SUBSET Wire
    PROVE  Index(w, ws) \in Nat
<1>1. {x \in ws : Type(x) = Type(w) /\ x < w} \in SUBSET Wire
  OBVIOUS
<1>2. IsFiniteSet({x \in ws : Type(x) = Type(w) /\ x < w})
  BY <1>1, FS_Subset, WireAssumption
<1> QED
  BY <1>2, FS_CardinalityType DEF Index

\* Two links of one type have different positions (enumerate).
LEMMA IndexIncreases ==
    ASSUME NEW ws \in SUBSET Wire, NEW w \in ws, NEW x \in ws,
           Type(w) = Type(x), w < x
    PROVE  Index(w, ws) # Index(x, ws)
<1> DEFINE S == {y \in ws : Type(y) = Type(w) /\ y < w}
           T == {y \in ws : Type(y) = Type(x) /\ y < x}
<1>0. w \in Nat /\ x \in Nat /\ \A y \in ws : y \in Nat
  BY WireAssumption
<1>1. S \in SUBSET T
  <2>1. ASSUME NEW y \in S PROVE y \in T
    <3>1. y \in ws /\ Type(y) = Type(x) /\ y < w /\ y \in Nat
      BY <1>0
    <3> QED BY <1>0, <3>1
  <2> QED BY <2>1
<1>2. w \in T /\ w \notin S
  BY <1>0
<1>3. T \in SUBSET Wire
  OBVIOUS
<1>4. IsFiniteSet(T)
  BY <1>3, FS_Subset, WireAssumption
<1>5. Cardinality(T) = Cardinality(S) => T = S
  <2> HIDE DEF S, T
  <2> QED BY <1>1, <1>4, FS_Subset
<1>6. Cardinality(S) # Cardinality(T)
  <2> HIDE DEF S, T
  <2> QED BY <1>2, <1>5
<1> QED
  BY <1>6 DEF Index

LEMMA IndexDistinct ==
    ASSUME NEW ws \in SUBSET Wire, NEW w \in ws, NEW x \in ws,
           Type(w) = Type(x), w # x
    PROVE  Index(w, ws) # Index(x, ws)
<1>1. w < x \/ x < w
  <2>1. w \in Nat /\ x \in Nat BY WireAssumption
  <2> QED BY <2>1
<1>2. CASE w < x
  BY <1>2, IndexIncreases
<1>3. CASE x < w
  BY <1>3, IndexIncreases
<1> QED
  BY <1>1, <1>2, <1>3

\* A link built from nothing is a link record, and a tunnel has a VNI.
LEMMA BuiltIsLink ==
    ASSUME NEW w \in Wire, NEW ws \in SUBSET Wire
    PROVE  /\ Built(w, ws) \in LinkRecord
           /\ Built(w, ws).type = Type(w)
           /\ Built(w, ws).id = <<Type(w), Index(w, ws)>>
           /\ Built(w, ws).vni = IF Type(w) = "cross_host"
                                 THEN Base[WireLab[w]] + Index(w, ws) ELSE 0
           /\ Numbered(Built(w, ws))
<1>1. Type(w) \in Kinds
  BY TypeIsKind
<1>2. Index(w, ws) \in Nat
  BY IndexIsNat
<1>3. Base[WireLab[w]] \in Nat \ {0}
  BY WireAssumption, BaseAssumption
<1>4. /\ Built(w, ws).type = Type(w)
      /\ Built(w, ws).id = <<Type(w), Index(w, ws)>>
      /\ Built(w, ws).vni = IF Type(w) = "cross_host"
                            THEN Base[WireLab[w]] + Index(w, ws) ELSE 0
  BY DEF Built
<1>5. <<Type(w), Index(w, ws)>> \in Id
  BY <1>1, <1>2 DEF Id
<1>6. Built(w, ws) \in LinkRecord
  BY <1>1, <1>2, <1>3, <1>5 DEF Built, LinkRecord, LkState
<1> QED
  BY <1>2, <1>3, <1>4, <1>6 DEF Numbered

-----------------------------------------------------------------------------
(* Type correctness *)

NetTypeOK == master \in [Port -> Id] /\ tunnel \in [Port -> Nat] /\ carrier \subseteq Port

\* Deleting links keeps the types of the network.
LEMMA DeleteType ==
    ASSUME NetTypeOK, NEW ws, NEW rs, NEW lost, DeleteLinks(ws, rs, lost)
    PROVE  NetTypeOK'
<1>1. None \in Id
  BY DEF None, Id
<1> QED
  BY <1>1 DEF NetTypeOK, DeleteLinks, Port

\* So does creating a link.
LEMMA CreateType ==
    ASSUME NetTypeOK, NEW w \in Wire, NEW r \in LinkRecord, CreateLink(w, r)
    PROVE  NetTypeOK'
<1>1. Net \in Id /\ Bridge(r) \in Id /\ r.vni \in Nat
  BY DEF Net, Id, Bridge, LinkRecord
<1> QED
  BY <1>1 DEF NetTypeOK, CreateLink, Port, PortsOf

\* NoLinks and a changed state are link records.
LEMMA RecordType ==
    /\ NoLink \in LinkRecord
    /\ NoLinks \in [Wire -> LinkRecord]
    /\ \A r \in LinkRecord, st \in LkState :
        /\ [r EXCEPT !.state = st] \in LinkRecord
        /\ [r EXCEPT !.state = st].type = r.type
        /\ [r EXCEPT !.state = st].id = r.id
        /\ [r EXCEPT !.state = st].vni = r.vni
<1>1. None \in Id
  BY DEF None, Id
<1>2. NoLink \in LinkRecord
  BY <1>1 DEF NoLink, LinkRecord, LkState
<1> QED
  BY <1>2 DEF NoLinks, LinkRecord

\* The controller's list stays a list when the state of one link changes.
LEMMA WithStateType ==
    ASSUME built \in [Wire -> LinkRecord], NEW w \in Wire, NEW st \in LkState
    PROVE  /\ WithState(w, st) \in [Wire -> LinkRecord]
           /\ \A x \in Wire : /\ WithState(w, st)[x].type = built[x].type
                              /\ WithState(w, st)[x].id = built[x].id
                              /\ WithState(w, st)[x].vni = built[x].vni
<1>1. [built[w] EXCEPT !.state = st] \in LinkRecord
  BY RecordType
<1> QED
  BY <1>1, RecordType DEF WithState

\* What a turn of the merge loop adds: a link apart from everything taken.
LEMMA RenamedLink ==
    ASSUME NEW w \in Wire, topo \subseteq Wire, Renamed(w),
           built \in [Wire -> LinkRecord]
    PROVE  \E r \in LinkRecord :
            /\ built' = [built EXCEPT ![w] = r]
            /\ r.type = Type(w) /\ Exists(r) /\ Numbered(r)
            /\ r.id \notin used
            /\ r.type = "cross_host" => r.vni \notin vnis
            /\ used' = used \cup {r.id} /\ r.id \in Id
            /\ vnis' = IF r.type = "cross_host" THEN vnis \cup {r.vni} ELSE vnis
<1> DEFINE ws == topo \cap {x \in Wire : WireLab[x] = job.lab}
           new == Built(w, ws)
<1>1. ws \in SUBSET Wire
  OBVIOUS
<1>2. /\ new \in LinkRecord /\ new.type = Type(w) /\ Type(w) \in Kinds
      /\ new.vni \in Nat
      /\ Type(w) = "cross_host" => new.vni # 0
  <2>1. Numbered(new) /\ new \in LinkRecord /\ new.type = Type(w)
    <3> HIDE DEF ws
    <3> QED BY <1>1, BuiltIsLink
  <2>2. Type(w) \in Kinds
    BY TypeIsKind
  <2> HIDE DEF new
  <2> QED BY <2>1, <2>2 DEF Numbered, LinkRecord
<1>3. MaxIndex \in Nat
  BY FS_CardinalityType, WireAssumption DEF MaxIndex
<1> HIDE DEF new, ws
<1>4. PICK n \in 0..MaxIndex, k \in new.vni..(new.vni + MaxIndex) :
        /\ FirstUnused(n, Type(w), used)
        /\ IF Type(w) = "cross_host" THEN FirstFree(k, new.vni, vnis) ELSE k = 0
        /\ built' = [built EXCEPT ![w] = [new EXCEPT !.id = <<Type(w), n>>, !.vni = k]]
        /\ used' = used \cup {<<Type(w), n>>}
        /\ vnis' = IF Type(w) = "cross_host" THEN vnis \cup {k} ELSE vnis
  BY DEF Renamed, new, ws
<1>5. n \in Nat /\ k \in Nat /\ (Type(w) = "cross_host" => k # 0)
  BY <1>2, <1>3, <1>4 DEF FirstFree
<1>6. <<Type(w), n>> \in Id
  BY <1>2, <1>5 DEF Id
<1> DEFINE r == [new EXCEPT !.id = <<Type(w), n>>, !.vni = k]
<1>7. /\ r \in LinkRecord /\ r.type = Type(w) /\ r.id = <<Type(w), n>> /\ r.vni = k
  BY <1>2, <1>5, <1>6 DEF LinkRecord
<1>8. Exists(r) /\ Numbered(r)
  <2> HIDE DEF r
  <2> QED BY <1>2, <1>5, <1>7 DEF Exists, Numbered, Kinds
<1>9. r.id \notin used /\ (r.type = "cross_host" => r.vni \notin vnis)
  <2> HIDE DEF r
  <2> QED BY <1>4, <1>7 DEF FirstUnused, FirstFree
<1>10. built' = [built EXCEPT ![w] = r]
  BY <1>4
<1> HIDE DEF r
<1> QED
  BY <1>4, <1>6, <1>7, <1>8, <1>9, <1>10

\* The parts of LinksTypeOK besides the network
RestTypeOK ==
    /\ topo \subseteq Wire /\ cont \subseteq Vd
    /\ rt \in [Vd -> {"absent", "stopped", "reconciling", "running", "error"}]
    /\ place \in [Vd -> Host \cup {"none"}]
    /\ link \in [Wire -> LinkRecord] /\ built \in [Wire -> LinkRecord]
    /\ job \in [kind : Requests \cup {"none"}, node : Vd \cup {"none"},
                lab : Lab \cup {"none"}, goal : SUBSET Wire]
    /\ pc \in {"idle", "merge", "create"} /\ todo \subseteq Wire
    /\ used \subseteq Id /\ vnis \subseteq Nat
    /\ setting \in Settings

\* A mutation ends with the types of the rest in place.
LEMMA IdleType ==
    ASSUME Idle
    PROVE  /\ pc' = "idle" /\ built' = NoLinks
           /\ built' \in [Wire -> LinkRecord]
           /\ job' \in [kind : Requests \cup {"none"}, node : Vd \cup {"none"},
                        lab : Lab \cup {"none"}, goal : SUBSET Wire]
           /\ pc' \in {"idle", "merge", "create"} /\ todo' \subseteq Wire
           /\ used' \subseteq Id /\ vnis' \subseteq Nat
BY RecordType DEF Idle, NoJob

\* The saved list stays a list.
LEMMA SaveType ==
    ASSUME link \in [Wire -> LinkRecord], NEW rs \in [Wire -> LinkRecord], Save(rs)
    PROVE  link' \in [Wire -> LinkRecord]
BY DEF Save

\* A mutation begins with the types of the rest in place.
LEMMA BeginType ==
    ASSUME RestTypeOK, NEW kind \in Requests, NEW v \in Vd \cup {"none"}, NEW a \in Lab,
           NEW goal \in SUBSET Wire, Begin(kind, v, a, goal)
    PROVE  /\ UNCHANGED <<topo, link, net>>
           /\ pc' = "merge" /\ todo' \subseteq WiresIn(a) /\ todo' \subseteq Wire
           /\ built' = NoLinks /\ built' \in [Wire -> LinkRecord]
           /\ job' \in [kind : Requests \cup {"none"}, node : Vd \cup {"none"},
                        lab : Lab \cup {"none"}, goal : SUBSET Wire]
           /\ job'.lab = a
           /\ used' = UsedIds(a) /\ used' \subseteq Id
           /\ vnis' = UsedVnis(a) /\ vnis' \subseteq Nat
<1>1. job' = [kind |-> kind, node |-> v, lab |-> a, goal |-> goal]
  BY DEF Begin
<1>2. UsedIds(a) \subseteq Id /\ UsedVnis(a) \subseteq Nat
  <2>1. \A w \in Wire : link[w].id \in Id /\ link[w].vni \in Nat
    BY DEF RestTypeOK, LinkRecord
  <2> QED BY <2>1 DEF UsedIds, UsedVnis, WiresIn
<1> QED
  BY <1>1, <1>2, RecordType DEF Begin, WiresIn, RestTypeOK

\* One action after the other keeps the types.
LEMMA TypeStep ==
    ASSUME LinksTypeOK, [Next]_vars
    PROVE  LinksTypeOK'
<1> SUFFICES RestTypeOK' /\ NetTypeOK'
  BY DEF LinksTypeOK, RestTypeOK, NetTypeOK
<1>0. RestTypeOK /\ NetTypeOK
  BY DEF LinksTypeOK, RestTypeOK, NetTypeOK
<1> USE <1>0
<1>1. ASSUME NEW v \in Vd, Stop(v), UNCHANGED setting
      PROVE  RestTypeOK' /\ NetTypeOK'
  <2>1. NetTypeOK'
    BY <1>1, DeleteType DEF Stop
  <2>2. \A w \in Wire : Stopped(link[w]) \in LinkRecord
    BY RecordType DEF Stopped, RestTypeOK, LkState
  <2>3. link' \in [Wire -> LinkRecord]
    BY <1>1, <2>2 DEF Stop, RestTypeOK
  <2> QED BY <1>1, <2>1, <2>3 DEF Stop, RestTypeOK, merge
<1>2. ASSUME NEW v \in Vd, Remove(v), UNCHANGED setting
      PROVE  RestTypeOK' /\ NetTypeOK'
  <2>1. NetTypeOK'
    <3>1. CASE UNCHANGED net
      BY <3>1 DEF net, NetTypeOK, Port
    <3>2. CASE DeleteLinks(Recorded(v), link, PortsAt(v))
      BY <3>2, DeleteType
    <3> QED BY <1>2, <3>1, <3>2 DEF Remove
  <2> QED BY <1>2, <2>1, RecordType DEF Remove, RestTypeOK, merge
<1>3. ASSUME NEW v \in Vd, Start(v), UNCHANGED setting
      PROVE  RestTypeOK' /\ NetTypeOK'
  <2>1. Begin("start", v, VdLab[v], WiresOf(v))
    BY <1>3 DEF Start
  <2>2. VdLab[v] \in Lab /\ WiresOf(v) \in SUBSET Wire /\ "start" \in Requests
    BY WireAssumption DEF WiresOf, Requests
  <2> QED BY <1>3, <2>1, <2>2, BeginType DEF Start, RestTypeOK, NetTypeOK, net, Port
<1>4. ASSUME NEW v \in Vd, NEW h \in Host, Add(v, h), UNCHANGED setting
      PROVE  RestTypeOK' /\ NetTypeOK'
  <2>1. Begin("add", v, VdLab[v], WiresOf(v))
    BY <1>4 DEF Add
  <2>2. VdLab[v] \in Lab /\ WiresOf(v) \in SUBSET Wire /\ "add" \in Requests
    BY WireAssumption DEF WiresOf, Requests
  <2> QED BY <1>4, <2>1, <2>2, BeginType DEF Add, RestTypeOK, NetTypeOK, net, Port
<1>5. ASSUME NEW w \in Wire, Edit(w), UNCHANGED setting
      PROVE  RestTypeOK' /\ NetTypeOK'
  BY <1>5 DEF Edit, RestTypeOK, NetTypeOK, net, nodes, merge, Port
<1>6. ASSUME Reconcile, UNCHANGED setting
      PROVE  RestTypeOK' /\ NetTypeOK'
  <2>1. \E v \in Vd \cup {"none"}, a \in Lab, goal \in SUBSET Wire, kind \in Requests :
            Begin(kind, v, a, goal)
    <3>1. CASE \E v \in Vd : Begin("node", v, VdLab[v], WiresOf(v))
      BY <3>1, WireAssumption DEF WiresOf, Requests
    <3>2. CASE \E a \in Lab : Begin("all", "none", a, WiresIn(a))
      BY <3>2 DEF WiresIn, Requests
    <3>3. CASE \E w \in Wire : Begin("link", "none", WireLab[w], {w})
      BY <3>3, WireAssumption DEF Requests
    <3> QED BY <1>6, <3>1, <3>2, <3>3 DEF Reconcile
  <2> QED BY <1>6, <2>1, BeginType DEF Reconcile, nodes, RestTypeOK, NetTypeOK, net, Port
<1>7. ASSUME Merge, UNCHANGED setting
      PROVE  RestTypeOK' /\ NetTypeOK'
  <2>1. PICK w \in todo : /\ IF Keeps(w) THEN Kept(w) ELSE Renamed(w)
                          /\ todo' = todo \ {w}
    BY <1>7 DEF Merge
  <2>2. w \in Wire
    BY DEF RestTypeOK
  <2>3. CASE Kept(w)
    <3>1. built' \in [Wire -> LinkRecord]
      BY <2>2, <2>3 DEF Kept, RestTypeOK
    <3> QED BY <1>7, <2>1, <2>3, <3>1
            DEF Merge, Kept, merge, nodes, net, RestTypeOK, NetTypeOK, Port
  <2>4. CASE Renamed(w)
    <3>1. PICK r \in LinkRecord :
            /\ built' = [built EXCEPT ![w] = r]
            /\ used' = used \cup {r.id} /\ r.id \in Id
            /\ vnis' = IF r.type = "cross_host" THEN vnis \cup {r.vni} ELSE vnis
      BY <2>2, <2>4, RenamedLink DEF RestTypeOK
    <3>2. r.vni \in Nat
      BY DEF LinkRecord
    <3>3. built' \in [Wire -> LinkRecord] /\ used' \subseteq Id /\ vnis' \subseteq Nat
      BY <3>1, <3>2 DEF RestTypeOK
    <3> QED BY <1>7, <2>1, <3>3
            DEF Merge, nodes, net, RestTypeOK, NetTypeOK, Port
  <2> QED BY <2>1, <2>3, <2>4
<1>8. ASSUME Refreshed, UNCHANGED setting
      PROVE  RestTypeOK' /\ NetTypeOK'
  <2>1. NetTypeOK'
    BY <1>8, DeleteType DEF Refreshed
  <2>2. CASE Idle
    BY <1>8, <2>1, <2>2, IdleType DEF Refreshed, nodes, RestTypeOK
  <2>3. CASE pc' = "create" /\ todo' = ToCreate /\ UNCHANGED <<job, built, merge>>
    <3>1. ToCreate \subseteq Wire
      BY DEF ToCreate, RestTypeOK
    <3> QED BY <1>8, <2>1, <2>3, <3>1 DEF Refreshed, nodes, merge, RestTypeOK
  <2> QED BY <1>8, <2>2, <2>3 DEF Refreshed
<1>9. ASSUME Create, UNCHANGED setting
      PROVE  RestTypeOK' /\ NetTypeOK'
  <2>1. PICK w \in todo :
          /\ todo' = todo \ {w}
          /\ \/ built' = WithState(w, "partial") /\ UNCHANGED net
             \/ built' = WithState(w, "up") /\ CreateLink(w, built[w])
    BY <1>9 DEF Create
  <2>2. w \in Wire /\ built[w] \in LinkRecord /\ built \in [Wire -> LinkRecord]
    BY DEF RestTypeOK
  <2>3. built' \in [Wire -> LinkRecord]
    BY <2>1, <2>2, WithStateType DEF LkState
  <2>4. NetTypeOK'
    <3>1. CASE UNCHANGED net
      BY <3>1 DEF net, NetTypeOK, Port
    <3>2. CASE CreateLink(w, built[w])
      BY <2>2, <3>2, CreateType
    <3> QED BY <2>1, <3>1, <3>2
  <2> QED BY <1>9, <2>1, <2>3, <2>4 DEF Create, nodes, merge, RestTypeOK
<1>10. ASSUME CreateFails, UNCHANGED setting
      PROVE  RestTypeOK' /\ NetTypeOK'
  <2>1. PICK w \in todo :
           \/ /\ TakenApart(w) /\ Save(WithState(w, "error"))
              /\ rt' = [rt EXCEPT ![job.node] = "error"] /\ UNCHANGED <<place, cont>>
           \/ /\ DeleteLinks({x \in WiresOf(job.node) : Exists(built[x])}, built, PortsAt(job.node))
              /\ rt' = [rt EXCEPT ![job.node] = "absent"]
              /\ place' = [place EXCEPT ![job.node] = "none"]
              /\ cont' = cont \ {job.node} /\ UNCHANGED link
           \/ TakenApart(w) /\ UNCHANGED <<nodes, link>>
           \/ TakenApart(w) /\ Save(WithState(w, "error")) /\ UNCHANGED nodes
    BY <1>10 DEF CreateFails
  <2>2. w \in Wire /\ built \in [Wire -> LinkRecord]
    BY DEF RestTypeOK
  <2>3. link' \in [Wire -> LinkRecord]
    <3>1. WithState(w, "error") \in [Wire -> LinkRecord]
      BY <2>2, WithStateType DEF LkState
    <3>2. Save(WithState(w, "error")) => link' \in [Wire -> LinkRecord]
      BY <3>1, SaveType DEF RestTypeOK
    <3> QED BY <2>1, <3>2 DEF RestTypeOK
  <2>4. NetTypeOK'
    <3>1. CASE UNCHANGED net
      BY <3>1 DEF net, NetTypeOK, Port
    <3>2. ASSUME NEW ws, NEW rs, NEW lost, DeleteLinks(ws, rs, lost) PROVE NetTypeOK'
      BY <3>2, DeleteType
    <3> QED BY <2>1, <3>1, <3>2 DEF TakenApart
  <2>5. /\ rt' \in [Vd -> {"absent", "stopped", "reconciling", "running", "error"}]
        /\ place' \in [Vd -> Host \cup {"none"}] /\ cont' \subseteq Vd
    BY <2>1 DEF nodes, RestTypeOK
  <2>6. Idle /\ UNCHANGED topo
    BY <1>10 DEF CreateFails
  <2> QED BY <1>10, <2>3, <2>4, <2>5, <2>6, IdleType DEF RestTypeOK
<1>11. ASSUME Commit, UNCHANGED setting
      PROVE  RestTypeOK' /\ NetTypeOK'
  <2>1. link' \in [Wire -> LinkRecord]
    BY <1>11, SaveType DEF Commit, RestTypeOK
  <2> QED BY <1>11, <2>1, IdleType DEF Commit, net, RestTypeOK, NetTypeOK, Port
<1>12. CASE UNCHANGED vars
  BY <1>12 DEF vars, RestTypeOK, NetTypeOK, Port
<1> QED
  BY <1>1, <1>2, <1>3, <1>4, <1>5, <1>6, <1>7, <1>8, <1>9, <1>10, <1>11, <1>12 DEF Next

\* The links of a deploy: built from nothing, and up.
LEMMA DeployedLinks ==
    ASSUME Init, NEW w \in Wire
    PROVE  /\ link[w] \in LinkRecord /\ Numbered(link[w])
           /\ Exists(link[w]) =>
                LET ws == Deploys(WireLab[w]) IN
                /\ w \in ws /\ ws \in SUBSET Wire /\ link[w].type = Type(w)
                /\ link[w].id = <<Type(w), Index(w, ws)>>
                /\ Type(w) = "cross_host" => link[w].vni = Base[WireLab[w]] + Index(w, ws)
<1> DEFINE ws == Deploys(WireLab[w])
           r  == Built(w, ws)
<1>1. ws \in SUBSET Wire
  BY DEF Deploys, WiresIn
<1>2. /\ r \in LinkRecord /\ Numbered(r) /\ r.type = Type(w)
      /\ r.id = <<Type(w), Index(w, ws)>>
      /\ Type(w) = "cross_host" => r.vni = Base[WireLab[w]] + Index(w, ws)
  <2> HIDE DEF ws
  <2> QED BY <1>1, BuiltIsLink
<1>3. link[w] = IF w \in ws THEN [r EXCEPT !.state = "up"] ELSE NoLink
  BY DEF Init
<1>4. /\ [r EXCEPT !.state = "up"] \in LinkRecord
      /\ [r EXCEPT !.state = "up"].type = r.type
      /\ [r EXCEPT !.state = "up"].id = r.id
      /\ [r EXCEPT !.state = "up"].vni = r.vni
  <2> HIDE DEF r
  <2> QED BY <1>2, RecordType DEF LkState
<1>5. NoLink \in LinkRecord /\ ~ Exists(NoLink) /\ Numbered(NoLink)
  BY RecordType DEF NoLink, Exists, Numbered
<1>6. CASE w \in ws
  <2>1. link[w] = [r EXCEPT !.state = "up"]
    BY <1>3, <1>6
  <2>2. /\ link[w] \in LinkRecord /\ link[w].type = Type(w) /\ link[w].id = r.id
        /\ link[w].vni = r.vni
    BY <2>1, <1>2, <1>4
  <2> HIDE DEF r, ws
  <2>3. Numbered(link[w])
    BY <1>2, <2>2 DEF Numbered
  <2> QED BY <1>1, <1>2, <1>6, <2>2, <2>3 DEF ws
<1>7. CASE w \notin ws
  <2>1. link[w] = NoLink
    BY <1>3, <1>7
  <2> QED BY <1>5, <2>1
<1> QED BY <1>6, <1>7

\* Labs after their deploy have the types.
LEMMA TypeInit == Init => LinksTypeOK
<1> SUFFICES ASSUME Init PROVE LinksTypeOK
  OBVIOUS
<1>1. link \in [Wire -> LinkRecord]
  <2>1. \A w \in Wire : link[w] \in LinkRecord
    BY DeployedLinks
  <2>2. link = [w \in Wire |-> link[w]]
    <3>1. link = [w \in Wire |->
                IF w \in Deploys(WireLab[w])
                THEN [Built(w, Deploys(WireLab[w])) EXCEPT !.state = "up"] ELSE NoLink]
      BY DEF Init
    <3> QED BY <3>1
  <2> QED BY <2>1, <2>2
<1>2. master \in [Port -> Id]
  <2>1. \A w \in Wire : Bridge(link[w]) \in Id
    BY <1>1 DEF Bridge, LinkRecord
  <2>2. None \in Id /\ Net \in Id
    BY DEF None, Net, Id
  <2>3. \A p \in Port : p[1] \in Wire
    BY DEF Port
  <2> QED BY <2>1, <2>2, <2>3 DEF Init
<1>3. tunnel \in [Port -> Nat]
  <2>1. \A p \in Port : p[1] \in Wire
    BY DEF Port
  <2>2. \A w \in Wire : link[w].vni \in Nat
    BY <1>1 DEF LinkRecord
  <2> QED BY <2>1, <2>2 DEF Init
<1>4. place \in [Vd -> Host \cup {"none"}]
  <2>1. PICK h \in [Vd -> Host] : place = [v \in Vd |-> IF v \in cont THEN h[v] ELSE "none"]
    BY DEF Init
  <2> QED BY <2>1
<1>5. /\ topo \subseteq Wire /\ cont \subseteq Vd /\ carrier \subseteq Port
      /\ rt \in [Vd -> {"absent", "stopped", "reconciling", "running", "error"}]
      /\ pc = "idle" /\ todo = {} /\ used = {} /\ vnis = {} /\ setting \in Settings
  BY DEF Init
<1>6. built \in [Wire -> LinkRecord]
  BY RecordType DEF Init
<1>7. job \in [kind : Requests \cup {"none"}, node : Vd \cup {"none"},
               lab : Lab \cup {"none"}, goal : SUBSET Wire]
  BY DEF Init, NoJob
<1> QED BY <1>1, <1>2, <1>3, <1>4, <1>5, <1>6, <1>7 DEF LinksTypeOK

\* Every variable keeps its type, for every lab, placement and sequence of
\* mutations: what merge_runtime_links builds is always a list of links.
THEOREM LinksTypeCorrect == Spec => []LinksTypeOK
BY TypeInit, TypeStep, PTL DEF Spec

-----------------------------------------------------------------------------
(* Identifiers *)

\* Two links of one deploy are apart: their types or their positions differ.
LEMMA UniqueInit == Init => IdsInv
<1> SUFFICES ASSUME Init PROVE IdsInv
  OBVIOUS
<1>1. ASSUME NEW w \in Wire, NEW x \in Wire, w # x, WireLab[w] = WireLab[x],
             Exists(link[w]), Exists(link[x])
      PROVE  /\ link[w].id # link[x].id
             /\ link[w].type = "cross_host" /\ link[x].type = "cross_host"
                => link[w].vni # link[x].vni
  <2> DEFINE ws == Deploys(WireLab[w])
  <2>1. /\ w \in ws /\ ws \in SUBSET Wire /\ link[w].type = Type(w)
        /\ link[w].id = <<Type(w), Index(w, ws)>>
        /\ Type(w) = "cross_host" => link[w].vni = Base[WireLab[w]] + Index(w, ws)
    BY <1>1, DeployedLinks
  <2>2. /\ x \in ws /\ link[x].type = Type(x)
        /\ link[x].id = <<Type(x), Index(x, ws)>>
        /\ Type(x) = "cross_host" => link[x].vni = Base[WireLab[w]] + Index(x, ws)
    BY <1>1, DeployedLinks
  <2> HIDE DEF ws
  <2>3. Type(w) = Type(x) => Index(w, ws) # Index(x, ws)
    BY <1>1, <2>1, <2>2, IndexDistinct
  <2>4. Index(w, ws) \in Nat /\ Index(x, ws) \in Nat /\ Base[WireLab[w]] \in Nat
    BY <2>1, IndexIsNat, WireAssumption, BaseAssumption
  <2>5. link[w].id # link[x].id
    BY <2>1, <2>2, <2>3
  <2> QED BY <2>1, <2>2, <2>3, <2>4, <2>5
<1>2. IdsUnique
  BY <1>1 DEF IdsUnique
<1>3. built = NoLinks /\ pc = "idle"
  BY DEF Init
<1>4. \A w \in Wire : built[w] = NoLink /\ ~ Exists(built[w]) /\ Numbered(built[w])
  BY <1>3 DEF NoLinks, NoLink, Exists, Numbered
<1>5. \A w \in Wire : Numbered(link[w])
  BY DeployedLinks
<1> QED
  BY <1>2, <1>3, <1>4, <1>5
     DEF IdsInv, BuiltInLab, BuiltApart, BuiltStable, AllNumbered, MergeTaken,
         MergeApart, IdleEmpty, Apart

\* Changing or forgetting links between mutations keeps the invariant, as long
\* as the links that stay keep their identifiers.
LEMMA KeepIdle ==
    ASSUME IdsInv, pc = "idle", UNCHANGED <<pc, built>>,
           \A w \in Wire :
              \/ ~ Exists(link'[w])
              \/ link'[w].type = link[w].type /\ link'[w].id = link[w].id /\ link'[w].vni = link[w].vni
    PROVE  IdsInv'
<1>1. \A w \in Wire : built'[w] = NoLink /\ ~ Exists(built'[w]) /\ Numbered(built'[w])
  BY DEF IdsInv, IdleEmpty, NoLinks, NoLink, Exists, Numbered
<1>2. IdsUnique'
  BY DEF IdsInv, IdsUnique, Exists
<1>3. \A w \in Wire : Numbered(link'[w])
  BY DEF IdsInv, AllNumbered, Numbered, Exists
<1> QED
  BY <1>1, <1>2, <1>3
     DEF IdsInv, BuiltInLab, BuiltApart, BuiltStable, AllNumbered, MergeTaken,
         MergeApart, IdleEmpty, Apart

\* A mutation begins: everything saved in its lab is taken.
LEMMA KeepBegin ==
    ASSUME IdsInv, RestTypeOK, NEW kind \in Requests, NEW v \in Vd \cup {"none"},
           NEW a \in Lab, NEW goal \in SUBSET Wire, Begin(kind, v, a, goal)
    PROVE  IdsInv' /\ UNCHANGED link
<1>1. /\ UNCHANGED link /\ pc' = "merge" /\ todo' \subseteq WiresIn(a) /\ job'.lab = a
      /\ built' = NoLinks /\ used' = UsedIds(a) /\ vnis' = UsedVnis(a)
  BY BeginType
<1>2. \A w \in Wire : built'[w] = NoLink /\ ~ Exists(built'[w]) /\ Numbered(built'[w])
  BY <1>1 DEF NoLinks, NoLink, Exists, Numbered
<1>3. ASSUME NEW w \in WiresIn(a)
      PROVE  Taken(link[w])'
  <2>1. w \in Wire /\ Numbered(link[w])
    BY DEF WiresIn, IdsInv, AllNumbered
  <2>2. Exists(link[w]) => link[w].id \in UsedIds(a)
    BY DEF UsedIds
  <2>3. link[w].type = "cross_host" => link[w].vni \in UsedVnis(a)
    BY <2>1 DEF UsedVnis, Numbered
  <2> QED BY <1>1, <2>2, <2>3 DEF Taken, Exists
<1>4. IdsUnique'
  BY <1>1 DEF IdsInv, IdsUnique
<1>5. \A w \in Wire : Numbered(link'[w])
  BY <1>1 DEF IdsInv, AllNumbered
<1>6. MergeTaken'
  BY <1>1, <1>2, <1>3 DEF MergeTaken, Taken, WiresIn
<1> QED
  BY <1>1, <1>2, <1>4, <1>5, <1>6
     DEF IdsInv, BuiltInLab, BuiltApart, BuiltStable, AllNumbered,
         MergeApart, IdleEmpty, Apart

\* One turn of the merge loop keeps the invariant: a kept link is apart from
\* the other kept ones because the saved list was, and from the renamed ones
\* because those were chosen outside used_ids; a renamed link is new.
LEMMA KeepMerge ==
    ASSUME IdsInv, RestTypeOK, Merge
    PROVE  IdsInv'
<1>1. PICK w \in todo : /\ IF Keeps(w) THEN Kept(w) ELSE Renamed(w)
                        /\ todo' = todo \ {w}
  BY DEF Merge
<1>2. /\ UNCHANGED <<link, job, pc>> /\ pc = "merge"
      /\ w \in Wire /\ w \in WiresIn(job.lab) /\ WireLab[w] = job.lab
      /\ todo' \subseteq WiresIn(job.lab)
  BY <1>1 DEF Merge, IdsInv, MergeTaken, RestTypeOK, WiresIn
<1>3. PICK r \in LinkRecord :
        /\ built' = [built EXCEPT ![w] = r]
        /\ Exists(r) /\ Numbered(r)
        /\ used \subseteq used' /\ vnis \subseteq vnis'
        /\ r.id \in used' /\ (r.type = "cross_host" => r.vni \in vnis')
        /\ \/ r = link[w]
           \/ /\ r.type # link[w].type
              /\ r.id \notin used /\ (r.type = "cross_host" => r.vni \notin vnis)
  <2>1. CASE Keeps(w)
    <3>1. built' = [built EXCEPT ![w] = link[w]] /\ used' = used /\ vnis' = vnis
      BY <1>1, <2>1 DEF Kept, merge
    <3>2. Exists(link[w]) /\ link[w] \in LinkRecord /\ Numbered(link[w]) /\ Taken(link[w])
      BY <1>2, <2>1 DEF Keeps, RestTypeOK, IdsInv, AllNumbered, MergeTaken
    <3> QED BY <3>1, <3>2 DEF Taken
  <2>2. CASE ~ Keeps(w)
    <3>1. PICK r \in LinkRecord :
            /\ built' = [built EXCEPT ![w] = r]
            /\ r.type = Type(w) /\ Exists(r) /\ Numbered(r)
            /\ r.id \notin used
            /\ r.type = "cross_host" => r.vni \notin vnis
            /\ used' = used \cup {r.id} /\ r.id \in Id
            /\ vnis' = IF r.type = "cross_host" THEN vnis \cup {r.vni} ELSE vnis
      BY <1>1, <1>2, <2>2, RenamedLink DEF RestTypeOK
    <3>2. r.type # link[w].type
      BY <2>2, <3>1 DEF Keeps, Exists
    <3> QED BY <3>1, <3>2
  <2> QED BY <2>1, <2>2
<1>4. built'[w] = r /\ \A x \in Wire : x # w => built'[x] = built[x]
  BY <1>2, <1>3 DEF RestTypeOK
<1>5. \A x \in Wire : x # w => Apart(r, built[x])
  <2> SUFFICES ASSUME NEW x \in Wire, x # w, Exists(built[x])
               PROVE  /\ r.id # built[x].id
                      /\ r.type = "cross_host" /\ built[x].type = "cross_host"
                            => r.vni # built[x].vni
    BY DEF Apart
  <2>1. Taken(built[x]) /\ WireLab[x] = job.lab
    BY <1>2 DEF IdsInv, MergeTaken, BuiltInLab
  <2>2. CASE r.id \notin used /\ (r.type = "cross_host" => r.vni \notin vnis)
    BY <2>1, <2>2 DEF Taken
  <2>3. CASE r = link[w]
    <3>1. CASE built[x].type # link[x].type
      BY <1>2, <1>3, <2>3, <3>1 DEF IdsInv, MergeApart, Apart
    <3>2. CASE built[x].type = link[x].type
      <4>1. /\ Exists(link[x]) /\ built[x].id = link[x].id /\ built[x].vni = link[x].vni
        BY <3>2 DEF IdsInv, BuiltStable, Exists
      <4>2. /\ link[w].id # link[x].id
            /\ link[w].type = "cross_host" /\ link[x].type = "cross_host"
                 => link[w].vni # link[x].vni
        BY <1>2, <1>3, <2>1, <2>3, <4>1 DEF IdsInv, IdsUnique
      <4> QED BY <2>3, <3>2, <4>1, <4>2
    <3> QED BY <3>1, <3>2
  <2> QED BY <1>3, <2>2, <2>3
<1>6. BuiltApart'
  <2> SUFFICES ASSUME NEW y \in Wire, NEW x \in Wire, y # x
               PROVE  Apart(built'[y], built'[x])
    BY DEF BuiltApart, Apart, Exists
  <2>1. CASE y = w
    BY <1>4, <1>5, <2>1
  <2>2. CASE x = w
    BY <1>4, <1>5, <2>2 DEF Apart
  <2>3. CASE y # w /\ x # w
    BY <1>4, <2>3 DEF IdsInv, BuiltApart
  <2> QED BY <2>1, <2>2, <2>3
<1>7. BuiltInLab' /\ BuiltStable' /\ AllNumbered' /\ IdsUnique' /\ IdleEmpty'
  <2>1. BuiltInLab'
    BY <1>2, <1>4 DEF IdsInv, BuiltInLab
  <2>2. BuiltStable'
    BY <1>2, <1>3, <1>4 DEF IdsInv, BuiltStable
  <2>3. AllNumbered'
    BY <1>2, <1>3, <1>4 DEF IdsInv, AllNumbered
  <2>4. IdsUnique' /\ IdleEmpty'
    BY <1>2 DEF IdsInv, IdsUnique, IdleEmpty
  <2> QED BY <2>1, <2>2, <2>3, <2>4
<1>8. MergeTaken'
  <2>1. \A x \in Wire : Taken(built[x])
    BY <1>2 DEF IdsInv, MergeTaken
  <2>2. \A x \in WiresIn(job.lab) : Taken(link[x])
    BY <1>2 DEF IdsInv, MergeTaken
  <2>3. \A x \in Wire : Taken(built[x])'
    BY <1>3, <1>4, <2>1 DEF Taken
  <2>4. \A x \in WiresIn(job.lab) : Taken(link[x])'
    BY <1>2, <1>3, <2>2 DEF Taken
  <2> QED BY <1>2, <2>3, <2>4 DEF MergeTaken, WiresIn
<1>9. MergeApart'
  <2> SUFFICES ASSUME NEW y \in Wire, NEW x \in WiresIn(job.lab), built'[y].type # link[y].type
               PROVE  Apart(built'[y], link[x])
    BY <1>2 DEF MergeApart, Apart, WiresIn
  <2>1. CASE y # w
    BY <1>2, <1>4, <2>1 DEF IdsInv, MergeApart
  <2>2. CASE y = w
    <3>1. r.id \notin used /\ (r.type = "cross_host" => r.vni \notin vnis)
      BY <1>3, <1>4, <2>2
    <3>2. Taken(link[x])
      BY <1>2 DEF IdsInv, MergeTaken
    <3> QED BY <1>4, <2>2, <3>1, <3>2 DEF Apart, Taken
  <2> QED BY <2>1, <2>2
<1> QED
  BY <1>6, <1>7, <1>8, <1>9 DEF IdsInv

\* The steps after the loop save what was built, or nothing.
LEMMA KeepEnd ==
    ASSUME IdsInv, Idle,
           \/ UNCHANGED link
           \/ \E rs : /\ Save(rs)
                      /\ \A w \in Wire : /\ rs[w].type = built[w].type
                                         /\ rs[w].id = built[w].id
                                         /\ rs[w].vni = built[w].vni
    PROVE  IdsInv'
<1>1. \A w \in Wire : built'[w] = NoLink /\ ~ Exists(built'[w]) /\ Numbered(built'[w])
  BY DEF Idle, NoLinks, NoLink, Exists, Numbered
<1>2. pc' = "idle" /\ built' = NoLinks
  BY DEF Idle
<1>3. IdsUnique' /\ \A w \in Wire : Numbered(link'[w])
  <2>1. CASE UNCHANGED link
    BY <2>1 DEF IdsInv, IdsUnique, AllNumbered
  <2>2. ASSUME NEW rs, Save(rs),
               \A w \in Wire : /\ rs[w].type = built[w].type
                               /\ rs[w].id = built[w].id
                               /\ rs[w].vni = built[w].vni
        PROVE  IdsUnique' /\ \A w \in Wire : Numbered(link'[w])
    <3>1. \A w \in Wire : link'[w] = IF WireLab[w] = job.lab THEN rs[w] ELSE link[w]
      BY <2>2 DEF Save
    <3>2. ASSUME NEW w \in Wire, NEW x \in Wire, w # x, WireLab[w] = WireLab[x],
                 Exists(link'[w]), Exists(link'[x])
          PROVE  /\ link'[w].id # link'[x].id
                 /\ link'[w].type = "cross_host" /\ link'[x].type = "cross_host"
                      => link'[w].vni # link'[x].vni
      <4>1. CASE WireLab[w] = job.lab
        <5>1. link'[w] = rs[w] /\ link'[x] = rs[x]
          BY <3>1, <3>2, <4>1
        <5>2. /\ rs[w].type = built[w].type /\ rs[w].id = built[w].id /\ rs[w].vni = built[w].vni
              /\ rs[x].type = built[x].type /\ rs[x].id = built[x].id /\ rs[x].vni = built[x].vni
          BY <2>2
        <5>3. Exists(built[w]) /\ Exists(built[x])
          BY <3>2, <5>1, <5>2 DEF Exists
        <5>4. Apart(built[w], built[x])
          BY <3>2 DEF IdsInv, BuiltApart
        <5> QED BY <5>1, <5>2, <5>3, <5>4 DEF Apart
      <4>2. CASE WireLab[w] # job.lab
        BY <3>1, <3>2, <4>2 DEF IdsInv, IdsUnique
      <4> QED BY <4>1, <4>2
    <3>3. \A w \in Wire : Numbered(link'[w])
      BY <2>2, <3>1 DEF IdsInv, AllNumbered, Numbered
    <3> QED BY <3>2, <3>3 DEF IdsUnique
  <2> QED BY <2>1, <2>2
<1> QED
  BY <1>1, <1>2, <1>3
     DEF IdsInv, BuiltInLab, BuiltApart, BuiltStable, AllNumbered, MergeTaken,
         MergeApart, IdleEmpty, Apart

\* Every step keeps the invariant, and no step gives a link that keeps its
\* type another identifier.
LEMMA IdsStep ==
    ASSUME LinksTypeOK, IdsInv, [Next]_vars
    PROVE  /\ IdsInv'
           /\ \A w \in Wire : Exists(link[w]) /\ link'[w].type = link[w].type
                => link'[w].id = link[w].id /\ link'[w].vni = link[w].vni
<1> DEFINE Stable == \A w \in Wire : Exists(link[w]) /\ link'[w].type = link[w].type
                        => link'[w].id = link[w].id /\ link'[w].vni = link[w].vni
<1>0. RestTypeOK
  BY DEF LinksTypeOK, RestTypeOK
<1> USE <1>0
<1>1. ASSUME NEW v \in Vd, Stop(v) PROVE IdsInv' /\ Stable
  <2>1. \A w \in Wire : /\ link'[w].type = link[w].type /\ link'[w].id = link[w].id
                        /\ link'[w].vni = link[w].vni
    <3>1. \A w \in Wire : /\ Stopped(link[w]).type = link[w].type
                          /\ Stopped(link[w]).id = link[w].id
                          /\ Stopped(link[w]).vni = link[w].vni
      BY RecordType DEF RestTypeOK, Stopped, LkState
    <3> QED BY <1>1, <3>1 DEF Stop
  <2>2. pc = "idle" /\ UNCHANGED <<pc, built>>
    BY <1>1 DEF Stop
  <2> QED BY <2>1, <2>2, KeepIdle
<1>2. ASSUME NEW v \in Vd, Remove(v) PROVE IdsInv' /\ Stable
  <2>1. \A w \in Wire : link'[w] = NoLink \/ link'[w] = link[w]
    BY <1>2 DEF Remove
  <2>2. pc = "idle" /\ UNCHANGED <<pc, built>>
    BY <1>2 DEF Remove
  <2>3. ~ Exists(NoLink)
    BY DEF Exists, NoLink
  <2>4. IdsInv'
    BY <2>1, <2>2, <2>3, KeepIdle
  <2> QED BY <2>1, <2>3, <2>4 DEF Exists
<1>3. ASSUME NEW kind \in Requests, NEW v \in Vd \cup {"none"}, NEW a \in Lab,
             NEW goal \in SUBSET Wire, Begin(kind, v, a, goal)
      PROVE  IdsInv' /\ Stable
  BY <1>3, KeepBegin
<1>4. ASSUME NEW v \in Vd, Start(v) PROVE IdsInv' /\ Stable
  <2>1. VdLab[v] \in Lab /\ WiresOf(v) \in SUBSET Wire /\ "start" \in Requests
    BY WireAssumption DEF WiresOf, Requests
  <2> QED BY <1>3, <1>4, <2>1 DEF Start
<1>5. ASSUME NEW v \in Vd, NEW h \in Host, Add(v, h) PROVE IdsInv' /\ Stable
  <2>1. VdLab[v] \in Lab /\ WiresOf(v) \in SUBSET Wire /\ "add" \in Requests
    BY WireAssumption DEF WiresOf, Requests
  <2> QED BY <1>3, <1>5, <2>1 DEF Add
<1>6. ASSUME Reconcile PROVE IdsInv' /\ Stable
  <2>1. CASE \E v \in Vd : Begin("node", v, VdLab[v], WiresOf(v))
    <3>1. \A v \in Vd : VdLab[v] \in Lab /\ WiresOf(v) \in SUBSET Wire
      BY WireAssumption DEF WiresOf
    <3>2. "node" \in Requests
      BY DEF Requests
    <3> QED BY <1>3, <2>1, <3>1, <3>2
  <2>2. CASE \E a \in Lab : Begin("all", "none", a, WiresIn(a))
    <3>1. \A a \in Lab : WiresIn(a) \in SUBSET Wire
      BY DEF WiresIn
    <3>2. "all" \in Requests
      BY DEF Requests
    <3> QED BY <1>3, <2>2, <3>1, <3>2
  <2>3. CASE \E w \in Wire : Begin("link", "none", WireLab[w], {w})
    <3>1. \A w \in Wire : WireLab[w] \in Lab /\ {w} \in SUBSET Wire
      BY WireAssumption
    <3>2. "link" \in Requests
      BY DEF Requests
    <3> QED BY <1>3, <2>3, <3>1, <3>2
  <2> QED BY <1>6, <2>1, <2>2, <2>3 DEF Reconcile
<1>7. ASSUME NEW w \in Wire, Edit(w) PROVE IdsInv' /\ Stable
  BY <1>7, KeepIdle DEF Edit
<1>8. ASSUME Merge PROVE IdsInv' /\ Stable
  BY <1>8, KeepMerge DEF Merge
<1>9. ASSUME Refreshed PROVE IdsInv' /\ Stable
  <2>1. UNCHANGED link
    BY <1>9 DEF Refreshed
  <2>2. CASE Idle
    BY <2>1, <2>2, KeepEnd
  <2>3. CASE pc' = "create" /\ UNCHANGED <<job, built>>
    <3>1. IdsUnique' /\ BuiltInLab' /\ BuiltApart' /\ BuiltStable' /\ AllNumbered'
      BY <2>1, <2>3 DEF IdsInv, IdsUnique, BuiltInLab, BuiltApart, BuiltStable, AllNumbered
    <3>2. MergeTaken' /\ MergeApart' /\ IdleEmpty'
      BY <2>3 DEF MergeTaken, MergeApart, IdleEmpty
    <3> QED BY <2>1, <3>1, <3>2 DEF IdsInv
  <2> QED BY <1>9, <2>2, <2>3 DEF Refreshed
<1>10. ASSUME Create PROVE IdsInv' /\ Stable
  <2>1. UNCHANGED <<link, job, pc>> /\ pc = "create"
    BY <1>10 DEF Create
  <2>2. PICK w \in todo, st \in LkState : built' = WithState(w, st)
    BY <1>10 DEF Create, LkState
  <2>3. \A x \in Wire : /\ built'[x].type = built[x].type /\ built'[x].id = built[x].id
                        /\ built'[x].vni = built[x].vni
    BY <2>2, WithStateType DEF RestTypeOK
  <2>4. IdsUnique' /\ BuiltInLab' /\ BuiltStable' /\ AllNumbered'
    BY <2>1, <2>3 DEF IdsInv, IdsUnique, BuiltInLab, BuiltStable, AllNumbered, Numbered, Exists
  <2>5. BuiltApart'
    BY <2>3 DEF IdsInv, BuiltApart, Apart, Exists
  <2>6. MergeTaken' /\ MergeApart' /\ IdleEmpty'
    BY <2>1 DEF MergeTaken, MergeApart, IdleEmpty
  <2> QED BY <2>1, <2>4, <2>5, <2>6 DEF IdsInv
<1>11. ASSUME CreateFails PROVE IdsInv' /\ Stable
  <2>1. Idle
    BY <1>11 DEF CreateFails
  <2>2. PICK w \in todo : UNCHANGED link \/ Save(WithState(w, "error"))
    BY <1>11 DEF CreateFails
  <2>3. \A x \in Wire : /\ WithState(w, "error")[x].type = built[x].type
                        /\ WithState(w, "error")[x].id = built[x].id
                        /\ WithState(w, "error")[x].vni = built[x].vni
    BY WithStateType DEF RestTypeOK, LkState
  <2>4. IdsInv'
    BY <2>1, <2>2, <2>3, KeepEnd
  <2>5. Stable
    BY <2>2, <2>3 DEF Save, IdsInv, BuiltStable, Exists
  <2> QED BY <2>4, <2>5
<1>12. ASSUME Commit PROVE IdsInv' /\ Stable
  <2>1. Idle /\ Save(built)
    BY <1>12 DEF Commit
  <2>2. IdsInv'
    BY <2>1, KeepEnd
  <2>3. Stable
    BY <2>1 DEF Save, IdsInv, BuiltStable, Exists
  <2> QED BY <2>2, <2>3
<1>13. CASE UNCHANGED vars
  <2>1. UNCHANGED <<link, built, job, pc, todo, used, vnis>>
    BY <1>13 DEF vars
  <2> QED
    BY <2>1 DEF IdsInv, IdsUnique, BuiltInLab, BuiltApart, BuiltStable, AllNumbered,
                MergeTaken, MergeApart, IdleEmpty, Apart, Taken, WiresIn
<1> QED
  BY <1>1, <1>2, <1>4, <1>5, <1>6, <1>7, <1>8, <1>9, <1>10, <1>11, <1>12, <1>13 DEF Next

\* The whole inductive invariant holds along every behaviour.
THEOREM LinkIdsInvariant == Spec => []IdsInv
BY UniqueInit, IdsStep, LinksTypeCorrect, PTL DEF Spec

\* No two links of a lab ever share an identifier or a VNI, for every set of
\* wires and hosts and every sequence of mutations (merge_runtime_links).
THEOREM LinkIdsUnique == Spec => []IdsUnique
<1>1. IdsInv => IdsUnique
  BY DEF IdsInv
<1> QED BY <1>1, LinkIdsInvariant, PTL

\* A recorded link keeps its identifier and its VNI as long as its type
\* (merge_runtime_links: "Keep runtime identifiers stable").
THEOREM LinkIdsStable == Spec => IdsStable
<1>1. LinksTypeOK /\ IdsInv /\ [Next]_vars =>
        [\A w \in Wire : Exists(link[w]) /\ link'[w].type = link[w].type
            => link'[w].id = link[w].id /\ link'[w].vni = link[w].vni]_vars
  BY IdsStep
<1> QED BY <1>1, LinkIdsInvariant, LinksTypeCorrect, PTL DEF Spec, IdsStable

-----------------------------------------------------------------------------
(* The records and the VDs during a mutation *)

\* the VD that the mutation starts or adds
Starting(v) == pc # "idle" /\ job.kind \in {"start", "add"} /\ v = job.node

\* The state of a VD: where it is placed, whether its container runs
VdInv(v) ==
    /\ rt[v] = "absent" <=> place[v] = "none"
    /\ v \in cont => rt[v] \in {"running", "reconciling", "error"}
    /\ rt[v] \in {"running", "reconciling"} => v \in cont
    /\ rt[v] = "reconciling" <=> Starting(v)
    /\ rt[v] = "error" => setting.fails

\* The mutation in progress
JobInv ==
    /\ pc # "idle" => May(job.kind) /\ Deployed(job.lab) /\ job.goal \subseteq WiresIn(job.lab)
    /\ pc # "idle" /\ job.kind \in {"start", "add"} =>
         job.node \in Vd /\ VdLab[job.node] = job.lab /\ job.goal = WiresOf(job.node)
    /\ pc # "idle" /\ job.kind = "link" => \A w, x \in job.goal : w = x
    /\ pc = "create" => todo \subseteq job.goal /\ \A w \in todo : Exists(built[w])

NodesInv == (\A v \in Vd : VdInv(v)) /\ JobInv

\* A record of a link: of the type its VDs give it, unless it waited for them
FitRecord(w, r) ==
    /\ r.type \in {"none", "pending", Type(w)}
    /\ r.state = "up" => r.type \notin {"none", "pending"}
    /\ r.id # Net

\* The saved records
SavedInv(w) ==
    /\ FitRecord(w, link[w])
    /\ Exists(link[w]) => Deployed(WireLab[w]) /\ (w \in topo \/ May("edit"))

\* The rebuilt records
BuiltInv(w) ==
    /\ FitRecord(w, built[w])
    /\ Exists(built[w]) => w \in topo /\ built[w].type = Type(w)
    /\ pc = "merge" /\ built[w].state = "up" => built[w] = link[w]
    /\ pc # "idle" /\ w \in topo /\ WireLab[w] = job.lab =>
         (pc = "merge" /\ w \in todo) \/ Exists(built[w])
    /\ pc = "merge" /\ w \in todo => w \in topo

\* The links of a VD that is being added do not exist yet.
AddInv == pc # "idle" /\ job.kind = "add" =>
    \A w \in WiresOf(job.node) : link[w].type \in {"none", "pending"}

RecordsInv == (\A w \in Wire : SavedInv(w) /\ BuiltInv(w)) /\ AddInv

LEMMA TypeFacts ==
    ASSUME NEW w \in Wire
    PROVE  /\ Type(w) \in Kinds
           /\ Type(w) = "pending" <=> \E v \in Ends[w] : place[v] = "none"
BY DEF Type, Kinds

\* The type of a wire depends on the places of its VDs only.
LEMMA TypeFrame ==
    ASSUME NEW w \in Wire, \A v \in Ends[w] : place'[v] = place[v]
    PROVE  Type(w)' = Type(w)
BY DEF Type

LEMMA RecordFrame ==
    ASSUME NEW w \in Wire, \A v \in Ends[w] : place'[v] = place[v], NEW r, FitRecord(w, r)
    PROVE  r.type \in {"none", "pending", Type(w)'}
BY TypeFrame DEF FitRecord

\* A link that the merge has to name anew
LEMMA RenamedAs ==
    ASSUME NEW w \in Wire, topo \subseteq Wire, Renamed(w), built \in [Wire -> LinkRecord]
    PROVE  /\ built'[w].type = Type(w) /\ built'[w].id # Net /\ built'[w].state # "up"
           /\ \A x \in Wire : x # w => built'[x] = built[x]
<1> DEFINE ws == topo \cap {x \in Wire : WireLab[x] = job.lab}
           new == Built(w, ws)
<1>1. ws \in SUBSET Wire
  OBVIOUS
<1>2. /\ new \in LinkRecord /\ new.type = Type(w) /\ Type(w) \in Kinds /\ new.state # "up"
      /\ new.vni \in Nat
  <2>1. new \in LinkRecord /\ new.type = Type(w)
    <3> HIDE DEF ws
    <3> QED BY <1>1, BuiltIsLink
  <2>2. new.state # "up"
    BY DEF Built
  <2>3. new.vni \in Nat
    <3> HIDE DEF new
    <3> QED BY <2>1 DEF LinkRecord
  <2> QED BY <2>1, <2>2, <2>3, TypeIsKind
<1>3. MaxIndex \in Nat
  BY FS_CardinalityType, WireAssumption DEF MaxIndex
<1> HIDE DEF new, ws
<1>4. PICK n \in 0..MaxIndex, k \in new.vni..(new.vni + MaxIndex) :
        built' = [built EXCEPT ![w] = [new EXCEPT !.id = <<Type(w), n>>, !.vni = k]]
  BY DEF Renamed, new, ws
<1>5. n \in Nat /\ k \in Nat
  BY <1>2, <1>3, <1>4
<1> DEFINE r == [new EXCEPT !.id = <<Type(w), n>>, !.vni = k]
<1>6. r.type = Type(w) /\ r.id = <<Type(w), n>> /\ r.state = new.state
  <2>1. <<Type(w), n>> \in Id
    BY <1>2, <1>5 DEF Id
  <2> QED BY <1>2, <1>5, <2>1 DEF LinkRecord
<1>7. built'[w] = r /\ \A x \in Wire : x # w => built'[x] = built[x]
  BY <1>4
<1> HIDE DEF r
<1>8. <<Type(w), n>> # Net
  BY <1>2 DEF Net, Kinds
<1> QED BY <1>2, <1>6, <1>7, <1>8

\* Every VD of a link is in its lab.
LEMMA LabOfEnds ==
    \A w \in Wire : /\ Ends[w] \subseteq Vd /\ Ends[w] # {} /\ WireLab[w] \in Lab
                    /\ \A v \in Ends[w] : VdLab[v] = WireLab[w] /\ w \in WiresOf(v)
BY WireAssumption DEF WiresOf

\* A link whose VDs count as running can be connected: only a failing command
\* makes a start or an add fail.
LEMMA StartsConnect ==
    ASSUME LinksTypeOK, NodesInv, RecordsInv, pc = "create", NEW w \in todo, Missing(w) = {},
           \E v \in RunningNodes : VdLab[v] = job.lab
    PROVE  CanConnect(w) /\ Ends[w] \subseteq RunningNodes
<1>1. w \in Wire /\ Exists(built[w])
  BY DEF LinksTypeOK, NodesInv, JobInv
<1>2. Ends[w] \subseteq RunningNodes
  BY DEF Missing
<1>3. RunningNodes \subseteq cont /\ \A v \in RunningNodes : place[v] # "none"
  BY DEF RunningNodes, NodesInv, VdInv
<1>4. Type(w) # "pending"
  BY <1>1, <1>2, <1>3, TypeFacts
<1> QED BY <1>1, <1>2, <1>3, <1>4 DEF CanConnect, RecordsInv, BuiltInv
\* A deploy leaves the VDs and the records as the mutations expect them.
LEMMA NodesInit ==
    ASSUME Init
    PROVE  NodesInv /\ RecordsInv
<1>1. pc = "idle" /\ built = NoLinks /\ cont \subseteq Vd /\ topo \subseteq Wire
  BY DEF Init
<1>2. \A v \in Vd : place[v] = "none" <=> v \notin cont
  BY NoneAssumption DEF Init
<1>3. NodesInv
  BY <1>1, <1>2 DEF Init, NodesInv, VdInv, JobInv, Starting
<1>4. \A w \in Wire : BuiltInv(w)
  BY <1>1 DEF BuiltInv, FitRecord, NoLinks, NoLink, Exists, None, Net
<1>5. ASSUME NEW w \in Wire PROVE SavedInv(w)
  <2> DEFINE r == Built(w, Deploys(WireLab[w]))
  <2>1. CASE w \in Deploys(WireLab[w])
    <3>1. w \in topo /\ Deployed(WireLab[w]) /\ Ends[w] \subseteq cont
      BY <2>1 DEF Init, Deploys, Deployed
    <3>2. Type(w) \in Kinds /\ Type(w) # "pending"
      BY <1>1, <1>2, <3>1, TypeFacts
    <3>3. r \in LinkRecord /\ r.type = Type(w) /\ r.id = <<Type(w), Index(w, Deploys(WireLab[w]))>>
      <4>1. Deploys(WireLab[w]) \in SUBSET Wire
        BY <1>1 DEF Deploys, WiresIn
      <4> QED BY <4>1, BuiltIsLink
    <3>4. link[w] = [r EXCEPT !.state = "up"]
      BY <2>1 DEF Init
    <3> HIDE DEF r
    <3>5. link[w].type = Type(w) /\ link[w].id = <<Type(w), Index(w, Deploys(WireLab[w]))>>
      BY <3>3, <3>4 DEF LinkRecord
    <3>6. link[w].id # Net
      BY <3>2, <3>5 DEF Net, Kinds
    <3> QED BY <3>1, <3>2, <3>5, <3>6 DEF SavedInv, FitRecord, Kinds
  <2>2. CASE w \notin Deploys(WireLab[w])
    <3>1. link[w] = NoLink
      BY <2>2 DEF Init
    <3> QED BY <3>1 DEF SavedInv, FitRecord, NoLink, Exists, None, Net
  <2> QED BY <2>1, <2>2
<1> QED BY <1>1, <1>3, <1>4, <1>5 DEF RecordsInv, AddInv

\* Between mutations nothing is rebuilt and no VD is on its way.
LEMMA IdleKeeps ==
    ASSUME pc' = "idle", built' = NoLinks,
           \A w \in Wire : SavedInv(w)',
           \A v \in Vd :
                /\ rt'[v] = "absent" <=> place'[v] = "none"
                /\ v \in cont' => rt'[v] \in {"running", "error"}
                /\ rt'[v] = "running" => v \in cont'
                /\ rt'[v] # "reconciling"
                /\ rt'[v] = "error" => setting'.fails
    PROVE  NodesInv' /\ RecordsInv'
<1>1. NodesInv'
  BY DEF NodesInv, VdInv, JobInv, Starting
<1>2. \A w \in Wire : BuiltInv(w)'
  BY DEF BuiltInv, FitRecord, NoLinks, NoLink, Exists, None, Net
<1> QED BY <1>1, <1>2 DEF RecordsInv, AddInv

\* A mutation begins with nothing rebuilt.
LEMMA BeginKeeps ==
    ASSUME LinksTypeOK, RecordsInv, UNCHANGED setting,
           NEW kind \in Requests, NEW v \in Vd \cup {"none"}, NEW a \in Lab,
           NEW goal \in SUBSET WiresIn(a), Begin(kind, v, a, goal),
           \A w \in Wire : SavedInv(w)',
           kind \in {"start", "add"} =>
                v \in Vd /\ VdLab[v] = a /\ goal = WiresOf(v),
           kind = "add" => \A w \in WiresOf(v) : link[w].type \in {"none", "pending"},
           kind = "link" => \A w, x \in goal : w = x
    PROVE  JobInv' /\ RecordsInv'
<1>1. /\ job'.kind = kind /\ job'.node = v /\ job'.lab = a /\ job'.goal = goal
      /\ pc' = "merge" /\ todo' = topo \cap WiresIn(a) /\ built' = NoLinks
      /\ UNCHANGED <<topo, link>> /\ May(kind) /\ Deployed(a)
  BY DEF Begin
<1>2. JobInv'
  BY <1>1 DEF JobInv, May, Deployed, WiresIn
<1>3. \A w \in Wire : BuiltInv(w)'
  <2>1. \A w \in Wire : FitRecord(w, built[w])' /\ ~ Exists(built[w])' /\ built'[w].state # "up"
    BY <1>1 DEF FitRecord, NoLinks, NoLink, Exists, None, Net
  <2> QED BY <1>1, <2>1 DEF BuiltInv, WiresIn
<1>4. AddInv'
  BY <1>1 DEF AddInv, WiresOf
<1> QED BY <1>2, <1>3, <1>4 DEF RecordsInv

\* A saved record stays one when neither it nor the places of its VDs change.
LEMMA SavedFrame ==
    ASSUME NEW w \in Wire, SavedInv(w), UNCHANGED setting,
           \A v \in Ends[w] : place'[v] = place[v],
           link'[w].type = link[w].type, link'[w].id = link[w].id,
           link'[w].state = "up" => link[w].state = "up",
           w \in topo' \/ w \notin topo \/ May("edit")
    PROVE  SavedInv(w)'
<1>1. Type(w)' = Type(w)
  BY TypeFrame
<1> QED BY <1>1 DEF SavedInv, FitRecord, Exists, Deployed, May

\* The list that a mutation saves
LEMMA SavedList ==
    ASSUME RecordsInv, LinksTypeOK, IdsInv, JobInv, pc = "create", UNCHANGED <<topo, place, setting>>,
           NEW rs, Save(rs),
           \A w \in Wire : /\ rs[w].type = built[w].type /\ rs[w].id = built[w].id
                           /\ rs[w].state = "up" => built[w].state = "up"
    PROVE  \A w \in Wire : SavedInv(w)'
<1> SUFFICES ASSUME NEW w \in Wire PROVE SavedInv(w)'
  OBVIOUS
<1>1. SavedInv(w) /\ BuiltInv(w)
  BY DEF RecordsInv
<1>2. Type(w)' = Type(w)
  BY TypeFrame
<1>3. CASE WireLab[w] = job.lab
  <2>1. link'[w] = rs[w]
    BY <1>3 DEF Save
  <2>2. Deployed(job.lab)
    BY DEF JobInv
  <2> QED BY <1>1, <1>2, <1>3, <2>1, <2>2 DEF SavedInv, BuiltInv, FitRecord, Exists, Deployed
<1>4. CASE WireLab[w] # job.lab
  <2>1. link'[w] = link[w]
    BY <1>4 DEF Save
  <2> QED BY <1>1, <2>1, SavedFrame
<1> QED BY <1>3, <1>4
\* Every step of every mutation keeps VDs and records in order.
LEMMA NodesStep ==
    ASSUME LinksTypeOK, IdsInv, NodesInv, RecordsInv, [Next]_vars
    PROVE  NodesInv' /\ RecordsInv'
<1>0. /\ RestTypeOK /\ JobInv /\ (\A v \in Vd : VdInv(v))
      /\ (\A w \in Wire : SavedInv(w) /\ BuiltInv(w)) /\ AddInv
  BY DEF LinksTypeOK, RestTypeOK, NodesInv, RecordsInv
<1>00. pc = "idle" => built = NoLinks /\ \A v \in Vd : rt[v] # "reconciling"
  BY <1>0 DEF IdsInv, IdleEmpty, VdInv, Starting
<1>1. ASSUME NEW v \in Vd, Stop(v), UNCHANGED setting PROVE NodesInv' /\ RecordsInv'
  <2>1. /\ pc = "idle" /\ pc' = "idle" /\ UNCHANGED <<topo, place, built>>
        /\ cont' = cont \ {v} /\ rt' = [rt EXCEPT ![v] = "stopped"] /\ rt[v] # "absent"
    BY <1>1 DEF Stop
  <2>2. ASSUME NEW w \in Wire PROVE SavedInv(w)'
    <3>1. /\ Stopped(link[w]).type = link[w].type /\ Stopped(link[w]).id = link[w].id
          /\ Stopped(link[w]).state = "partial"
      BY <1>0, RecordType DEF RestTypeOK, Stopped, LkState, LinkRecord
    <3>2. link'[w] \in {Stopped(link[w]), link[w]}
      BY <1>1 DEF Stop
    <3> QED BY <1>0, <1>1, <2>1, <3>1, <3>2, SavedFrame
  <2>3. \A u \in Vd :
                /\ rt'[u] = "absent" <=> place'[u] = "none"
                /\ u \in cont' => rt'[u] \in {"running", "error"}
                /\ rt'[u] = "running" => u \in cont'
                /\ rt'[u] # "reconciling"
                /\ rt'[u] = "error" => setting'.fails
    BY <1>0, <1>00, <1>1, <2>1 DEF VdInv, RestTypeOK
  <2> QED BY <1>00, <2>1, <2>2, <2>3, IdleKeeps
<1>2. ASSUME NEW v \in Vd, Remove(v), UNCHANGED setting PROVE NodesInv' /\ RecordsInv'
  <2>1. /\ pc = "idle" /\ pc' = "idle" /\ UNCHANGED <<topo, built>>
        /\ cont' = cont \ {v} /\ rt' = [rt EXCEPT ![v] = "absent"]
        /\ place' = [place EXCEPT ![v] = "none"]
        /\ link' = [w \in Wire |-> IF w \in WiresOf(v) THEN NoLink ELSE link[w]]
    BY <1>2 DEF Remove
  <2>2. ASSUME NEW w \in Wire PROVE SavedInv(w)'
    <3>1. CASE w \in WiresOf(v)
      BY <2>1, <3>1 DEF SavedInv, FitRecord, NoLink, Exists, None, Net
    <3>2. CASE w \notin WiresOf(v)
      <4>1. \A u \in Ends[w] : place'[u] = place[u]
        BY <1>0, <2>1, <3>2, LabOfEnds DEF WiresOf, RestTypeOK
      <4> QED BY <1>0, <1>2, <2>1, <3>2, <4>1, SavedFrame
    <3> QED BY <3>1, <3>2
  <2>3. \A u \in Vd :
                /\ rt'[u] = "absent" <=> place'[u] = "none"
                /\ u \in cont' => rt'[u] \in {"running", "error"}
                /\ rt'[u] = "running" => u \in cont'
                /\ rt'[u] # "reconciling"
                /\ rt'[u] = "error" => setting'.fails
    BY <1>0, <1>00, <1>2, <2>1 DEF VdInv, RestTypeOK
  <2> QED BY <1>00, <2>1, <2>2, <2>3, IdleKeeps
<1>3. ASSUME NEW v \in Vd, Start(v), UNCHANGED setting PROVE NodesInv' /\ RecordsInv'
  <2>1. /\ Begin("start", v, VdLab[v], WiresOf(v)) /\ rt[v] \in {"stopped", "error"}
        /\ rt' = [rt EXCEPT ![v] = "reconciling"] /\ cont' = cont \cup {v} /\ UNCHANGED place
    BY <1>3 DEF Start
  <2>2. /\ job'.kind = "start" /\ job'.node = v /\ pc' = "merge" /\ pc = "idle"
        /\ UNCHANGED <<topo, link>>
    BY <2>1 DEF Begin
  <2>3. VdLab[v] \in Lab /\ WiresOf(v) \in SUBSET WiresIn(VdLab[v]) /\ "start" \in Requests
    BY WireAssumption DEF WiresOf, WiresIn, Requests
  <2>4. \A w \in Wire : SavedInv(w)'
    BY <1>0, <1>3, <2>1, <2>2, SavedFrame
  <2>5. JobInv' /\ RecordsInv'
    BY <1>3, <2>1, <2>3, <2>4, BeginKeeps
  <2>6. \A u \in Vd : VdInv(u)'
    BY <1>0, <1>00, <1>3, <2>1, <2>2 DEF VdInv, Starting, RestTypeOK
  <2> QED BY <2>5, <2>6 DEF NodesInv
<1>4. ASSUME NEW v \in Vd, NEW h \in Host, Add(v, h), UNCHANGED setting PROVE NodesInv' /\ RecordsInv'
  <2>1. /\ Begin("add", v, VdLab[v], WiresOf(v)) /\ rt[v] = "absent"
        /\ rt' = [rt EXCEPT ![v] = "reconciling"] /\ cont' = cont \cup {v}
        /\ place' = [place EXCEPT ![v] = h]
    BY <1>4 DEF Add
  <2>2. /\ job'.kind = "add" /\ job'.node = v /\ pc' = "merge" /\ pc = "idle"
        /\ UNCHANGED <<topo, link>>
    BY <2>1 DEF Begin
  <2>3. VdLab[v] \in Lab /\ WiresOf(v) \in SUBSET WiresIn(VdLab[v]) /\ "add" \in Requests
    BY WireAssumption DEF WiresOf, WiresIn, Requests
  <2>4. \A w \in WiresOf(v) : link[w].type \in {"none", "pending"}
    BY <1>0, <2>1, TypeFacts DEF VdInv, SavedInv, FitRecord, WiresOf
  <2>5. ASSUME NEW w \in Wire PROVE SavedInv(w)'
    <3>1. CASE w \in WiresOf(v)
      BY <1>0, <1>4, <2>2, <2>4, <3>1 DEF SavedInv, FitRecord, Exists, Deployed, May
    <3>2. CASE w \notin WiresOf(v)
      <4>1. \A u \in Ends[w] : place'[u] = place[u]
        BY <1>0, <2>1, <3>2, LabOfEnds DEF WiresOf, RestTypeOK
      <4> QED BY <1>0, <1>4, <2>2, <4>1, SavedFrame
    <3> QED BY <3>1, <3>2
  <2>6. JobInv' /\ RecordsInv'
    BY <1>4, <2>1, <2>3, <2>4, <2>5, BeginKeeps
  <2>7. \A u \in Vd : VdInv(u)'
    BY <1>0, <1>00, <1>4, <2>1, <2>2, NoneAssumption DEF VdInv, Starting, RestTypeOK
  <2> QED BY <2>6, <2>7 DEF NodesInv
<1>5. ASSUME NEW w \in Wire, Edit(w), UNCHANGED setting PROVE NodesInv' /\ RecordsInv'
  <2>1. /\ pc = "idle" /\ pc' = "idle" /\ UNCHANGED <<rt, place, cont, link, built>> /\ May("edit")
    BY <1>5 DEF Edit, nodes
  <2>2. \A x \in Wire : SavedInv(x)'
    BY <1>0, <1>5, <2>1, SavedFrame
  <2>3. \A u \in Vd :
                /\ rt'[u] = "absent" <=> place'[u] = "none"
                /\ u \in cont' => rt'[u] \in {"running", "error"}
                /\ rt'[u] = "running" => u \in cont'
                /\ rt'[u] # "reconciling"
                /\ rt'[u] = "error" => setting'.fails
    BY <1>0, <1>00, <1>5, <2>1 DEF VdInv, RestTypeOK
  <2> QED BY <1>00, <2>1, <2>2, <2>3, IdleKeeps
<1>6. ASSUME Reconcile, UNCHANGED setting PROVE NodesInv' /\ RecordsInv'
  <2>1. UNCHANGED <<rt, place, cont>>
    BY <1>6 DEF Reconcile, nodes
  <2>2. ASSUME NEW kind \in {"node", "all", "link"}, NEW v \in Vd \cup {"none"}, NEW a \in Lab,
               NEW goal \in SUBSET WiresIn(a), Begin(kind, v, a, goal),
               kind = "link" => \A w, x \in goal : w = x
        PROVE  NodesInv' /\ RecordsInv'
    <3>1. /\ job'.kind = kind /\ pc' = "merge" /\ pc = "idle" /\ UNCHANGED <<topo, link>>
      BY <2>2 DEF Begin
    <3>2. \A w \in Wire : SavedInv(w)'
      BY <1>0, <1>6, <2>1, <3>1, SavedFrame
    <3>3. kind \in Requests
      BY DEF Requests
    <3>4. JobInv' /\ RecordsInv'
      BY <1>6, <2>2, <3>2, <3>3, BeginKeeps
    <3>5. \A u \in Vd : VdInv(u)'
      BY <1>0, <1>00, <1>6, <2>1, <2>2, <3>1 DEF VdInv, Starting
    <3> QED BY <3>4, <3>5 DEF NodesInv
  <2>3. CASE \E v \in Vd : Begin("node", v, VdLab[v], WiresOf(v))
    <3>1. PICK v \in Vd : Begin("node", v, VdLab[v], WiresOf(v))
      BY <2>3
    <3>2. VdLab[v] \in Lab /\ WiresOf(v) \in SUBSET WiresIn(VdLab[v])
      BY WireAssumption DEF WiresOf, WiresIn
    <3> QED BY <2>2, <3>1, <3>2
  <2>4. CASE \E a \in Lab : Begin("all", "none", a, WiresIn(a))
    BY <2>2, <2>4
  <2>5. CASE \E w \in Wire : Begin("link", "none", WireLab[w], {w})
    <3>1. PICK w \in Wire : Begin("link", "none", WireLab[w], {w})
      BY <2>5
    <3>2. WireLab[w] \in Lab /\ {w} \in SUBSET WiresIn(WireLab[w]) /\ \A x, y \in {w} : x = y
      BY WireAssumption DEF WiresIn
    <3> QED BY <2>2, <3>1, <3>2
  <2> QED BY <1>6, <2>3, <2>4, <2>5 DEF Reconcile
<1>7. ASSUME Merge, UNCHANGED setting PROVE NodesInv' /\ RecordsInv'
  <2>1. PICK w \in todo : /\ IF Keeps(w) THEN Kept(w) ELSE Renamed(w)
                          /\ todo' = todo \ {w}
    BY <1>7 DEF Merge
  <2>2. /\ pc = "merge" /\ pc' = "merge" /\ UNCHANGED <<topo, rt, place, cont, link, job>>
        /\ w \in Wire
    BY <1>0, <1>7 DEF Merge, nodes, RestTypeOK
  <2>3. NodesInv'
    <3>1. \A v \in Vd : VdInv(v)'
      BY <1>0, <1>7, <2>2 DEF VdInv, Starting
    <3>2. JobInv'
      BY <1>0, <1>7, <2>2 DEF JobInv, May, Deployed, WiresIn, WiresOf
    <3> QED BY <3>1, <3>2 DEF NodesInv
  <2>4. /\ built'[w].type = Type(w) /\ built'[w].id # Net
        /\ built'[w].state = "up" => built'[w] = link[w]
        /\ \A x \in Wire : x # w => built'[x] = built[x]
    <3>1. CASE Keeps(w)
      <4>1. built' = [built EXCEPT ![w] = link[w]]
        BY <2>1, <3>1 DEF Kept
      <4> QED BY <1>0, <2>2, <3>1, <4>1 DEF Keeps, SavedInv, FitRecord, RestTypeOK
    <3>2. CASE ~ Keeps(w)
      BY <1>0, <2>1, <2>2, <3>2, RenamedAs DEF RestTypeOK
    <3> QED BY <3>1, <3>2
  <2>5. Type(w) \in Kinds /\ \A x \in Wire : Type(x)' = Type(x)
    BY <2>2, TypeFrame, TypeIsKind
  <2>6. \A x \in Wire : SavedInv(x)'
    BY <1>0, <1>7, <2>2, SavedFrame
  <2>7. ASSUME NEW x \in Wire PROVE BuiltInv(x)'
    <3>1. CASE x = w
      <4>1. built'[w].state = "up" => built'[w].type \notin {"none", "pending"}
        BY <1>0, <2>2, <2>4 DEF SavedInv, FitRecord
      <4>2. built'[w].type # "none" /\ w \in topo
        BY <1>0, <2>2, <2>4, <2>5 DEF Kinds, BuiltInv
      <4> QED BY <2>2, <2>4, <2>5, <3>1, <4>1, <4>2 DEF BuiltInv, FitRecord, Exists
    <3>2. CASE x # w
      <4>1. BuiltInv(x)
        BY <1>0
      <4> QED BY <2>1, <2>2, <2>4, <2>5, <3>2, <4>1 DEF BuiltInv, FitRecord, Exists
    <3> QED BY <3>1, <3>2
  <2>8. AddInv'
    BY <1>0, <2>2 DEF AddInv, WiresOf
  <2> QED BY <2>3, <2>6, <2>7, <2>8 DEF RecordsInv
<1>8. ASSUME Refreshed, UNCHANGED setting PROVE NodesInv' /\ RecordsInv'
  <2>1. pc = "merge" /\ todo = {} /\ UNCHANGED <<topo, rt, place, cont, link>>
    BY <1>8 DEF Refreshed, nodes
  <2>2. \A x \in Wire : SavedInv(x)'
    BY <1>0, <1>8, <2>1, SavedFrame
  <2>3. CASE Unknown /\ Idle
    <3>1. job.kind \in {"node", "link"} /\ pc' = "idle" /\ built' = NoLinks
      BY <2>3 DEF Unknown, Idle
    <3>2. \A u \in Vd :
                /\ rt'[u] = "absent" <=> place'[u] = "none"
                /\ u \in cont' => rt'[u] \in {"running", "error"}
                /\ rt'[u] = "running" => u \in cont'
                /\ rt'[u] # "reconciling"
                /\ rt'[u] = "error" => setting'.fails
      BY <1>0, <1>8, <2>1, <3>1 DEF VdInv, Starting
    <3> QED BY <2>2, <3>1, <3>2, IdleKeeps
  <2>4. CASE pc' = "create" /\ todo' = ToCreate /\ UNCHANGED <<job, built, merge>>
    <3>1. ToCreate \subseteq job.goal /\ \A w \in ToCreate : Exists(built[w])
      BY DEF ToCreate
    <3>2. JobInv'
      BY <1>0, <1>8, <2>1, <2>4, <3>1 DEF JobInv, May, Deployed, WiresIn, WiresOf, Exists
    <3>3. \A u \in Vd : VdInv(u)'
      BY <1>0, <1>8, <2>1, <2>4 DEF VdInv, Starting
    <3>4. ASSUME NEW x \in Wire PROVE BuiltInv(x)'
      <4>1. Type(x)' = Type(x) /\ BuiltInv(x)
        BY <1>0, <2>1, TypeFrame
      <4> QED BY <2>1, <2>4, <4>1 DEF BuiltInv, FitRecord, Exists
    <3>5. AddInv'
      BY <1>0, <2>1, <2>4 DEF AddInv, WiresOf
    <3> QED BY <2>2, <3>2, <3>3, <3>4, <3>5 DEF NodesInv, RecordsInv
  <2> QED BY <1>8, <2>3, <2>4 DEF Refreshed
<1>9. ASSUME Create, UNCHANGED setting PROVE NodesInv' /\ RecordsInv'
  <2>1. PICK w \in todo :
          /\ todo' = todo \ {w}
          /\ \/ built' = WithState(w, "partial")
             \/ CanConnect(w) /\ built' = WithState(w, "up")
    BY <1>9 DEF Create
  <2>2. /\ pc = "create" /\ pc' = "create" /\ UNCHANGED <<topo, rt, place, cont, link, job>>
        /\ w \in Wire /\ Exists(built[w])
    BY <1>0, <1>9 DEF Create, nodes, RestTypeOK, JobInv
  <2>3. /\ \A x \in Wire : built'[x].type = built[x].type /\ built'[x].id = built[x].id
        /\ \A x \in Wire : x # w => built'[x] = built[x]
        /\ built'[w].state = "up" => built[w].type # "pending"
    <3>1. built \in [Wire -> LinkRecord] /\ built[w] \in LinkRecord /\ {"partial", "up"} \subseteq LkState
      BY <1>0, <2>2 DEF RestTypeOK, LkState
    <3>2. \A st \in LkState : /\ WithState(w, st)[w].state = st
                              /\ \A x \in Wire : x # w => WithState(w, st)[x] = built[x]
      BY <2>2, <3>1 DEF WithState, LinkRecord
    <3> QED BY <2>1, <2>2, <3>1, <3>2, WithStateType DEF CanConnect
  <2>4. JobInv'
    BY <1>0, <1>9, <2>1, <2>2, <2>3 DEF JobInv, May, Deployed, WiresIn, WiresOf, Exists, RestTypeOK
  <2>5. \A u \in Vd : VdInv(u)'
    BY <1>0, <1>9, <2>2 DEF VdInv, Starting
  <2>6. \A x \in Wire : SavedInv(x)'
    BY <1>0, <1>9, <2>2, SavedFrame
  <2>7. ASSUME NEW x \in Wire PROVE BuiltInv(x)'
    <3>1. Type(x)' = Type(x) /\ BuiltInv(x)
      BY <1>0, <2>2, TypeFrame
    <3>2. built'[x].state = "up" => built'[x].type \notin {"none", "pending"}
      BY <2>2, <2>3, <3>1 DEF BuiltInv, FitRecord, Exists
    <3> QED BY <2>2, <2>3, <3>1, <3>2 DEF BuiltInv, FitRecord, Exists
  <2>8. AddInv'
    BY <1>0, <2>2 DEF AddInv, WiresOf
  <2> QED BY <2>4, <2>5, <2>6, <2>7, <2>8 DEF NodesInv, RecordsInv
<1>10. ASSUME CreateFails, UNCHANGED setting PROVE NodesInv' /\ RecordsInv'
  <2>1. PICK w \in todo :
        /\ Missing(w) = {} /\ (setting.fails \/ ~ CanConnect(w))
        /\ \/ /\ job.kind = "start" /\ Save(WithState(w, "error"))
              /\ rt' = [rt EXCEPT ![job.node] = "error"] /\ UNCHANGED <<place, cont>>
           \/ /\ job.kind = "add"
              /\ rt' = [rt EXCEPT ![job.node] = "absent"]
              /\ place' = [place EXCEPT ![job.node] = "none"]
              /\ cont' = cont \ {job.node} /\ UNCHANGED link
           \/ /\ job.kind \in {"node", "all"} /\ UNCHANGED <<nodes, link>>
           \/ /\ job.kind = "link" /\ Save(WithState(w, "error")) /\ UNCHANGED nodes
    BY <1>10 DEF CreateFails
  <2>2. /\ pc = "create" /\ pc' = "idle" /\ built' = NoLinks /\ UNCHANGED topo /\ w \in Wire
    BY <1>0, <1>10 DEF CreateFails, Idle, RestTypeOK
  <2>3. Save(WithState(w, "error")) /\ UNCHANGED place => \A x \in Wire : SavedInv(x)'
    <3>1. built \in [Wire -> LinkRecord] /\ built[w] \in LinkRecord /\ "error" \in LkState
      BY <1>0, <2>2 DEF RestTypeOK, LkState
    <3>2. \A x \in Wire : /\ WithState(w, "error")[x].type = built[x].type
                          /\ WithState(w, "error")[x].id = built[x].id
                          /\ WithState(w, "error")[x].state = "up" => built[x].state = "up"
      <4>1. \A x \in Wire : x # w => WithState(w, "error")[x] = built[x]
        BY <2>2, <3>1 DEF WithState
      <4>2. WithState(w, "error")[w].state = "error"
        BY <2>2, <3>1 DEF WithState, LinkRecord
      <4> QED BY <2>2, <3>1, <4>1, <4>2, WithStateType
    <3> QED BY <1>0, <1>10, <2>2, <3>2, SavedList
  <2>4. CASE /\ job.kind = "start" /\ Save(WithState(w, "error"))
             /\ rt' = [rt EXCEPT ![job.node] = "error"] /\ UNCHANGED <<place, cont>>
    <3>1. job.node \in Vd /\ job.node \in RunningNodes /\ VdLab[job.node] = job.lab
      BY <1>0, <2>2, <2>4 DEF JobInv, VdInv, Starting, RunningNodes
    <3>2. setting.fails
      BY <2>1, <2>2, <3>1, StartsConnect
    <3>3. \A u \in Vd :
                /\ rt'[u] = "absent" <=> place'[u] = "none"
                /\ u \in cont' => rt'[u] \in {"running", "error"}
                /\ rt'[u] = "running" => u \in cont'
                /\ rt'[u] # "reconciling"
                /\ rt'[u] = "error" => setting'.fails
      <4>1. rt[job.node] # "absent"
        BY <3>1 DEF RunningNodes
      <4>2. ASSUME NEW u \in Vd, u # job.node
            PROVE  rt'[u] = rt[u] /\ rt[u] # "reconciling"
        BY <1>0, <2>4, <4>2 DEF VdInv, Starting, RestTypeOK
      <4>3. rt'[job.node] = "error"
        BY <1>0, <2>4, <3>1 DEF RestTypeOK
      <4> QED BY <1>0, <1>10, <2>4, <3>1, <3>2, <4>1, <4>2, <4>3 DEF VdInv
    <3> QED BY <2>2, <2>3, <2>4, <3>3, IdleKeeps
  <2>5. CASE /\ job.kind = "add"
             /\ rt' = [rt EXCEPT ![job.node] = "absent"]
             /\ place' = [place EXCEPT ![job.node] = "none"]
             /\ cont' = cont \ {job.node} /\ UNCHANGED link
    <3>1. job.node \in Vd /\ \A x \in WiresOf(job.node) : link[x].type \in {"none", "pending"}
      BY <1>0, <2>2, <2>5 DEF JobInv, AddInv
    <3>2. ASSUME NEW x \in Wire PROVE SavedInv(x)'
      <4>1. CASE x \in WiresOf(job.node)
        BY <1>0, <1>10, <2>2, <2>5, <3>1, <4>1 DEF SavedInv, FitRecord, Exists, Deployed, May
      <4>2. CASE x \notin WiresOf(job.node)
        <5>1. \A u \in Ends[x] : place'[u] = place[u]
          BY <1>0, <2>5, <4>2, LabOfEnds DEF WiresOf, RestTypeOK
        <5> QED BY <1>0, <1>10, <2>2, <2>5, <5>1, SavedFrame
      <4> QED BY <4>1, <4>2
    <3>3. \A u \in Vd :
                /\ rt'[u] = "absent" <=> place'[u] = "none"
                /\ u \in cont' => rt'[u] \in {"running", "error"}
                /\ rt'[u] = "running" => u \in cont'
                /\ rt'[u] # "reconciling"
                /\ rt'[u] = "error" => setting'.fails
      <4>1. rt'[job.node] = "absent" /\ place'[job.node] = "none" /\ job.node \notin cont'
        BY <1>0, <2>5, <3>1 DEF RestTypeOK
      <4>2. ASSUME NEW u \in Vd, u # job.node
            PROVE  /\ rt'[u] = rt[u] /\ rt[u] # "reconciling" /\ place'[u] = place[u]
                   /\ u \in cont' <=> u \in cont
        BY <1>0, <2>5, <4>2 DEF VdInv, Starting, RestTypeOK
      <4> QED BY <1>0, <1>10, <4>1, <4>2 DEF VdInv
    <3> QED BY <2>2, <3>2, <3>3, IdleKeeps
  <2>6. CASE job.kind \in {"node", "all", "link"} /\ UNCHANGED nodes
              /\ (UNCHANGED link \/ Save(WithState(w, "error")))
    <3>1. UNCHANGED <<rt, place, cont>>
      BY <2>6 DEF nodes
    <3>2. \A x \in Wire : SavedInv(x)'
      BY <1>0, <1>10, <2>2, <2>3, <2>6, <3>1, SavedFrame
    <3>3. \A u \in Vd :
                /\ rt'[u] = "absent" <=> place'[u] = "none"
                /\ u \in cont' => rt'[u] \in {"running", "error"}
                /\ rt'[u] = "running" => u \in cont'
                /\ rt'[u] # "reconciling"
                /\ rt'[u] = "error" => setting'.fails
      BY <1>0, <1>10, <2>6, <3>1 DEF VdInv, Starting
    <3> QED BY <2>2, <3>2, <3>3, IdleKeeps
  <2> QED BY <2>1, <2>4, <2>5, <2>6
<1>11. ASSUME Commit, UNCHANGED setting PROVE NodesInv' /\ RecordsInv'
  <2>1. /\ pc = "create" /\ pc' = "idle" /\ built' = NoLinks /\ Save(built)
        /\ UNCHANGED <<topo, place, cont>>
        /\ rt' = IF job.kind \in {"start", "add"} THEN [rt EXCEPT ![job.node] = "running"] ELSE rt
    BY <1>11 DEF Commit, Idle
  <2>2. \A x \in Wire : SavedInv(x)'
    BY <1>0, <1>11, <2>1, SavedList
  <2>3. ASSUME NEW u \in Vd
        PROVE   /\ rt'[u] = "absent" <=> place'[u] = "none"
                /\ u \in cont' => rt'[u] \in {"running", "error"}
                /\ rt'[u] = "running" => u \in cont'
                /\ rt'[u] # "reconciling"
                /\ rt'[u] = "error" => setting'.fails
    <3>1. CASE Starting(u)
      <4>1. rt'[u] = "running" /\ rt[u] = "reconciling"
        BY <1>0, <2>1, <3>1 DEF Starting, VdInv, RestTypeOK
      <4> QED BY <1>0, <2>1, <4>1 DEF VdInv
    <3>2. CASE ~ Starting(u)
      <4>1. rt'[u] = rt[u] /\ rt[u] # "reconciling"
        BY <1>0, <2>1, <3>2 DEF Starting, VdInv, RestTypeOK
      <4> QED BY <1>0, <1>11, <2>1, <4>1 DEF VdInv
    <3> QED BY <3>1, <3>2
  <2> QED BY <2>1, <2>2, <2>3, IdleKeeps
<1>12. CASE UNCHANGED vars
  <2>1. UNCHANGED <<topo, rt, place, cont, link, built, job, pc, todo, setting>>
    BY <1>12 DEF vars
  <2>2. \A x \in Wire : Type(x)' = Type(x)
    BY <2>1, TypeFrame
  <2>3. NodesInv'
    BY <2>1 DEF NodesInv, VdInv, JobInv, Starting, May, Deployed, WiresIn, WiresOf, Exists
  <2>4. RecordsInv'
    BY <2>1, <2>2 DEF RecordsInv, SavedInv, BuiltInv, AddInv, FitRecord, May, Deployed, WiresOf, Exists
  <2> QED BY <2>3, <2>4
<1> QED
  BY <1>1, <1>2, <1>3, <1>4, <1>5, <1>6, <1>7, <1>8, <1>9, <1>10, <1>11, <1>12 DEF Next
-----------------------------------------------------------------------------
(* The network and the records that name it *)

\* No host has VDs of two labs.
LabsApart == \A u, v \in Vd : place[u] = place[v] /\ place[u] # "none" => VdLab[u] = VdLab[v]

\* A mutation creates the links of the lab of w.
Creating(w) == pc = "create" /\ WireLab[w] = job.lab

\* The records in force: of a lab whose links are being created the rebuilt ones.
Now == [w \in Wire |-> IF Creating(w) THEN built[w] ELSE link[w]]

\* nothing is plugged into a port
Clear(p) == master[p] = None /\ tunnel[p] = 0 /\ p \notin carrier

\* a port carries what the record r of its link names, or less
PortFits(p, r) ==
    /\ \/ master[p] = None
       \/ r.type = "same_host" /\ master[p] = Bridge(r)
       \/ r.type = "real_net" /\ master[p] = Net
    /\ tunnel[p] = 0 \/ (r.type = "cross_host" /\ tunnel[p] = r.vni)
    /\ p \in carrier => r.type \notin {"none", "pending"}

\* a port carries all of it
PortOn(p, r) ==
    /\ p \in carrier
    /\ r.type = "same_host" => master[p] = Bridge(r)
    /\ r.type = "cross_host" => tunnel[p] = r.vni
    /\ r.type = "real_net" => master[p] = Net
Connected(w, r) == \A p \in PortsOf(w) : PortOn(p, r)

\* what a step leaves alone
Same(p) == master'[p] = master[p] /\ tunnel'[p] = tunnel[p] /\ (p \in carrier' <=> p \in carrier)

AllRunning(w) == \A v \in Ends[w] : rt[v] = "running"

\* Only a link whose containers all run is plugged in.
LiveInv == \A p \in Port : ~ Clear(p) => Ends[p[1]] \subseteq cont

\* The network is what the saved list says,
SavedNet(w) ==
    /\ \A p \in PortsOf(w) : PortFits(p, link[w])
    /\ link[w].state = "up" /\ AllRunning(w) => Connected(w, link[w])

\* and while a mutation creates links, what the rebuilt list says; a link that
\* is still to be created may be less than its record.
BuiltNet(w) ==
    /\ \A p \in PortsOf(w) : PortFits(p, built[w])
    /\ w \notin todo /\ built[w].state = "up" /\ Ends[w] \subseteq RunningNodes
        => Connected(w, built[w])

\* An add may be rolled back: the links it does not touch are as they were.
NetInv ==
    /\ LiveInv
    /\ \A w \in Wire : IF Creating(w) THEN BuiltNet(w) ELSE SavedNet(w)
    /\ pc = "create" /\ job.kind = "add" => \A w \in Wire \ job.goal : SavedNet(w)

LEMMA PortFacts ==
    /\ \A p \in Port : p[1] \in Wire /\ p[2] \in Vd /\ p[2] \in Ends[p[1]] /\ p \in PortsOf(p[1])
    /\ \A w \in Wire : \A p \in PortsOf(w) : p \in Port /\ p[1] = w
BY DEF Port, PortsOf

\* Nothing is plugged into the ports of a link that does not exist.
LEMMA AbsentIsClear ==
    ASSUME NEW p, NEW r, PortFits(p, r), r.type \in {"none", "pending"}
    PROVE  Clear(p)
BY DEF PortFits, Clear

\* The VDs of a bridge have a host, and bridges of a lab have names of their own.
Hosted(now) == \A w \in Wire :
    now[w].id # Net /\ (now[w].type = "same_host" => \A v \in Ends[w] : place[v] # "none")
OwnNames(now) == \A w, x \in Wire :
    w # x /\ WireLab[w] = WireLab[x] /\ Exists(now[w]) /\ Exists(now[x]) => now[w].id # now[x].id
Sound(now) == Hosted(now) /\ OwnNames(now)

\* A VD on the host of a bridge is of the lab of the bridge, and no other wire of that
\* lab has a bridge of this name.
LEMMA BridgeIsOwn ==
    ASSUME LabsApart, NEW now, Sound(now), NEW w \in Wire, NEW x \in Wire, w # x,
           now[w].type = "same_host", NEW u \in Ends[w], NEW v \in Ends[x], place[u] = place[v]
    PROVE  now[w].id # Net /\ (now[x].type = "same_host" => now[w].id # now[x].id)
<1>1. now[w].id # Net /\ place[u] # "none"
  <2>1. Hosted(now)
    BY DEF Sound
  <2> QED BY <2>1 DEF Hosted
<1>2. u \in Vd /\ v \in Vd /\ VdLab[u] = WireLab[w] /\ VdLab[v] = WireLab[x]
  BY LabOfEnds
<1>3. WireLab[w] = WireLab[x]
  BY <1>1, <1>2 DEF LabsApart
<1>4. ASSUME now[x].type = "same_host" PROVE now[w].id # now[x].id
  <2>1. Exists(now[w]) /\ Exists(now[x])
    BY <1>4 DEF Exists
  <2>2. OwnNames(now)
    BY DEF Sound
  <2> QED BY <1>3, <2>1, <2>2 DEF OwnNames
<1> QED BY <1>1, <1>4

\* delete_link takes the deleted links apart and no other, because no other of the lab
\* has the same identifier and no other lab is on the host.
LEMMA DeleteKeeps ==
    ASSUME NEW ws \in SUBSET Wire, NEW rs, NEW now, NEW lost, DeleteLinks(ws, rs, lost),
           \A w \in ws : rs[w] = now[w], LabsApart, Sound(now),
           \A p \in Port : PortFits(p, now[p[1]])
    PROVE  \A p \in Port :
            /\ p[1] \in ws \/ p \in lost => Clear(p)'
            /\ p[1] \notin ws /\ p \notin lost => Same(p)
            /\ Clear(p) => Clear(p)'
<1> SUFFICES ASSUME NEW p \in Port
             PROVE  /\ p[1] \in ws \/ p \in lost => Clear(p)'
                    /\ p[1] \notin ws /\ p \notin lost => Same(p)
                    /\ Clear(p) => Clear(p)'
  OBVIOUS
<1>1. /\ master'[p] = IF p \in Freed(ws, rs) \cup lost THEN None ELSE master[p]
      /\ tunnel'[p] = IF p \in Unstitched(ws, rs) \cup lost THEN 0 ELSE tunnel[p]
      /\ p \in carrier' <=> p \in carrier /\ p \notin Darkened(ws, rs) \cup lost
  BY DEF DeleteLinks
<1>2. PortFits(p, now[p[1]]) /\ p[1] \in Wire /\ p[2] \in Ends[p[1]] /\ p[2] \in Vd
  BY PortFacts
<1>3. Clear(p) => Clear(p)'
  BY <1>1 DEF Clear
<1>4. CASE p \in lost
  BY <1>1, <1>3, <1>4 DEF Clear
<1>5. CASE p[1] \in ws
  <2>1. master[p] = None \/ p \in Freed(ws, rs)
    BY <1>2, <1>5 DEF PortFits, Freed
  <2>2. tunnel[p] = 0 \/ p \in Unstitched(ws, rs)
    BY <1>2, <1>5 DEF PortFits, Unstitched
  <2>3. p \notin carrier \/ p \in Darkened(ws, rs)
    BY <1>2, <1>5 DEF PortFits, Darkened
  <2> QED BY <1>1, <1>3, <1>5, <2>1, <2>2, <2>3 DEF Clear
<1>6. CASE p[1] \notin ws /\ p \notin lost
  <2>1. p \notin Unstitched(ws, rs) /\ p \notin Darkened(ws, rs)
    BY <1>6 DEF Unstitched, Darkened
  <2>2. ASSUME p \in Freed(ws, rs) PROVE master[p] = None
    <3>1. PICK w \in ws : /\ rs[w].type = "same_host" /\ master[p] = Bridge(rs[w])
                          /\ \E v \in Ends[w] : place[v] = place[p[2]]
      BY <1>6, <2>2 DEF Freed
    <3>2. w \in Wire /\ w # p[1] /\ now[w].type = "same_host" /\ master[p] = now[w].id
      BY <1>6, <3>1 DEF Bridge
    <3>3. now[w].id # Net /\ (now[p[1]].type = "same_host" => now[w].id # now[p[1]].id)
      <4>1. PICK v \in Ends[w] : place[v] = place[p[2]]
        BY <3>1
      <4> QED BY <1>2, <3>2, <4>1, BridgeIsOwn
    <3> QED BY <1>2, <3>2, <3>3 DEF PortFits, Bridge
  <2> QED BY <1>1, <1>3, <1>6, <2>1, <2>2 DEF Same
<1> QED BY <1>3, <1>4, <1>5, <1>6

\* The records in force are sound: the saved ones of a lab are apart, and so are the
\* rebuilt ones.
LEMMA NowIsSound ==
    ASSUME IdsInv, RecordsInv
    PROVE  Sound(Now)
<1>1. ASSUME NEW w \in Wire
      PROVE  /\ Now[w].id # Net
             /\ Now[w].type = "same_host" => \A v \in Ends[w] : place[v] # "none"
  <2>1. FitRecord(w, Now[w])
    BY DEF RecordsInv, SavedInv, BuiltInv, Now
  <2> QED BY <2>1, TypeFacts DEF FitRecord
<1>2. ASSUME NEW w \in Wire, NEW x \in Wire, w # x, WireLab[w] = WireLab[x],
             Exists(Now[w]), Exists(Now[x])
      PROVE  Now[w].id # Now[x].id
  <2>1. CASE Creating(w)
    <3>1. Now[w] = built[w] /\ Now[x] = built[x]
      BY <1>2, <2>1 DEF Now, Creating
    <3> QED BY <1>2, <3>1 DEF IdsInv, BuiltApart, Apart
  <2>2. CASE ~ Creating(w)
    <3>1. Now[w] = link[w] /\ Now[x] = link[x]
      BY <1>2, <2>2 DEF Now, Creating
    <3> QED BY <1>2, <3>1 DEF IdsInv, IdsUnique
  <2> QED BY <2>1, <2>2
<1> QED BY <1>1, <1>2 DEF Sound, Hosted, OwnNames

\* Links whose ports and records a step leaves alone
LEMMA SavedNetFrame ==
    ASSUME NEW w \in Wire, SavedNet(w), \A p \in PortsOf(w) : Same(p),
           link'[w] = link[w], AllRunning(w)' => AllRunning(w)
    PROVE  SavedNet(w)'
<1>1. \A p \in PortsOf(w) : PortFits(p, link[w])'
  BY DEF SavedNet, PortFits, Same, Bridge
<1>2. link'[w].state = "up" /\ AllRunning(w)' => Connected(w, link[w])'
  <2>1. Connected(w, link[w]) => Connected(w, link[w])'
    BY DEF Connected, PortOn, Same, Bridge, PortsOf, Port
  <2> QED BY <2>1 DEF SavedNet
<1> QED BY <1>1, <1>2 DEF SavedNet, PortsOf, Port

\* Links whose ports are empty and whose record claims nothing
LEMMA SavedNetClear ==
    ASSUME NEW w \in Wire, \A p \in PortsOf(w) : Clear(p)',
           link'[w].state # "up" \/ ~ AllRunning(w)'
    PROVE  SavedNet(w)'
<1>1. \A p \in PortsOf(w) : PortFits(p, link[w])'
  BY DEF Clear, PortFits
<1> QED BY <1>1 DEF SavedNet, PortsOf, Port

\* Links that take the record they were rebuilt with
LEMMA SavedNetTaken ==
    ASSUME NEW w \in Wire, BuiltNet(w), \A p \in PortsOf(w) : Same(p) \/ Clear(p)',
           link'[w].type = built[w].type, link'[w].id = built[w].id, link'[w].vni = built[w].vni,
           link'[w].state = "up" /\ AllRunning(w)' =>
                /\ \A p \in PortsOf(w) : Same(p)
                /\ w \notin todo /\ built[w].state = "up" /\ Ends[w] \subseteq RunningNodes
    PROVE  SavedNet(w)'
<1>1. \A p \in PortsOf(w) : PortFits(p, link[w])'
  BY DEF BuiltNet, PortFits, Same, Clear, Bridge
<1>2. link'[w].state = "up" /\ AllRunning(w)' => Connected(w, link[w])'
  BY DEF BuiltNet, Connected, PortOn, Same, Bridge, PortsOf, Port
<1> QED BY <1>1, <1>2 DEF SavedNet, PortsOf, Port
\* A deploy plugs in the links it records.
LEMMA NetInit ==
    ASSUME Init
    PROVE  NetInv
<1>1. pc = "idle" /\ cont \subseteq Vd /\ topo \subseteq Wire
  BY DEF Init
<1>2. ASSUME NEW w \in Wire
      PROVE  /\ link[w].type \in Kinds \cup {"none"}
             /\ link[w].type # "cross_host" => link[w].vni = 0
             /\ link[w].type # "none" => Ends[w] \subseteq cont /\ link[w].type # "pending"
             /\ link[w].type = "none" => link[w].state # "up"
  <2> DEFINE r == Built(w, Deploys(WireLab[w]))
  <2>1. CASE w \in Deploys(WireLab[w])
    <3>1. Ends[w] \subseteq cont
      BY <2>1 DEF Deploys
    <3>2. \A v \in cont : place[v] # "none"
      BY <1>1, NoneAssumption DEF Init
    <3>3. Type(w) \in Kinds /\ Type(w) # "pending"
      BY <3>1, <3>2, TypeFacts
    <3>4. r \in LinkRecord /\ r.type = Type(w) /\ (Type(w) # "cross_host" => r.vni = 0)
      <4>1. Deploys(WireLab[w]) \in SUBSET Wire
        BY <1>1 DEF Deploys, WiresIn
      <4> QED BY <4>1, BuiltIsLink
    <3>5. link[w] = [r EXCEPT !.state = "up"]
      BY <2>1 DEF Init
    <3> HIDE DEF r
    <3>6. link[w].type = Type(w) /\ link[w].vni = r.vni
      BY <3>4, <3>5 DEF LinkRecord
    <3> QED BY <3>1, <3>3, <3>4, <3>6 DEF Kinds
  <2>2. CASE w \notin Deploys(WireLab[w])
    <3>1. link[w] = NoLink
      BY <2>2 DEF Init
    <3> QED BY <3>1 DEF NoLink
  <2> QED BY <2>1, <2>2
<1>3. ASSUME NEW p \in Port
      PROVE  /\ master[p] = CASE link[p[1]].type = "same_host" -> Bridge(link[p[1]])
                              [] link[p[1]].type = "real_net" -> Net
                              [] OTHER -> None
             /\ tunnel[p] = link[p[1]].vni
             /\ p \in carrier <=> link[p[1]].type # "none"
  BY DEF Init, Exists
<1>4. LiveInv
  BY <1>2, <1>3, PortFacts DEF LiveInv, Clear
<1>5. ASSUME NEW w \in Wire PROVE SavedNet(w)
  <2>1. ASSUME NEW p \in PortsOf(w) PROVE PortFits(p, link[w])
    <3>1. p \in Port /\ p[1] = w
      BY PortFacts
    <3> QED BY <1>2, <1>3, <3>1 DEF PortFits
  <2>2. ASSUME link[w].state = "up" PROVE Connected(w, link[w])
    <3>1. link[w].type # "none"
      BY <1>2, <2>2
    <3> QED BY <1>3, <3>1, PortFacts DEF Connected, PortOn
  <2> QED BY <2>1, <2>2 DEF SavedNet
<1> QED BY <1>1, <1>4, <1>5 DEF NetInv, Creating

\* Ports that are emptied or left alone stay plugged in on running VDs only.
LEMMA LiveKeeps ==
    ASSUME LiveInv, \A p \in Port : Clear(p)' \/ (Same(p) /\ Ends[p[1]] \cap cont \subseteq cont')
    PROVE  LiveInv'
BY DEF LiveInv, Clear, Same, Port

\* Every step keeps the network as the records say, where no host has VDs of two labs
\* and every mutation that touches the network saves what it did.
LEMMA NetStep ==
    ASSUME LinksTypeOK, IdsInv, NodesInv, RecordsInv, NetInv, LabsApart, ~ Untracked, [Next]_vars
    PROVE  NetInv'
<1>0. /\ RestTypeOK /\ NetTypeOK /\ JobInv /\ (\A v \in Vd : VdInv(v))
      /\ (\A w \in Wire : SavedInv(w) /\ BuiltInv(w)) /\ AddInv
  BY DEF LinksTypeOK, RestTypeOK, NetTypeOK, NodesInv, RecordsInv
<1>s. \A w \in Wire : Creating(w) \/ (SavedNet(w) /\ Now[w] = link[w])
  BY DEF NetInv, Now
<1>b. \A w \in Wire : Creating(w) => BuiltNet(w) /\ Now[w] = built[w]
  BY DEF NetInv, Now
<1>n. Sound(Now) /\ \A p \in Port : PortFits(p, Now[p[1]])
  <2>1. ASSUME NEW p \in Port PROVE PortFits(p, Now[p[1]])
    <3>1. p[1] \in Wire /\ p \in PortsOf(p[1])
      BY PortFacts
    <3>2. CASE Creating(p[1])
      BY <1>b, <3>1, <3>2 DEF BuiltNet
    <3>3. CASE ~ Creating(p[1])
      BY <1>s, <3>1, <3>3 DEF SavedNet
    <3> QED BY <3>2, <3>3
  <2> QED BY <2>1, NowIsSound
<1>q. pc # "create" => \A w \in Wire : SavedNet(w) /\ Now[w] = link[w]
  BY <1>s DEF Creating
<1>f. pc # "create" => \A p \in Port : PortFits(p, link[p[1]])
  BY <1>n, <1>q, PortFacts
<1>e. ASSUME pc' # "create", LiveInv', \A w \in Wire : SavedNet(w)' PROVE NetInv'
  BY <1>e DEF NetInv, Creating
<1>1. ASSUME NEW v \in Vd, pc = "idle", pc' = "idle", cont' = cont \ {v},
             \A w \in Wire : w \notin WiresOf(v) => link'[w] = link[w],
             \A w \in WiresOf(v) : link'[w].state # "up",
             \A u \in Vd : u # v => rt'[u] = rt[u],
             DeleteLinks(Recorded(v), link, PortsAt(v))
      PROVE  NetInv'
  <2>1. \A p \in Port :
            /\ p[1] \in Recorded(v) \/ p \in PortsAt(v) => Clear(p)'
            /\ p[1] \notin Recorded(v) /\ p \notin PortsAt(v) => Same(p)
            /\ Clear(p) => Clear(p)'
    <3>1. Recorded(v) \in SUBSET Wire
      BY DEF Recorded, WiresOf
    <3>2. \A w \in Recorded(v) : link[w] = Now[w]
      BY <1>1, <1>q, <3>1
    <3> QED BY <1>1, <1>n, <3>1, <3>2, DeleteKeeps
  <2>2. ASSUME NEW p \in Port, p[1] \in WiresOf(v) PROVE Clear(p)'
    <3>1. CASE p[1] \in Recorded(v)
      BY <2>1, <3>1
    <3>2. CASE p[1] \notin Recorded(v)
      <4>1. link[p[1]].type = "none"
        BY <2>2, <3>2, PortFacts DEF Recorded, Exists
      <4>2. Clear(p)
        BY <1>1, <1>f, <4>1, AbsentIsClear
      <4> QED BY <2>1, <4>2
    <3> QED BY <3>1, <3>2
  <2>3. ASSUME NEW p \in Port, p[1] \notin WiresOf(v) PROVE Same(p) /\ v \notin Ends[p[1]]
    <3>1. v \notin Ends[p[1]] /\ p[1] \notin Recorded(v) /\ p \notin PortsAt(v)
      BY <2>3, PortFacts DEF WiresOf, Recorded, PortsAt
    <3> QED BY <2>1, <3>1
  <2>4. LiveInv'
    BY <1>1, <2>2, <2>3, LiveKeeps DEF NetInv
  <2>5. ASSUME NEW w \in Wire PROVE SavedNet(w)'
    <3>1. CASE w \in WiresOf(v)
      BY <1>1, <2>2, <3>1, PortFacts, SavedNetClear
    <3>2. CASE w \notin WiresOf(v)
      <4>1. SavedNet(w) /\ \A p \in PortsOf(w) : Same(p)
        BY <1>1, <1>q, <2>3, <3>2, PortFacts
      <4>2. AllRunning(w)' => AllRunning(w)
        BY <1>1, <3>2, LabOfEnds DEF AllRunning, WiresOf
      <4> QED BY <1>1, <3>2, <4>1, <4>2, SavedNetFrame
    <3> QED BY <3>1, <3>2
  <2> QED BY <1>1, <1>e, <2>4, <2>5
<1>2. ASSUME NEW v \in Vd, Stop(v), UNCHANGED setting PROVE NetInv'
  <2>1. ASSUME NEW w \in WiresOf(v) PROVE link'[w].state # "up"
    <3>1. w \in Wire /\ link[w] \in LinkRecord
      BY <1>0 DEF WiresOf, RestTypeOK
    <3>2. CASE w \in Recorded(v)
      <4>1. link'[w] = [link[w] EXCEPT !.state = "partial"]
        BY <1>2, <3>1, <3>2 DEF Stop, Stopped
      <4> QED BY <3>1, <4>1 DEF LinkRecord
    <3>3. CASE w \notin Recorded(v)
      <4>1. link'[w] = link[w] /\ link[w].type = "none"
        BY <1>2, <3>1, <3>3 DEF Stop, Recorded, Exists
      <4> QED BY <1>0, <3>1, <4>1 DEF SavedInv, FitRecord
    <3> QED BY <3>2, <3>3
  <2>2. \A w \in Wire : w \notin WiresOf(v) => link'[w] = link[w]
    BY <1>2 DEF Stop, Recorded
  <2>3. \A u \in Vd : u # v => rt'[u] = rt[u]
    BY <1>0, <1>2 DEF Stop, RestTypeOK
  <2>4. /\ pc = "idle" /\ pc' = "idle" /\ cont' = cont \ {v}
        /\ DeleteLinks(Recorded(v), link, PortsAt(v))
    BY <1>2 DEF Stop
  <2> QED BY <1>1, <2>1, <2>2, <2>3, <2>4
<1>3. ASSUME NEW v \in Vd, Remove(v), UNCHANGED setting PROVE NetInv'
  <2>1. /\ pc = "idle" /\ pc' = "idle" /\ cont' = cont \ {v}
        /\ rt' = [rt EXCEPT ![v] = "absent"]
        /\ link' = [w \in Wire |-> IF w \in WiresOf(v) THEN NoLink ELSE link[w]]
    BY <1>3 DEF Remove
  <2>2. /\ \A w \in Wire : w \notin WiresOf(v) => link'[w] = link[w]
        /\ \A w \in WiresOf(v) : link'[w].state # "up"
        /\ \A u \in Vd : u # v => rt'[u] = rt[u]
    BY <1>0, <2>1 DEF RestTypeOK, NoLink, WiresOf
  <2>3. CASE DeleteLinks(Recorded(v), link, PortsAt(v))
    BY <1>1, <2>1, <2>2, <2>3
  <2>4. CASE rt[v] = "stopped" /\ UNCHANGED net
    <3>1. \A p \in Port : Same(p)
      BY <2>4 DEF net, Same
    <3>2. v \notin cont /\ cont' = cont
      BY <1>0, <2>1, <2>4 DEF VdInv
    <3>3. ASSUME NEW p \in Port, p[1] \in WiresOf(v) PROVE Clear(p)'
      <4>1. Clear(p)
        BY <3>2, <3>3 DEF NetInv, LiveInv, WiresOf
      <4> QED BY <3>1, <4>1 DEF Clear, Same
    <3>4. LiveInv'
      BY <3>1, <3>2, LiveKeeps DEF NetInv
    <3>5. ASSUME NEW w \in Wire PROVE SavedNet(w)'
      <4>1. CASE w \in WiresOf(v)
        BY <2>2, <3>3, <4>1, PortFacts, SavedNetClear
      <4>2. CASE w \notin WiresOf(v)
        <5>1. SavedNet(w) /\ \A p \in PortsOf(w) : Same(p)
          BY <1>q, <2>1, <3>1, PortFacts
        <5>2. AllRunning(w)' => AllRunning(w)
          BY <2>2, <4>2, LabOfEnds DEF AllRunning, WiresOf
        <5> QED BY <2>2, <4>2, <5>1, <5>2, SavedNetFrame
      <4> QED BY <4>1, <4>2
    <3> QED BY <1>e, <2>1, <3>4, <3>5
  <2> QED BY <1>3, <2>3, <2>4 DEF Remove
<1>4. ASSUME pc # "create", pc' # "create", UNCHANGED <<link, net>>, cont \subseteq cont',
             \A u \in Vd : rt'[u] = "running" => rt[u] = "running"
      PROVE  NetInv'
  <2>1. \A p \in Port : Same(p)
    BY <1>4 DEF net, Same
  <2>2. LiveInv'
    BY <1>4, <2>1, LiveKeeps DEF NetInv
  <2>3. ASSUME NEW w \in Wire PROVE SavedNet(w)'
    <3>1. SavedNet(w) /\ \A p \in PortsOf(w) : Same(p)
      BY <1>4, <1>q, <2>1, PortFacts
    <3>2. AllRunning(w)' => AllRunning(w)
      BY <1>4, LabOfEnds DEF AllRunning
    <3> QED BY <1>4, <3>1, <3>2, SavedNetFrame
  <2> QED BY <1>4, <1>e, <2>2, <2>3
<1>5. ASSUME NEW v \in Vd, Start(v) PROVE NetInv'
  <2>1. /\ pc = "idle" /\ pc' = "merge" /\ UNCHANGED <<link, net>> /\ cont' = cont \cup {v}
        /\ rt' = [rt EXCEPT ![v] = "reconciling"]
    BY <1>5 DEF Start, Begin
  <2>2. \A u \in Vd : rt'[u] = "running" => rt[u] = "running"
    BY <1>0, <2>1 DEF RestTypeOK
  <2> QED BY <1>4, <2>1, <2>2
<1>6. ASSUME NEW v \in Vd, NEW h \in Host, Add(v, h) PROVE NetInv'
  <2>1. /\ pc = "idle" /\ pc' = "merge" /\ UNCHANGED <<link, net>> /\ cont' = cont \cup {v}
        /\ rt' = [rt EXCEPT ![v] = "reconciling"]
    BY <1>6 DEF Add, Begin
  <2>2. \A u \in Vd : rt'[u] = "running" => rt[u] = "running"
    BY <1>0, <2>1 DEF RestTypeOK
  <2> QED BY <1>4, <2>1, <2>2
<1>7. ASSUME NEW w \in Wire, Edit(w) PROVE NetInv'
  BY <1>4, <1>7 DEF Edit, nodes
<1>8. ASSUME Reconcile PROVE NetInv'
  <2>1. pc = "idle" /\ pc' = "merge" /\ UNCHANGED <<link, net>> /\ UNCHANGED <<rt, cont>>
    BY <1>8 DEF Reconcile, Begin, nodes
  <2> QED BY <1>4, <2>1
<1>9. ASSUME Merge PROVE NetInv'
  BY <1>4, <1>9 DEF Merge, nodes
<1>10. ASSUME Refreshed, UNCHANGED setting PROVE NetInv'
  <2>1. /\ pc = "merge" /\ todo = {} /\ UNCHANGED <<topo, rt, place, cont, link>>
        /\ DeleteLinks(Dropped, link, {})
    BY <1>10 DEF Refreshed, nodes
  <2>2. \A p \in Port : /\ p[1] \in Dropped => Clear(p)'
                        /\ p[1] \notin Dropped => Same(p)
                        /\ Clear(p) => Clear(p)'
    <3>1. Dropped \in SUBSET Wire
      BY DEF Dropped, WiresIn
    <3>2. \A w \in Dropped : link[w] = Now[w]
      BY <1>q, <2>1, <3>1
    <3>3. \A p \in Port : /\ p[1] \in Dropped \/ p \in {} => Clear(p)'
                          /\ p[1] \notin Dropped /\ p \notin {} => Same(p)
                          /\ Clear(p) => Clear(p)'
      BY <1>n, <2>1, <3>1, <3>2, DeleteKeeps
    <3> QED BY <3>3
  <2>3. LiveInv'
    BY <2>1, <2>2, LiveKeeps DEF NetInv
  <2>4. job.lab \in setting.labs /\ job.kind \in setting.requests
    BY <1>0, <2>1 DEF JobInv, Deployed, May
  <2>5. \A w \in WiresIn(job.lab) : Exists(link[w]) /\ ~ May("edit") => Exists(built[w])
    BY <1>0, <2>1 DEF SavedInv, BuiltInv, WiresIn
  <2>6. ASSUME NEW w \in Wire, \A p \in PortsOf(w) : Same(p) PROVE SavedNet(w)'
    BY <1>q, <2>1, <2>6, SavedNetFrame DEF AllRunning
  <2>7. CASE Unknown /\ Idle
    <3>1. pc' = "idle" /\ ~ May("edit")
      BY <2>4, <2>7 DEF Unknown, Idle, Untracked, May
    <3>2. Dropped = {}
      BY <2>5, <3>1 DEF Dropped, WiresIn
    <3>3. \A w \in Wire : SavedNet(w)'
      BY <2>2, <2>6, <3>2, PortFacts
    <3> QED BY <1>e, <2>3, <3>1, <3>3
  <2>8. CASE ~ Unknown /\ pc' = "create" /\ todo' = ToCreate /\ UNCHANGED <<job, built, merge>>
    <3>1. ASSUME NEW w \in WiresIn(job.lab), Exists(link[w]), ~ Exists(built[w]) PROVE w \in Dropped
      BY <2>4, <2>5, <3>1 DEF Untracked, May, Dropped
    <3>2. ASSUME NEW w \in WiresIn(job.lab), NEW p \in PortsOf(w) PROVE PortFits(p, built[w])'
      <4>0. w \in Wire
        BY DEF WiresIn
      <4>1. p \in Port /\ p[1] = w /\ PortFits(p, link[w])
        BY <1>f, <2>1, <4>0, PortFacts
      <4>2. CASE Clear(p) \/ w \in Dropped
        BY <2>2, <4>1, <4>2 DEF PortFits, Clear
      <4>3. CASE ~ Clear(p) /\ w \notin Dropped
        <5>1. link[w].type \notin {"none", "pending"}
          BY <4>1, <4>3, AbsentIsClear
        <5>2. Exists(built[w])
          BY <3>1, <4>3, <5>1 DEF Exists
        <5>3. built[w].type = link[w].type
          BY <1>0, <4>0, <5>1, <5>2 DEF SavedInv, BuiltInv, FitRecord
        <5>4. built[w].id = link[w].id /\ built[w].vni = link[w].vni
          BY <4>0, <5>2, <5>3 DEF IdsInv, BuiltStable
        <5> QED BY <2>2, <2>8, <4>1, <4>3, <5>3, <5>4 DEF PortFits, Same, Bridge
      <4> QED BY <4>2, <4>3
    <3>3. ASSUME NEW w \in Wire, w \notin todo', built'[w].state = "up",
                 Ends[w] \subseteq RunningNodes'
          PROVE  Connected(w, built[w])'
      <4>1. built[w] = link[w] /\ Exists(built[w])
        BY <1>0, <2>1, <2>8, <3>3 DEF BuiltInv, FitRecord, Exists
      <4>2. job.kind \in {"start", "add"} => w \notin WiresOf(job.node)
        BY <1>0, <2>1, <2>8, <3>3, <4>1 DEF ToCreate, JobInv
      <4>3. AllRunning(w)
        <5>1. ASSUME NEW v \in Ends[w] PROVE rt[v] = "running"
          <6>1. v \in Vd /\ rt[v] \in {"running", "reconciling"} /\ w \in WiresOf(v)
            BY <2>1, <3>3, LabOfEnds DEF RunningNodes
          <6> QED BY <1>0, <4>2, <6>1 DEF VdInv, Starting
        <5> QED BY <5>1 DEF AllRunning
      <4>4. Connected(w, link[w])
        BY <1>q, <2>1, <2>8, <3>3, <4>1, <4>3 DEF SavedNet
      <4>5. \A p \in PortsOf(w) : Same(p)
        BY <2>2, <4>1, PortFacts DEF Dropped
      <4> QED BY <2>8, <4>1, <4>4, <4>5 DEF Connected, PortOn, Same, Bridge, PortsOf, Port
    <3>4. ASSUME job'.kind = "add" PROVE \A w \in Wire : SavedNet(w)'
      <4>1. Dropped = {}
        BY <2>8, <3>4 DEF Dropped
      <4> QED BY <2>2, <2>6, <4>1, PortFacts
    <3>5. \A w \in WiresIn(job.lab) : BuiltNet(w)'
      BY <3>2, <3>3 DEF BuiltNet, PortsOf, Port, WiresIn
    <3>6. ASSUME NEW w \in Wire, WireLab[w] # job.lab PROVE SavedNet(w)'
      <4>1. w \notin Dropped
        BY <3>6 DEF Dropped, WiresIn
      <4> QED BY <2>2, <2>6, <4>1, PortFacts
    <3> QED BY <2>3, <2>8, <3>4, <3>5, <3>6 DEF NetInv, Creating, WiresIn
  <2> QED BY <1>10, <2>7, <2>8 DEF Refreshed
<1>11. ASSUME Create, UNCHANGED setting PROVE NetInv'
  <2>1. PICK w \in todo :
          /\ todo' = todo \ {w}
          /\ \/ built' = WithState(w, "partial") /\ UNCHANGED net
             \/ CanConnect(w) /\ built' = WithState(w, "up") /\ CreateLink(w, built[w])
    BY <1>11 DEF Create
  <2>2. /\ pc = "create" /\ pc' = "create" /\ UNCHANGED <<topo, rt, place, cont, link, job>>
        /\ w \in Wire /\ Exists(built[w]) /\ w \in job.goal /\ Creating(w)
    BY <1>0, <1>11 DEF Create, nodes, RestTypeOK, JobInv, Creating, WiresIn
  <2>3. \A x \in Wire : /\ built'[x].type = built[x].type /\ built'[x].id = built[x].id
                        /\ built'[x].vni = built[x].vni /\ (x # w => built'[x] = built[x])
    <3>1. built \in [Wire -> LinkRecord] /\ {"partial", "up"} \subseteq LkState
      BY <1>0 DEF RestTypeOK, LkState
    <3>2. \A st \in LkState, x \in Wire : x # w => WithState(w, st)[x] = built[x]
      BY <3>1 DEF WithState
    <3> QED BY <2>1, <2>2, <3>1, <3>2, WithStateType
  <2>4. \A p \in Port : p[1] # w => Same(p)
    <3>1. CASE UNCHANGED net
      BY <3>1 DEF net, Same
    <3>2. CASE CreateLink(w, built[w])
      BY <3>2 DEF CreateLink, Same, PortsOf
    <3> QED BY <2>1, <3>1, <3>2
  <2>5. ASSUME NEW x \in Wire, Creating(x), x # w PROVE BuiltNet(x)'
    <3>1. BuiltNet(x) /\ \A p \in PortsOf(x) : Same(p)
      BY <1>b, <2>4, <2>5, PortFacts
    <3>2. \A p \in PortsOf(x) : PortFits(p, built[x])'
      BY <2>3, <2>5, <3>1 DEF BuiltNet, PortFits, Same, Bridge
    <3>3. x \notin todo' /\ built'[x].state = "up" /\ Ends[x] \subseteq RunningNodes'
            => Connected(x, built[x])'
      <4>1. x \notin todo' => x \notin todo
        BY <2>1, <2>5
      <4>2. RunningNodes' = RunningNodes
        BY <2>2 DEF RunningNodes
      <4>3. Connected(x, built[x]) => Connected(x, built[x])'
        BY <2>3, <2>5, <3>1 DEF Connected, PortOn, Same, Bridge, PortsOf, Port
      <4> QED BY <2>3, <2>5, <3>1, <4>1, <4>2, <4>3 DEF BuiltNet
    <3> QED BY <3>2, <3>3 DEF BuiltNet, PortsOf, Port
  <2>6. ASSUME NEW x \in Wire, SavedNet(x), x # w PROVE SavedNet(x)'
    <3>1. SavedNet(x) /\ x # w /\ x \in Wire
      BY <2>6
    <3>2. \A p \in PortsOf(x) : Same(p)
      BY <2>4, <3>1, PortFacts
    <3> QED BY <2>2, <3>1, <3>2, SavedNetFrame DEF AllRunning
  <2>n. ASSUME LiveInv', BuiltNet(w)' PROVE NetInv'
    <3>1. \A x \in Wire : Creating(x)' <=> Creating(x)
      BY <2>2 DEF Creating
    <3>2. ASSUME NEW x \in Wire PROVE IF Creating(x)' THEN BuiltNet(x)' ELSE SavedNet(x)'
      BY <1>s, <2>2, <2>5, <2>6, <2>n, <3>1
    <3>3. job.kind = "add" => \A x \in Wire \ job.goal : SavedNet(x)'
      BY <2>2, <2>6 DEF NetInv
    <3> QED BY <2>2, <2>n, <3>2, <3>3 DEF NetInv
  <2>7. CASE built' = WithState(w, "partial") /\ UNCHANGED net
    <3>1. \A p \in Port : Same(p)
      BY <2>7 DEF net, Same
    <3>2. LiveInv'
      BY <2>2, <3>1, LiveKeeps DEF NetInv
    <3>3. built'[w].state # "up"
      BY <1>0, <2>2, <2>7 DEF RestTypeOK, WithState, LinkRecord
    <3>4. BuiltNet(w)'
      <4>1. \A p \in PortsOf(w) : PortFits(p, built[w])'
        BY <1>b, <2>2, <2>3, <3>1, PortFacts DEF BuiltNet, PortFits, Same, Bridge
      <4> QED BY <3>3, <4>1 DEF BuiltNet, PortsOf, Port
    <3> QED BY <2>n, <3>2, <3>4
  <2>8. CASE CanConnect(w) /\ CreateLink(w, built[w])
    <3>1. Ends[w] \subseteq cont /\ built[w].type \notin {"none", "pending"}
      BY <2>2, <2>8 DEF CanConnect, Exists
    <3>2. ASSUME NEW p \in PortsOf(w) PROVE PortFits(p, built[w])' /\ PortOn(p, built[w])'
      <4>1. p \in Port /\ p[1] = w /\ PortFits(p, built[w])
        BY <1>b, <2>2, PortFacts DEF BuiltNet
      <4>2. /\ p \in carrier'
            /\ master'[p] = IF built[w].type = "same_host" THEN Bridge(built[w])
                            ELSE IF built[w].type = "real_net" THEN Net ELSE master[p]
            /\ tunnel'[p] = IF built[w].type = "cross_host" /\ tunnel[p] = 0
                            THEN built[w].vni ELSE tunnel[p]
        BY <2>8, <4>1 DEF CreateLink
      <4> QED BY <2>2, <2>3, <3>1, <4>1, <4>2 DEF PortFits, PortOn, Bridge
    <3>3. BuiltNet(w)'
      BY <3>2 DEF BuiltNet, Connected, PortsOf, Port
    <3>4. LiveInv'
      BY <2>2, <2>4, <3>1 DEF NetInv, LiveInv, Clear, Same, Port
    <3> QED BY <2>n, <3>3, <3>4
  <2> QED BY <2>1, <2>7, <2>8
<1>12. ASSUME CreateFails, UNCHANGED setting PROVE NetInv'
  <2>1. PICK w \in todo :
        /\ Missing(w) = {} /\ (setting.fails \/ ~ CanConnect(w))
        /\ \/ /\ job.kind = "start" /\ TakenApart(w) /\ Save(WithState(w, "error"))
              /\ rt' = [rt EXCEPT ![job.node] = "error"] /\ UNCHANGED <<place, cont>>
           \/ /\ job.kind = "add"
              /\ DeleteLinks({x \in WiresOf(job.node) : Exists(built[x])}, built, PortsAt(job.node))
              /\ rt' = [rt EXCEPT ![job.node] = "absent"]
              /\ cont' = cont \ {job.node} /\ UNCHANGED link
           \/ /\ job.kind \in {"node", "all"} /\ TakenApart(w) /\ UNCHANGED <<nodes, link>>
           \/ /\ job.kind = "link" /\ TakenApart(w) /\ Save(WithState(w, "error")) /\ UNCHANGED nodes
    BY <1>12 DEF CreateFails
  <2>2. /\ pc = "create" /\ pc' = "idle" /\ w \in Wire /\ w \in job.goal
        /\ job.lab \in setting.labs /\ WireLab[w] = job.lab /\ job.kind \in setting.requests
    BY <1>0, <1>12 DEF CreateFails, Idle, RestTypeOK, JobInv, Deployed, WiresIn, May
  <2>3. \A x \in Wire : /\ WireLab[x] = job.lab => BuiltNet(x) /\ Now[x] = built[x]
                        /\ WireLab[x] # job.lab => SavedNet(x)
    BY <1>s, <1>b, <2>2 DEF Creating
  <2>4. ASSUME TakenApart(w)
        PROVE  \A p \in Port : /\ p[1] # w => Same(p)
                               /\ Same(p) \/ Clear(p)'
                               /\ Clear(p) => Clear(p)'
    <3>1. CASE UNCHANGED net
      BY <3>1 DEF net, Same, Clear
    <3>2. CASE DeleteLinks({w}, built, {})
      <4>1. {w} \in SUBSET Wire
        BY <2>2
      <4>2. \A p \in Port : /\ p[1] \in {w} \/ p \in {} => Clear(p)'
                            /\ p[1] \notin {w} /\ p \notin {} => Same(p)
                            /\ Clear(p) => Clear(p)'
        BY <1>n, <2>2, <2>3, <3>2, <4>1, DeleteKeeps
      <4> QED BY <4>2
    <3> QED BY <2>4, <3>1, <3>2 DEF TakenApart
  <2>5. ASSUME TakenApart(w), Save(WithState(w, "error")), UNCHANGED cont,
               \A u \in Vd : rt'[u] = "running" => rt[u] = "running",
               \A x \in todo : x # w => ~ AllRunning(x)'
        PROVE  NetInv'
    <3>1. LiveInv'
      BY <2>4, <2>5, LiveKeeps DEF NetInv
    <3>2. built \in [Wire -> LinkRecord] /\ "error" \in LkState /\ built[w] \in LinkRecord
      BY <1>0, <2>2 DEF RestTypeOK, LkState
    <3>3. ASSUME NEW x \in Wire PROVE SavedNet(x)'
      <4>2. CASE WireLab[x] = job.lab
        <5>0. BuiltNet(x)
          BY <2>3, <4>2
        <5>1. link'[x] = WithState(w, "error")[x]
          BY <2>5, <4>2 DEF Save
        <5>2. link'[x].type = built[x].type /\ link'[x].id = built[x].id /\ link'[x].vni = built[x].vni
          BY <2>2, <3>2, <5>1, WithStateType
        <5>3. ASSUME link'[x].state = "up", AllRunning(x)'
              PROVE  /\ \A p \in PortsOf(x) : Same(p)
                     /\ x \notin todo /\ built[x].state = "up" /\ Ends[x] \subseteq RunningNodes
          <6>1. x # w
            BY <2>2, <3>2, <5>1, <5>3 DEF WithState, LinkRecord
          <6>2. built[x].state = "up" /\ x \notin todo
            BY <2>5, <3>2, <5>1, <5>3, <6>1 DEF WithState
          <6>3. Ends[x] \subseteq RunningNodes
            BY <2>5, <5>3, LabOfEnds DEF AllRunning, RunningNodes
          <6>4. \A p \in PortsOf(x) : Same(p)
            BY <2>4, <2>5, <6>1, PortFacts
          <6> QED BY <6>2, <6>3, <6>4
        <5>4. \A p \in PortsOf(x) : Same(p) \/ Clear(p)'
          BY <2>4, <2>5, PortFacts
        <5> QED BY <5>0, <5>2, <5>3, <5>4, SavedNetTaken
      <4>3. CASE WireLab[x] # job.lab
        <5>1. link'[x] = link[x] /\ SavedNet(x)
          BY <2>3, <2>5, <4>3 DEF Save
        <5>2. \A p \in PortsOf(x) : Same(p)
          BY <2>2, <2>4, <2>5, <4>3, PortFacts
        <5>3. AllRunning(x)' => AllRunning(x)
          BY <2>5, LabOfEnds DEF AllRunning
        <5> QED BY <5>1, <5>2, <5>3, SavedNetFrame
      <4> QED BY <4>2, <4>3
    <3> QED BY <1>e, <2>2, <3>1, <3>3
  <2>6. CASE /\ job.kind = "start" /\ TakenApart(w) /\ Save(WithState(w, "error"))
             /\ rt' = [rt EXCEPT ![job.node] = "error"] /\ UNCHANGED <<place, cont>>
    <3>1. job.node \in Vd /\ todo \subseteq WiresOf(job.node)
      BY <1>0, <2>2, <2>6 DEF JobInv
    <3>2. rt'[job.node] = "error" /\ \A u \in Vd : rt'[u] = "running" => rt[u] = "running"
      BY <1>0, <2>6, <3>1 DEF RestTypeOK
    <3>3. \A x \in todo : ~ AllRunning(x)'
      BY <3>1, <3>2 DEF AllRunning, WiresOf
    <3> QED BY <2>5, <2>6, <3>2, <3>3
  <2>7. CASE /\ job.kind = "link" /\ TakenApart(w) /\ Save(WithState(w, "error")) /\ UNCHANGED nodes
    <3>1. \A x \in todo : x = w
      BY <1>0, <2>2, <2>7 DEF JobInv
    <3>2. UNCHANGED <<cont, rt>>
      BY <2>7 DEF nodes
    <3> QED BY <2>5, <2>7, <3>1, <3>2
  <2>8. CASE /\ job.kind = "add"
             /\ DeleteLinks({x \in WiresOf(job.node) : Exists(built[x])}, built, PortsAt(job.node))
             /\ rt' = [rt EXCEPT ![job.node] = "absent"]
             /\ cont' = cont \ {job.node} /\ UNCHANGED link
    <3>1. /\ job.node \in Vd /\ job.goal = WiresOf(job.node)
          /\ \A x \in WiresOf(job.node) : link[x].type \in {"none", "pending"}
      BY <1>0, <2>2, <2>8 DEF JobInv, AddInv
    <3>0. \A x \in WiresOf(job.node) : x \in Wire /\ BuiltNet(x) /\ Now[x] = built[x]
      BY <1>0, <2>2, <2>3, <3>1 DEF JobInv, WiresIn
    <3> DEFINE ws == {x \in WiresOf(job.node) : Exists(built[x])}
    <3>2. \A p \in Port :
            /\ p[1] \in ws \/ p \in PortsAt(job.node) => Clear(p)'
            /\ p[1] \notin ws /\ p \notin PortsAt(job.node) => Same(p)
            /\ Clear(p) => Clear(p)'
      <4>1. ws \in SUBSET Wire
        BY DEF WiresOf
      <4>3. \A x \in ws : built[x] = Now[x]
        BY <3>0
      <4> HIDE DEF ws
      <4>2. DeleteLinks(ws, built, PortsAt(job.node))
        BY <2>8 DEF ws
      <4> QED BY <1>n, <4>1, <4>2, <4>3, DeleteKeeps
    <3>3. ASSUME NEW p \in Port, p[1] \in WiresOf(job.node) PROVE Clear(p)'
      <4>1. CASE p[1] \in ws
        BY <3>2, <4>1
      <4>2. CASE p[1] \notin ws
        <5>1. built[p[1]].type = "none"
          BY <3>3, <4>2 DEF Exists
        <5>2. Clear(p)
          BY <3>0, <3>3, <5>1, PortFacts, AbsentIsClear DEF BuiltNet
        <5> QED BY <3>2, <5>2
      <4> QED BY <4>1, <4>2
    <3>4. ASSUME NEW p \in Port, p[1] \notin WiresOf(job.node)
          PROVE  Same(p) /\ job.node \notin Ends[p[1]]
      <4>1. job.node \notin Ends[p[1]] /\ p[1] \notin ws /\ p \notin PortsAt(job.node)
        BY <3>4, PortFacts DEF WiresOf, PortsAt
      <4> QED BY <3>2, <4>1
    <3>5. LiveInv'
      BY <2>8, <3>3, <3>4, LiveKeeps DEF NetInv
    <3>6. ASSUME NEW x \in Wire PROVE SavedNet(x)'
      <4>1. CASE x \in WiresOf(job.node)
        <5>1. link'[x].state # "up"
          BY <1>0, <2>8, <3>1, <4>1 DEF SavedInv, FitRecord
        <5> QED BY <3>3, <4>1, <5>1, PortFacts, SavedNetClear
      <4>2. CASE x \notin WiresOf(job.node)
        <5>1. SavedNet(x) /\ \A p \in PortsOf(x) : Same(p)
          BY <2>2, <2>8, <3>1, <3>4, <4>2, PortFacts DEF NetInv
        <5>2. \A u \in Ends[x] : rt'[u] = rt[u]
          BY <1>0, <2>8, <4>2, LabOfEnds DEF WiresOf, RestTypeOK
        <5> QED BY <2>8, <5>1, <5>2, SavedNetFrame DEF AllRunning
      <4> QED BY <4>1, <4>2
    <3> QED BY <1>e, <2>2, <3>5, <3>6
  <2>9. CASE job.kind \in {"node", "all"} /\ TakenApart(w) /\ UNCHANGED <<nodes, link>>
    <3>1. UNCHANGED <<rt, cont, link>>
      BY <2>9 DEF nodes
    <3>2. ~ setting.fails
      BY <2>2, <2>9 DEF Untracked, May
    <3>3. ~ \E v \in RunningNodes : VdLab[v] = job.lab
      BY <2>1, <2>2, <3>2, StartsConnect
    <3>4. \A v \in Vd : VdLab[v] = job.lab => v \notin cont /\ rt[v] # "running"
      BY <1>0, <3>2, <3>3 DEF VdInv, RunningNodes
    <3>5. ASSUME NEW p \in Port, WireLab[p[1]] = job.lab PROVE Clear(p)'
      <4>1. p[1] \in Wire /\ p[2] \in Ends[p[1]] /\ p[2] \in Vd
        BY PortFacts
      <4>2. p[2] \notin cont
        BY <3>4, <3>5, <4>1, LabOfEnds
      <4>3. Clear(p)
        BY <4>1, <4>2 DEF NetInv, LiveInv
      <4> QED BY <2>4, <2>9, <4>3
    <3>6. ASSUME NEW p \in Port, WireLab[p[1]] # job.lab PROVE Same(p)
      BY <2>2, <2>4, <2>9, <3>6
    <3>7. LiveInv'
      BY <3>1, <3>5, <3>6, LiveKeeps DEF NetInv
    <3>8. ASSUME NEW x \in Wire PROVE SavedNet(x)'
      <4>1. CASE WireLab[x] = job.lab
        <5>1. ~ AllRunning(x)'
          BY <3>1, <3>4, <4>1, LabOfEnds DEF AllRunning
        <5> QED BY <3>5, <4>1, <5>1, PortFacts, SavedNetClear
      <4>2. CASE WireLab[x] # job.lab
        <5>1. SavedNet(x) /\ \A p \in PortsOf(x) : Same(p)
          BY <2>3, <3>6, <4>2, PortFacts
        <5> QED BY <3>1, <5>1, SavedNetFrame DEF AllRunning
      <4> QED BY <4>1, <4>2
    <3> QED BY <1>e, <2>2, <3>7, <3>8
  <2> QED BY <2>1, <2>6, <2>7, <2>8, <2>9
<1>13. ASSUME Commit, UNCHANGED setting PROVE NetInv'
  <2>1. /\ pc = "create" /\ pc' = "idle" /\ todo = {} /\ Save(built) /\ UNCHANGED <<cont, net>>
        /\ rt' = IF job.kind \in {"start", "add"} THEN [rt EXCEPT ![job.node] = "running"] ELSE rt
    BY <1>13 DEF Commit, Idle
  <2>2. \A p \in Port : Same(p)
    BY <2>1 DEF net, Same
  <2>3. LiveInv'
    BY <2>1, <2>2, LiveKeeps DEF NetInv
  <2>4. \A u \in Vd : VdLab[u] # job.lab => rt'[u] = rt[u]
    BY <1>0, <2>1 DEF JobInv, RestTypeOK
  <2>5. \A u \in Vd : rt'[u] = "running" => u \in RunningNodes
    <3>1. ASSUME NEW u \in Vd, rt'[u] = "running" PROVE rt[u] \in {"running", "reconciling"}
      BY <1>0, <2>1, <3>1 DEF VdInv, Starting, RestTypeOK
    <3> QED BY <3>1 DEF RunningNodes
  <2>6. ASSUME NEW x \in Wire PROVE SavedNet(x)'
    <3>1. \A p \in PortsOf(x) : Same(p)
      BY <2>2, PortFacts
    <3>2. CASE WireLab[x] = job.lab
      <4>1. link'[x] = built[x]
        BY <2>1, <3>2 DEF Save
      <4>2. AllRunning(x)' => Ends[x] \subseteq RunningNodes
        BY <2>5, LabOfEnds DEF AllRunning
      <4>3. BuiltNet(x)
        BY <1>b, <2>1, <3>2 DEF Creating
      <4> QED BY <2>1, <3>1, <4>1, <4>2, <4>3, SavedNetTaken
    <3>3. CASE WireLab[x] # job.lab
      <4>1. link'[x] = link[x] /\ SavedNet(x)
        BY <1>s, <2>1, <3>3 DEF Save, Creating
      <4>2. AllRunning(x)' => AllRunning(x)
        BY <2>4, <3>3, LabOfEnds DEF AllRunning
      <4> QED BY <3>1, <4>1, <4>2, SavedNetFrame
    <3> QED BY <3>2, <3>3
  <2> QED BY <1>e, <2>1, <2>3, <2>6
<1>14. CASE UNCHANGED vars
  <2>1. UNCHANGED <<topo, rt, place, cont, link, built, job, pc, todo, setting, master, tunnel, carrier>>
    BY <1>14 DEF vars
  <2> QED BY <2>1 DEF NetInv, Creating, LiveInv, SavedNet, BuiltNet, Clear, PortFits, Connected, PortOn,
                      PortsOf, Port, Bridge, AllRunning, RunningNodes
<1> QED
  BY <1>2, <1>3, <1>5, <1>6, <1>7, <1>8, <1>9, <1>10, <1>11, <1>12, <1>13, <1>14 DEF Next

\* Records and VDs, along every behaviour
LinksInv == LinksTypeOK /\ IdsInv /\ NodesInv /\ RecordsInv

LEMMA LinksInvariant == Spec => []LinksInv
<1>1. Init => LinksInv
  BY TypeInit, UniqueInit, NodesInit DEF LinksInv
<1>2. LinksInv /\ [Next]_vars => LinksInv'
  BY TypeStep, IdsStep, NodesStep DEF LinksInv
<1> QED BY <1>1, <1>2, PTL DEF Spec

\* The network they describe, where no host has VDs of two labs
Tracked == ~ Untracked => NetInv

LEMMA NetInvariant == Spec /\ []LabsApart => []Tracked
<1>1. Init => Tracked
  BY NetInit DEF Tracked
<1>2. LinksInv /\ Tracked /\ LabsApart /\ [Next]_vars => Tracked'
  <2> SUFFICES ASSUME LinksInv, Tracked, LabsApart, [Next]_vars, ~ Untracked' PROVE NetInv'
    BY DEF Tracked
  <2>1. UNCHANGED setting
    BY DEF Next, vars
  <2>2. ~ Untracked
    BY <2>1 DEF Untracked, May
  <2> QED BY <2>2, NetStep DEF LinksInv, Tracked
<1> QED BY <1>1, <1>2, LinksInvariant, PTL DEF Spec

-----------------------------------------------------------------------------
(* The VNIs of a lab stay within a range above its base *)

VniOf(a) == Base[a]..(Base[a] + 3 * Cardinality(Wire))
Ranged(w, r) == r.type = "cross_host" => r.vni \in VniOf(WireLab[w])
VniInv == \A w \in Wire : Ranged(w, link[w]) /\ Ranged(w, built[w])

\* A position in the rebuilt list is at most the number of wires.
LEMMA IndexBound ==
    ASSUME NEW w \in Wire, NEW ws \in SUBSET Wire
    PROVE  /\ Index(w, ws) \in Nat /\ Cardinality(Wire) \in Nat
           /\ Index(w, ws) <= Cardinality(Wire)
<1>1. {x \in ws : Type(x) = Type(w) /\ x < w} \in SUBSET Wire
  OBVIOUS
<1>2. Cardinality({x \in ws : Type(x) = Type(w) /\ x < w}) <= Cardinality(Wire)
  BY <1>1, FS_Subset, WireAssumption
<1>3. Index(w, ws) <= Cardinality(Wire)
  BY <1>2 DEF Index
<1> QED BY <1>3, IndexIsNat, FS_CardinalityType, WireAssumption

\* A link that is named anew takes a VNI of its lab.
LEMMA RenamedRange ==
    ASSUME NEW w \in Wire, topo \subseteq Wire, Renamed(w), built \in [Wire -> LinkRecord]
    PROVE  Ranged(w, built'[w]) /\ \A x \in Wire : x # w => built'[x] = built[x]
<1> DEFINE ws == topo \cap {x \in Wire : WireLab[x] = job.lab}
           new == Built(w, ws)
           c == Cardinality(Wire)
           i == Index(w, ws)
           base == Base[WireLab[w]]
<1>1. ws \in SUBSET Wire
  OBVIOUS
<1> HIDE DEF ws
<1>2. new \in LinkRecord /\ new.type = Type(w) /\ (Type(w) = "cross_host" => new.vni = base + i)
  BY <1>1, BuiltIsLink
<1>3. i \in Nat /\ c \in Nat /\ i <= c /\ base \in Nat
  BY <1>1, IndexBound, WireAssumption, BaseAssumption
<1>4. PICK n \in 0..MaxIndex, k \in new.vni..(new.vni + MaxIndex) :
        built' = [built EXCEPT ![w] = [new EXCEPT !.id = <<Type(w), n>>, !.vni = k]]
  BY DEF Renamed, ws
<1> HIDE DEF new, i, base
<1>5. built'[w] = [new EXCEPT !.id = <<Type(w), n>>, !.vni = k]
      /\ \A x \in Wire : x # w => built'[x] = built[x]
  BY <1>4
<1>6. built'[w].type = Type(w) /\ built'[w].vni = k
  BY <1>2, <1>5 DEF LinkRecord
<1>7. ASSUME Type(w) = "cross_host" PROVE k \in base..(base + 3 * c)
  <2>1. k \in (base + i)..(base + i + 2 * c)
    BY <1>2, <1>4, <1>7 DEF MaxIndex
  <2> HIDE DEF c
  <2> QED BY <1>3, <2>1
<1> QED BY <1>5, <1>6, <1>7 DEF Ranged, VniOf, base

\* Records keep their range when they keep their type and VNI.
LEMMA RangeKept ==
    ASSUME VniInv,
           \A w \in Wire :
             /\ \/ built'[w].type = "none"
                \/ built'[w].type = built[w].type /\ built'[w].vni = built[w].vni
             /\ \/ link'[w].type = "none"
                \/ link'[w].type = link[w].type /\ link'[w].vni = link[w].vni
                \/ link'[w].type = built[w].type /\ link'[w].vni = built[w].vni
    PROVE  VniInv'
BY DEF VniInv, Ranged, VniOf

LEMMA VniInit == Init => VniInv
<1> SUFFICES ASSUME Init, NEW w \in Wire PROVE Ranged(w, link[w]) /\ Ranged(w, built[w])
  BY DEF VniInv
<1>1. Ranged(w, built[w])
  BY DEF Init, NoLinks, NoLink, Ranged
<1>2. ASSUME link[w].type = "cross_host" PROVE link[w].vni \in VniOf(WireLab[w])
  <2> DEFINE ws == Deploys(WireLab[w])
             c == Cardinality(Wire)
             i == Index(w, ws)
             base == Base[WireLab[w]]
  <2>1. ws \in SUBSET Wire /\ link[w].vni = base + i
    BY <1>2, DeployedLinks DEF Exists
  <2> HIDE DEF ws
  <2>2. i \in Nat /\ c \in Nat /\ i <= c /\ base \in Nat
    BY <2>1, IndexBound, WireAssumption, BaseAssumption
  <2> HIDE DEF i, c, base
  <2>3. base + i \in base..(base + 3 * c)
    BY <2>2
  <2> QED BY <2>1, <2>3 DEF VniOf, base, c
<1> QED BY <1>1, <1>2 DEF Ranged

LEMMA VniStep ==
    ASSUME LinksTypeOK, VniInv, [Next]_vars
    PROVE  VniInv'
<1>0. /\ topo \subseteq Wire /\ todo \subseteq Wire
      /\ link \in [Wire -> LinkRecord] /\ built \in [Wire -> LinkRecord]
  BY DEF LinksTypeOK
<1>1. \A w \in Wire : NoLinks[w].type = "none" /\ NoLink.type = "none"
  BY DEF NoLinks, NoLink
<1>2. ASSUME NEW v \in Vd, Stop(v) PROVE VniInv'
  <2>1. \A w \in Wire : link'[w] = IF w \in Recorded(v) THEN [link[w] EXCEPT !.state = "partial"] ELSE link[w]
    BY <1>2 DEF Stop, Stopped
  <2>2. \A w \in Wire : link'[w].type = link[w].type /\ link'[w].vni = link[w].vni
    BY <1>0, <2>1, RecordType DEF LkState
  <2> QED BY <1>2, <2>2, RangeKept DEF Stop
<1>3. ASSUME NEW v \in Vd, Remove(v) PROVE VniInv'
  BY <1>1, <1>3, RangeKept DEF Remove
<1>4. ASSUME UNCHANGED link, built' = NoLinks \/ UNCHANGED built PROVE VniInv'
  BY <1>1, <1>4, RangeKept
<1>5. ASSUME NEW v \in Vd, Start(v) \/ \E h \in Host : Add(v, h) PROVE VniInv'
  BY <1>4, <1>5 DEF Start, Add, Begin
<1>6. ASSUME Reconcile \/ \E w \in Wire : Edit(w) PROVE VniInv'
  BY <1>4, <1>6 DEF Reconcile, Begin, Edit
<1>7. ASSUME Merge PROVE VniInv'
  <2>1. PICK w \in todo : IF Keeps(w) THEN Kept(w) ELSE Renamed(w)
    BY <1>7 DEF Merge
  <2>2. w \in Wire /\ UNCHANGED link
    BY <1>0, <1>7 DEF Merge
  <2>3. Ranged(w, built'[w]) /\ \A x \in Wire : x # w => built'[x] = built[x]
    <3>1. CASE Kept(w)
      <4>1. built' = [built EXCEPT ![w] = link[w]]
        BY <3>1 DEF Kept
      <4> QED BY <1>0, <2>2, <4>1 DEF VniInv
    <3>2. CASE Renamed(w)
      BY <1>0, <2>2, <3>2, RenamedRange
    <3> QED BY <2>1, <3>1, <3>2
  <2>4. \A x \in Wire : Ranged(x, built'[x]) /\ Ranged(x, link'[x])
    BY <2>2, <2>3 DEF VniInv
  <2> QED BY <2>4 DEF VniInv, Ranged, VniOf
<1>8. ASSUME NEW rs, Save(rs) \/ UNCHANGED link, built' = NoLinks,
             \A w \in Wire : rs[w].type = built[w].type /\ rs[w].vni = built[w].vni
      PROVE  VniInv'
  <2>1. \A w \in Wire : link'[w] = rs[w] \/ link'[w] = link[w]
    BY <1>8 DEF Save
  <2> QED BY <1>1, <1>8, <2>1, RangeKept
<1>9. ASSUME Refreshed PROVE VniInv'
  BY <1>4, <1>9 DEF Refreshed, Idle
<1>10. ASSUME Create PROVE VniInv'
  <2>1. PICK w \in todo : \E st \in {"partial", "up"} : built' = WithState(w, st)
    BY <1>10 DEF Create
  <2>2. \A x \in Wire : built'[x].type = built[x].type /\ built'[x].vni = built[x].vni
    BY <1>0, <2>1, WithStateType DEF LkState
  <2> QED BY <1>10, <2>2, RangeKept DEF Create
<1>11. ASSUME CreateFails PROVE VniInv'
  <2>1. PICK w \in todo : Save(WithState(w, "error")) \/ UNCHANGED link
    BY <1>11 DEF CreateFails
  <2>2. \A x \in Wire : WithState(w, "error")[x].type = built[x].type
                        /\ WithState(w, "error")[x].vni = built[x].vni
    BY <1>0, <2>1, WithStateType DEF LkState
  <2> QED BY <1>8, <1>11, <2>1, <2>2 DEF CreateFails, Idle
<1>12. ASSUME Commit PROVE VniInv'
  BY <1>8, <1>12 DEF Commit, Idle
<1>13. CASE UNCHANGED vars
  BY <1>4, <1>13 DEF vars
<1> QED
  BY <1>2, <1>3, <1>5, <1>6, <1>7, <1>9, <1>10, <1>11, <1>12, <1>13 DEF Next

LEMMA VniInvariant == Spec => []VniInv
<1>1. LinksTypeOK /\ VniInv /\ [Next]_vars => VniInv'
  BY VniStep
<1> QED BY <1>1, VniInit, LinksTypeCorrect, PTL DEF Spec

-----------------------------------------------------------------------------
(* The theorems *)

\* dataplane_vxlan_base: the ranges of two deployed labs have no VNI in common.
BasesApart == \A s \in Settings : \A a, b \in s.labs : a # b => VniOf(a) \cap VniOf(b) = {}

\* A link saved as up between running VDs is active (USER_GUIDE: "both
\* endpoints are running and the dataplane link is active"), for every set of
\* labs, wires and hosts and every sequence of mutations, as long as no host has
\* VDs of two labs.
THEOREM UpLinksAreActive == Spec /\ []LabsApart => []UpIsActive
<1>1. LinksInv /\ Tracked => UpIsActive
  <2> SUFFICES ASSUME LinksInv, Tracked, pc = "idle", ~ Untracked, NEW w \in Wire,
                      link[w].state = "up", \A v \in Ends[w] : rt[v] = "running"
               PROVE  Active(w)
    BY DEF UpIsActive
  <2>1. Connected(w, link[w])
    BY DEF Tracked, NetInv, Creating, SavedNet, AllRunning
  <2>2. link[w].type \in {"same_host", "cross_host", "real_net"}
    BY TypeFacts DEF LinksInv, RecordsInv, SavedInv, FitRecord, Kinds
  <2> QED BY <2>1, <2>2 DEF Connected, PortOn, Active
<1> QED BY <1>1, LinksInvariant, NetInvariant, PTL

\* The ports of two wires never share a bridge or a tunnel, not even during a
\* mutation (create_link, delete_link, merge_runtime_links), for every set of labs,
\* wires and hosts and every sequence of mutations, as long as no host has VDs of two
\* labs and the VNIs of two labs are apart.
THEOREM LinksStayPrivate ==
    ASSUME BasesApart
    PROVE  Spec /\ []LabsApart => []LinksPrivate
<1>1. LinksInv /\ VniInv /\ LabsApart /\ Tracked => LinksPrivate
  <2> SUFFICES ASSUME LinksInv, VniInv, LabsApart, Tracked, ~ Untracked,
                      NEW p \in Port, NEW q \in Port, p[1] # q[1]
               PROVE  /\ master[p] = master[q] /\ place[p[2]] = place[q[2]] => master[p] \in {None, Net}
                      /\ tunnel[p] = tunnel[q] => tunnel[p] = 0
    BY DEF LinksPrivate
  <2>1. /\ p[1] \in Wire /\ p[2] \in Vd /\ p[2] \in Ends[p[1]] /\ p \in PortsOf(p[1])
        /\ q[1] \in Wire /\ q[2] \in Vd /\ q[2] \in Ends[q[1]] /\ q \in PortsOf(q[1])
    BY PortFacts
  <2>2. \A w \in Wire : \A x \in PortsOf(w) : PortFits(x, Now[w])
    BY DEF Tracked, NetInv, SavedNet, BuiltNet, Now
  <2>3. PortFits(p, Now[p[1]]) /\ PortFits(q, Now[q[1]])
    BY <2>1, <2>2
  <2>4. Sound(Now)
    BY NowIsSound DEF LinksInv
  <2>5. ASSUME master[p] = master[q], place[p[2]] = place[q[2]], master[p] \notin {None, Net}
        PROVE  FALSE
    <3>1. /\ Now[p[1]].type = "same_host" /\ Now[q[1]].type = "same_host"
          /\ Now[p[1]].id = Now[q[1]].id
      BY <2>3, <2>5 DEF PortFits, Bridge
    <3> QED BY <2>1, <2>4, <2>5, <3>1, BridgeIsOwn
  <2>6. ASSUME tunnel[p] = tunnel[q], tunnel[p] # 0 PROVE FALSE
    <3>1. /\ Now[p[1]].type = "cross_host" /\ Now[q[1]].type = "cross_host"
          /\ Now[p[1]].vni = Now[q[1]].vni
      BY <2>3, <2>6 DEF PortFits
    <3>2. CASE WireLab[p[1]] = WireLab[q[1]]
      <4>1. CASE Creating(p[1])
        <5>1. Now[p[1]] = built[p[1]] /\ Now[q[1]] = built[q[1]]
          BY <2>1, <3>2, <4>1 DEF Now, Creating
        <5> QED BY <2>1, <3>1, <5>1 DEF LinksInv, IdsInv, BuiltApart, Apart, Exists
      <4>2. CASE ~ Creating(p[1])
        <5>1. Now[p[1]] = link[p[1]] /\ Now[q[1]] = link[q[1]]
          BY <2>1, <3>2, <4>2 DEF Now, Creating
        <5> QED BY <2>1, <3>1, <3>2, <5>1 DEF LinksInv, IdsInv, IdsUnique, Exists
      <4> QED BY <4>1, <4>2
    <3>3. CASE WireLab[p[1]] # WireLab[q[1]]
      <4>1. ASSUME NEW w \in Wire, Now[w].type = "cross_host"
            PROVE  Now[w].vni \in VniOf(WireLab[w]) /\ WireLab[w] \in setting.labs
        <5>1. CASE Creating(w)
          <6>1. Now[w] = built[w]
            BY <5>1 DEF Now
          <6>2. WireLab[w] \in setting.labs
            BY <5>1 DEF Creating, LinksInv, NodesInv, JobInv, Deployed
          <6> QED BY <4>1, <6>1, <6>2 DEF VniInv, Ranged
        <5>2. CASE ~ Creating(w)
          <6>1. Now[w] = link[w]
            BY <5>2 DEF Now
          <6>2. WireLab[w] \in setting.labs
            BY <4>1, <6>1 DEF LinksInv, RecordsInv, SavedInv, Deployed, Exists
          <6> QED BY <4>1, <6>1, <6>2 DEF VniInv, Ranged
        <5> QED BY <5>1, <5>2
      <4>2. setting \in Settings
        BY DEF LinksInv, LinksTypeOK
      <4>3. VniOf(WireLab[p[1]]) \cap VniOf(WireLab[q[1]]) = {}
        BY <2>1, <3>1, <3>3, <4>1, <4>2 DEF BasesApart
      <4> QED BY <2>1, <3>1, <4>1, <4>3
    <3> QED BY <3>2, <3>3
  <2> QED BY <2>5, <2>6
<1> QED BY <1>1, LinksInvariant, VniInvariant, NetInvariant, PTL

\* A lab has a host for its VDs only while it is deployed.
PlacedInv == \A v \in Vd : place[v] # "none" => Deployed(VdLab[v])

LEMMA PlacedInvariant == Spec => []PlacedInv
<1>1. Init => PlacedInv
  BY DEF Init, PlacedInv, Deployed
<1>2. LinksTypeOK /\ PlacedInv /\ [Next]_vars => PlacedInv'
  <2> SUFFICES ASSUME LinksTypeOK, PlacedInv, [Next]_vars PROVE PlacedInv'
    OBVIOUS
  <2>1. UNCHANGED setting /\ place \in [Vd -> Host \cup {"none"}]
    BY DEF Next, vars, LinksTypeOK
  <2>2. ASSUME \A v \in Vd : place'[v] \in {place[v], "none"} PROVE PlacedInv'
    BY <2>1, <2>2 DEF PlacedInv, Deployed
  <2>3. ASSUME NEW v \in Vd, Stop(v) \/ Remove(v) \/ Start(v) PROVE PlacedInv'
    BY <2>1, <2>2, <2>3 DEF Stop, Remove, Start
  <2>4. ASSUME NEW v \in Vd, NEW h \in Host, Add(v, h) PROVE PlacedInv'
    BY <2>1, <2>4 DEF Add, Begin, PlacedInv, Deployed
  <2>5. ASSUME CreateFails PROVE PlacedInv'
    <3>1. place' = place \/ place' = [place EXCEPT ![job.node] = "none"]
      BY <2>5 DEF CreateFails, nodes
    <3> QED BY <2>1, <2>2, <3>1
  <2>6. ASSUME \/ Reconcile \/ Merge \/ Refreshed \/ Create \/ Commit
               \/ \E w \in Wire : Edit(w)
        PROVE  PlacedInv'
    BY <2>2, <2>6 DEF Reconcile, Merge, Refreshed, Create, Commit, Edit, nodes
  <2>7. CASE UNCHANGED vars
    BY <2>2, <2>7 DEF vars
  <2> QED BY <2>3, <2>4, <2>5, <2>6, <2>7 DEF Next
<1> QED BY <1>1, <1>2, LinksTypeCorrect, PTL DEF Spec

\* Where one lab is deployed at a time both hold without further conditions.
THEOREM LinksOfOneLab ==
    ASSUME \A s \in Settings : \A a, b \in s.labs : a = b
    PROVE  Spec => [](UpIsActive /\ LinksPrivate)
<1>1. LinksTypeOK /\ PlacedInv => LabsApart
  BY DEF LinksTypeOK, PlacedInv, LabsApart, Deployed
<1>2. BasesApart
  BY DEF BasesApart
<1>3. Spec /\ []LabsApart => []LinksPrivate
  BY <1>2, LinksStayPrivate
<1> QED BY <1>1, <1>3, PlacedInvariant, LinksTypeCorrect, UpLinksAreActive, PTL
=============================================================================
