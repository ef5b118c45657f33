----------------------------- MODULE GuiProofs ------------------------------
(***************************************************************************)
(* The parts of the GUI, one after the other: accounts and sessions,       *)
(* topology files, requests of the lab service, tunnels to web UIs and     *)
(* captures; live sessions and packet traces have modules of their own.    *)
(* The last section carries the theorems over to the behaviours of the GUI *)
(* as a whole.                                                             *)
(***************************************************************************)
EXTENDS Gui, LiveSessionsProofs, FlowPathsProofs

-----------------------------------------------------------------------------
(* Accounts.                                                               *)

\* A request that would take an administrator away was judged when there was another.
Judged(c) == c.op \in {"patch", "delete"} => c.admins # {c.user}

JudgedInv ==
    /\ req = [r \in Req |-> req[r]]
    /\ \A r \in Req : Judged(req[r])

LEMMA PatchIsJudged ==
  ASSUME NEW r \in Req, NEW a \in User, NEW u \in User, NEW role \in Asked, NEW active \in BOOLEAN,
         PatchUser(r, a, u, role, active)
  PROVE  ActiveAdmins # {u}
  <1> SUFFICES ASSUME ActiveAdmins = {u} PROVE FALSE
    OBVIOUS
  <1>1. user[u].role = "admin" /\ user[u].active = TRUE
    <2>1. user[u] = [role |-> "admin", backend |-> "local_db", active |-> TRUE]
      BY DEF ActiveAdmins
    <2> QED BY <2>1
  <1>2. OtherAdmins(u) = {}
    BY DEF OtherAdmins
  <1>3. role = "admin"
    BY <1>1, <1>2 DEF PatchUser
  <1>4. active = TRUE
    BY <1>1, <1>2, <1>3 DEF PatchUser
  <1> QED BY <1>1, <1>3, <1>4 DEF PatchUser

LEMMA DeleteIsJudged ==
  ASSUME NEW r \in Req, NEW a \in User, NEW u \in User, DeleteUser(r, a, u)
  PROVE  ActiveAdmins # {u}
  <1> SUFFICES ASSUME ActiveAdmins = {u} PROVE FALSE
    OBVIOUS
  <1>1. user[u] = [role |-> "admin", backend |-> "local_db", active |-> TRUE]
    BY DEF ActiveAdmins
  <1>2. user[u].role = "admin" /\ user[u].active
    BY <1>1
  <1> QED BY <1>2 DEF DeleteUser, OtherAdmins

\* What a request decides is judged; what it commits leaves the others as they were.
LEMMA RequestStep ==
  ASSUME JudgedInv, NEW r \in Req, NEW c, Judged(c), req' = [req EXCEPT ![r] = c]
  PROVE  JudgedInv'
  <1>1. req' = [x \in Req |-> req'[x]] /\ \A x \in Req : req'[x] \in {c, req[x]}
    BY DEF JudgedInv
  <1>2. \A x \in Req : Judged(req'[x])
    BY <1>1 DEF JudgedInv
  <1> QED BY <1>1, <1>2 DEF JudgedInv

LEMMA AccountsStep ==
  ASSUME JudgedInv, [AccountsNext]_accountVars
  PROVE  JudgedInv'
  <1>1. ASSUME NEW r \in Req, NEW c, Decides(r, c), Judged(c) PROVE JudgedInv'
    BY <1>1, RequestStep DEF Decides
  <1>2. ASSUME NEW r \in Req, UserRequest(r) PROVE JudgedInv'
    <2>1. ASSUME NEW u \in User, NEW role \in Asked, CreateUser(r, u, role) PROVE JudgedInv'
      BY <1>1, <2>1 DEF CreateUser, Judged
    <2>2. ASSUME NEW u \in User, NEW a \in User, NEW role \in Asked, NEW active \in BOOLEAN,
                 PatchUser(r, a, u, role, active) PROVE JudgedInv'
      <3> DEFINE c == [op |-> "patch", user |-> u, role |-> role, active |-> active,
                       was |-> user[u], admins |-> ActiveAdmins]
      <3>1. Judged(c)
        BY <2>2, PatchIsJudged DEF Judged
      <3>2. Decides(r, c)
        BY <2>2 DEF PatchUser
      <3> HIDE DEF c
      <3> QED BY <1>1, <3>1, <3>2
    <2>3. ASSUME NEW u \in User, ResetPassword(r, u) PROVE JudgedInv'
      BY <1>1, <2>3 DEF ResetPassword, Judged
    <2>4. ASSUME NEW u \in User, NEW a \in User, DeleteUser(r, a, u) PROVE JudgedInv'
      <3> DEFINE c == [op |-> "delete", user |-> u, admins |-> ActiveAdmins]
      <3>1. Judged(c)
        BY <2>4, DeleteIsJudged DEF Judged
      <3>2. Decides(r, c)
        BY <2>4 DEF DeleteUser
      <3> HIDE DEF c
      <3> QED BY <1>1, <3>1, <3>2
    <2>5. ASSUME NEW u \in User, NEW t \in Token, Login(r, t, u) PROVE JudgedInv'
      BY <1>1, <2>5 DEF Login, Judged
    <2> QED BY <1>2, <2>1, <2>2, <2>3, <2>4, <2>5 DEF UserRequest
  <1>3. ASSUME NEW r \in Req, LabRequest(r) PROVE JudgedInv'
    <2>1. ASSUME NEW t \in Token, NEW l \in LabRow, DropLab(r, t, l) PROVE JudgedInv'
      BY <1>1, <2>1 DEF DropLab, Judged
    <2>2. ASSUME NEW t \in Token, NEW l \in LabRow, NEW name \in Name, CreateLab(r, t, l, name)
          PROVE  JudgedInv'
      BY <1>1, <2>2 DEF CreateLab, Judged
    <2> QED BY <1>3, <2>1, <2>2 DEF LabRequest
  <1>4. ASSUME NEW r \in Req, Commit(r) \/ Abort(r) PROVE JudgedInv'
    <2>1. req' = [req EXCEPT ![r] = Idle] /\ Judged(Idle)
      BY <1>4 DEF Commit, Abort, Judged, Idle
    <2> QED BY <2>1, RequestStep
  <1>5. ASSUME UNCHANGED req PROVE JudgedInv'
    BY <1>5 DEF JudgedInv
  <1> QED BY <1>2, <1>3, <1>4, <1>5 DEF AccountsNext, Logout, Expire, accountVars

\* What a write does to the administrators: at most the user it names is one no longer.
LEMMA OneAdminAtATime ==
  ASSUME NEW c, Writes(c), ActiveAdmins # {}, ActiveAdmins' = {}
  PROVE  c.op \in {"patch", "delete"} /\ ActiveAdmins = {c.user}
  <1>1. ASSUME NEW k, NEW entry, user' = With(user, k, entry)
        PROVE  ActiveAdmins \subseteq {k}
    <2>1. \A u \in DOMAIN user : u # k => u \in DOMAIN user' /\ user'[u] = user[u]
      BY <1>1 DEF With
    <2> QED BY <2>1 DEF ActiveAdmins
  <1>2. ASSUME user' = user PROVE FALSE
    BY <1>2 DEF ActiveAdmins
  <1>3. CASE c.op = "create"
    <2>1. c.user \notin DOMAIN user /\ \E entry : user' = With(user, c.user, entry)
      BY <1>3 DEF Writes
    <2>2. c.user \notin ActiveAdmins
      BY <2>1 DEF ActiveAdmins
    <2> QED BY <1>1, <2>1, <2>2
  <1>4. CASE c.op = "patch"
    <2>1. user' = With(user, c.user, Patched(user[c.user], c))
      BY <1>4 DEF Writes
    <2> QED BY <1>1, <1>4, <2>1
  <1>5. CASE c.op = "delete"
    <2>1. user' = Without(user, c.user)
      BY <1>5 DEF Writes
    <2>2. \A u \in DOMAIN user : u # c.user => u \in DOMAIN user' /\ user'[u] = user[u]
      BY <2>1 DEF Without
    <2> QED BY <1>5, <2>2 DEF ActiveAdmins
  <1>6. CASE c.op \notin {"create", "patch", "delete"}
    BY <1>2, <1>6 DEF Writes, InsertLab
  <1> QED BY <1>3, <1>4, <1>5, <1>6

\* No request takes the last active administrator away by itself: when the last one goes,
\* the administrators have changed since the request that commits has counted them
\* (user_routes.py:192-275, manage_users.py).
THEOREM LastAdminLostToARace == AccountsSpec => LastAdminGoesByRace
  <1>1. AccountsInit => JudgedInv
    BY DEF AccountsInit, JudgedInv, Judged, Idle
  <1>2. ASSUME JudgedInv, [AccountsNext]_accountVars, ActiveAdmins # {}, ActiveAdmins' = {}
        PROVE  \E r \in Req : Commit(r) /\ req[r].admins # ActiveAdmins
    <2>1. user' # user
      BY <1>2 DEF ActiveAdmins
    <2>2. PICK r \in Req : Commit(r)
      BY <1>2, <2>1 DEF AccountsNext, accountVars, UserRequest, LabRequest, CreateUser, PatchUser,
           ResetPassword, DeleteUser, Login, DropLab, CreateLab, Decides, Abort, Logout, Expire
    <2>3. req[r].op \in {"patch", "delete"} /\ ActiveAdmins = {req[r].user}
      BY <1>2, <2>2, OneAdminAtATime DEF Commit
    <2> QED BY <1>2, <2>2, <2>3 DEF JudgedInv, Judged
  <1>3. JudgedInv /\ [AccountsNext]_accountVars
          => [ActiveAdmins # {} /\ ActiveAdmins' = {}
                => \E r \in Req : Commit(r) /\ req[r].admins # ActiveAdmins]_accountVars
    BY <1>2
  <1> QED BY <1>1, <1>3, AccountsStep, PTL DEF AccountsSpec, LastAdminGoesByRace

-----------------------------------------------------------------------------
(* Topologies.                                                             *)

NodeRecord == [kind : {"vd", "_real_net"}, id : NodeId \cup {NoFile},
               feat : {"none", "plain", "wrapped"}, lan : SUBSET Subnet]

Vds(t) == Names(t) \ Nets(t)

\* A topology: its nodes are records, and no two VDs have one identity.
Sound(t) ==
    /\ t = [node |-> t.node, link |-> t.link]
    /\ Names(t) \subseteq NodeName
    /\ \A n \in Names(t) : t.node[n] \in NodeRecord
    /\ \A n \in Vds(t) : t.node[n].id \in NodeId
    /\ \A n, m \in Vds(t) : t.node[n].id = t.node[m].id => n = m

\* A topology is put together from its nodes and its links.
LEMMA Assembled ==
  ASSUME NEW f, NEW k, NEW u, u = [node |-> f, link |-> k],
         DOMAIN f \subseteq NodeName, \A n \in DOMAIN f : f[n] \in NodeRecord,
         \A n \in DOMAIN f : f[n].kind = "vd" => f[n].id \in NodeId,
         \A n, m \in DOMAIN f : f[n].kind = "vd" /\ f[m].kind = "vd" /\ f[n].id = f[m].id => n = m
  PROVE  /\ Sound(u) /\ Names(u) = DOMAIN f
         /\ Nets(u) = {n \in DOMAIN f : f[n].kind = "_real_net"}
         /\ Vds(u) = {n \in DOMAIN f : f[n].kind = "vd"}
         /\ Ids(u) = {f[n].id : n \in {m \in DOMAIN f : f[m].kind = "vd"}}
         /\ Lan(u) = UNION {f[n].lan : n \in {m \in DOMAIN f : f[m].kind = "_real_net"}}
  <1>1. u.node = f /\ u.link = k /\ u = [node |-> u.node, link |-> u.link]
    OBVIOUS
  <1>2. \A n \in DOMAIN f : f[n].kind \in {"vd", "_real_net"}
    BY DEF NodeRecord
  <1>3. Names(u) = DOMAIN f
    BY <1>1 DEF Names
  <1>4. Nets(u) = {n \in DOMAIN f : f[n].kind = "_real_net"}
    BY <1>1, <1>3 DEF Nets
  <1>5. Vds(u) = {n \in DOMAIN f : f[n].kind = "vd"}
    BY <1>2, <1>3, <1>4 DEF Vds
  <1>6. Ids(u) = {f[n].id : n \in {m \in DOMAIN f : f[m].kind = "vd"}}
    BY <1>1, <1>5 DEF Ids, Vds
  <1>7. Lan(u) = UNION {f[n].lan : n \in {m \in DOMAIN f : f[m].kind = "_real_net"}}
    BY <1>1, <1>4 DEF Lan
  <1>8. Sound(u)
    BY <1>1, <1>3, <1>5 DEF Sound
  <1> QED BY <1>3, <1>4, <1>5, <1>6, <1>7, <1>8

\* The parts of a sound topology.
LEMMA Parts ==
  ASSUME NEW t, Sound(t)
  PROVE  /\ Names(t) = DOMAIN t.node /\ t = [node |-> t.node, link |-> t.link]
         /\ Names(t) \subseteq NodeName
         /\ \A n \in Names(t) : t.node[n] \in NodeRecord
         /\ \A n \in Names(t) : t.node[n].kind = "vd" => t.node[n].id \in NodeId /\ t.node[n].id \in Ids(t)
         /\ \A n, m \in Names(t) : t.node[n].kind = "vd" /\ t.node[m].kind = "vd" /\ t.node[n].id = t.node[m].id => n = m
         /\ Nets(t) = {n \in Names(t) : t.node[n].kind = "_real_net"}
         /\ Ids(t) = {t.node[n].id : n \in {m \in Names(t) : t.node[m].kind = "vd"}}
         /\ Lan(t) = UNION {t.node[n].lan : n \in {m \in Names(t) : t.node[m].kind = "_real_net"}}
  <1>1. \A n \in Names(t) : t.node[n].kind \in {"vd", "_real_net"}
    BY DEF Sound, NodeRecord
  <1>2. Vds(t) = {n \in Names(t) : t.node[n].kind = "vd"}
    BY <1>1 DEF Vds, Nets
  <1>3. Ids(t) = {t.node[n].id : n \in {m \in Names(t) : t.node[m].kind = "vd"}}
    BY <1>2 DEF Ids, Vds
  <1>4. Lan(t) = UNION {t.node[n].lan : n \in {m \in Names(t) : t.node[m].kind = "_real_net"}}
    BY DEF Lan, Nets
  <1> QED BY <1>2, <1>3, <1>4 DEF Sound, Names, Nets

\* New records for the nodes that keep kinds, identities and networks change neither the
\* identities nor the LAN of a topology.
LEMMA Refeatured ==
  ASSUME NEW t, Sound(t), NEW f, NEW u, u = [node |-> f, link |-> t.link], DOMAIN f = Names(t),
         \A n \in Names(t) : /\ f[n] \in NodeRecord /\ f[n].kind = t.node[n].kind
                             /\ f[n].id = t.node[n].id /\ f[n].lan = t.node[n].lan
  PROVE  Sound(u) /\ Ids(u) = Ids(t) /\ Lan(u) = Lan(t) /\ Names(u) = Names(t) /\ Nets(u) = Nets(t)
  <1>1. u = [node |-> f, link |-> t.link]
    OBVIOUS
  <1>2. /\ DOMAIN f \subseteq NodeName /\ \A n \in DOMAIN f : f[n] \in NodeRecord
        /\ \A n \in DOMAIN f : f[n].kind = "vd" => f[n].id \in NodeId
        /\ \A n, m \in DOMAIN f : f[n].kind = "vd" /\ f[m].kind = "vd" /\ f[n].id = f[m].id => n = m
    BY Parts
  <1>3. /\ Sound(u) /\ Names(u) = DOMAIN f
        /\ Nets(u) = {n \in DOMAIN f : f[n].kind = "_real_net"}
        /\ Ids(u) = {f[n].id : n \in {m \in DOMAIN f : f[m].kind = "vd"}}
        /\ Lan(u) = UNION {f[n].lan : n \in {m \in DOMAIN f : f[m].kind = "_real_net"}}
    BY <1>1, <1>2, Assembled
  <1>4. /\ Nets(t) = {n \in Names(t) : t.node[n].kind = "_real_net"}
        /\ Ids(t) = {t.node[n].id : n \in {m \in Names(t) : t.node[m].kind = "vd"}}
        /\ Lan(t) = UNION {t.node[n].lan : n \in {m \in Names(t) : t.node[m].kind = "_real_net"}}
    BY Parts
  <1>5. Ids(u) = Ids(t)
    BY <1>3, <1>4
  <1>6. Lan(u) = Lan(t)
    <2> DEFINE N == {m \in Names(t) : t.node[m].kind = "_real_net"}
    <2>1. N = {m \in DOMAIN f : f[m].kind = "_real_net"}
      OBVIOUS
    <2>2. \A n \in N : f[n].lan = t.node[n].lan
      OBVIOUS
    <2> HIDE DEF N
    <2>3. {f[n].lan : n \in N} = {t.node[n].lan : n \in N}
      BY <2>2
    <2>4. Lan(u) = UNION {f[n].lan : n \in N}
      BY <1>3, <2>1
    <2>5. Lan(t) = UNION {t.node[n].lan : n \in N}
      BY <1>4 DEF N
    <2> QED BY <2>3, <2>4, <2>5
  <1> QED BY <1>3, <1>4, <1>5, <1>6

\* save_topology_to changes no identity and no network ...
LEMMA SavedKeeps ==
  ASSUME NEW t, Sound(t)
  PROVE  Sound(Saved(t)) /\ Ids(Saved(t)) = Ids(t) /\ Lan(Saved(t)) = Lan(t) /\ Names(Saved(t)) = Names(t) /\ Nets(Saved(t)) = Nets(t)
  <1> DEFINE f == [n \in Names(t) |-> [t.node[n] EXCEPT !.feat = IF t.node[n].feat = "wrapped" THEN "none" ELSE t.node[n].feat]]
  <1>1. Saved(t) = [node |-> f, link |-> t.link]
    <2>1. Saved(t) = [t EXCEPT !.node = f] /\ t = [node |-> t.node, link |-> t.link]
      BY Parts DEF Saved
    <2> HIDE DEF f
    <2> QED BY <2>1
  <1>2. ASSUME NEW n \in Names(t)
        PROVE  /\ f[n] \in NodeRecord /\ f[n].kind = t.node[n].kind
               /\ f[n].id = t.node[n].id /\ f[n].lan = t.node[n].lan
    <2>1. t.node[n] \in NodeRecord
      BY DEF Sound
    <2> QED BY <2>1 DEF NodeRecord
  <1>3. DOMAIN f = Names(t)
    OBVIOUS
  <1> HIDE DEF f
  <1> QED BY <1>1, <1>2, <1>3, Refeatured

\* ... and neither does what it leaves for the answer.
LEMMA AnswerKeeps ==
  ASSUME NEW t, Sound(t)
  PROVE  Sound(Answer(t)) /\ Ids(Answer(t)) = Ids(t)
  <1> DEFINE f == [n \in Names(t) |-> [t.node[n] EXCEPT !.feat = IF t.node[n].feat = "plain" THEN "wrapped" ELSE "none"]]
  <1>1. Answer(t) = t \/ Answer(t) = [node |-> f, link |-> t.link]
    <2>1. /\ Answer(t) = t \/ Answer(t) = [t EXCEPT !.node = f]
          /\ t = [node |-> t.node, link |-> t.link]
      BY Parts DEF Answer
    <2> HIDE DEF f
    <2> QED BY <2>1
  <1>2. ASSUME NEW n \in Names(t)
        PROVE  /\ f[n] \in NodeRecord /\ f[n].kind = t.node[n].kind
               /\ f[n].id = t.node[n].id /\ f[n].lan = t.node[n].lan
    <2>1. t.node[n] \in NodeRecord
      BY DEF Sound
    <2> QED BY <2>1 DEF NodeRecord
  <1>3. DOMAIN f = Names(t)
    OBVIOUS
  <1> HIDE DEF f
  <1> QED BY <1>1, <1>2, <1>3, Refeatured

\* A lab that was just created has an empty topology.
LEMMA EmptySound == Sound(Empty) /\ Ids(Empty) = {} /\ Lan(Empty) = {}
  <1> DEFINE f == [n \in {} |-> NoFile]
  <1>1. Empty = [node |-> f, link |-> {}]
    BY DEF Empty
  <1>2. DOMAIN f = {}
    OBVIOUS
  <1> HIDE DEF f
  <1> QED BY <1>1, <1>2, Assembled

\* A node that is added or replaced: the identities are those of the others and its own.
LEMMA NodeSet ==
  ASSUME NEW t, Sound(t), NEW n \in NodeName, NEW rec \in NodeRecord,
         rec.kind = "vd" => rec.id \in NodeId,
         rec.kind = "vd" => rec.id \notin Ids(t) \/ (n \in Names(t) /\ t.node[n].kind = "vd" /\ t.node[n].id = rec.id)
  PROVE  /\ Sound(SetNode(t, n, rec))
         /\ Ids(SetNode(t, n, rec)) \subseteq Ids(t) \cup (IF rec.kind = "vd" THEN {rec.id} ELSE {})
         /\ Lan(SetNode(t, n, rec)) \subseteq Lan(t) \cup (IF rec.kind = "vd" THEN {} ELSE rec.lan)
         /\ Nets(t) = {} => Lan(SetNode(t, n, rec)) \subseteq (IF rec.kind = "vd" THEN {} ELSE rec.lan)
  <1> DEFINE f == [m \in Names(t) \cup {n} |-> IF m = n THEN rec ELSE t.node[m]]
             u == SetNode(t, n, rec)
  <1>1. u = [node |-> f, link |-> t.link]
    <2>1. t = [node |-> t.node, link |-> t.link]
      BY Parts
    <2>2. u = [t EXCEPT !.node = f]
      BY DEF SetNode
    <2> HIDE DEF u
    <2> QED BY <2>1, <2>2
  <1>2. DOMAIN f = Names(t) \cup {n} /\ f[n] = rec /\ \A m \in Names(t) : m # n => f[m] = t.node[m]
    OBVIOUS
  <1> HIDE DEF f, u
  <1>3. /\ DOMAIN f \subseteq NodeName /\ \A m \in DOMAIN f : f[m] \in NodeRecord
        /\ \A m \in DOMAIN f : f[m].kind = "vd" => f[m].id \in NodeId
        /\ \A x, m \in DOMAIN f : f[x].kind = "vd" /\ f[m].kind = "vd" /\ f[x].id = f[m].id => x = m
    BY <1>2, Parts
  <1>4. /\ Sound(u)
        /\ Ids(u) = {f[x].id : x \in {m \in DOMAIN f : f[m].kind = "vd"}}
        /\ Lan(u) = UNION {f[x].lan : x \in {m \in DOMAIN f : f[m].kind = "_real_net"}}
    BY <1>1, <1>3, Assembled
  <1>5. /\ Nets(t) = {m \in Names(t) : t.node[m].kind = "_real_net"}
        /\ Ids(t) = {t.node[x].id : x \in {m \in Names(t) : t.node[m].kind = "vd"}}
        /\ Lan(t) = UNION {t.node[x].lan : x \in {m \in Names(t) : t.node[m].kind = "_real_net"}}
    BY Parts
  <1>6. Ids(u) \subseteq Ids(t) \cup (IF rec.kind = "vd" THEN {rec.id} ELSE {})
    <2> SUFFICES ASSUME NEW x \in DOMAIN f, f[x].kind = "vd"
                 PROVE  f[x].id \in Ids(t) \cup (IF rec.kind = "vd" THEN {rec.id} ELSE {})
      BY <1>4
    <2>1. CASE x = n
      BY <2>1, <1>2
    <2>2. CASE x # n
      BY <2>2, <1>2, <1>5
    <2> QED BY <2>1, <2>2
  <1>7. ASSUME NEW x \in DOMAIN f, f[x].kind = "_real_net"
        PROVE  /\ f[x].lan \subseteq Lan(t) \cup (IF rec.kind = "vd" THEN {} ELSE rec.lan)
               /\ Nets(t) = {} => f[x].lan \subseteq (IF rec.kind = "vd" THEN {} ELSE rec.lan)
    <2>1. CASE x = n
      BY <2>1, <1>2, <1>7
    <2>2. CASE x # n
      BY <2>2, <1>2, <1>5, <1>7
    <2> QED BY <2>1, <2>2
  <1>8. /\ Lan(u) \subseteq Lan(t) \cup (IF rec.kind = "vd" THEN {} ELSE rec.lan)
        /\ Nets(t) = {} => Lan(u) \subseteq (IF rec.kind = "vd" THEN {} ELSE rec.lan)
    BY <1>4, <1>7
  <1> QED BY <1>4, <1>6, <1>8 DEF u

\* A node that goes takes its identity and its network along.
LEMMA NodeDropped ==
  ASSUME NEW t, Sound(t), NEW n
  PROVE  Sound(DropNode(t, n)) /\ Ids(DropNode(t, n)) \subseteq Ids(t) /\ Lan(DropNode(t, n)) \subseteq Lan(t)
  <1> DEFINE f == [m \in Names(t) \ {n} |-> t.node[m]]
             u == DropNode(t, n)
  <1>1. u = [node |-> f, link |-> {e \in t.link : n \notin e}]
    BY DEF DropNode
  <1>2. DOMAIN f = Names(t) \ {n} /\ \A m \in DOMAIN f : f[m] = t.node[m]
    OBVIOUS
  <1> HIDE DEF f, u
  <1>3. /\ DOMAIN f \subseteq NodeName /\ \A m \in DOMAIN f : f[m] \in NodeRecord
        /\ \A m \in DOMAIN f : f[m].kind = "vd" => f[m].id \in NodeId
        /\ \A x, m \in DOMAIN f : f[x].kind = "vd" /\ f[m].kind = "vd" /\ f[x].id = f[m].id => x = m
    BY <1>2, Parts
  <1>4. /\ Sound(u)
        /\ Ids(u) = {f[x].id : x \in {m \in DOMAIN f : f[m].kind = "vd"}}
        /\ Lan(u) = UNION {f[x].lan : x \in {m \in DOMAIN f : f[m].kind = "_real_net"}}
    BY <1>1, <1>3, Assembled
  <1>5. /\ Ids(t) = {t.node[x].id : x \in {m \in Names(t) : t.node[m].kind = "vd"}}
        /\ Lan(t) = UNION {t.node[x].lan : x \in {m \in Names(t) : t.node[m].kind = "_real_net"}}
    BY Parts
  <1>6. Ids(u) \subseteq Ids(t)
    BY <1>2, <1>4, <1>5
  <1>7. Lan(u) \subseteq Lan(t)
    <2>1. {f[x].lan : x \in {m \in DOMAIN f : f[m].kind = "_real_net"}}
            \subseteq {t.node[x].lan : x \in {m \in Names(t) : t.node[m].kind = "_real_net"}}
      BY <1>2
    <2> QED BY <2>1, <1>4, <1>5
  <1> QED BY <1>4, <1>6, <1>7 DEF u

\* A rename moves the record of a node, identity and all, to the new name.
LEMMA NodeRenamed ==
  ASSUME NEW t, Sound(t), NEW n \in Names(t), NEW m \in NodeName \ Names(t)
  PROVE  Sound(Renamed(t, n, m)) /\ Ids(Renamed(t, n, m)) \subseteq Ids(t)
  <1> DEFINE f == [x \in (Names(t) \ {n}) \cup {m} |-> IF x = m THEN t.node[n] ELSE t.node[x]]
             k == {{IF x = n THEN m ELSE x : x \in e} : e \in t.link}
             u == Renamed(t, n, m)
  <1>1. u = [node |-> f, link |-> k]
    BY DEF Renamed
  <1>2. DOMAIN f = (Names(t) \ {n}) \cup {m} /\ f[m] = t.node[n] /\ \A x \in Names(t) \ {n} : f[x] = t.node[x]
    OBVIOUS
  <1> HIDE DEF f, k, u
  <1>3. /\ DOMAIN f \subseteq NodeName /\ \A x \in DOMAIN f : f[x] \in NodeRecord
        /\ \A x \in DOMAIN f : f[x].kind = "vd" => f[x].id \in NodeId
        /\ \A x, y \in DOMAIN f : f[x].kind = "vd" /\ f[y].kind = "vd" /\ f[x].id = f[y].id => x = y
    BY <1>2, Parts
  <1>4. /\ Sound(u)
        /\ Ids(u) = {f[x].id : x \in {y \in DOMAIN f : f[y].kind = "vd"}}
    BY <1>1, <1>3, Assembled
  <1>5. Ids(t) = {t.node[x].id : x \in {y \in Names(t) : t.node[y].kind = "vd"}}
    BY Parts
  <1>6. Ids(u) \subseteq Ids(t)
    BY <1>2, <1>4, <1>5
  <1> QED BY <1>4, <1>6 DEF u

\* Links do not matter here.
LEMMA Relinked ==
  ASSUME NEW t, Sound(t), NEW k, NEW u, u = [t EXCEPT !.link = k]
  PROVE  Sound(u) /\ Ids(u) = Ids(t) /\ Lan(u) = Lan(t)
  <1>1. t = [node |-> t.node, link |-> t.link]
    BY Parts
  <1>2. u = [node |-> t.node, link |-> k]
    BY <1>1
  <1>3. u.node = t.node
    BY <1>2
  <1> QED BY <1>2, <1>3 DEF Sound, Ids, Lan, Nets, Names, Vds

\* normalize_realnet_lan gives no network that another file uses.
LEMMA NormalIsFree ==
  ASSUME NEW l \in LabId, NEW want \in SUBSET Subnet, NEW lan \in NormalLans(l, want)
  PROVE  /\ lan \in SUBSET Subnet
         /\ \A k \in OnDisk \ {l} : lan \cap Lan(file[k]) = {}
  <1>1. \A k \in OnDisk \ {l} : Lan(file[k]) \subseteq UsedLans(l, want)
    BY DEF UsedLans
  <1>2. lan \in SUBSET Subnet /\ lan \cap UsedLans(l, want) = {}
    <2>1. CASE want # {}
      BY <2>1 DEF NormalLans
    <2>2. CASE want = {}
      BY <2>2 DEF NormalLans
    <2> QED BY <2>1, <2>2
  <1> QED BY <1>1, <1>2

\* _prepare_realnet_bgp keeps the VDs and gives a real network that is free.
LEMMA PreparedKeeps ==
  ASSUME NEW l \in LabId, NEW t, Sound(t), NEW p \in Prepared(l, t)
  PROVE  /\ Sound(p) /\ Ids(p) = Ids(t)
         /\ \A k \in OnDisk \ {l} : Lan(p) \cap Lan(file[k]) = {}
  <1>0. Lan(t) \in SUBSET Subnet
    BY Parts DEF NodeRecord
  <1>1. CASE Nets(t) = {}
    <2>1. p = t
      BY <1>1 DEF Prepared
    <2>2. Lan(t) = {}
      BY <1>1 DEF Lan
    <2> QED BY <2>1, <2>2
  <1>2. CASE Nets(t) # {}
    <2>1. PICK lan \in NormalLans(l, Lan(t)) :
             p = [t EXCEPT !.node = [n \in Names(t) |-> IF n \in Nets(t) THEN RealNet(lan) ELSE t.node[n]]]
      BY <1>2 DEF Prepared
    <2>2. /\ lan \in SUBSET Subnet
          /\ \A k \in OnDisk \ {l} : lan \cap Lan(file[k]) = {}
      BY <1>0, NormalIsFree
    <2> DEFINE f == [n \in Names(t) |-> IF n \in Nets(t) THEN RealNet(lan) ELSE t.node[n]]
    <2>3. p = [node |-> f, link |-> t.link]
      <3>1. t = [node |-> t.node, link |-> t.link]
        BY Parts
      <3>2. p = [t EXCEPT !.node = f]
        BY <2>1
      <3> HIDE DEF f
      <3> QED BY <3>1, <3>2
    <2>4. RealNet(lan) \in NodeRecord /\ RealNet(lan).kind = "_real_net" /\ RealNet(lan).lan = lan
      BY <2>2 DEF RealNet, NodeRecord
    <2>5. /\ DOMAIN f = Names(t)
          /\ \A n \in Nets(t) : f[n] = RealNet(lan)
          /\ \A n \in Names(t) \ Nets(t) : f[n] = t.node[n]
          /\ Nets(t) = {n \in Names(t) : t.node[n].kind = "_real_net"}
      BY Parts
    <2> HIDE DEF f
    <2>6. /\ \A n \in DOMAIN f : f[n] \in NodeRecord
          /\ \A n \in DOMAIN f : f[n].kind = "vd" => n \notin Nets(t)
          /\ \A n \in DOMAIN f : f[n].kind = t.node[n].kind
      BY <2>4, <2>5, Parts
    <2>7. /\ DOMAIN f \subseteq NodeName
          /\ \A n \in DOMAIN f : f[n].kind = "vd" => f[n].id \in NodeId
          /\ \A n, m \in DOMAIN f : f[n].kind = "vd" /\ f[m].kind = "vd" /\ f[n].id = f[m].id => n = m
      BY <2>5, <2>6, Parts
    <2>8. /\ Sound(p)
          /\ Ids(p) = {f[x].id : x \in {y \in DOMAIN f : f[y].kind = "vd"}}
          /\ Lan(p) = UNION {f[x].lan : x \in {y \in DOMAIN f : f[y].kind = "_real_net"}}
      BY <2>3, <2>6, <2>7, Assembled
    <2>9. Ids(p) = Ids(t)
      <3>1. Ids(t) = {t.node[x].id : x \in {y \in Names(t) : t.node[y].kind = "vd"}}
        BY Parts
      <3> QED BY <3>1, <2>5, <2>6, <2>8
    <2>10. Lan(p) \subseteq lan
      BY <2>4, <2>5, <2>6, <2>8
    <2> QED BY <2>2, <2>8, <2>9, <2>10
  <1> QED BY <1>1, <1>2

-----------------------------------------------------------------------------
(* The invariant: an identity belongs to one lab, on disk and in the       *)
(* copies of the clients alike.                                            *)

\* Lab k uses identity i, in its file or in a copy that a client may send back.
Holds(k, i) ==
    \/ k \in OnDisk /\ i \in Ids(file[k])
    \/ \E c \in Client : copy[c] # NoFile /\ copy[c].lab = k /\ i \in Ids(copy[c].topo)

TopoInv ==
    /\ file = [l \in LabId |-> file[l]] /\ copy = [c \in Client |-> copy[c]]
    /\ \A l \in OnDisk : Sound(file[l])
    /\ \A c \in Client : copy[c] # NoFile => copy[c].lab \in LabId /\ Sound(copy[c].topo)
    /\ \A k, l \in LabId, i \in NodeId : Holds(k, i) /\ Holds(l, i) => k = l

\* An identity that uuid4 hands out is nobody's.
LEMMA FreshIsFree ==
  ASSUME NEW k \in LabId, NEW i \in FreshIds
  PROVE  i \in NodeId /\ ~Holds(k, i)
  BY DEF FreshIds, Holds

\* The identities of a sound topology are identities.
LEMMA IdsTyped ==
  ASSUME NEW t, Sound(t)
  PROVE  Ids(t) \subseteq NodeId /\ Lan(t) \in SUBSET Subnet
  BY Parts DEF NodeRecord

\* A step that gives lab l identities it holds already, or new ones.
LEMMA IdentitiesInv ==
  ASSUME TopoInv, NEW l \in LabId, NEW S, \A i \in S : Holds(l, i) \/ i \in FreshIds,
         file' = [k \in LabId |-> file'[k]], copy' = [c \in Client |-> copy'[c]],
         \A k \in OnDisk' : Sound(file'[k]),
         \A c \in Client : copy'[c] # NoFile => copy'[c].lab \in LabId /\ Sound(copy'[c].topo),
         \A k \in LabId, i \in NodeId : Holds(k, i)' => Holds(k, i) \/ (k = l /\ i \in S)
  PROVE  TopoInv'
  <1>1. ASSUME NEW k \in LabId, NEW m \in LabId, NEW i \in NodeId, Holds(k, i)', Holds(m, i)'
        PROVE  k = m
    <2>1. \A x, y \in LabId : Holds(x, i) /\ Holds(y, i) => x = y
      BY DEF TopoInv
    <2>2. i \in FreshIds => \A x \in LabId : ~Holds(x, i)
      BY FreshIsFree
    <2>3. (Holds(k, i) \/ (k = l /\ i \in S)) /\ (Holds(m, i) \/ (m = l /\ i \in S))
      BY <1>1
    <2>4. i \in S => Holds(l, i) \/ i \in FreshIds
      OBVIOUS
    <2> QED BY <2>1, <2>2, <2>3, <2>4, Zenon
  <1> QED BY <1>1 DEF TopoInv

\* An edit: the file and the answer carry the identities of the topology that is saved.
LEMMA EditsInv ==
  ASSUME TopoInv, NEW c \in Client, NEW l \in LabId, NEW t, Sound(t),
         \A i \in Ids(t) : Holds(l, i) \/ i \in FreshIds, Edits(c, l, t)
  PROVE  TopoInv'
  <1> DEFINE u == Saved(t)
             a == Answer(t)
             rec == [lab |-> l, topo |-> a]
  <1>1. Sound(u) /\ Ids(u) = Ids(t) /\ Sound(a) /\ Ids(a) = Ids(t)
    BY SavedKeeps, AnswerKeeps
  <1>2. file' = [file EXCEPT ![l] = u] /\ copy' = [copy EXCEPT ![c] = rec]
    BY DEF Edits
  <1>3. rec.lab = l /\ rec.topo = a
    OBVIOUS
  <1> HIDE DEF u, a, rec
  <1>4. /\ file' = [k \in LabId |-> file'[k]] /\ copy' = [x \in Client |-> copy'[x]]
        /\ file'[l] = u /\ \A k \in LabId \ {l} : file'[k] = file[k]
        /\ copy'[c] = rec /\ \A x \in Client \ {c} : copy'[x] = copy[x]
    BY <1>2 DEF TopoInv
  <1>5. \A k \in OnDisk' : Sound(file'[k])
    BY <1>1, <1>4 DEF TopoInv, OnDisk
  <1>6. \A x \in Client : copy'[x] # NoFile => copy'[x].lab \in LabId /\ Sound(copy'[x].topo)
    BY <1>1, <1>3, <1>4 DEF TopoInv
  <1>7. ASSUME NEW k \in LabId, NEW i \in NodeId, Holds(k, i)'
        PROVE  Holds(k, i) \/ (k = l /\ i \in Ids(t))
    <2>1. CASE k \in OnDisk' /\ i \in Ids(file'[k])
      <3>1. CASE k = l
        BY <2>1, <3>1, <1>1, <1>4
      <3>2. CASE k # l
        BY <2>1, <3>2, <1>4 DEF Holds, OnDisk
      <3> QED BY <3>1, <3>2
    <2>2. ASSUME NEW x \in Client, copy'[x] # NoFile, copy'[x].lab = k, i \in Ids(copy'[x].topo)
          PROVE  Holds(k, i) \/ (k = l /\ i \in Ids(t))
      <3>1. CASE x = c
        BY <2>2, <3>1, <1>1, <1>3, <1>4
      <3>2. CASE x # c
        BY <2>2, <3>2, <1>4 DEF Holds
      <3> QED BY <3>1, <3>2
    <2>3. \/ k \in OnDisk' /\ i \in Ids(file'[k])
          \/ \E x \in Client : copy'[x] # NoFile /\ copy'[x].lab = k /\ i \in Ids(copy'[x].topo)
      BY <1>7 DEF Holds, Ids, Names, Nets
    <2> QED BY <2>1, <2>2, <2>3
  <1> QED BY <1>4, <1>5, <1>6, <1>7, IdentitiesInv

\* A file that is written with a LAN that is free, or that was the lab's before.
LEMMA WrittenApart ==
  ASSUME file = [k \in LabId |-> file[k]], Disjoint, NEW l \in LabId, NEW u, file' = [file EXCEPT ![l] = u],
         \/ \A k \in OnDisk \ {l} : Lan(u) \cap Lan(file[k]) = {}
         \/ l \in OnDisk /\ Lan(u) \subseteq Lan(file[l])
  PROVE  Disjoint'
  <1>1. file'[l] = u /\ (\A k \in LabId \ {l} : file'[k] = file[k]) /\ OnDisk' \ {l} \subseteq OnDisk
    BY DEF OnDisk
  <1>2. \A k \in OnDisk \ {l} : Lan(u) \cap Lan(file[k]) = {}
    BY DEF Disjoint
  <1>3. ASSUME NEW k \in OnDisk', NEW m \in OnDisk', k # m
        PROVE  Lan(file'[k]) \cap Lan(file'[m]) = {}
    <2>0. k \in LabId /\ m \in LabId
      BY DEF OnDisk
    <2>1. CASE k = l
      BY <2>0, <2>1, <1>1, <1>2, <1>3
    <2>2. CASE m = l
      BY <2>0, <2>2, <1>1, <1>2, <1>3
    <2>3. CASE k # l /\ m # l
      BY <2>0, <2>3, <1>1, <1>3 DEF Disjoint
    <2> QED BY <2>1, <2>2, <2>3
  <1>4. Disjoint' <=> \A k, m \in OnDisk' : k # m => Lan(file'[k]) \cap Lan(file'[m]) = {}
    BY DEF Disjoint, Lan, Nets, Names
  <1> QED BY <1>3, <1>4

\* What an edit keeps: the invariant, and the LANs apart if its own is free or old.
LEMMA EditKeeps ==
  ASSUME TopoInv, NEW c \in Client, NEW l \in LabId, NEW t, Sound(t),
         \A i \in Ids(t) : Holds(l, i) \/ i \in FreshIds, Edits(c, l, t),
         \/ \A k \in OnDisk \ {l} : Lan(t) \cap Lan(file[k]) = {}
         \/ l \in OnDisk /\ Lan(t) \subseteq Lan(file[l])
  PROVE  TopoInv' /\ (Disjoint => Disjoint')
  <1>1. TopoInv'
    BY EditsInv
  <1>2. file' = [file EXCEPT ![l] = Saved(t)] /\ Lan(Saved(t)) = Lan(t)
    BY SavedKeeps DEF Edits
  <1>3. Disjoint => Disjoint'
    BY <1>2, WrittenApart DEF TopoInv
  <1> QED BY <1>1, <1>3

\* The identities of a file are held by its lab.
LEMMA HeldOnDisk ==
  ASSUME NEW l \in OnDisk, NEW i \in Ids(file[l])
  PROVE  Holds(l, i)
  BY DEF Holds

\* A lab is created with an empty file.
LEMMA CreateKeeps ==
  ASSUME TopoInv, NEW c \in Client, NEW l \in LabId, CreateLabFile(c, l)
  PROVE  TopoInv' /\ (Disjoint => Disjoint')
  BY EmptySound, EditKeeps DEF CreateLabFile

\* A client loads a file; its copy holds the identities of that lab.
LEMMA GetKeeps ==
  ASSUME TopoInv, NEW c \in Client, NEW l \in LabId, GetTopology(c, l)
  PROVE  TopoInv' /\ (Disjoint => Disjoint')
  <1> DEFINE rec == [lab |-> l, topo |-> file[l]]
  <1>1. rec.lab = l /\ rec.topo = file[l]
    OBVIOUS
  <1>2. l \in OnDisk /\ copy' = [copy EXCEPT ![c] = rec] /\ UNCHANGED file
    BY DEF GetTopology
  <1> HIDE DEF rec
  <1>3. copy' = [x \in Client |-> copy'[x]] /\ copy'[c] = rec /\ \A x \in Client \ {c} : copy'[x] = copy[x]
    BY <1>2 DEF TopoInv
  <1>4. \A x \in Client : copy'[x] # NoFile => copy'[x].lab \in LabId /\ Sound(copy'[x].topo)
    BY <1>1, <1>2, <1>3 DEF TopoInv
  <1>5. \A i \in Ids(file[l]) : Holds(l, i)
    BY <1>2, HeldOnDisk
  <1>6. ASSUME NEW k \in LabId, NEW i \in NodeId, Holds(k, i)' PROVE Holds(k, i)
    <2>1. CASE k \in OnDisk /\ i \in Ids(file[k])
      BY <2>1 DEF Holds
    <2>2. ASSUME NEW x \in Client, copy'[x] # NoFile, copy'[x].lab = k, i \in Ids(copy'[x].topo)
          PROVE  Holds(k, i)
      <3>1. CASE x = c
        BY <2>2, <3>1, <1>1, <1>3, <1>5
      <3>2. CASE x # c
        BY <2>2, <3>2, <1>3 DEF Holds
      <3> QED BY <3>1, <3>2
    <2>3. \/ k \in OnDisk /\ i \in Ids(file[k])
          \/ \E x \in Client : copy'[x] # NoFile /\ copy'[x].lab = k /\ i \in Ids(copy'[x].topo)
      BY <1>2, <1>6 DEF Holds, OnDisk, Ids, Names, Nets
    <2> QED BY <2>1, <2>2, <2>3
  <1>7. TopoInv'
    <2>1. \A k \in OnDisk' : Sound(file'[k])
      BY <1>2 DEF TopoInv, OnDisk
    <2>2. file' = [k \in LabId |-> file'[k]]
      BY <1>2 DEF TopoInv
    <2> QED BY <2>1, <2>2, <1>3, <1>4, <1>5, <1>6, IdentitiesInv
  <1>8. Disjoint => Disjoint'
    BY <1>2 DEF Disjoint, OnDisk, Lan, Nets, Names
  <1> QED BY <1>7, <1>8

\* A file that is written without an answer, or deleted.
LEMMA FileKeeps ==
  ASSUME TopoInv, NEW l \in LabId, NEW u, file' = [file EXCEPT ![l] = u], UNCHANGED copy,
         u = NoFile \/ (Sound(u) /\ \A i \in Ids(u) : Holds(l, i)),
         \/ u = NoFile
         \/ \A k \in OnDisk \ {l} : Lan(u) \cap Lan(file[k]) = {}
         \/ l \in OnDisk /\ Lan(u) \subseteq Lan(file[l])
  PROVE  TopoInv' /\ (Disjoint => Disjoint')
  <1>1. /\ file' = [k \in LabId |-> file'[k]] /\ copy' = [x \in Client |-> copy'[x]]
        /\ file'[l] = u /\ \A k \in LabId \ {l} : file'[k] = file[k]
    BY DEF TopoInv
  <1>2. \A k \in OnDisk' : Sound(file'[k])
    BY <1>1 DEF TopoInv, OnDisk
  <1>3. ASSUME NEW k \in LabId, NEW i \in NodeId, Holds(k, i)' PROVE Holds(k, i)
    <2>1. CASE k \in OnDisk' /\ i \in Ids(file'[k])
      <3>1. CASE k = l
        BY <2>1, <3>1, <1>1 DEF OnDisk
      <3>2. CASE k # l
        BY <2>1, <3>2, <1>1 DEF Holds, OnDisk
      <3> QED BY <3>1, <3>2
    <2>2. ASSUME NEW x \in Client, copy[x] # NoFile, copy[x].lab = k, i \in Ids(copy[x].topo)
          PROVE  Holds(k, i)
      BY <2>2 DEF Holds
    <2>3. \/ k \in OnDisk' /\ i \in Ids(file'[k])
          \/ \E x \in Client : copy[x] # NoFile /\ copy[x].lab = k /\ i \in Ids(copy[x].topo)
      BY <1>3 DEF Holds, Ids, Names, Nets
    <2> QED BY <2>1, <2>2, <2>3
  <1>4. TopoInv'
    BY <1>1, <1>2, <1>3, IdentitiesInv DEF TopoInv
  <1>5. CASE u = NoFile
    <2>1. OnDisk' \subseteq OnDisk /\ \A k \in OnDisk' : file'[k] = file[k]
      BY <1>1, <1>5 DEF OnDisk
    <2>2. Disjoint' <=> \A k, m \in OnDisk' : k # m => Lan(file'[k]) \cap Lan(file'[m]) = {}
      BY DEF Disjoint, Lan, Nets, Names
    <2> QED BY <2>1, <2>2, <1>4 DEF Disjoint
  <1>6. CASE u # NoFile
    BY <1>4, <1>6, WrittenApart DEF TopoInv
  <1> QED BY <1>5, <1>6

\* PUT of the copy a client holds: its identities are held, by that copy, and its LAN
\* is normalised against the other files.
LEMMA SaveKeeps ==
  ASSUME TopoInv, NEW c \in Client, SaveTopology(c)
  PROVE  TopoInv' /\ (Disjoint => Disjoint')
  <1> DEFINE l == copy[c].lab
  <1>1. copy[c] # NoFile /\ l \in LabId /\ Sound(copy[c].topo)
    BY DEF SaveTopology, TopoInv
  <1>2. PICK t \in Prepared(l, copy[c].topo) : file' = [file EXCEPT ![l] = Saved(t)] /\ UNCHANGED copy
    BY DEF SaveTopology
  <1>3. \A i \in Ids(copy[c].topo) : Holds(l, i)
    BY <1>1 DEF Holds
  <1> HIDE DEF l
  <1>4. /\ Sound(t) /\ Ids(t) = Ids(copy[c].topo)
        /\ \A k \in OnDisk \ {l} : Lan(t) \cap Lan(file[k]) = {}
    BY <1>1, <1>2, PreparedKeeps
  <1>5. Sound(Saved(t)) /\ Ids(Saved(t)) = Ids(t) /\ Lan(Saved(t)) = Lan(t)
    BY <1>4, SavedKeeps
  <1> QED BY <1>1, <1>2, <1>3, <1>4, <1>5, FileKeeps

\* A VD with a new identity, or a real network with a LAN that is free.
LEMMA AddNodeKeeps ==
  ASSUME TopoInv, NEW c \in Client, NEW l \in LabId, NEW n \in NodeName, AddNode(c, l, n)
  PROVE  TopoInv' /\ (Disjoint => Disjoint')
  <1>1. l \in OnDisk /\ n \notin Names(file[l]) /\ Sound(file[l])
    BY DEF AddNode, TopoInv
  <1>2. ASSUME NEW id \in FreshIds, Edits(c, l, SetNode(file[l], n, Vd(id)))
        PROVE  TopoInv' /\ (Disjoint => Disjoint')
    <2> DEFINE rec == Vd(id)
               t == SetNode(file[l], n, rec)
    <2>1. rec \in NodeRecord /\ rec.kind = "vd" /\ rec.id = id /\ id \in NodeId
      BY FreshIsFree DEF NodeRecord, Vd
    <2>2. id \notin Ids(file[l])
      BY <1>1, FreshIsFree, HeldOnDisk
    <2> HIDE DEF rec
    <2>3. Sound(t) /\ Ids(t) \subseteq Ids(file[l]) \cup {id} /\ Lan(t) \subseteq Lan(file[l])
      BY <1>1, <2>1, <2>2, NodeSet
    <2>4. Edits(c, l, t)
      BY <1>2 DEF rec
    <2> HIDE DEF t
    <2>5. \A i \in Ids(t) : Holds(l, i) \/ i \in FreshIds
      BY <1>1, <2>3, HeldOnDisk
    <2> QED BY <1>1, <2>3, <2>4, <2>5, EditKeeps
  <1>3. ASSUME Nets(file[l]) = {}, NEW want \in SUBSET Subnet, NEW lan \in NormalLans(l, want),
               Edits(c, l, SetNode(file[l], n, RealNet(lan)))
        PROVE  TopoInv' /\ (Disjoint => Disjoint')
    <2> DEFINE rec == RealNet(lan)
               t == SetNode(file[l], n, rec)
    <2>1. lan \in SUBSET Subnet /\ \A k \in OnDisk \ {l} : lan \cap Lan(file[k]) = {}
      BY <1>3, NormalIsFree
    <2>2. rec \in NodeRecord /\ rec.kind = "_real_net" /\ rec.lan = lan
      BY <2>1 DEF NodeRecord, RealNet
    <2> HIDE DEF rec
    <2>3. Sound(t) /\ Ids(t) \subseteq Ids(file[l]) /\ Lan(t) \subseteq lan
      BY <1>1, <1>3, <2>2, NodeSet
    <2>4. Edits(c, l, t)
      BY <1>3 DEF rec
    <2> HIDE DEF t
    <2>5. \A i \in Ids(t) : Holds(l, i)
      BY <1>1, <2>3, HeldOnDisk
    <2>6. \A k \in OnDisk \ {l} : Lan(t) \cap Lan(file[k]) = {}
      BY <2>1, <2>3
    <2> QED BY <1>1, <2>3, <2>4, <2>5, <2>6, EditKeeps
  <1> QED BY <1>2, <1>3 DEF AddNode

\* An edit whose topology went through _prepare_realnet_bgp.
LEMMA PreparedEditKeeps ==
  ASSUME TopoInv, NEW c \in Client, NEW l \in OnDisk, NEW t, Sound(t), Ids(t) \subseteq Ids(file[l]),
         NEW p \in Prepared(l, t), Edits(c, l, p)
  PROVE  TopoInv' /\ (Disjoint => Disjoint')
  <1>0. l \in LabId
    BY DEF OnDisk
  <1>1. /\ Sound(p) /\ Ids(p) = Ids(t)
        /\ \A k \in OnDisk \ {l} : Lan(p) \cap Lan(file[k]) = {}
    BY <1>0, PreparedKeeps
  <1>2. \A i \in Ids(p) : Holds(l, i)
    BY <1>1, HeldOnDisk
  <1> QED BY <1>0, <1>1, <1>2, EditKeeps

\* New features keep the identity of a VD.
LEMMA FeaturesKeep ==
  ASSUME NEW rec \in NodeRecord, NEW f \in {"none", "plain"}
  PROVE  /\ [rec EXCEPT !.feat = f] \in NodeRecord
         /\ [rec EXCEPT !.feat = f].kind = rec.kind /\ [rec EXCEPT !.feat = f].id = rec.id
  BY DEF NodeRecord

\* PATCH of a node.
LEMMA UpdateKeeps ==
  ASSUME TopoInv, NEW c \in Client, NEW l \in LabId, NEW n \in NodeName, UpdateNode(c, l, n)
  PROVE  TopoInv' /\ (Disjoint => Disjoint')
  <1>1. l \in OnDisk /\ n \in Names(file[l]) /\ Sound(file[l])
    BY DEF UpdateNode, TopoInv
  <1>2. ASSUME n \in Nets(file[l]), NEW want \in SUBSET Subnet,
               NEW p \in Prepared(l, SetNode(file[l], n, RealNet(want))), Edits(c, l, p)
        PROVE  TopoInv' /\ (Disjoint => Disjoint')
    <2> DEFINE rec == RealNet(want)
    <2>1. rec \in NodeRecord /\ rec.kind = "_real_net"
      BY DEF NodeRecord, RealNet
    <2> HIDE DEF rec
    <2>2. Sound(SetNode(file[l], n, rec)) /\ Ids(SetNode(file[l], n, rec)) \subseteq Ids(file[l])
      BY <1>1, <2>1, NodeSet
    <2> QED BY <1>1, <1>2, <2>2, PreparedEditKeeps DEF rec
  <1>3. ASSUME n \notin Nets(file[l]), NEW f \in {"none", "plain"},
               NEW p \in Prepared(l, SetNode(file[l], n, [file[l].node[n] EXCEPT !.feat = f])), Edits(c, l, p)
        PROVE  TopoInv' /\ (Disjoint => Disjoint')
    <2> DEFINE rec == [file[l].node[n] EXCEPT !.feat = f]
    <2>1. rec \in NodeRecord /\ rec.kind = file[l].node[n].kind /\ rec.id = file[l].node[n].id
      BY <1>1, FeaturesKeep, Parts
    <2>2. file[l].node[n].kind = "vd" /\ file[l].node[n].id \in NodeId /\ file[l].node[n].id \in Ids(file[l])
      <3>1. file[l].node[n].kind \in {"vd", "_real_net"}
        BY <1>1, Parts DEF NodeRecord
      <3> QED BY <1>1, <1>3, <3>1, Parts
    <2> HIDE DEF rec
    <2>3. Sound(SetNode(file[l], n, rec)) /\ Ids(SetNode(file[l], n, rec)) \subseteq Ids(file[l])
      BY <1>1, <2>1, <2>2, NodeSet
    <2> QED BY <1>1, <1>3, <2>3, PreparedEditKeeps DEF rec
  <1> QED BY <1>2, <1>3 DEF UpdateNode

\* A rename, with the LAN of the lab normalised again.
LEMMA RenameKeeps ==
  ASSUME TopoInv, NEW c \in Client, NEW l \in LabId, NEW n, NEW m \in NodeName, RenameNode(c, l, n, m)
  PROVE  TopoInv' /\ (Disjoint => Disjoint')
  <1>1. /\ l \in OnDisk /\ n \in Names(file[l]) /\ m \in NodeName \ Names(file[l]) /\ Sound(file[l])
        /\ \E p \in Prepared(l, Renamed(file[l], n, m)) : Edits(c, l, p)
    BY DEF RenameNode, TopoInv
  <1>2. Sound(Renamed(file[l], n, m)) /\ Ids(Renamed(file[l], n, m)) \subseteq Ids(file[l])
    BY <1>1, NodeRenamed
  <1> QED BY <1>1, <1>2, PreparedEditKeeps

\* An edit that adds neither an identity nor a network.
LEMMA SmallerEditKeeps ==
  ASSUME TopoInv, NEW c \in Client, NEW l \in OnDisk, NEW t, Sound(t), Ids(t) \subseteq Ids(file[l]),
         Lan(t) \subseteq Lan(file[l]), Edits(c, l, t)
  PROVE  TopoInv' /\ (Disjoint => Disjoint')
  <1>1. l \in LabId
    BY DEF OnDisk
  <1>2. \A i \in Ids(t) : Holds(l, i)
    BY HeldOnDisk
  <1> QED BY <1>1, <1>2, EditKeeps

\* A node that is removed, a link that is added or removed.
LEMMA RemoveKeeps ==
  ASSUME TopoInv, NEW c \in Client, NEW l \in LabId, NEW n, RemoveNode(c, l, n)
  PROVE  TopoInv' /\ (Disjoint => Disjoint')
  <1>1. l \in OnDisk /\ Sound(file[l]) /\ Edits(c, l, DropNode(file[l], n))
    BY DEF RemoveNode, TopoInv
  <1> QED BY <1>1, NodeDropped, SmallerEditKeeps

\* A link that is added or removed.
LEMMA LinkKeeps ==
  ASSUME TopoInv, NEW c \in Client, NEW l \in LabId, NEW n, NEW m,
         AddLink(c, l, n, m) \/ RemoveLink(c, l, n, m)
  PROVE  TopoInv' /\ (Disjoint => Disjoint')
  <1>1. l \in OnDisk /\ Sound(file[l])
    BY DEF AddLink, RemoveLink, TopoInv
  <1>2. PICK k : Edits(c, l, [file[l] EXCEPT !.link = k])
    <2>1. CASE AddLink(c, l, n, m)
      BY <2>1 DEF AddLink
    <2>2. CASE RemoveLink(c, l, n, m)
      BY <2>2 DEF RemoveLink
    <2> QED BY <2>1, <2>2
  <1> DEFINE u == [file[l] EXCEPT !.link = k]
  <1>3. Sound(u) /\ Ids(u) = Ids(file[l]) /\ Lan(u) = Lan(file[l])
    BY <1>1, Relinked
  <1> HIDE DEF u
  <1> QED BY <1>1, <1>2, <1>3, SmallerEditKeeps DEF u

\* Load and save, without an answer.
LEMMA MaterializeKeeps ==
  ASSUME TopoInv, NEW l \in LabId, Materialize(l)
  PROVE  TopoInv' /\ (Disjoint => Disjoint')
  <1>1. l \in OnDisk /\ Sound(file[l]) /\ file' = [file EXCEPT ![l] = Saved(file[l])] /\ UNCHANGED copy
    BY DEF Materialize, TopoInv
  <1>2. /\ Sound(Saved(file[l])) /\ Ids(Saved(file[l])) = Ids(file[l])
        /\ Lan(Saved(file[l])) = Lan(file[l])
    BY <1>1, SavedKeeps
  <1>3. \A i \in Ids(Saved(file[l])) : Holds(l, i)
    BY <1>1, <1>2, HeldOnDisk
  <1> QED BY <1>1, <1>2, <1>3, FileKeeps

\* A file that is deleted.
LEMMA DeleteFileKeeps ==
  ASSUME TopoInv, NEW l \in LabId, DeleteFile(l)
  PROVE  TopoInv' /\ (Disjoint => Disjoint')
  BY FileKeeps DEF DeleteFile

\* A drawing carries kinds and networks, and the VDs of the file it was drawn from.
LEMMA Drawn ==
  ASSUME NEW t, Sound(t), NEW d, d = Drawing(t)
  PROVE  /\ d = [node |-> d.node, link |-> d.link] /\ Names(d) = Names(t)
         /\ \A n \in Names(d) : d.node[n] \in NodeRecord
         /\ Nets(d) = {n \in Names(d) : d.node[n].kind = "_real_net"}
  <1> DEFINE f == [n \in Names(t) |-> [t.node[n] EXCEPT !.id = NoFile, !.feat = "none"]]
             k == {e \in t.link : e \subseteq Names(t)}
  <1>1. d = [node |-> f, link |-> k]
    BY DEF Drawing
  <1>2. ASSUME NEW n \in Names(t) PROVE f[n] \in NodeRecord
    <2>1. t.node[n] \in NodeRecord
      BY Parts
    <2> QED BY <2>1 DEF NodeRecord
  <1>3. DOMAIN f = Names(t)
    OBVIOUS
  <1> HIDE DEF f, k
  <1> QED BY <1>1, <1>2, <1>3 DEF Names, Nets

\* An import gives every VD of the drawing an identity of its own.
LEMMA ImportKeeps ==
  ASSUME TopoInv, NEW c \in Client, NEW l \in LabId, ImportDrawio(c, l)
  PROVE  TopoInv'
  <1>1. PICK k \in OnDisk :
          LET d == Drawing(file[k])
          IN \E id \in [Names(d) \ Nets(d) -> FreshIds] :
               /\ \A n, m \in DOMAIN id : id[n] = id[m] => n = m
               /\ Edits(c, l, [d EXCEPT !.node = [n \in Names(d) |->
                                 IF n \in DOMAIN id THEN [d.node[n] EXCEPT !.id = id[n]]
                                 ELSE d.node[n]]])
    BY DEF ImportDrawio
  <1> DEFINE d == Drawing(file[k])
  <1>2. PICK id \in [Names(d) \ Nets(d) -> FreshIds] :
               /\ \A n, m \in DOMAIN id : id[n] = id[m] => n = m
               /\ Edits(c, l, [d EXCEPT !.node = [n \in Names(d) |->
                                 IF n \in DOMAIN id THEN [d.node[n] EXCEPT !.id = id[n]]
                                 ELSE d.node[n]]])
    BY <1>1
  <1>3. Sound(file[k])
    BY DEF TopoInv
  <1>4. /\ d = [node |-> d.node, link |-> d.link] /\ Names(d) = Names(file[k])
        /\ \A n \in Names(d) : d.node[n] \in NodeRecord
        /\ Nets(d) = {n \in Names(d) : d.node[n].kind = "_real_net"}
    BY <1>3, Drawn
  <1>5. Names(d) \subseteq NodeName
    BY <1>3, <1>4, Parts
  <1>6. \A i \in FreshIds : i \in NodeId
    BY DEF FreshIds
  <1> HIDE DEF d
  <1> DEFINE f == [n \in Names(d) |-> IF n \in DOMAIN id THEN [d.node[n] EXCEPT !.id = id[n]]
                                      ELSE d.node[n]]
             u == [d EXCEPT !.node = f]
  <1>7. ASSUME NEW n \in Names(d)
        PROVE  /\ f[n] \in NodeRecord /\ f[n].kind = d.node[n].kind
               /\ f[n].kind = "vd" => n \in DOMAIN id /\ f[n].id = id[n]
    <2>1. CASE n \in DOMAIN id
      <3>1. f[n] = [d.node[n] EXCEPT !.id = id[n]] /\ d.node[n] \in NodeRecord /\ id[n] \in NodeId
        BY <1>4, <1>6, <2>1
      <3> QED BY <2>1, <3>1 DEF NodeRecord
    <2>2. CASE n \notin DOMAIN id
      <3>1. f[n] = d.node[n] /\ d.node[n] \in NodeRecord /\ d.node[n].kind = "_real_net"
        BY <1>4, <2>2
      <3> QED BY <3>1
    <2> QED BY <2>1, <2>2
  <1>8. DOMAIN f = Names(d)
    OBVIOUS
  <1>9. Edits(c, l, u)
    BY <1>2
  <1> HIDE DEF f
  <1>10. u = [node |-> f, link |-> d.link]
    BY <1>4
  <1> HIDE DEF u
  <1>11. /\ DOMAIN f \subseteq NodeName /\ \A n \in DOMAIN f : f[n] \in NodeRecord
         /\ \A n \in DOMAIN f : f[n].kind = "vd" => f[n].id \in NodeId
         /\ \A n, m \in DOMAIN f : f[n].kind = "vd" /\ f[m].kind = "vd" /\ f[n].id = f[m].id => n = m
    BY <1>2, <1>5, <1>6, <1>7, <1>8
  <1>12. Sound(u) /\ Ids(u) = {f[n].id : n \in {m \in DOMAIN f : f[m].kind = "vd"}}
    BY <1>10, <1>11, Assembled
  <1>13. \A i \in Ids(u) : i \in FreshIds
    BY <1>2, <1>7, <1>8, <1>12
  <1> QED BY <1>9, <1>12, <1>13, EditsInv

\* Whatever the step, the invariant stays; and the LANs stay apart unless it imports.
LEMMA TopologiesStep ==
  ASSUME TopoInv, [TopologiesNext]_topoVars
  PROVE  /\ TopoInv'
         /\ Disjoint /\ ~Disjoint' => \E c \in Client, l \in LabId : ImportDrawio(c, l)
  <1>1. CASE UNCHANGED topoVars
    <2>1. file' = file /\ copy' = copy
      BY <1>1 DEF topoVars
    <2>2. \A k \in LabId, i \in NodeId : Holds(k, i)' <=> Holds(k, i)
      BY <2>1 DEF Holds, OnDisk, Ids, Nets, Names
    <2>3. TopoInv'
      BY <2>1, <2>2 DEF TopoInv, OnDisk, Sound, Vds, Nets, Names
    <2>4. Disjoint => Disjoint'
      BY <2>1 DEF Disjoint, OnDisk, Lan, Nets, Names
    <2> QED BY <2>3, <2>4
  <1>2. ASSUME NEW c \in Client, NEW l \in LabId, NodeEdit(c, l)
        PROVE  TopoInv' /\ (Disjoint => Disjoint')
    BY <1>2, AddNodeKeeps, UpdateKeeps, RemoveKeeps, RenameKeeps, LinkKeeps DEF NodeEdit
  <1>3. ASSUME NEW c \in Client, NEW l \in LabId, ImportDrawio(c, l)
        PROVE  TopoInv'
    BY <1>3, ImportKeeps
  <1>4. CASE TopologiesNext
    BY <1>2, <1>3, <1>4, CreateKeeps, GetKeeps, SaveKeeps, MaterializeKeeps, DeleteFileKeeps
       DEF TopologiesNext
  <1> QED BY <1>1, <1>4

\* The invariant holds in every reachable state.
LEMMA TopologiesInvariant == TopologiesSpec => []TopoInv
  <1>1. TopologiesInit => TopoInv
    BY DEF TopologiesInit, TopoInv, OnDisk, Holds
  <1>2. TopoInv /\ [TopologiesNext]_topoVars => TopoInv'
    BY TopologiesStep
  <1> QED BY <1>1, <1>2, PTL DEF TopologiesSpec

\* topology_routes.py, realnet_bgp.py: the LANs of the real networks of two labs never
\* come to overlap but by the import of a drawing, whatever copies are saved again.
THEOREM OnlyImportsOverlap == TopologiesSpec => OverlapOnlyByImport
  <1>1. TopoInv /\ [TopologiesNext]_topoVars
          => [Disjoint /\ ~Disjoint' => \E c \in Client, l \in LabId : ImportDrawio(c, l)]_topoVars
    BY TopologiesStep
  <1> QED BY <1>1, TopologiesInvariant, PTL DEF TopologiesSpec, OverlapOnlyByImport

\* A sound topology has as many identities as VDs.
LEMMA IdsCounted ==
  ASSUME NEW t, Sound(t)
  PROVE  Cardinality(Ids(t)) = Cardinality(Names(t) \ Nets(t))
  <1> DEFINE S == Names(t) \ Nets(t)
             f == [n \in S |-> t.node[n].id]
  <1>1. IsFiniteSet(S)
    <2>1. S \subseteq NodeName
      BY DEF Sound
    <2> QED BY <2>1, TopologiesAssumption, FS_Subset
  <1>2. Ids(t) = {f[n] : n \in S}
    BY DEF Ids
  <1>3. \A n, m \in S : f[n] = f[m] => n = m
    BY DEF Sound, Vds
  <1> HIDE DEF S
  <1>4. f \in Surjection(S, Ids(t))
    BY <1>2 DEF Surjection
  <1>5. IsFiniteSet(Ids(t)) /\ (Cardinality(Ids(t)) = Cardinality(S) <=> f \in Injection(S, Ids(t)))
    BY <1>1, <1>4, FS_Surjection
  <1>6. f \in Injection(S, Ids(t))
    BY <1>3, <1>4 DEF Injection, IsInjective, Surjection
  <1> QED BY <1>5, <1>6 DEF S

\* containerlab_service.py, node sidecars: two VDs never have one identity, and so one
\* persistent disk, in one file or in two.
THEOREM DisksStayDistinct == TopologiesSpec => []DisksAreDistinct
  <1>1. TopoInv => DisksAreDistinct
    <2> SUFFICES ASSUME TopoInv PROVE DisksAreDistinct
      OBVIOUS
    <2>1. ASSUME NEW l \in OnDisk
          PROVE  Cardinality(Ids(file[l])) = Cardinality(Names(file[l]) \ Nets(file[l]))
      BY IdsCounted DEF TopoInv
    <2>2. ASSUME NEW k \in OnDisk, NEW l \in OnDisk, NEW i, i \in Ids(file[k]), i \in Ids(file[l])
          PROVE  k = l
      <3>1. Holds(k, i) /\ Holds(l, i) /\ k \in LabId /\ l \in LabId
        BY <2>2 DEF Holds, OnDisk
      <3>2. i \in NodeId
        BY <2>2, IdsTyped DEF TopoInv
      <3> QED BY <3>1, <3>2 DEF TopoInv
    <2> QED BY <2>1, <2>2 DEF DisksAreDistinct
  <1> QED BY <1>1, TopologiesInvariant, PTL

-----------------------------------------------------------------------------
(* Labs.                                                                   *)

LabOp == {"none", "deploy", "destroy", "realnet", "link", "restart", "reconcile", "remove",
          "start", "stop", "wipe", "delete", "resolve"}
Place == {"idle", "lock", "runs", "probe", "wipe", "clean", "unlink", "row", "save", "done",
          "failed"}

RequestRecord ==
    [op : LabOp, node : Node \cup {"none"}, pc : Place, cancel : BOOLEAN,
     phase : {"none", "queued", "starting", "stopped", "cancelling"}, saw : SUBSET Node]

\* The types of the requests and of _local_node_starts.
LabsTypeOK ==
    /\ labReq \in [LabReq -> RequestRecord]
    /\ starts \in [Node -> LabReq \cup {"none"}]
    /\ up \in SUBSET Node

\* Only wipe_node_disk and delete_lab probe the lab, and a start names its node.
StartNeverProbes ==
    \A r \in LabReq : /\ labReq[r].op = "start" => labReq[r].pc # "probe"
                      /\ labReq[r].op \in {"start", "restart"} => labReq[r].node \in Node

LabsInv == LabsTypeOK /\ StartNeverProbes /\ StopReachesStart

\* A request that asks for anything but a start, or is refused, disturbs no start.
LEMMA AsksInv ==
  ASSUME LabsInv, NEW r \in LabReq, NEW op \in LabOp, NEW n \in Node \cup {"none"}, NEW pc \in Place,
         Asks(r, op, n, pc), op \in {"start", "restart"} => n \in Node,
         op = "start" => pc = "failed", UNCHANGED <<starts, up>>
  PROVE  LabsInv'
  <1> DEFINE rec == [NoReq EXCEPT !.op = op, !.node = n, !.pc = pc]
  <1>1. rec \in RequestRecord /\ rec.op = op /\ rec.pc = pc /\ rec.node = n
    <2>1. NoReq \in RequestRecord
      BY DEF NoReq, RequestRecord, LabOp, Place
    <2> QED BY <2>1 DEF RequestRecord
  <1> HIDE DEF rec
  <1>2. labReq' = [labReq EXCEPT ![r] = rec]
    BY DEF Asks, rec
  <1> QED BY <1>1, <1>2 DEF LabsInv, LabsTypeOK, StartNeverProbes, StopReachesStart

\* A request that moves on to a place where a start neither waits nor runs.
LEMMA MovesInv ==
  ASSUME LabsInv, NEW r \in LabReq, NEW pc \in Place, To(r, pc), UNCHANGED starts, up' \in SUBSET Node,
         labReq[r].op = "start" => pc \notin {"probe", "lock", "runs"}
  PROVE  LabsInv'
  <1> DEFINE rec == [labReq[r] EXCEPT !.pc = pc]
  <1>0. LabsTypeOK /\ labReq[r] \in RequestRecord
    BY DEF LabsInv, LabsTypeOK
  <1>2. /\ rec \in RequestRecord /\ rec.pc = pc
        /\ rec.op = labReq[r].op /\ rec.node = labReq[r].node
    BY <1>0 DEF RequestRecord
  <1>3. labReq' = [labReq EXCEPT ![r] = rec]
    BY <1>0 DEF To, LabsTypeOK
  <1> HIDE DEF rec
  <1>4. LabsTypeOK' /\ \A q \in LabReq : labReq'[q] = IF q = r THEN rec ELSE labReq[q]
    BY <1>0, <1>2, <1>3 DEF LabsTypeOK
  <1>5. StartNeverProbes'
    BY <1>2, <1>4 DEF LabsInv, StartNeverProbes
  <1>6. StopReachesStart'
    BY <1>2, <1>4 DEF LabsInv, StopReachesStart
  <1> QED BY <1>4, <1>5, <1>6 DEF LabsInv

\* A start is registered where no other start of its node is.
LEMMA NodeStartInv ==
  ASSUME LabsInv, NEW r \in LabReq, NEW n \in Node, NodeStart(r, n)
  PROVE  LabsInv'
  <1>1. CASE yaml /\ MayStart(n)
    <2> DEFINE rec == [NoReq EXCEPT !.op = "start", !.node = n, !.pc = "lock", !.phase = "queued"]
    <2>1. rec \in RequestRecord /\ rec.op = "start" /\ rec.pc = "lock" /\ rec.node = n
      BY DEF NoReq, RequestRecord, LabOp, Place
    <2> HIDE DEF rec
    <2>2. /\ labReq' = [labReq EXCEPT ![r] = rec] /\ starts' = [starts EXCEPT ![n] = r]
          /\ starts[n] = "none" /\ UNCHANGED up
      BY <1>1 DEF NodeStart, MayStart, rec, Rest
    <2> QED BY <2>1, <2>2, LabsAssumption DEF LabsInv, LabsTypeOK, StartNeverProbes, StopReachesStart
  <1>2. CASE ~(yaml /\ MayStart(n))
    BY <1>2, AsksInv DEF NodeStart, Rest, LabOp, Place
  <1> QED BY <1>1, <1>2

\* A stop tells the start of its node and leaves every start where it is.
LEMMA NodeStopInv ==
  ASSUME LabsInv, NEW r \in LabReq, NEW n \in Node, NodeStop(r, n)
  PROVE  LabsInv'
  <1> DEFINE s == starts[n]
             pc == IF ~yaml THEN "failed" ELSE IF s # "none" THEN "done" ELSE "lock"
             mine == [NoReq EXCEPT !.op = "stop", !.node = n, !.pc = pc]
             phase == IF labReq[s].phase = "queued" THEN "stopped" ELSE "cancelling"
  <1>1. mine \in RequestRecord /\ mine.op = "stop"
    <2>1. pc \in Place
      BY DEF Place
    <2> HIDE DEF pc
    <2> QED BY <2>1 DEF NoReq, RequestRecord, LabOp
  <1>2. UNCHANGED <<starts, up>> /\ labReq[r] = NoReq
    BY DEF NodeStop, Rest
  <1>3. CASE yaml /\ s # "none"
    <2> DEFINE rec == [labReq[s] EXCEPT !.cancel = TRUE, !.phase = phase]
    <2>1. s \in LabReq /\ labReq[s] \in RequestRecord
      BY <1>3 DEF LabsInv, LabsTypeOK
    <2>2. /\ rec \in RequestRecord
          /\ rec.op = labReq[s].op /\ rec.pc = labReq[s].pc /\ rec.node = labReq[s].node
      <3>1. phase \in {"stopped", "cancelling"}
        OBVIOUS
      <3> HIDE DEF phase
      <3> QED BY <2>1, <3>1 DEF RequestRecord
    <2>3. labReq' = [labReq EXCEPT ![r] = mine, ![s].cancel = TRUE, ![s].phase = phase]
      BY <1>3 DEF NodeStop
    <2> HIDE DEF mine, phase
    <2>4. CASE s # r
      <3>1. labReq' = [labReq EXCEPT ![r] = mine, ![s] = rec]
        BY <2>1, <2>3, <2>4 DEF LabsInv, LabsTypeOK
      <3> HIDE DEF rec
      <3> QED BY <3>1, <2>1, <2>2, <1>1, <1>2 DEF LabsInv, LabsTypeOK, StartNeverProbes, StopReachesStart
    <2>5. CASE s = r
      <3> DEFINE both == [mine EXCEPT !.cancel = TRUE, !.phase = phase]
      <3>1. both \in RequestRecord /\ both.op = "stop"
        BY <1>1 DEF RequestRecord, phase
      <3>2. labReq' = [labReq EXCEPT ![r] = both]
        BY <2>1, <2>3, <2>5 DEF LabsInv, LabsTypeOK
      <3> HIDE DEF both
      <3> QED BY <3>1, <3>2, <1>2 DEF LabsInv, LabsTypeOK, StartNeverProbes, StopReachesStart
    <2> QED BY <2>4, <2>5
  <1>4. CASE ~(yaml /\ s # "none")
    <2>1. labReq' = [labReq EXCEPT ![r] = mine]
      BY <1>4 DEF NodeStop
    <2> HIDE DEF mine
    <2> QED BY <2>1, <1>1, <1>2 DEF LabsInv, LabsTypeOK, StartNeverProbes, StopReachesStart
  <1> QED BY <1>3, <1>4

\* The controller of a request ends: the entry it removes is its own.
LEMMA ControllerEndsInv ==
  ASSUME LabsInv, NEW r \in LabReq, ControllerEnds(r)
  PROVE  LabsInv'
  <1> DEFINE o == labReq[r].op
             n == labReq[r].node
  <1>1. PICK pc \in {"clean", "done", "failed"} : To(r, pc)
    BY DEF ControllerEnds
  <1>2. labReq[r].pc = "runs" /\ starts' = Released(r)
    BY DEF ControllerEnds
  <1>3. /\ o \in LabOp /\ up \in SUBSET Node
        /\ o \in {"start", "restart"} => n \in Node
    BY DEF LabsInv, LabsTypeOK, RequestRecord, StartNeverProbes
  <1>4. up' \in SUBSET Node
    <2>1. Effect(o, n) \subseteq SUBSET Node
      BY <1>3 DEF Effect
    <2>2. Damage(o, n) \subseteq SUBSET Node
      BY <1>3 DEF Damage
    <2> QED BY <2>1, <2>2 DEF ControllerEnds
  <1>5. CASE o = "start"
    <2>1. starts' = [starts EXCEPT ![n] = "none"] /\ starts[n] = r /\ n \in Node
      BY <1>2, <1>3, <1>5 DEF Released, LabsInv, StopReachesStart
    <2>2. labReq' \in [LabReq -> RequestRecord]
      BY <1>1 DEF To, LabsInv, LabsTypeOK, RequestRecord, Place
    <2>3. ASSUME NEW q \in LabReq
          PROVE  /\ labReq'[q].op = labReq[q].op /\ labReq'[q].node = labReq[q].node
                 /\ q # r => labReq'[q].pc = labReq[q].pc
                 /\ q = r => labReq'[q].pc = pc
      BY <1>1 DEF To, LabsInv, LabsTypeOK, RequestRecord
    <2>4. LabsTypeOK'
      BY <2>1, <2>2, <1>4 DEF LabsInv, LabsTypeOK
    <2>5. StartNeverProbes'
      BY <2>3 DEF LabsInv, StartNeverProbes
    <2>6. StopReachesStart'
      <3> SUFFICES ASSUME NEW q \in LabReq, labReq'[q].op = "start", labReq'[q].pc \in {"lock", "runs"}
                   PROVE  starts'[labReq'[q].node] = q
        BY DEF StopReachesStart
      <3>1. q # r
        BY <2>3
      <3>2. labReq[q].op = "start" /\ labReq[q].pc \in {"lock", "runs"} /\ labReq'[q].node = labReq[q].node
        BY <2>3, <3>1
      <3>3. starts[labReq[q].node] = q
        BY <3>2 DEF LabsInv, StopReachesStart
      <3>4. labReq[q].node # n
        BY <2>1, <3>1, <3>3
      <3> QED BY <2>1, <3>2, <3>3, <3>4 DEF LabsInv, LabsTypeOK, StartNeverProbes
    <2> QED BY <2>4, <2>5, <2>6 DEF LabsInv
  <1>6. CASE o # "start"
    BY <1>1, <1>2, <1>4, <1>6, MovesInv DEF Released, Place
  <1> QED BY <1>5, <1>6

\* A probe leads a delete to the lock and no start.
LEMMA ProbeInv ==
  ASSUME LabsInv, NEW r \in LabReq, Probe(r)
  PROVE  LabsInv'
  <1>1. labReq[r].pc = "probe" /\ UNCHANGED <<starts, up>>
    BY DEF Probe, Rest
  <1>2. labReq[r].op # "start" /\ up \in SUBSET Node
    BY <1>1 DEF LabsInv, StartNeverProbes, LabsTypeOK
  <1>3. CASE To(r, "failed")
    BY <1>1, <1>2, <1>3, MovesInv DEF Place
  <1>4. ASSUME NEW saw \in SUBSET Node, NEW pc \in Place,
               labReq' = [labReq EXCEPT ![r].saw = saw, ![r].pc = pc]
        PROVE  LabsInv'
    <2> DEFINE rec == [labReq[r] EXCEPT !.saw = saw, !.pc = pc]
    <2>1. labReq[r] \in RequestRecord
      BY DEF LabsInv, LabsTypeOK
    <2>2. rec \in RequestRecord /\ rec.op = labReq[r].op /\ rec.node = labReq[r].node
      <3> DEFINE S == SUBSET Node
      <3>1. saw \in S
        OBVIOUS
      <3> HIDE DEF S
      <3> QED BY <2>1, <3>1 DEF RequestRecord, S
    <2>3. labReq' = [labReq EXCEPT ![r] = rec]
      BY <1>4 DEF LabsInv, LabsTypeOK
    <2> HIDE DEF rec
    <2> QED BY <2>2, <2>3, <1>1, <1>2 DEF LabsInv, LabsTypeOK, StartNeverProbes, StopReachesStart
  <1>5. ASSUME NEW told \in Reported,
               labReq' = [labReq EXCEPT ![r].saw = told.there, ![r].pc =
                      CASE labReq[r].op = "wipe" -> IF labReq[r].node \in told.running THEN "failed" ELSE "wipe"
                        [] told.there = {} -> "clean"
                        [] OTHER -> "lock"]
        PROVE  LabsInv'
    <2> DEFINE pc == CASE labReq[r].op = "wipe" -> IF labReq[r].node \in told.running THEN "failed" ELSE "wipe"
                       [] told.there = {} -> "clean"
                       [] OTHER -> "lock"
    <2>1. pc \in Place
      BY DEF Place
    <2>2. told.there \in SUBSET Node
      BY <1>2 DEF Reported, Started
    <2>3. labReq' = [labReq EXCEPT ![r].saw = told.there, ![r].pc = pc]
      BY <1>5
    <2> HIDE DEF pc
    <2> QED BY <2>1, <2>2, <2>3, <1>4
  <1> QED BY <1>3, <1>5 DEF Probe

\* Every step of the requests keeps the invariant.
LEMMA LabsStep ==
  ASSUME LabsInv, [LabsNext]_labVars
  PROVE  LabsInv'
  <1>0. up \in SUBSET Node
    BY DEF LabsInv, LabsTypeOK
  <1>1. ASSUME NEW r \in LabReq, DeployOrDestroy(r) PROVE LabsInv'
    BY <1>1, AsksInv DEF DeployOrDestroy, Rest, LabOp, Place
  <1>2. ASSUME NEW r \in LabReq, LinkOperation(r) PROVE LabsInv'
    BY <1>2, AsksInv DEF LinkOperation, Rest, LabOp, Place
  <1>3. ASSUME NEW r \in LabReq, NodeOperation(r) PROVE LabsInv'
    BY <1>3, AsksInv DEF NodeOperation, Rest, LabOp, Place
  <1>4. ASSUME NEW r \in LabReq, Probing(r) PROVE LabsInv'
    BY <1>4, AsksInv DEF Probing, Rest, LabOp, Place
  <1>5. ASSUME NEW r \in LabReq, ResolveHost(r) PROVE LabsInv'
    BY <1>0, <1>5, AsksInv, MovesInv DEF ResolveHost, LabOp, Place
  <1>6. ASSUME NEW r \in LabReq, Acquire(r) PROVE LabsInv'
    BY <1>6 DEF Acquire, To, Rest, LabsInv, LabsTypeOK, StartNeverProbes, StopReachesStart, RequestRecord, Place
  <1>7. ASSUME NEW r \in LabReq, PhaseReported(r) PROVE LabsInv'
    BY <1>7 DEF PhaseReported, Rest, LabsInv, LabsTypeOK, StartNeverProbes, StopReachesStart, RequestRecord
  <1>8. ASSUME NEW r \in LabReq, Wipe(r) PROVE LabsInv'
    BY <1>0, <1>8, MovesInv DEF Wipe, Place
  <1>9. ASSUME NEW r \in LabReq, CleanPersist(r) PROVE LabsInv'
    BY <1>0, <1>9, MovesInv DEF CleanPersist, Place
  <1>10. ASSUME NEW r \in LabReq, Unlink(r) PROVE LabsInv'
    BY <1>0, <1>10, MovesInv DEF Unlink, Place
  <1>11. ASSUME NEW r \in LabReq, DropRow(r) PROVE LabsInv'
    BY <1>0, <1>11, MovesInv DEF DropRow, Place
  <1>12. CASE UNCHANGED labVars
    BY <1>12 DEF labVars, LabsInv, LabsTypeOK, StartNeverProbes, StopReachesStart
  <1> QED
    BY <1>1, <1>2, <1>3, <1>4, <1>5, <1>6, <1>7, <1>8, <1>9, <1>10, <1>11, <1>12,
       NodeStartInv, NodeStopInv, ControllerEndsInv, ProbeInv DEF LabsNext

\* Every start that waits for the lock or runs is the one its node is registered with, so a
\* stop reaches it (multinode_service.py).
THEOREM StopAlwaysReachesStart == LabsSpec => []StopReachesStart
  <1>1. LabsInit => LabsInv
    BY DEF LabsInit, LabsInv, LabsTypeOK, StartNeverProbes, StopReachesStart, RequestRecord, NoReq,
           LabOp, Place
  <1>2. LabsInv => StopReachesStart
    BY DEF LabsInv
  <1> QED BY <1>1, <1>2, LabsStep, PTL DEF LabsSpec

-----------------------------------------------------------------------------
(* Tunnels to web UIs.                                                     *)

TunnelRecord == [state : {"new", "open", "closed"}, device : Device \cup {"none"},
                 user : Viewer \cup {"none"}, addr : Nat,
                 alive : BOOLEAN, idle : BOOLEAN, auth : BOOLEAN]
VisitRecord == [pc : {"idle", "status", "sent", "bridge", "done"}, device : Device \cup {"none"},
                user : Viewer \cup {"none"}, token : TunnelToken \cup {"none"}, addr : Nat]

\* The types of the tunnels, the keys and the handlers of the web UIs.
WebTypeOK ==
    /\ deploys \in Nat
    /\ tunnel \in [TunnelToken -> TunnelRecord]
    /\ byKey \in [Device -> TunnelToken \cup {"none"}]
    /\ visit \in [Visit -> VisitRecord]

\* A handler that waits for the status of a device has been told which one.
VisitNamesDevice ==
    \A v \in Visit : visit[v].pc = "status" => visit[v].device \in Device /\ visit[v].user \in Viewer

KeyLeads == \A t \in TunnelToken : tunnel[t].state = "open" => tunnel[t].device \in Device /\ byKey[tunnel[t].device] = t

WebInv == WebTypeOK /\ VisitNamesDevice /\ KeyLeads

\* No tunnel and no visit: nothing to keep.
LEMMA WebInitInv == WebInit => WebInv
  BY WebUiAssumption DEF WebInit, WebInv, WebTypeOK, VisitNamesDevice, KeyLeads, NoTunnel, NoVisit, TunnelRecord, VisitRecord

\* _close_locked closes the tunnels it is given, touches no other, and no key leads to a
\* closed one.
LEMMA CloseKeeps ==
  ASSUME WebInv, NEW T
  PROVE  /\ Closed(T) \in [TunnelToken -> TunnelRecord]
         /\ Unkeyed(T) \in [Device -> TunnelToken \cup {"none"}]
         /\ \A t \in TunnelToken : Closed(T)[t].state = "open" =>
              t \notin T /\ Closed(T)[t] = tunnel[t] /\ Unkeyed(T)[tunnel[t].device] = t
  <1>1. ASSUME NEW t \in TunnelToken
        PROVE  [tunnel[t] EXCEPT !.state = "closed", !.alive = FALSE] \in TunnelRecord
                 /\ [tunnel[t] EXCEPT !.state = "closed", !.alive = FALSE].state = "closed"
    BY DEF WebInv, WebTypeOK, TunnelRecord
  <1>2. ASSUME NEW t \in TunnelToken PROVE Closed(T)[t] \in TunnelRecord
    BY <1>1 DEF Closed, WebInv, WebTypeOK
  <1>3. Closed(T) \in [TunnelToken -> TunnelRecord]
    BY <1>2 DEF Closed
  <1>4. Unkeyed(T) \in [Device -> TunnelToken \cup {"none"}]
    BY DEF Unkeyed, WebInv, WebTypeOK
  <1>5. ASSUME NEW t \in TunnelToken, Closed(T)[t].state = "open"
        PROVE  t \notin T /\ Closed(T)[t] = tunnel[t] /\ Unkeyed(T)[tunnel[t].device] = t
    <2>1. t \notin T /\ Closed(T)[t] = tunnel[t]
      BY <1>1, <1>5 DEF Closed
    <2>2. tunnel[t].device \in Device /\ byKey[tunnel[t].device] = t
      BY <2>1, <1>5 DEF WebInv, KeyLeads
    <2> QED BY <2>1, <2>2 DEF Unkeyed
  <1> QED BY <1>3, <1>4, <1>5

\* Closing tunnels, at a cleanup, a close or a failed open, keeps the keys right.
LEMMA CloseInv ==
  ASSUME WebInv, NEW T, Close(T), deploys' \in Nat, visit' \in [Visit -> VisitRecord],
         VisitNamesDevice'
  PROVE  WebInv'
  <1>1. tunnel' = Closed(T) /\ byKey' = Unkeyed(T)
    BY DEF Close
  <1>2. WebTypeOK'
    BY <1>1, CloseKeeps DEF WebTypeOK
  <1>3. KeyLeads'
    BY <1>1, CloseKeeps DEF KeyLeads, WebInv
  <1> QED BY <1>2, <1>3 DEF WebInv

\* A step that leaves the state and the device of every tunnel alone.
LEMMA TouchInv ==
  ASSUME WebInv, tunnel' \in [TunnelToken -> TunnelRecord],
         \A t \in TunnelToken : tunnel'[t].state = tunnel[t].state /\ tunnel'[t].device = tunnel[t].device,
         UNCHANGED byKey, deploys' \in Nat, visit' \in [Visit -> VisitRecord], VisitNamesDevice'
  PROVE  WebInv'
  BY DEF WebInv, WebTypeOK, KeyLeads

\* _expire_idle lets a tunnel look idle ...
LEMMA IdleField ==
  ASSUME WebTypeOK, NEW s \in TunnelToken, NEW b \in BOOLEAN,
         tunnel' = [tunnel EXCEPT ![s].idle = b]
  PROVE  /\ tunnel' \in [TunnelToken -> TunnelRecord]
         /\ \A t \in TunnelToken : tunnel'[t].state = tunnel[t].state /\ tunnel'[t].device = tunnel[t].device
  BY DEF WebTypeOK, TunnelRecord

\* ... a tunnel dies ...
LEMMA AliveField ==
  ASSUME WebTypeOK, NEW s \in TunnelToken, NEW b \in BOOLEAN,
         tunnel' = [tunnel EXCEPT ![s].alive = b]
  PROVE  /\ tunnel' \in [TunnelToken -> TunnelRecord]
         /\ \A t \in TunnelToken : tunnel'[t].state = tunnel[t].state /\ tunnel'[t].device = tunnel[t].device
  BY DEF WebTypeOK, TunnelRecord

\* ... an authorisation of the proxy runs out or is renewed ...
LEMMA AuthField ==
  ASSUME WebTypeOK, NEW s \in TunnelToken, NEW b \in BOOLEAN,
         tunnel' = [tunnel EXCEPT ![s].auth = b]
  PROVE  /\ tunnel' \in [TunnelToken -> TunnelRecord]
         /\ \A t \in TunnelToken : tunnel'[t].state = tunnel[t].state /\ tunnel'[t].device = tunnel[t].device
  BY DEF WebTypeOK, TunnelRecord

\* ... and a request through the proxy renews both.
LEMMA RequestFields ==
  ASSUME WebTypeOK, NEW s \in TunnelToken, NEW a \in BOOLEAN, NEW b \in BOOLEAN,
         tunnel' = [tunnel EXCEPT ![s].idle = b, ![s].auth = a]
  PROVE  /\ tunnel' \in [TunnelToken -> TunnelRecord]
         /\ \A t \in TunnelToken : tunnel'[t].state = tunnel[t].state /\ tunnel'[t].device = tunnel[t].device
  <1> DEFINE rec == [tunnel[s] EXCEPT !.idle = b, !.auth = a]
         one == [tunnel[s] EXCEPT !.idle = b]
  <1>1. /\ rec \in TunnelRecord
        /\ rec.state = tunnel[s].state /\ rec.device = tunnel[s].device
    <2>1. one \in TunnelRecord /\ one.state = tunnel[s].state /\ one.device = tunnel[s].device
      BY DEF WebTypeOK, TunnelRecord
    <2>2. rec = [one EXCEPT !.auth = a]
      OBVIOUS
    <2> HIDE DEF one, rec
    <2> QED BY <2>1, <2>2 DEF TunnelRecord
  <1>2. tunnel' = [tunnel EXCEPT ![s] = rec]
    OBVIOUS
  <1> HIDE DEF rec
  <1> QED BY <1>1, <1>2 DEF WebTypeOK

\* The handlers keep the type of their records; only the status of a device is waited for
\* with a device in hand.
LEMMA VisitEnds ==
  ASSUME WebInv, NEW v \in Visit, NEW rec \in VisitRecord, rec.pc # "status",
         visit' = [visit EXCEPT ![v] = rec]
  PROVE  visit' \in [Visit -> VisitRecord] /\ VisitNamesDevice'
  BY DEF WebInv, WebTypeOK, VisitNamesDevice

\* A handler that is done names no device it waits for.
LEMMA VisitPc ==
  ASSUME WebInv, NEW v \in Visit, visit' = [visit EXCEPT ![v].pc = "done"]
  PROVE  visit' \in [Visit -> VisitRecord] /\ VisitNamesDevice'
  BY DEF WebInv, WebTypeOK, VisitNamesDevice, VisitRecord

\* The record of a handler that ended without doing anything.
LEMMA VisitDone == [NoVisit EXCEPT !.pc = "done"] \in VisitRecord /\ [NoVisit EXCEPT !.pc = "done"].pc = "done"
  BY DEF NoVisit, VisitRecord

\* open(): the tunnel it opens takes the key of the one it closes.
LEMMA OpenTunnelInv ==
  ASSUME WebInv, NEW v \in Visit, OpenTunnel(v)
  PROVE  WebInv'
  <1> DEFINE d == visit[v].device
             u == visit[v].user
  <1>1. visit[v].pc = "status" /\ UNCHANGED deploys
        /\ visit' = [visit EXCEPT ![v] = [NoVisit EXCEPT !.pc = "done"]]
    BY DEF OpenTunnel
  <1>2. d \in Device /\ u \in Viewer /\ visit[v].addr \in Nat /\ deploys' \in Nat /\ WebTypeOK
    BY <1>1 DEF WebInv, VisitNamesDevice, WebTypeOK, VisitRecord
  <1>3. visit' \in [Visit -> VisitRecord] /\ VisitNamesDevice'
    BY <1>1, VisitDone, VisitEnds
  <1>4. CASE Reusable(d, u) /\ tunnel' = [tunnel EXCEPT ![byKey[d]].idle = FALSE] /\ UNCHANGED byKey
    <2>1. byKey[d] \in TunnelToken
      BY <1>2, <1>4 DEF WebTypeOK, Reusable
    <2>2. /\ tunnel' \in [TunnelToken -> TunnelRecord]
          /\ \A t \in TunnelToken : tunnel'[t].state = tunnel[t].state /\ tunnel'[t].device = tunnel[t].device
      BY <2>1, <1>2, <1>4, IdleField, Zenon
    <2> QED BY <2>2, <1>2, <1>3, <1>4, TouchInv
  <1>5. CASE OpenFails(d)
    BY <1>2, <1>3, <1>5, CloseInv DEF OpenFails
  <1>6. ASSUME NEW t \in TunnelToken, tunnel[t] = NoTunnel,
               tunnel' = [Closed(Stale(d)) EXCEPT ![t] =
                                  [NoTunnel EXCEPT !.state = "open", !.device = d, !.user = u,
                                                   !.addr = visit[v].addr, !.alive = TRUE]],
               byKey' = [Unkeyed(Stale(d)) EXCEPT ![d] = t]
        PROVE  WebInv'
    <2> DEFINE rec == [NoTunnel EXCEPT !.state = "open", !.device = d, !.user = u,
                                       !.addr = visit[v].addr, !.alive = TRUE]
               C == Closed(Stale(d))
               K == Unkeyed(Stale(d))
    <2>1. rec \in TunnelRecord /\ rec.state = "open" /\ rec.device = d
      BY <1>2 DEF NoTunnel, TunnelRecord
    <2>2. /\ C \in [TunnelToken -> TunnelRecord]
          /\ K \in [Device -> TunnelToken \cup {"none"}]
          /\ \A x \in TunnelToken : C[x].state = "open" =>
               x \notin Stale(d) /\ C[x] = tunnel[x] /\ K[tunnel[x].device] = x
      BY CloseKeeps
    <2> HIDE DEF rec, C, K
    <2>3. tunnel' = [C EXCEPT ![t] = rec] /\ byKey' = [K EXCEPT ![d] = t]
      BY <1>6 DEF rec, C, K
    <2>4. WebTypeOK'
      BY <2>1, <2>2, <2>3, <1>2, <1>3 DEF WebTypeOK
    <2>5. ASSUME NEW x \in TunnelToken, tunnel'[x].state = "open"
          PROVE  tunnel'[x].device \in Device /\ byKey'[tunnel'[x].device] = x
      <3>1. CASE x = t
        BY <3>1, <2>1, <2>2, <2>3, <1>2
      <3>2. CASE x # t
        <4>1. tunnel'[x] = C[x] /\ C[x].state = "open"
          BY <3>2, <2>2, <2>3, <2>5
        <4>2. x \notin Stale(d) /\ C[x] = tunnel[x] /\ K[tunnel[x].device] = x
          BY <4>1, <2>2
        <4>3. tunnel[x].device \in Device /\ byKey[tunnel[x].device] = x
          BY <4>1, <4>2 DEF WebInv, KeyLeads
        <4>4. tunnel[x].device # d
          BY <4>2, <4>3 DEF Stale
        <4> QED BY <4>1, <4>2, <4>3, <4>4, <2>2, <2>3
      <3> QED BY <3>1, <3>2
    <2>6. KeyLeads'
      BY <2>5 DEF KeyLeads
    <2> QED BY <2>4, <2>6, <1>3 DEF WebInv
  <1> QED BY <1>4, <1>5, <1>6 DEF OpenTunnel

\* Every step of the service and of the handlers keeps the invariant.
LEMMA WebStep ==
  ASSUME WebInv, [WebNext]_webVars
  PROVE  WebInv'
  <1>0. WebTypeOK /\ VisitNamesDevice
    BY DEF WebInv
  <1>1. ASSUME NEW v \in Visit, AskOpen(v) PROVE WebInv'
    <2>1. visit' \in [Visit -> VisitRecord] /\ VisitNamesDevice'
      <3>1. CASE visit' = [visit EXCEPT ![v].pc = "done"]
        BY <3>1, VisitPc
      <3>2. ASSUME NEW d \in Device, NEW u \in Viewer,
                   visit' = [visit EXCEPT ![v] = [NoVisit EXCEPT !.pc = "status", !.device = d,
                                               !.user = u, !.addr = deploys]]
            PROVE  visit' \in [Visit -> VisitRecord] /\ VisitNamesDevice'
        <4> DEFINE rec == [NoVisit EXCEPT !.pc = "status", !.device = d, !.user = u, !.addr = deploys]
        <4>1. rec \in VisitRecord /\ rec.device = d /\ rec.user = u
          BY <1>0 DEF NoVisit, VisitRecord, WebTypeOK
        <4> HIDE DEF rec
        <4>2. visit' = [visit EXCEPT ![v] = rec]
          BY <3>2 DEF rec
        <4> QED BY <4>1, <4>2, <1>0 DEF WebTypeOK, VisitNamesDevice
      <3> QED BY <3>1, <3>2, <1>1 DEF AskOpen
    <2>2. UNCHANGED <<deploys, tunnel, byKey>>
      BY <1>1 DEF AskOpen
    <2> QED BY <2>1, <2>2 DEF WebInv, WebTypeOK, KeyLeads
  <1>2. ASSUME NEW v \in Visit, AskClose(v) PROVE WebInv'
    <2>1. visit' \in [Visit -> VisitRecord] /\ VisitNamesDevice'
      BY <1>2, VisitPc DEF AskClose
    <2>2. PICK d \in Device : Close(Stale(d))
      BY <1>2 DEF AskClose
    <2>3. deploys' \in Nat
      BY <1>0, <1>2 DEF AskClose, WebTypeOK
    <2> QED BY <2>1, <2>2, <2>3, CloseInv
  <1>3. ASSUME NEW v \in Visit, OpenTunnel(v) PROVE WebInv'
    BY <1>3, OpenTunnelInv
  <1>4. ASSUME NEW v \in Visit, ProxyHttp(v) PROVE WebInv'
    <2>1. PICK t \in OpenTunnels, carries \in BOOLEAN, logout \in BOOLEAN :
             /\ tunnel' = [tunnel EXCEPT ![t].idle = FALSE,
                                   ![t].auth = Authorization(tunnel[t].auth, carries, logout)]
             /\ visit' = [visit EXCEPT ![v] = [NoVisit EXCEPT !.token = t, !.pc = "sent"]]
      BY <1>4 DEF ProxyHttp
    <2>2. t \in TunnelToken /\ deploys' \in Nat /\ UNCHANGED byKey
      BY <1>4, <1>0 DEF OpenTunnels, ProxyHttp, WebTypeOK
    <2>3. Authorization(tunnel[t].auth, carries, logout) \in BOOLEAN
      BY DEF Authorization
    <2>4. /\ tunnel' \in [TunnelToken -> TunnelRecord]
          /\ \A x \in TunnelToken : tunnel'[x].state = tunnel[x].state /\ tunnel'[x].device = tunnel[x].device
      BY <2>1, <2>2, <2>3, <1>0, RequestFields, Zenon
    <2>5. [NoVisit EXCEPT !.token = t, !.pc = "sent"] \in VisitRecord
          /\ [NoVisit EXCEPT !.token = t, !.pc = "sent"].pc # "status"
      BY <2>2 DEF NoVisit, VisitRecord
    <2>6. visit' \in [Visit -> VisitRecord] /\ VisitNamesDevice'
      BY <2>1, <2>5, VisitEnds
    <2> QED BY <2>2, <2>4, <2>6, TouchInv
  <1>5. ASSUME NEW v \in Visit, ProxyWebsocket(v) PROVE WebInv'
    <2>1. PICK t \in OpenTunnels, pc \in {"bridge", "done"} :
             /\ tunnel' = [tunnel EXCEPT ![t].idle = FALSE]
             /\ visit' = [visit EXCEPT ![v] = [NoVisit EXCEPT !.token = t, !.pc = pc]]
      BY <1>5 DEF ProxyWebsocket
    <2>2. t \in TunnelToken /\ deploys' \in Nat /\ UNCHANGED byKey
      BY <1>5, <1>0 DEF OpenTunnels, ProxyWebsocket, WebTypeOK
    <2>4. /\ tunnel' \in [TunnelToken -> TunnelRecord]
          /\ \A x \in TunnelToken : tunnel'[x].state = tunnel[x].state /\ tunnel'[x].device = tunnel[x].device
      BY <2>1, <2>2, <1>0, IdleField, Zenon
    <2>5. [NoVisit EXCEPT !.token = t, !.pc = pc] \in VisitRecord
          /\ [NoVisit EXCEPT !.token = t, !.pc = pc].pc # "status"
      BY <2>2 DEF NoVisit, VisitRecord
    <2>6. visit' \in [Visit -> VisitRecord] /\ VisitNamesDevice'
      BY <2>1, <2>5, VisitEnds
    <2> QED BY <2>2, <2>4, <2>6, TouchInv
  <1>6. ASSUME NEW v \in Visit, DeviceAnswers(v) PROVE WebInv'
    <2>1. visit' \in [Visit -> VisitRecord] /\ VisitNamesDevice'
      BY <1>6, VisitDone, VisitEnds DEF DeviceAnswers
    <2>2. deploys' \in Nat /\ UNCHANGED byKey
      BY <1>6, <1>0 DEF DeviceAnswers, WebTypeOK
    <2>3. CASE visit[v].token \in TunnelToken /\ tunnel' = [tunnel EXCEPT ![visit[v].token].auth = FALSE]
      <3>1. /\ tunnel' \in [TunnelToken -> TunnelRecord]
            /\ \A x \in TunnelToken : tunnel'[x].state = tunnel[x].state /\ tunnel'[x].device = tunnel[x].device
        BY <2>3, <1>0, AuthField, Zenon
      <3> QED BY <3>1, <2>1, <2>2, TouchInv
    <2>4. CASE visit[v].token \notin TunnelToken /\ tunnel' = [tunnel EXCEPT ![visit[v].token].auth = FALSE]
      <3>1. tunnel' = tunnel
        BY <2>4, <1>0 DEF WebTypeOK
      <3> QED BY <3>1, <2>1, <2>2, <1>0, TouchInv DEF WebTypeOK
    <2>5. CASE UNCHANGED tunnel
      BY <2>5, <2>1, <2>2, <1>0, TouchInv DEF WebTypeOK
    <2> QED BY <2>3, <2>4, <2>5, <1>6 DEF DeviceAnswers
  <1>7. ASSUME NEW v \in Visit, BridgeEnds(v) PROVE WebInv'
    <2>1. visit' \in [Visit -> VisitRecord] /\ VisitNamesDevice'
      BY <1>7, VisitDone, VisitEnds DEF BridgeEnds
    <2> QED BY <2>1, <1>7 DEF WebInv, BridgeEnds, WebTypeOK, KeyLeads
  <1>8. ASSUME NEW t \in TunnelToken, Wait(t) PROVE WebInv'
    <2>1. /\ tunnel' \in [TunnelToken -> TunnelRecord]
          /\ \A x \in TunnelToken : tunnel'[x].state = tunnel[x].state /\ tunnel'[x].device = tunnel[x].device
      <3>1. CASE tunnel' = [tunnel EXCEPT ![t].idle = TRUE]
        BY <3>1, <1>0, IdleField, Zenon
      <3>2. CASE tunnel' = [tunnel EXCEPT ![t].alive = FALSE]
        BY <3>2, <1>0, AliveField, Zenon
      <3> QED BY <3>1, <3>2, <1>8 DEF Wait
    <2> QED BY <2>1, <1>0, <1>8, TouchInv DEF Wait, WebTypeOK, VisitNamesDevice
  <1>9. CASE Cleanup
    BY <1>0, <1>9, CloseInv DEF Cleanup, WebTypeOK, VisitNamesDevice
  <1>10. CASE CloseLab
    BY <1>0, <1>10, CloseInv DEF CloseLab, WebTypeOK, VisitNamesDevice
  <1>11. CASE Redeployed
    BY <1>11 DEF WebInv, Redeployed, WebTypeOK, VisitNamesDevice, KeyLeads
  <1>12. CASE UNCHANGED webVars
    BY <1>12 DEF WebInv, webVars, WebTypeOK, VisitNamesDevice, KeyLeads
  <1> QED
    BY <1>1, <1>2, <1>3, <1>4, <1>5, <1>6, <1>7, <1>8, <1>9, <1>10, <1>11, <1>12 DEF WebNext

\* webui_service.py: every open tunnel is the one its device leads to, so no device has two
\* and a close finds it, however visits, closes, redeploys and expiries interleave.
THEOREM TunnelsAreKeyed == WebSpec => []OneTunnelPerKey
  <1>1. WebInv => OneTunnelPerKey
    BY DEF WebInv, KeyLeads, OneTunnelPerKey, OpenTunnels
  <1> QED BY <1>1, WebInitInv, WebStep, PTL DEF WebSpec

-----------------------------------------------------------------------------
(* Captures.                                                               *)

CaptureRecord == [pc : {"idle", "token", "command", "starts", "attach", "streams", "ends", "gone"},
                  user : Owner \cup {"none"}, listed : BOOLEAN, attached : BOOLEAN,
                  proc : {"none", "runs", "over"}, old : BOOLEAN, late : BOOLEAN, stop : BOOLEAN]

\* The types of the sessions and of the switch of their targets.
CaptureTypeOK == capture \in [CaptureId -> CaptureRecord] /\ targets \in BOOLEAN

\* A session whose process is recorded is in or past its stream, a session that waits to be
\* stopped has no process that runs, and one that streams a live process is listed.
StreamIsListed(c) ==
    /\ c.attached => c.pc \in {"streams", "ends", "gone"}
    /\ c.stop => c.attached
    /\ c.stop => c.proc = "over"
    /\ c.pc \in {"command", "starts", "token", "idle"} => c.proc = "none"
    /\ c.attached /\ c.proc = "runs" /\ c.pc = "streams" => c.listed

CaptureInv == CaptureTypeOK /\ \A s \in CaptureId : StreamIsListed(capture[s])

\* A session that is replaced by one that is sound.
LEMMA RecordSound ==
  ASSUME CaptureInv, NEW s \in CaptureId, NEW rec \in CaptureRecord, StreamIsListed(rec),
         capture' = [capture EXCEPT ![s] = rec], targets' \in BOOLEAN
  PROVE  CaptureInv'
  BY DEF CaptureInv, CaptureTypeOK, StreamIsListed

\* The changes that the handlers and the registry make to one session.
LEMMA ClockSound ==
  ASSUME NEW c \in CaptureRecord, StreamIsListed(c), NEW b \in BOOLEAN
  PROVE  /\ [c EXCEPT !.old = b] \in CaptureRecord /\ StreamIsListed([c EXCEPT !.old = b])
         /\ [c EXCEPT !.late = b] \in CaptureRecord /\ StreamIsListed([c EXCEPT !.late = b])
  BY DEF CaptureRecord, StreamIsListed

\* _attach_process records the process exactly where the reservation is listed.
LEMMA AttachSound ==
  ASSUME NEW c \in CaptureRecord, StreamIsListed(c), c.pc = "attach", NEW b \in BOOLEAN, b => c.listed
  PROVE  /\ [c EXCEPT !.pc = "streams", !.attached = b] \in CaptureRecord
         /\ StreamIsListed([c EXCEPT !.pc = "streams", !.attached = b])
  BY DEF CaptureRecord, StreamIsListed

\* A release takes the entry away once no process is recorded or the process is over.
LEMMA ReleaseSound ==
  ASSUME NEW c \in CaptureRecord, StreamIsListed(c), NEW b \in BOOLEAN, ~b,
         ~c.attached \/ c.proc = "over"
  PROVE  /\ [c EXCEPT !.listed = b] \in CaptureRecord /\ StreamIsListed([c EXCEPT !.listed = b])
         /\ [c EXCEPT !.stop = b, !.listed = b] \in CaptureRecord
         /\ StreamIsListed([c EXCEPT !.stop = b, !.listed = b])
  BY DEF CaptureRecord, StreamIsListed

\* stop_capture ends the process of a session before it releases the entry.
LEMMA StopSound ==
  ASSUME NEW c \in CaptureRecord, StreamIsListed(c), NEW b \in BOOLEAN, c.attached
  PROVE  /\ [c EXCEPT !.stop = b, !.proc = "over"] \in CaptureRecord
         /\ StreamIsListed([c EXCEPT !.stop = b, !.proc = "over"])
  BY DEF CaptureRecord, StreamIsListed

\* _cleanup_active_locked drops no entry of a process that runs and is not ended with it.
LEMMA SweepSound ==
  ASSUME CaptureInv, NEW s \in CaptureId
  PROVE  /\ Swept[s] \in CaptureRecord /\ StreamIsListed(Swept[s])
         /\ Swept[s].pc = capture[s].pc /\ Swept[s].attached = capture[s].attached
  <1>1. capture[s] \in CaptureRecord /\ StreamIsListed(capture[s])
    BY DEF CaptureInv, CaptureTypeOK
  <1>2. CASE ~capture[s].listed \/ ~StaleCapture(s)
    BY <1>1, <1>2 DEF Swept
  <1>3. CASE capture[s].listed /\ StaleCapture(s)
    <2> DEFINE p == IF capture[s].late /\ capture[s].attached THEN "over" ELSE capture[s].proc
               r == [capture[s] EXCEPT !.listed = FALSE, !.proc = p]
    <2>1. p \in {"none", "runs", "over"} /\ (capture[s].attached => p = "over") /\ (capture[s].proc = "none" => p \in {"none", "over"})
          /\ p \in {capture[s].proc, "over"}
      BY <1>1, <1>3 DEF StaleCapture, CaptureRecord
    <2>2. Swept[s] = r
      BY <1>3 DEF Swept
    <2>3. ~capture[s].attached => p = capture[s].proc
      OBVIOUS
    <2> HIDE DEF p
    <2>4. /\ r \in CaptureRecord
          /\ r.pc = capture[s].pc /\ r.attached = capture[s].attached /\ r.stop = capture[s].stop /\ r.proc = p
      BY <1>1, <2>1 DEF CaptureRecord
    <2> HIDE DEF r
    <2>5. StreamIsListed(r)
      BY <1>1, <2>1, <2>3, <2>4 DEF StreamIsListed
    <2> QED BY <2>2, <2>4, <2>5
  <1> QED BY <1>2, <1>3

\* Every step of a capture keeps its invariant.
LEMMA CaptureStep ==
  ASSUME CaptureInv, [CaptureNext]_capVars
  PROVE  CaptureInv'
  <1>0. CaptureTypeOK /\ \A s \in CaptureId : capture[s] \in CaptureRecord /\ StreamIsListed(capture[s])
    BY DEF CaptureInv, CaptureTypeOK
  <1>1. ASSUME NEW s \in CaptureId, Launch(s) PROVE CaptureInv'
    <2>1. PICK u \in Owner : capture' = Record(s, [NoCapture EXCEPT !.pc = "token", !.user = u])
      BY <1>1 DEF Launch
    <2> DEFINE r == [NoCapture EXCEPT !.pc = "token", !.user = u]
    <2>2. r \in CaptureRecord /\ StreamIsListed(r)
      BY DEF NoCapture, CaptureRecord, StreamIsListed
    <2> HIDE DEF r
    <2>3. capture' = [capture EXCEPT ![s] = r] /\ targets' \in BOOLEAN
      BY <2>1, <1>0, <1>1 DEF r, Record, Launch, CaptureTypeOK
    <2> QED BY <2>2, <2>3, RecordSound
  <1>2. ASSUME NEW s \in CaptureId, Reserve(s) PROVE CaptureInv'
    <2>1. capture[s].pc = "token" /\ UNCHANGED targets
      BY <1>2 DEF Reserve
    <2>2. CASE capture' = [capture EXCEPT ![s].pc = "gone"]
      BY <2>1, <2>2, <1>0 DEF CaptureInv, CaptureTypeOK, CaptureRecord, StreamIsListed
    <2>3. Swept \in [CaptureId -> CaptureRecord] /\ \A x \in CaptureId : StreamIsListed(Swept[x])
          /\ Swept[s].pc = "token" 
      BY <2>1, SweepSound DEF Swept
    <2>4. CASE capture' = [Swept EXCEPT ![s].pc = "gone"]
      <3> DEFINE r == [Swept[s] EXCEPT !.pc = "gone"]
      <3>1. r \in CaptureRecord /\ StreamIsListed(r)
        BY <2>3 DEF CaptureRecord, StreamIsListed
      <3> HIDE DEF r
      <3>2. capture' = [Swept EXCEPT ![s] = r]
        BY <2>4 DEF r
      <3> QED BY <2>1, <2>3, <3>1, <3>2, <1>0 DEF CaptureInv, CaptureTypeOK
    <2>5. CASE capture' = [Swept EXCEPT ![s].pc = "command", ![s].listed = TRUE]
      <3> DEFINE r == [Swept[s] EXCEPT !.pc = "command", !.listed = TRUE]
      <3>1. r \in CaptureRecord /\ StreamIsListed(r)
        BY <2>3 DEF CaptureRecord, StreamIsListed
      <3> HIDE DEF r
      <3>2. capture' = [Swept EXCEPT ![s] = r]
        <4> DEFINE old == Swept
        <4>1. old \in [CaptureId -> CaptureRecord] /\ capture' = [old EXCEPT ![s].pc = "command", ![s].listed = TRUE]
          BY <2>3, <2>5
        <4>2. r = [old[s] EXCEPT !.pc = "command", !.listed = TRUE]
          BY DEF r
        <4> HIDE DEF old
        <4>3. capture' = [old EXCEPT ![s] = r]
          BY <4>1, <4>2
        <4> QED BY <4>3 DEF old
      <3> QED BY <2>1, <2>3, <3>1, <3>2, <1>0 DEF CaptureInv, CaptureTypeOK
    <2> QED BY <2>2, <2>4, <2>5, <1>2 DEF Reserve
  <1>3. ASSUME NEW s \in CaptureId, Command(s) PROVE CaptureInv'
    BY <1>3 DEF Command, CaptureInv, CaptureTypeOK, CaptureRecord, StreamIsListed
  <1>4. ASSUME NEW s \in CaptureId, Begin(s) PROVE CaptureInv'
    BY <1>4 DEF Begin, CaptureInv, CaptureTypeOK, CaptureRecord, StreamIsListed
  <1>5. ASSUME NEW s \in CaptureId, Attach(s) PROVE CaptureInv'
    <2> DEFINE r == [capture[s] EXCEPT !.pc = "streams", !.attached = capture[s].listed]
    <2>1. capture[s].listed \in BOOLEAN /\ capture[s].pc = "attach"
      BY <1>0, <1>5 DEF CaptureRecord, Attach
    <2>2. r \in CaptureRecord /\ StreamIsListed(r)
      BY <2>1, <1>0, AttachSound, Zenon
    <2>3. capture' = [capture EXCEPT ![s] = r] /\ targets' \in BOOLEAN
      BY <1>0, <1>5 DEF Attach, CaptureTypeOK
    <2> QED BY <2>2, <2>3, RecordSound
  <1>6. ASSUME NEW s \in CaptureId, Finish(s) PROVE CaptureInv'
    BY <1>6 DEF Finish, CaptureInv, CaptureTypeOK, CaptureRecord, StreamIsListed
  <1>7. ASSUME NEW s \in CaptureId, StopCapture(s) PROVE CaptureInv'
    <2>0. targets' \in BOOLEAN
      BY <1>0, <1>7 DEF StopCapture, CaptureTypeOK
    <2>1. CASE /\ capture[s].listed /\ ~capture[s].attached
               /\ capture' = [capture EXCEPT ![s].listed = FALSE]
      <3>1. [capture[s] EXCEPT !.listed = FALSE] \in CaptureRecord /\ StreamIsListed([capture[s] EXCEPT !.listed = FALSE])
        BY <1>0, <2>1, ReleaseSound, Zenon
      <3>2. capture' = [capture EXCEPT ![s] = [capture[s] EXCEPT !.listed = FALSE]]
        BY <2>1
      <3> QED BY <2>0, <3>1, <3>2, RecordSound, Zenon
    <2>2. CASE /\ capture[s].listed /\ capture[s].attached /\ ~capture[s].stop
               /\ capture' = [capture EXCEPT ![s].stop = TRUE, ![s].proc = "over"]
      <3>1. /\ [capture[s] EXCEPT !.stop = TRUE, !.proc = "over"] \in CaptureRecord
            /\ StreamIsListed([capture[s] EXCEPT !.stop = TRUE, !.proc = "over"])
        BY <1>0, <2>2, StopSound, Zenon
      <3>2. capture' = [capture EXCEPT ![s] = [capture[s] EXCEPT !.stop = TRUE, !.proc = "over"]]
        BY <1>0, <2>2 DEF CaptureTypeOK
      <3> QED BY <2>0, <3>1, <3>2, RecordSound, Zenon
    <2>3. CASE /\ capture[s].stop
               /\ capture' = [capture EXCEPT ![s].stop = FALSE, ![s].listed = FALSE]
      <3>0. capture[s].proc = "over"
        BY <1>0, <2>3 DEF StreamIsListed
      <3>1. /\ [capture[s] EXCEPT !.stop = FALSE, !.listed = FALSE] \in CaptureRecord
            /\ StreamIsListed([capture[s] EXCEPT !.stop = FALSE, !.listed = FALSE])
        BY <1>0, <3>0, ReleaseSound, Zenon
      <3>2. capture' = [capture EXCEPT ![s] = [capture[s] EXCEPT !.stop = FALSE, !.listed = FALSE]]
        BY <1>0, <2>3 DEF CaptureTypeOK
      <3> QED BY <2>0, <3>1, <3>2, RecordSound, Zenon
    <2> QED BY <2>1, <2>2, <2>3, <1>7 DEF StopCapture
  <1>8. ASSUME NEW s \in CaptureId, ProcessEnds(s) PROVE CaptureInv'
    BY <1>8 DEF ProcessEnds, CaptureInv, CaptureTypeOK, CaptureRecord, StreamIsListed
  <1>9. ASSUME NEW s \in CaptureId, Time(s) PROVE CaptureInv'
    <2>0. targets' \in BOOLEAN
      BY <1>0, <1>9 DEF Time, CaptureTypeOK
    <2>1. CASE capture' = [capture EXCEPT ![s].old = TRUE]
      <3>1. [capture[s] EXCEPT !.old = TRUE] \in CaptureRecord /\ StreamIsListed([capture[s] EXCEPT !.old = TRUE])
        BY <1>0, ClockSound, Zenon
      <3>2. capture' = [capture EXCEPT ![s] = [capture[s] EXCEPT !.old = TRUE]]
        BY <2>1
      <3> QED BY <2>0, <3>1, <3>2, RecordSound, Zenon
    <2>2. CASE capture' = [capture EXCEPT ![s].late = TRUE]
      <3>1. [capture[s] EXCEPT !.late = TRUE] \in CaptureRecord /\ StreamIsListed([capture[s] EXCEPT !.late = TRUE])
        BY <1>0, ClockSound, Zenon
      <3>2. capture' = [capture EXCEPT ![s] = [capture[s] EXCEPT !.late = TRUE]]
        BY <2>2
      <3> QED BY <2>0, <3>1, <3>2, RecordSound, Zenon
    <2> QED BY <2>1, <2>2, <1>9 DEF Time
  <1>10. CASE Sweep
    BY <1>0, <1>10, SweepSound DEF Sweep, Swept, CaptureInv, CaptureTypeOK
  <1>11. CASE NodeChanges
    BY <1>0, <1>11 DEF NodeChanges, CaptureInv, CaptureTypeOK
  <1>12. CASE UNCHANGED capVars
    BY <1>0, <1>12 DEF capVars, CaptureInv, CaptureTypeOK
  <1> QED
    BY <1>1, <1>2, <1>3, <1>4, <1>5, <1>6, <1>7, <1>8, <1>9, <1>10, <1>11, <1>12 DEF CaptureNext

\* capture_service.py: a capture whose process is recorded and still runs is in the list of
\* sessions: a stop finds it and it counts against the limits.
THEOREM RunningStaysListed == CaptureSpec => []RunningIsListed
  <1>1. CaptureInit => CaptureInv
    BY DEF CaptureInit, CaptureInv, CaptureTypeOK, CaptureRecord, StreamIsListed, NoCapture
  <1>2. CaptureInv => RunningIsListed
    BY DEF CaptureInv, StreamIsListed, RunningIsListed
  <1> QED BY <1>1, <1>2, CaptureStep, PTL DEF CaptureSpec

-----------------------------------------------------------------------------
(* The GUI as a whole.                                                     *)

\* The parts hold no state of one another: whatever the GUI does, each of them sees one
\* of its own steps or none.
LEMMA PartsStartAlone ==
  GuiInit => AccountsInit /\ TopologiesInit /\ LabsInit /\ LiveInit /\ WebInit /\ CaptureInit
             /\ RabbitInit
  BY DEF GuiInit

\* A step of the GUI is a step of one part that leaves the others alone.
LEMMA PartsMoveAlone ==
  ASSUME [GuiNext]_guiVars
  PROVE  /\ [AccountsNext]_accountVars /\ [TopologiesNext]_topoVars /\ [LabsNext]_labVars
         /\ [LiveNext]_liveVars /\ [WebNext]_webVars /\ [CaptureNext]_capVars
         /\ [RabbitNext]_rabbitVars
  <1>1. CASE UNCHANGED guiVars
    BY <1>1 DEF guiVars
  <1>2. CASE GuiNext
    BY <1>2 DEF GuiNext
  <1> QED BY <1>1, <1>2

\* A behaviour of the GUI is one of each of its parts: the steps of the others stutter.
THEOREM GuiImplementsItsParts ==
  GuiSpec => /\ AccountsSpec /\ TopologiesSpec /\ LabsSpec
             /\ LiveSpec /\ WebSpec /\ CaptureSpec /\ RabbitSpec
  BY PartsStartAlone, PartsMoveAlone, PTL
     DEF GuiSpec, AccountsSpec, TopologiesSpec, LabsSpec, LiveSpec, WebSpec, CaptureSpec, RabbitSpec

\* What was proved of the parts is true of the GUI: each of the properties above holds of
\* the process that runs them all.
THEOREM GuiIsSafe ==
  GuiSpec => /\ LastAdminGoesByRace /\ []DisksAreDistinct /\ OverlapOnlyByImport
             /\ []StopReachesStart /\ []NothingIsMissed /\ []ShutdownReachesAll
             /\ []OneTunnelPerKey /\ []RunningIsListed /\ []EndIsQuiet
             /\ []ForwardIsExact
  BY GuiImplementsItsParts, LastAdminLostToARace, DisksStayDistinct, OnlyImportsOverlap,
     StopAlwaysReachesStart, NothingIsEverMissed, ShutdownAlwaysReachesAll,
     TunnelsAreKeyed, RunningStaysListed, EndsStayQuiet, ForwardLegsAreExact
=============================================================================
