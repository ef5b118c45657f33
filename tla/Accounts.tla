------------------------------ MODULE Accounts ------------------------------
(***************************************************************************)
(* Accounts, sessions and lab rows of the GUI: app/auth/*.py, user_routes, *)
(* auth_routes, and the command line scripts/manage_users.py, which works  *)
(* on the same database from a process of its own.  A request reads and    *)
(* decides in one step and commits in a later one: PostgreSQL runs them at *)
(* READ COMMITTED, so only its constraints see what others did in between. *)
(***************************************************************************)
EXTENDS Naturals, FiniteSets

CONSTANTS
    User,    \* user names (unique); a name stands for its row
    Token,   \* session cookies
    LabRow,  \* lab identifiers
    Name,    \* display names of labs
    Req,     \* requests in flight, HTTP or command line
    NoUser,  \* the owner of an unassigned lab
    Asked    \* roles that requests ask for

Role == {"admin", "graduate", "assistant", "student", "rookie"}

ASSUME AccountsAssumption == NoUser \notin User /\ Asked \subseteq Role

VARIABLES
    user,     \* users table: user name -> row
    session,  \* sessions table: token -> row
    labRow,   \* labs table: lab -> row
    req       \* what every request has decided to write (and, in `admins`, which is
              \* auxiliary, who the active administrators were then)

accountVars == <<user, session, labRow, req>>

Idle == [op |-> "none"]

\* A table without a row, and with a row written.
Without(table, k) == [x \in DOMAIN table \ {k} |-> table[x]]
With(table, k, row) == [x \in DOMAIN table \cup {k} |-> IF x = k THEN row ELSE table[x]]

-----------------------------------------------------------------------------
(* Who may do what.                                                        *)

\* load_session: the row is there, has not expired and its user is active.
Authenticated(t) == t \in DOMAIN session /\ session[t].live /\ user[session[t].user].active

RoleOrder(role) ==
    CASE role = "rookie" -> 0 [] role = "student" -> 1 [] role = "admin" -> 3 [] OTHER -> 2

\* require_role(Role.admin) for a request; _authenticate_admin for the command line,
\* which proves a password of its own and accepts only local accounts.
ActsAsAdmin(u) ==
    /\ u \in DOMAIN user
    /\ \/ \E t \in DOMAIN session : /\ Authenticated(t) /\ session[t].user = u
                                    /\ RoleOrder(user[u].role) >= RoleOrder("admin")
       \/ user[u] = [role |-> "admin", backend |-> "local_db", active |-> TRUE]

CanCreateLab(u) == user[u].role \in {"admin", "graduate", "assistant", "student"}

CanWriteLab(u, l) ==
    LET owner == labRow[l].owner
    IN \/ user[u].role = "admin"
       \/ /\ user[u].role # "rookie" /\ owner # NoUser
          /\ \/ owner = u
             \/ user[u].role \in {"graduate", "assistant"} /\ user[owner].role = "student"

ActiveAdmins == {u \in DOMAIN user :
                   user[u] = [role |-> "admin", backend |-> "local_db", active |-> TRUE]}

\* (mutant) the user that is about to go is counted as well
AllAdmins(u) == ActiveAdmins

\* _count_active_admins with exclude_id
OtherAdmins(u) == ActiveAdmins \ {u}

LocalAssistants == {u \in DOMAIN user :
                      user[u].role = "assistant" /\ user[u].backend = "local_db"}

-----------------------------------------------------------------------------
(* Requests decide ...                                                     *)

Decides(r, change) ==
    /\ req[r] = Idle
    /\ req' = [req EXCEPT ![r] = change]
    /\ UNCHANGED <<user, session, labRow>>

CreateUser(r, u, role) ==
    /\ \E a \in User : ActsAsAdmin(a)
    /\ u \notin DOMAIN user
    /\ role = "assistant" => LocalAssistants = {}
    /\ Decides(r, [op |-> "create", user |-> u, role |-> role])

\* PATCH may change role and activity at once; the activity is judged with the
\* role that has just been assigned.
PatchUser(r, a, u, role, active) ==
    /\ ActsAsAdmin(a) /\ u \in DOMAIN user
    /\ role # user[u].role \/ active # user[u].active
    /\ role # user[u].role /\ role = "assistant" => LocalAssistants \ {u} = {}
    /\ role # user[u].role /\ user[u].role = "admin" => OtherAdmins(u) # {}
    /\ active # user[u].active /\ ~active =>
         u # a /\ (role = "admin" => OtherAdmins(u) # {})
    /\ Decides(r, [op |-> "patch", user |-> u, role |-> role, active |-> active,
                   was |-> user[u], admins |-> ActiveAdmins])

\* Only the hash changes, which the model does not keep: no session is revoked.
ResetPassword(r, u) ==
    /\ \E a \in User : ActsAsAdmin(a)
    /\ u \in DOMAIN user /\ user[u].backend = "local_db"
    /\ Decides(r, [op |-> "password", user |-> u])

DeleteUser(r, a, u) ==
    /\ ActsAsAdmin(a) /\ u \in DOMAIN user /\ u # a
    /\ user[u].role = "admin" /\ user[u].active => OtherAdmins(u) # {}
    /\ Decides(r, [op |-> "delete", user |-> u, admins |-> ActiveAdmins])

\* LocalDbBackend.authenticate with the right password, then create_session.
Login(r, t, u) ==
    /\ t \notin DOMAIN session
    /\ u \in DOMAIN user /\ user[u].active /\ user[u].backend = "local_db"
    /\ Decides(r, [op |-> "login", user |-> u, token |-> t])

CreateLab(r, t, l, name) ==
    /\ t \in DOMAIN session /\ Authenticated(t) /\ CanCreateLab(session[t].user)
    /\ l \notin DOMAIN labRow
    /\ Decides(r, [op |-> "lab", user |-> session[t].user, lab |-> l, name |-> name])

DropLab(r, t, l) ==
    /\ t \in DOMAIN session /\ Authenticated(t)
    /\ l \in DOMAIN labRow /\ CanWriteLab(session[t].user, l)
    /\ Decides(r, [op |-> "unlab", lab |-> l])

-----------------------------------------------------------------------------
(* ... and commit.                                                         *)

\* Only the columns that changed are written.
Patched(row, c) == [row EXCEPT !.role = IF c.role # c.was.role THEN c.role ELSE @,
                               !.active = IF c.active # c.was.active THEN c.active ELSE @]

\* uq_users_single_local_assistant
SingleAssistant(table) ==
    \A u, v \in DOMAIN table :
        table[u].role = "assistant" /\ table[u].backend = "local_db" /\
        table[v].role = "assistant" /\ table[v].backend = "local_db" => u = v

\* ON DELETE CASCADE and SET NULL.
CascadedSessions(u) == [t \in {x \in DOMAIN session : session[x].user # u} |-> session[t]]
OrphanedLabs(u) == [l \in DOMAIN labRow |->
                      IF labRow[l].owner = u THEN [labRow[l] EXCEPT !.owner = NoUser]
                      ELSE labRow[l]]

\* uq_labs_owner_name and the foreign key of the owner.
InsertLab(c) ==
    /\ c.user \in DOMAIN user /\ c.lab \notin DOMAIN labRow
    /\ \A l \in DOMAIN labRow : labRow[l] # [owner |-> c.user, name |-> c.name]
    /\ labRow' = With(labRow, c.lab, [owner |-> c.user, name |-> c.name])
    /\ UNCHANGED <<user, session>>

\* A write the database accepts: the row is still there, its references exist and
\* the unique constraints hold.
Writes(c) ==
    CASE c.op = "create" ->
           LET table == With(user, c.user, [role |-> c.role, backend |-> "local_db", active |-> TRUE])
           IN /\ c.user \notin DOMAIN user /\ SingleAssistant(table)
              /\ user' = table /\ UNCHANGED <<session, labRow>>
      [] c.op = "patch" ->
           /\ c.user \in DOMAIN user
           /\ LET table == With(user, c.user, Patched(user[c.user], c))
              IN SingleAssistant(table) /\ user' = table
           /\ UNCHANGED <<session, labRow>>
      [] c.op = "password" -> c.user \in DOMAIN user /\ UNCHANGED <<user, session, labRow>>
      [] c.op = "delete" ->
           /\ c.user \in DOMAIN user
           /\ user' = Without(user, c.user)
           /\ session' = CascadedSessions(c.user) /\ labRow' = OrphanedLabs(c.user)
      [] c.op = "login" ->
           /\ c.user \in DOMAIN user /\ c.token \notin DOMAIN session
           /\ session' = With(session, c.token, [user |-> c.user, live |-> TRUE])
           /\ UNCHANGED <<user, labRow>>
      [] c.op = "lab" -> InsertLab(c)
      [] OTHER -> labRow' = Without(labRow, c.lab) /\ UNCHANGED <<user, session>>

Commit(r) ==
    /\ req[r] # Idle
    /\ req' = [req EXCEPT ![r] = Idle]
    /\ Writes(req[r])

\* The write is refused by the database or the connection is lost.
Abort(r) ==
    /\ req[r] # Idle
    /\ req' = [req EXCEPT ![r] = Idle]
    /\ UNCHANGED <<user, session, labRow>>

Logout(t) ==
    /\ t \in DOMAIN session /\ session' = Without(session, t)
    /\ UNCHANGED <<user, labRow, req>>

\* expires_at passes; the row stays until logout, because the request that finds it
\* expired rolls its deletion back.
Expire(t) ==
    /\ t \in DOMAIN session /\ session[t].live
    /\ session' = [session EXCEPT ![t].live = FALSE]
    /\ UNCHANGED <<user, labRow, req>>

-----------------------------------------------------------------------------

\* seed_admin.py has created the first administrator; a directory has provisioned others.
AccountsInit ==
    /\ \E a \in User, others \in SUBSET User :
         user = [u \in {a} \cup others |->
                   [role |-> "admin", active |-> TRUE,
                    backend |-> IF u = a \/ others = User THEN "local_db" ELSE "ldap"]]
    /\ session = [t \in {} |-> Idle] /\ labRow = [l \in {} |-> Idle]
    /\ req = [r \in Req |-> Idle]

UserRequest(r) ==
    \E u \in User :
        \/ \E role \in Asked : CreateUser(r, u, role)
        \/ \E a \in User, role \in Asked, active \in BOOLEAN : PatchUser(r, a, u, role, active)
        \/ ResetPassword(r, u)
        \/ \E a \in User : DeleteUser(r, a, u)
        \/ \E t \in Token : Login(r, t, u)

LabRequest(r) ==
    \E t \in Token, l \in LabRow :
        DropLab(r, t, l) \/ \E name \in Name : CreateLab(r, t, l, name)

AccountsNext ==
    \/ \E r \in Req : UserRequest(r) \/ LabRequest(r) \/ Commit(r) \/ Abort(r)
    \/ \E t \in Token : Logout(t) \/ Expire(t)

AccountsSpec == AccountsInit /\ [][AccountsNext]_accountVars

-----------------------------------------------------------------------------
(* Properties.                                                             *)

\* The last active administrator goes only when the administrators have changed between
\* the count of a request and its commit: no request, judged by what it found, takes the
\* last one away, with any change of role and activity at once, by itself or another, on
\* local accounts and those of a directory, from the routes or the command line.
LastAdminGoesByRace ==
    [][ActiveAdmins # {} /\ ActiveAdmins' = {}
         => \E r \in Req : Commit(r) /\ req[r].admins # ActiveAdmins]_accountVars
=============================================================================
