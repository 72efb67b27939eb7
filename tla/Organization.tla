---------------------------- MODULE Organization ----------------------------
(***************************************************************************)
(* Organizations, their users, project memberships and invites: the        *)
(* handlers of api/v1/users.py, api/v1/auth.py and the membership part of  *)
(* api/v1/projects.py.  Authentication reads the caller's role in a        *)
(* session of its own; the handler's transaction (READ COMMITTED) follows  *)
(* later, locks at most its target, and commits later still.  Every        *)
(* refusal changes nothing and is the action Refuse.                       *)
(***************************************************************************)
EXTENDS Integers, FiniteSets

CONSTANTS
    Calls,      \* concurrent requests
    UserIds,    \* user ids; the supply bounds the accounts ever created
    EmailOf,    \* the address an id is created with
    Orgs, Projects, Invites,
    Roles,      \* admin and the roles below it
    None        \* no organization, no invite

ASSUME OrganizationAssumption ==
    /\ "admin" \in Roles
    /\ DOMAIN EmailOf = UserIds
    /\ None \notin Orgs \cup Invites

VARIABLES
    public,     \* settings.public_registration_enabled
    user,       \* users: state of an id, its organization and role
    created,    \* organizations that exist
    project,    \* the organization a project belongs to
    members,    \* project_memberships
    invite,     \* organization_invites
    call,       \* where each request stands
    origin,     \* history: the invite a user was created from
    skewed,     \* history: organizations two calls took admins from at once
    raced       \* history: two registrations were open at once

history == <<origin, skewed, raced>>
vars == <<public, user, created, project, members, invite, call, history>>

-----------------------------------------------------------------------------
Emails == {EmailOf[u] : u \in UserIds}
UserRows == [st : {"unused", "deleted"}] \cup [st : {"live"}, org : Orgs, role : Roles]
InviteRows ==
    [st : {"unused"}] \cup
    [st : {"open", "expired", "accepted"}, org : Orgs, email : Emails, role : Roles,
     projects : SUBSET Projects]
CallStates ==
    [op : {"idle"}] \cup [op : {"admin"}, by : UserIds, org : Orgs]
    \cup [op : {"role"}, org : Orgs, target : UserIds, role : Roles]
    \cup [op : {"delete"}, org : Orgs, target : UserIds]
    \cup [op : {"assign"}, project : Projects, target : UserIds]
    \cup [op : {"asked"}, invite : Invites, fresh : BOOLEAN]
    \cup [op : {"accept"}, invite : Invites, user : UserIds]
    \cup [op : {"register"}, user : UserIds]

Live == {u \in UserIds : user[u].st = "live"}
UsersOf(o) == {u \in Live : user[u].org = o}
AdminsOf(o) == {u \in UsersOf(o) : user[u].role = "admin"}
Registered(e) == \E u \in Live : EmailOf[u] = e

(* Well-typed rows; an address belongs to at most one account, and every   *)
(* row points to an organization that exists.                              *)
TypeOK ==
    /\ public \in BOOLEAN
    /\ user \in [UserIds -> UserRows]
    /\ \A u, v \in Live : EmailOf[u] = EmailOf[v] => u = v
    /\ created \subseteq Orgs
    /\ project \in [Projects -> created \cup {None}]
    /\ members \subseteq Projects \X UserIds
    /\ invite \in [Invites -> InviteRows]
    /\ call \in [Calls -> CallStates]
    /\ origin \in [UserIds -> Invites \cup {None}]
    /\ skewed \subseteq created
    /\ raced \in BOOLEAN
    /\ \A u \in Live : user[u].org \in created

Init ==
    /\ public \in BOOLEAN
    /\ user = [u \in UserIds |-> [st |-> "unused"]]
    /\ created = {}
    /\ project = [p \in Projects |-> None]
    /\ members = {}
    /\ invite = [i \in Invites |-> [st |-> "unused"]]
    /\ call = [c \in Calls |-> [op |-> "idle"]]
    /\ origin = [u \in UserIds |-> None]
    /\ skewed = {}
    /\ raced = FALSE

-----------------------------------------------------------------------------
At(c, op) == call[c].op = op
Goto(c, s) == call' = [call EXCEPT ![c] = s]
Done(c) == Goto(c, [op |-> "idle"])

(* SELECT ... FOR UPDATE on a user row by another open transaction.         *)
LockedUser(c, u) ==
    \E d \in Calls \ {c} : call[d].op \in {"role", "delete"} /\ call[d].target = u

(* The calls whose transaction is to take an admin away from organization o. *)
TakesAdmin(d, o) ==
    /\ call[d].op \in {"role", "delete"} /\ call[d].org = o
    /\ user[call[d].target].st = "live" /\ user[call[d].target].role = "admin"
    /\ At(d, "delete") \/ call[d].role # "admin"

(* load_current_user_from_token and require_admin: what a call knows of its *)
(* caller is read here and not again.                                       *)
Authenticate(c, u) ==
    /\ At(c, "idle") /\ u \in Live /\ user[u].role = "admin"
    /\ Goto(c, [op |-> "admin", by |-> u, org |-> user[u].org])
    /\ UNCHANGED <<public, user, created, project, members, invite, history>>

(* A check of the handler refuses, a transaction fails, or the process dies. *)
Refuse(c) ==
    /\ ~At(c, "idle")
    /\ Done(c)
    /\ UNCHANGED <<public, user, created, project, members, invite, history>>

(* Seeded fault: the comparison is off by one. *)
KeepsAnAdmin_OffByOne(o) == Cardinality(AdminsOf(o)) > 0

(* Organization must keep at least one admin. *)
KeepsAnAdmin(o) == Cardinality(AdminsOf(o)) > 1

(* What both calls do once the target is locked: it is in the caller's      *)
(* organization and is not its last admin.                                  *)
MayRemove(c, t, o) ==
    /\ t \in UsersOf(o) /\ ~LockedUser(c, t)
    /\ user[t].role = "admin" => KeepsAnAdmin(o)

NoteSkew(c, t, o) ==
    skewed' = IF user[t].role = "admin" /\ \E d \in Calls \ {c} : TakesAdmin(d, o)
              THEN skewed \cup {o} ELSE skewed

(* update_user_role, up to its UPDATE. *)
BeginRole(c, t, r) ==
    LET o == call[c].org IN
    /\ At(c, "admin")
    /\ ~(t = call[c].by /\ r # "admin")
    /\ IF r # "admin" THEN MayRemove(c, t, o) /\ NoteSkew(c, t, o)
                      ELSE t \in UsersOf(o) /\ ~LockedUser(c, t) /\ UNCHANGED skewed
    /\ Goto(c, [op |-> "role", org |-> o, target |-> t, role |-> r])
    /\ UNCHANGED <<public, user, created, project, members, invite, origin, raced>>

CommitRole(c) ==
    /\ At(c, "role")
    /\ user' = [user EXCEPT ![call[c].target].role = call[c].role]
    /\ Done(c)
    /\ UNCHANGED <<public, created, project, members, invite, history>>

(* delete_user, up to its DELETE. *)
BeginDelete(c, t) ==
    LET o == call[c].org IN
    /\ At(c, "admin") /\ t # call[c].by
    /\ MayRemove(c, t, o) /\ NoteSkew(c, t, o)
    /\ Goto(c, [op |-> "delete", org |-> o, target |-> t])
    /\ UNCHANGED <<public, user, created, project, members, invite, origin, raced>>

(* The memberships go with the user (ON DELETE CASCADE). *)
CommitDelete(c) ==
    LET t == call[c].target IN
    /\ At(c, "delete")
    /\ user' = [user EXCEPT ![t] = [st |-> "deleted"]]
    /\ members' = {m \in members : m[2] # t}
    /\ Done(c)
    /\ UNCHANGED <<public, created, project, invite, history>>

-----------------------------------------------------------------------------
(* create_project; a registration creates the default one. *)
CreateProject(c, p) ==
    /\ At(c, "admin") /\ project[p] = None
    /\ project' = [project EXCEPT ![p] = call[c].org]
    /\ Done(c)
    /\ UNCHANGED <<public, user, created, members, invite, history>>

(* assign_project_member, up to its INSERT; nothing is locked. *)
BeginAssign(c, p, t) ==
    /\ At(c, "admin") /\ project[p] = call[c].org /\ t \in UsersOf(call[c].org)
    /\ Goto(c, [op |-> "assign", project |-> p, target |-> t])
    /\ UNCHANGED <<public, user, created, project, members, invite, history>>

(* The foreign key waits for whoever has locked the user and then checks it. *)
CommitAssign(c) ==
    LET t == call[c].target IN
    /\ At(c, "assign") /\ ~LockedUser(c, t) /\ t \in Live
    /\ members' = members \cup {<<call[c].project, t>>}
    /\ Done(c)
    /\ UNCHANGED <<public, user, created, project, invite, history>>

(* remove_project_member *)
RemoveMember(c, p, t) ==
    /\ At(c, "admin") /\ project[p] = call[c].org /\ t \in UsersOf(call[c].org)
    /\ <<p, t>> \in members
    /\ members' = members \ {<<p, t>>}
    /\ Done(c)
    /\ UNCHANGED <<public, user, created, project, invite, history>>

-----------------------------------------------------------------------------
(* Seeded fault: the projects need only exist. *)
ValidAssignments_AnyOrg(o, ps) == \A p \in ps : project[p] # None

(* validate_invite_project_assignments *)
ValidAssignments(o, ps) == \A p \in ps : project[p] = o

(* create_invite *)
CreateInvite(c, i, e, r, ps) ==
    LET o == call[c].org IN
    /\ At(c, "admin") /\ invite[i].st = "unused"
    /\ ~Registered(e) /\ ValidAssignments(o, ps)
    /\ invite' = [invite EXCEPT ![i] = [st |-> "open", org |-> o, email |-> e,
                                        role |-> r, projects |-> ps]]
    /\ Done(c)
    /\ UNCHANGED <<public, user, created, project, members, history>>

(* expires_at passes. *)
Expire(i) ==
    /\ invite[i].st = "open"
    /\ invite' = [invite EXCEPT ![i].st = "expired"]
    /\ UNCHANGED <<public, user, created, project, members, call, history>>

(* accept_invite takes the time before it waits for the row. *)
AskAccept(c, i) ==
    /\ At(c, "idle") /\ invite[i].st # "unused"
    /\ Goto(c, [op |-> "asked", invite |-> i, fresh |-> invite[i].st # "expired"])
    /\ UNCHANGED <<public, user, created, project, members, invite, history>>

Unclaimed(u) ==
    /\ user[u].st = "unused"
    /\ \A d \in Calls : call[d].op \in {"accept", "register"} => call[d].user # u

(* Seeded fault: the row is read without FOR UPDATE. *)
FreeInvite_NoLock(c, i) == invite[i].st # "accepted"

(* WHERE accepted_at IS NULL FOR UPDATE *)
FreeInvite(c, i) ==
    /\ invite[i].st # "accepted"
    /\ \A d \in Calls \ {c} : ~(At(d, "accept") /\ call[d].invite = i)

(* It locks the invite and checks it and the address. *)
BeginAccept(c, u) ==
    LET i == call[c].invite IN
    /\ At(c, "asked") /\ FreeInvite(c, i) /\ call[c].fresh
    /\ Unclaimed(u) /\ EmailOf[u] = invite[i].email /\ ~Registered(EmailOf[u])
    /\ Goto(c, [op |-> "accept", invite |-> i, user |-> u])
    /\ UNCHANGED <<public, user, created, project, members, invite, history>>

(* The unique address decides at the INSERT; user, memberships and          *)
(* accepted_at are committed together.                                      *)
CommitAccept(c) ==
    LET i == call[c].invite
        u == call[c].user IN
    /\ At(c, "accept") /\ ~Registered(EmailOf[u])
    /\ user' = [user EXCEPT ![u] = [st |-> "live", org |-> invite[i].org,
                                    role |-> invite[i].role]]
    /\ members' = members \cup (invite[i].projects \X {u})
    /\ invite' = [invite EXCEPT ![i].st = "accepted"]
    /\ origin' = [origin EXCEPT ![u] = i]
    /\ Done(c)
    /\ UNCHANGED <<public, created, project, skewed, raced>>

-----------------------------------------------------------------------------
(* Seeded fault: only the token is asked for. *)
MayRegister_TokenOnly == TRUE

(* Registration is public, or nobody has registered (the bootstrap token is *)
(* taken to be right).                                                      *)
MayRegister == public \/ Live = {}

(* register, up to its INSERTs; nothing is locked. *)
BeginRegister(c, u) ==
    /\ At(c, "idle") /\ MayRegister /\ Unclaimed(u) /\ ~Registered(EmailOf[u])
    /\ Goto(c, [op |-> "register", user |-> u])
    /\ raced' = (raced \/ \E d \in Calls : At(d, "register"))
    /\ UNCHANGED <<public, user, created, project, members, invite, origin, skewed>>

(* The three INSERTs of register: organization, admin, default project. *)
InsertOrganization(u, o, p) ==
    /\ o \notin created /\ project[p] = None
    /\ user' = [user EXCEPT ![u] = [st |-> "live", org |-> o, role |-> "admin"]]
    /\ created' = created \cup {o}
    /\ project' = [project EXCEPT ![p] = o]
    /\ UNCHANGED <<public, members, invite, history>>

(* They are committed together, if the address is still free. *)
CommitRegister(c, o, p) ==
    /\ At(c, "register") /\ ~Registered(EmailOf[call[c].user])
    /\ InsertOrganization(call[c].user, o, p)
    /\ Done(c)

-----------------------------------------------------------------------------
AdminCall(c) ==
    \/ \E t \in UserIds :
          \/ \E r \in Roles : BeginRole(c, t, r)
          \/ BeginDelete(c, t)
          \/ \E p \in Projects : BeginAssign(c, p, t) \/ RemoveMember(c, p, t)
    \/ \E p \in Projects : CreateProject(c, p)
    \/ \E i \in Invites, e \in Emails, r \in Roles, ps \in SUBSET Projects :
          CreateInvite(c, i, e, r, ps)

Next ==
    \/ \E c \in Calls :
          \/ \E u \in UserIds : Authenticate(c, u) \/ BeginAccept(c, u) \/ BeginRegister(c, u)
          \/ \E i \in Invites : AskAccept(c, i)
          \/ AdminCall(c)
          \/ CommitRole(c) \/ CommitDelete(c) \/ CommitAssign(c) \/ CommitAccept(c)
          \/ \E o \in Orgs, p \in Projects : CommitRegister(c, o, p)
          \/ Refuse(c)
    \/ \E i \in Invites : Expire(i)

Spec == Init /\ [][Next]_vars

-----------------------------------------------------------------------------
(* An organization never loses its last admin, although a call acts on an   *)
(* admin role that may have been taken from its caller meanwhile; only two  *)
(* transactions that take an admin each at the same time can do it, because *)
(* the count is not locked.                                                 *)
OrgKeepsAdmin == \A o \in created \ skewed : AdminsOf(o) # {}

(* What the refusal of update_user_role and delete_user says (users.py 385  *)
(* and 457): "Organization must keep at least one admin".                   *)
AdminAlwaysRemains == \A o \in created : AdminsOf(o) # {}

(* An invite makes at most one account for its whole life: the account      *)
(* may be deleted, and no second call with the token brings it back.        *)
InviteUsedOnce ==
    \A u, v \in UserIds : origin[u] = origin[v] /\ origin[u] # None => u = v

(* A project's members are users that exist, of the project's organization, *)
(* even if one is deleted while a call assigns it or an invite names        *)
(* projects of its own.                                                     *)
MembersBelong ==
    \A m \in members : m[2] \in Live /\ user[m[2]].org = project[m[1]]

(* Registration stays closed after the bootstrap: no second organization,   *)
(* unless two registrations overlapped or the skew above removed everybody. *)
ClosedRegistration ==
    ~public /\ ~raced /\ skewed = {} => Cardinality(created) <= 1

(* What the README says of the same setting (103-104): "After the first user *)
(* exists, registration stays closed".                                       *)
RegistrationStaysClosed == ~public => Cardinality(created) <= 1
=============================================================================
