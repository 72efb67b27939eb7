---------------------------- MODULE AccessProofs ----------------------------
(***************************************************************************)
(* Proofs about who may do what.                                           *)
(*                                                                         *)
(* The handlers of users, invites, memberships and registration keep       *)
(* MembersBelong, InviteUsedOnce, OrgKeepsAdmin and ClosedRegistration     *)
(* for any number of concurrent calls, users, organizations, projects and  *)
(* invites.  Authentication through the Redis cache keeps                  *)
(* WithdrawnKeyIsRefused and LiveKeyIsAccepted for any number of keys,     *)
(* requests, admin calls and faults.                                       *)
(***************************************************************************)
EXTENDS Organization, ApiKeyCache, FiniteSetTheorems, TLAPS

(* The rows agree: an invite names projects of its organization, and the    *)
(* invite that an account was created from is used up.                      *)
RowInv ==
    /\ \A i \in Invites : invite[i].st # "unused" =>
          /\ invite[i].org \in created
          /\ \A p \in invite[i].projects : project[p] = invite[i].org
    /\ \A u \in UserIds : origin[u] # None =>
          invite[origin[u]].st = "accepted" /\ user[u].st # "unused"

(* What a handler has read still holds when its transaction commits, as far *)
(* as its locks and the unique keys make it hold.                           *)
CallInv ==
    \A c \in Calls :
        /\ At(c, "admin") => call[c].org \in created
        /\ call[c].op \in {"role", "delete"} =>
              /\ call[c].org \in created
              /\ call[c].target \in Live
              /\ user[call[c].target].org = call[c].org
        /\ At(c, "assign") =>
              /\ project[call[c].project] # None
              /\ user[call[c].target].st # "unused"
              /\ call[c].target \in Live =>
                    user[call[c].target].org = project[call[c].project]
        /\ call[c].op \in {"asked", "accept"} => invite[call[c].invite].st # "unused"
        /\ At(c, "accept") => invite[call[c].invite].st # "accepted"
        /\ call[c].op \in {"accept", "register"} => user[call[c].user].st = "unused"

(* Two calls never lock the same user or invite or insert the same id. *)
ApartInv ==
    \A c, d \in Calls : c # d =>
        /\ {call[c].op, call[d].op} \subseteq {"role", "delete"} =>
              call[c].target # call[d].target
        /\ At(c, "accept") /\ At(d, "accept") => call[c].invite # call[d].invite
        /\ {call[c].op, call[d].op} \subseteq {"accept", "register"} =>
              call[c].user # call[d].user

(* Unless two calls took admins from an organization at once, at most one   *)
(* is about to, and another admin remains when it has.                      *)
AdminInv ==
    \A o \in created \ skewed : \A c \in Calls : TakesAdmin(c, o) =>
        /\ \A d \in Calls : TakesAdmin(d, o) => d = c
        /\ \E u \in AdminsOf(o) : u # call[c].target

(* While registration is closed and nothing overlapped, a registration      *)
(* under way is the only one and will create the only organization.         *)
RegisterInv ==
    ~public /\ ~raced /\ skewed = {} =>
        /\ \A c \in Calls : At(c, "register") =>
              created = {} /\ \A d \in Calls : At(d, "register") => d = c
        /\ \A o, p \in created : o = p

(* The inductive invariant. *)
IInv ==
    /\ TypeOK
    /\ RowInv
    /\ CallInv
    /\ ApartInv
    /\ AdminInv
    /\ RegisterInv
    /\ MembersBelong
    /\ InviteUsedOnce
    /\ OrgKeepsAdmin

-----------------------------------------------------------------------------
(* The fields of a users row. *)
LEMMA UserFields ==
    ASSUME TypeOK, NEW u \in UserIds
    PROVE  /\ user[u].st \in {"unused", "live", "deleted"}
           /\ user[u].st = "live" => user[u].org \in created /\ user[u].role \in Roles
  <1>1. user[u] \in UserRows
    BY DEF TypeOK
  <1>2. user[u].st = "live" => user[u].role \in Roles
    BY <1>1 DEF UserRows
  <1>3. user[u].st = "live" => user[u].org \in created
    BY DEF TypeOK, Live
  <1>4. user[u].st \in {"unused", "live", "deleted"}
    BY <1>1 DEF UserRows
  <1> QED
    BY <1>2, <1>3, <1>4

(* The fields of an organization_invites row. *)
LEMMA InviteFields ==
    ASSUME TypeOK, NEW i \in Invites
    PROVE  /\ invite[i].st \in {"unused", "open", "expired", "accepted"}
           /\ invite[i].st # "unused" =>
                 /\ invite[i] = [st |-> invite[i].st, org |-> invite[i].org,
                                 email |-> invite[i].email, role |-> invite[i].role,
                                 projects |-> invite[i].projects]
                 /\ invite[i].org \in Orgs /\ invite[i].email \in Emails
                 /\ invite[i].role \in Roles /\ invite[i].projects \subseteq Projects
  <1>1. invite[i] \in InviteRows
    BY DEF TypeOK
  <1> QED
    BY <1>1 DEF InviteRows

(* What each kind of call carries. *)
LEMMA CallFields ==
    ASSUME TypeOK, NEW c \in Calls
    PROVE  /\ At(c, "admin") => call[c].by \in UserIds /\ call[c].org \in Orgs
           /\ call[c].op \in {"role", "delete"} =>
                 call[c].org \in Orgs /\ call[c].target \in UserIds
           /\ At(c, "role") => call[c].role \in Roles
           /\ At(c, "assign") =>
                 call[c].project \in Projects /\ call[c].target \in UserIds
           /\ call[c].op \in {"asked", "accept"} => call[c].invite \in Invites
           /\ call[c].op \in {"accept", "register"} => call[c].user \in UserIds
  <1>1. call[c] \in CallStates
    BY DEF TypeOK
  <1> QED
    BY <1>1 DEF CallStates, At

(* Init establishes the inductive invariant. *)
LEMMA InitIInv == Init => IInv
  <1> SUFFICES ASSUME Init PROVE IInv
    OBVIOUS
  <1> USE DEF Init
  <1>1. TypeOK
    <2>1. user \in [UserIds -> UserRows] /\ invite \in [Invites -> InviteRows]
      BY DEF UserRows, InviteRows
    <2>2. call \in [Calls -> CallStates]
      BY DEF CallStates
    <2> QED
      BY <2>1, <2>2 DEF TypeOK, Live
  <1>2. RowInv /\ MembersBelong /\ InviteUsedOnce
    BY DEF RowInv, MembersBelong, InviteUsedOnce
  <1>3. CallInv /\ ApartInv
    BY DEF CallInv, ApartInv, At
  <1>4. AdminInv /\ RegisterInv /\ OrgKeepsAdmin
    BY DEF AdminInv, RegisterInv, OrgKeepsAdmin, At
  <1> QED
    BY <1>1, <1>2, <1>3, <1>4 DEF IInv

-----------------------------------------------------------------------------
(* The steps of a handler that write no row. *)

(* A step that leaves the rows alone keeps what is said about them. *)
LEMMA RowsKept ==
    ASSUME IInv, NEW c \in Calls, NEW s \in CallStates, Goto(c, s),
           UNCHANGED <<public, user, created, project, members, invite, origin>>,
           skewed \subseteq skewed', skewed' \subseteq created, raced' \in BOOLEAN
    PROVE  TypeOK' /\ RowInv' /\ MembersBelong' /\ InviteUsedOnce' /\ OrgKeepsAdmin'
  <1> USE DEF IInv, Goto
  <1>1. TypeOK'
    BY DEF TypeOK, Live
  <1>2. RowInv'
    BY DEF RowInv
  <1>3. MembersBelong' /\ InviteUsedOnce'
    BY DEF MembersBelong, InviteUsedOnce, Live
  <1>4. OrgKeepsAdmin'
    BY DEF OrgKeepsAdmin, AdminsOf, UsersOf, Live
  <1> QED
    BY <1>1, <1>2, <1>3, <1>4

(* A call that reads, or gives up, keeps the inductive invariant: what it   *)
(* has read is true, and it locks nothing.                                  *)
LEMMA ReadIInv ==
    ASSUME IInv, NEW c \in Calls, NEW s \in CallStates, Goto(c, s),
           UNCHANGED <<public, user, created, project, members, invite, history>>,
           s.op \in {"idle", "admin", "assign", "asked"},
           s.op = "admin" => s.org \in created,
           s.op = "assign" => /\ project[s.project] # None
                              /\ s.target \in Live
                              /\ user[s.target].org = project[s.project],
           s.op = "asked" => invite[s.invite].st # "unused"
    PROVE  IInv'
  <1> USE DEF Goto, history
  <1>0. call \in [Calls -> CallStates]
    BY DEF IInv, TypeOK
  <1>1. TypeOK' /\ RowInv' /\ MembersBelong' /\ InviteUsedOnce' /\ OrgKeepsAdmin'
    BY RowsKept DEF IInv, TypeOK
  <1>2. CallInv'
    BY <1>0 DEF IInv, CallInv, At, Live
  <1>3. ApartInv'
    BY <1>0 DEF IInv, ApartInv, At
  <1>4. AdminInv'
    <2>1. \A d \in Calls, o \in Orgs :
             TakesAdmin(d, o)' => TakesAdmin(d, o) /\ call'[d] = call[d]
      BY <1>0 DEF TakesAdmin, At
    <2> QED
      BY <2>1 DEF IInv, TypeOK, AdminInv, AdminsOf, UsersOf, Live
  <1>5. RegisterInv'
    BY <1>0 DEF IInv, RegisterInv, At
  <1> QED
    BY <1>1, <1>2, <1>3, <1>4, <1>5 DEF IInv

(* Authenticate keeps the inductive invariant. *)
LEMMA AuthenticateIInv ==
    ASSUME IInv, NEW c \in Calls, NEW u \in UserIds, Authenticate(c, u)
    PROVE  IInv'
  <1> DEFINE s == [op |-> "admin", by |-> u, org |-> user[u].org]
  <1>1. user[u].org \in created /\ user[u].org \in Orgs
    BY DEF IInv, TypeOK, Authenticate
  <1>2. s \in CallStates
    BY <1>1 DEF CallStates
  <1> QED
    BY <1>1, <1>2, ReadIInv DEF Authenticate

(* Refuse keeps the inductive invariant. *)
LEMMA RefuseIInv ==
    ASSUME IInv, NEW c \in Calls, Refuse(c)
    PROVE  IInv'
  <1>1. [op |-> "idle"] \in CallStates
    BY DEF CallStates
  <1> QED
    BY <1>1, ReadIInv DEF Refuse, Done

(* BeginAssign keeps the inductive invariant. *)
LEMMA BeginAssignIInv ==
    ASSUME IInv, NEW c \in Calls, NEW p \in Projects, NEW t \in UserIds,
           BeginAssign(c, p, t)
    PROVE  IInv'
  <1> DEFINE s == [op |-> "assign", project |-> p, target |-> t]
  <1>1. s \in CallStates
    BY DEF CallStates
  <1>2. call[c].org \in Orgs
    BY CallFields DEF IInv, BeginAssign
  <1>3. project[p] # None
    BY <1>2, OrganizationAssumption DEF BeginAssign
  <1> QED
    BY <1>1, <1>3, ReadIInv DEF BeginAssign, UsersOf

(* AskAccept keeps the inductive invariant. *)
LEMMA AskAcceptIInv ==
    ASSUME IInv, NEW c \in Calls, NEW i \in Invites, AskAccept(c, i)
    PROVE  IInv'
  <1> DEFINE s == [op |-> "asked", invite |-> i, fresh |-> invite[i].st # "expired"]
  <1>1. s \in CallStates
    BY DEF CallStates
  <1> QED
    BY <1>1, ReadIInv DEF AskAccept

(* The checks of update_user_role and delete_user: the target is live, in   *)
(* the caller's organization and locked by nobody else; an admin is taken   *)
(* only where another one is left.                                          *)
LEMMA RemovalLeavesOne ==
    ASSUME IInv, NEW c \in Calls, NEW t \in UserIds, NEW o, MayRemove(c, t, o),
           user[t].role = "admin"
    PROVE  \E u \in AdminsOf(o) : u # t
  <1> SUFFICES ASSUME \A u \in AdminsOf(o) : u = t PROVE FALSE
    OBVIOUS
  <1>1. t \in AdminsOf(o)
    BY DEF MayRemove, AdminsOf
  <1>2. AdminsOf(o) = {t}
    BY <1>1
  <1>3. Cardinality(AdminsOf(o)) = 1
    BY <1>2, FS_Singleton
  <1> QED
    BY <1>3 DEF MayRemove, KeepsAnAdmin

(* A call that locks its target keeps the inductive invariant. *)
LEMMA LockIInv ==
    ASSUME IInv, NEW c \in Calls, NEW t \in UserIds, NEW o \in created,
           NEW s \in CallStates, Goto(c, s),
           s.op \in {"role", "delete"}, s.org = o, s.target = t,
           t \in UsersOf(o), ~LockedUser(c, t),
           UNCHANGED <<public, user, created, project, members, invite, origin, raced>>,
           \/ s.op = "role" /\ s.role = "admin" /\ UNCHANGED skewed
           \/ MayRemove(c, t, o) /\ NoteSkew(c, t, o)
    PROVE  IInv'
  <1> USE DEF Goto
  <1>0. call \in [Calls -> CallStates] /\ o \in Orgs
    BY DEF IInv, TypeOK
  <1>1. skewed \subseteq skewed' /\ skewed' \subseteq created
    BY DEF IInv, TypeOK, NoteSkew
  <1>2. TypeOK' /\ RowInv' /\ MembersBelong' /\ InviteUsedOnce' /\ OrgKeepsAdmin'
    BY <1>1, RowsKept DEF IInv, TypeOK
  <1>3. CallInv'
    BY <1>0 DEF IInv, CallInv, At, Live, UsersOf
  <1>4. ApartInv'
    BY <1>0 DEF IInv, ApartInv, At, LockedUser
  <1>5. AdminInv'
    <2>1. \A d \in Calls \ {c}, x \in Orgs :
             call'[d] = call[d] /\ (TakesAdmin(d, x)' <=> TakesAdmin(d, x))
      BY <1>0 DEF TakesAdmin, At
    <2>2. ASSUME NEW x \in Orgs, TakesAdmin(c, x)'
          PROVE  /\ x = o /\ user[t].role = "admin"
                 /\ MayRemove(c, t, o) /\ NoteSkew(c, t, o)
      BY <1>0, <2>2 DEF TakesAdmin, At
    <2>3. ASSUME NEW x \in created' \ skewed', NEW d \in Calls, TakesAdmin(d, x)',
                 NEW e \in Calls, TakesAdmin(e, x)'
          PROVE  e = d
      <3>1. x \in created \ skewed /\ x \in Orgs
        BY <1>1 DEF IInv, TypeOK
      <3>2. CASE c \notin {d, e}
        BY <2>1, <2>3, <3>1, <3>2 DEF IInv, AdminInv
      <3>3. CASE d = c /\ e # c
        BY <2>1, <2>2, <2>3, <3>1, <3>3 DEF NoteSkew
      <3>4. CASE e = c /\ d # c
        BY <2>1, <2>2, <2>3, <3>1, <3>4 DEF NoteSkew
      <3> QED
        BY <3>2, <3>3, <3>4
    <2>4. ASSUME NEW x \in created' \ skewed', NEW d \in Calls, TakesAdmin(d, x)'
          PROVE  \E u \in AdminsOf(x)' : u # call'[d].target
      <3>1. x \in created \ skewed /\ x \in Orgs
        BY <1>1 DEF IInv, TypeOK
      <3>2. AdminsOf(x)' = AdminsOf(x)
        BY DEF AdminsOf, UsersOf, Live
      <3>3. CASE d # c
        BY <2>1, <2>4, <3>1, <3>2, <3>3 DEF IInv, AdminInv
      <3>4. CASE d = c
        <4>1. x = o /\ \E u \in AdminsOf(o) : u # t
          BY <2>2, <2>4, <3>1, <3>4, RemovalLeavesOne
        <4> QED
          BY <1>0, <3>2, <3>4, <4>1
      <3> QED
        BY <3>3, <3>4
    <2> QED
      BY <2>3, <2>4 DEF AdminInv
  <1>6. RegisterInv'
    BY <1>0, <1>1 DEF IInv, RegisterInv, At
  <1> QED
    BY <1>2, <1>3, <1>4, <1>5, <1>6 DEF IInv

(* BeginRole keeps the inductive invariant. *)
LEMMA BeginRoleIInv ==
    ASSUME IInv, NEW c \in Calls, NEW t \in UserIds, NEW r \in Roles,
           BeginRole(c, t, r)
    PROVE  IInv'
  <1> DEFINE o == call[c].org
             s == [op |-> "role", org |-> o, target |-> t, role |-> r]
  <1>1. o \in created /\ o \in Orgs
    BY CallFields DEF IInv, CallInv, BeginRole
  <1>2. s \in CallStates
    BY <1>1 DEF CallStates
  <1>3. t \in UsersOf(o) /\ ~LockedUser(c, t)
    BY DEF BeginRole, MayRemove
  <1> QED
    BY <1>1, <1>2, <1>3, LockIInv DEF BeginRole

(* BeginDelete keeps the inductive invariant. *)
LEMMA BeginDeleteIInv ==
    ASSUME IInv, NEW c \in Calls, NEW t \in UserIds, BeginDelete(c, t)
    PROVE  IInv'
  <1> DEFINE o == call[c].org
             s == [op |-> "delete", org |-> o, target |-> t]
  <1>1. o \in created /\ o \in Orgs
    BY CallFields DEF IInv, CallInv, BeginDelete
  <1>2. s \in CallStates
    BY <1>1 DEF CallStates
  <1>3. t \in UsersOf(o) /\ ~LockedUser(c, t)
    BY DEF BeginDelete, MayRemove
  <1> QED
    BY <1>1, <1>2, <1>3, LockIInv DEF BeginDelete

(* A call that claims a new user id, and an invite when it accepts one,     *)
(* keeps the inductive invariant.                                           *)
LEMMA ClaimIInv ==
    ASSUME IInv, NEW c \in Calls, NEW u \in UserIds, Unclaimed(u),
           NEW s \in CallStates, Goto(c, s),
           s.op \in {"accept", "register"}, s.user = u,
           s.op = "accept" => /\ s.invite \in Invites
                              /\ invite[s.invite].st # "unused"
                              /\ FreeInvite(c, s.invite),
           UNCHANGED <<public, user, created, project, members, invite, origin, skewed>>,
           raced' \in BOOLEAN, raced => raced', RegisterInv'
    PROVE  IInv'
  <1> USE DEF Goto
  <1>0. call \in [Calls -> CallStates]
    BY DEF IInv, TypeOK
  <1>1. TypeOK' /\ RowInv' /\ MembersBelong' /\ InviteUsedOnce' /\ OrgKeepsAdmin'
    BY RowsKept DEF IInv, TypeOK
  <1>2. CallInv'
    BY <1>0 DEF IInv, CallInv, At, Live, Unclaimed, FreeInvite
  <1>3. ApartInv'
    BY <1>0 DEF IInv, ApartInv, At, Unclaimed, FreeInvite
  <1>4. AdminInv'
    <2>1. \A d \in Calls, o \in Orgs :
             TakesAdmin(d, o)' => TakesAdmin(d, o) /\ call'[d] = call[d]
      BY <1>0 DEF TakesAdmin, At
    <2> QED
      BY <2>1 DEF IInv, TypeOK, AdminInv, AdminsOf, UsersOf, Live
  <1> QED
    BY <1>1, <1>2, <1>3, <1>4 DEF IInv

(* BeginAccept keeps the inductive invariant. *)
LEMMA BeginAcceptIInv ==
    ASSUME IInv, NEW c \in Calls, NEW u \in UserIds, BeginAccept(c, u)
    PROVE  IInv'
  <1> DEFINE i == call[c].invite
             s == [op |-> "accept", invite |-> i, user |-> u]
  <1>1. i \in Invites /\ invite[i].st # "unused"
    BY CallFields DEF IInv, CallInv, BeginAccept, At
  <1>2. s \in CallStates
    BY <1>1 DEF CallStates
  <1>3. RegisterInv'
    BY DEF IInv, TypeOK, RegisterInv, BeginAccept, Goto, At, history
  <1> QED
    BY <1>1, <1>2, <1>3, ClaimIInv DEF BeginAccept, IInv, TypeOK, history

(* BeginRegister keeps the inductive invariant: with registration closed it *)
(* begins only while nobody is registered, which means no organization.     *)
LEMMA BeginRegisterIInv ==
    ASSUME IInv, NEW c \in Calls, NEW u \in UserIds, BeginRegister(c, u)
    PROVE  IInv'
  <1> DEFINE s == [op |-> "register", user |-> u]
  <1>1. s \in CallStates
    BY DEF CallStates
  <1>2. ~public /\ skewed = {} => created = {}
    BY DEF IInv, OrgKeepsAdmin, AdminsOf, UsersOf, BeginRegister, MayRegister
  <1>3. RegisterInv'
    BY <1>2 DEF IInv, TypeOK, RegisterInv, BeginRegister, Goto, At
  <1>4. raced' \in BOOLEAN
    BY DEF IInv, TypeOK, BeginRegister
  <1> QED
    BY <1>1, <1>3, <1>4, ClaimIInv DEF BeginRegister

-----------------------------------------------------------------------------
(* The transactions that write.  The call is over with its commit. *)

(* A call that is over takes no admin and claims nothing. *)
LEMMA DoneCall ==
    ASSUME TypeOK, NEW c \in Calls, Done(c)
    PROVE  /\ call' \in [Calls -> CallStates]
           /\ call'[c] = [op |-> "idle"] /\ call'[c].op = "idle"
           /\ \A d \in Calls \ {c} : call'[d] = call[d]
           /\ \A d \in Calls : call'[d].op # "idle" => d # c /\ call'[d] = call[d]
  <1>1. [op |-> "idle"] \in CallStates
    BY DEF CallStates
  <1>2. call \in [Calls -> CallStates]
    BY DEF TypeOK
  <1> QED
    BY <1>1, <1>2 DEF Done, Goto

(* CreateProject keeps the inductive invariant: a project that is taken is  *)
(* never given to another organization.                                     *)
LEMMA CreateProjectIInv ==
    ASSUME IInv, NEW c \in Calls, NEW p \in Projects, CreateProject(c, p)
    PROVE  IInv'
  <1> USE DEF IInv, CreateProject, history
  <1>0. /\ call' \in [Calls -> CallStates]
        /\ \A d \in Calls : call'[d].op # "idle" => call'[d] = call[d]
    BY DoneCall
  <1>1. call[c].org \in created
    BY DEF CallInv
  <1>2. TypeOK'
    BY <1>0, <1>1 DEF TypeOK, Live
  <1>3. \A q \in Projects : project[q] # None => project'[q] = project[q]
    BY DEF TypeOK
  <1>4. RowInv'
    BY <1>3, InviteFields, OrganizationAssumption DEF TypeOK, RowInv
  <1>5. CallInv'
    <2>1. \A d \in Calls : At(d, "assign") => call[d].project \in Projects
      BY CallFields
    <2> QED
      BY <1>0, <1>3, <2>1 DEF CallInv, At, Live
  <1>6. ApartInv'
    BY <1>0 DEF ApartInv, At
  <1>7. AdminInv'
    BY <1>0 DEF AdminInv, TakesAdmin, At, AdminsOf, UsersOf, Live
  <1>8. RegisterInv'
    BY <1>0 DEF RegisterInv, At
  <1>9. MembersBelong'
    BY <1>3, OrganizationAssumption DEF TypeOK, MembersBelong, Live
  <1>10. InviteUsedOnce' /\ OrgKeepsAdmin'
    BY DEF InviteUsedOnce, OrgKeepsAdmin, AdminsOf, UsersOf, Live
  <1> QED
    BY <1>2, <1>4, <1>5, <1>6, <1>7, <1>8, <1>9, <1>10

(* A transaction that changes memberships only, and within one              *)
(* organization, keeps the inductive invariant.                             *)
LEMMA MembersIInv ==
    ASSUME IInv, NEW c \in Calls, Done(c),
           UNCHANGED <<public, user, created, project, invite, history>>,
           members' \subseteq Projects \X UserIds, MembersBelong'
    PROVE  IInv'
  <1> USE DEF IInv, history
  <1>0. /\ call' \in [Calls -> CallStates]
        /\ \A d \in Calls : call'[d].op # "idle" => call'[d] = call[d]
    BY DoneCall
  <1>1. TypeOK'
    BY <1>0 DEF TypeOK, Live
  <1>2. RowInv'
    BY DEF RowInv
  <1>3. CallInv'
    BY <1>0 DEF CallInv, At, Live
  <1>4. ApartInv'
    BY <1>0 DEF ApartInv, At
  <1>5. AdminInv'
    BY <1>0 DEF AdminInv, TakesAdmin, At, AdminsOf, UsersOf, Live
  <1>6. RegisterInv'
    BY <1>0 DEF RegisterInv, At
  <1>7. InviteUsedOnce' /\ OrgKeepsAdmin'
    BY DEF InviteUsedOnce, OrgKeepsAdmin, AdminsOf, UsersOf, Live
  <1> QED
    BY <1>1, <1>2, <1>3, <1>4, <1>5, <1>6, <1>7

(* CommitAssign keeps the inductive invariant. *)
LEMMA CommitAssignIInv ==
    ASSUME IInv, NEW c \in Calls, CommitAssign(c)
    PROVE  IInv'
  <1> USE DEF CommitAssign
  <1>1. call[c].project \in Projects /\ call[c].target \in UserIds
    BY CallFields DEF IInv
  <1>2. members' \subseteq Projects \X UserIds
    BY <1>1 DEF IInv, TypeOK
  <1>3. user[call[c].target].org = project[call[c].project]
    BY DEF IInv, CallInv
  <1>4. MembersBelong'
    BY <1>3 DEF IInv, MembersBelong, Live
  <1> QED
    BY <1>2, <1>4, MembersIInv

(* RemoveMember keeps the inductive invariant. *)
LEMMA RemoveMemberIInv ==
    ASSUME IInv, NEW c \in Calls, NEW p \in Projects, NEW t \in UserIds,
           RemoveMember(c, p, t)
    PROVE  IInv'
  <1> USE DEF RemoveMember
  <1>1. members' \subseteq Projects \X UserIds
    BY DEF IInv, TypeOK
  <1>2. MembersBelong'
    BY DEF IInv, MembersBelong, Live
  <1> QED
    BY <1>1, <1>2, MembersIInv

(* CreateInvite keeps the inductive invariant. *)
LEMMA CreateInviteIInv ==
    ASSUME IInv, NEW c \in Calls, NEW i \in Invites, NEW e \in Emails,
           NEW r \in Roles, NEW ps \in SUBSET Projects, CreateInvite(c, i, e, r, ps)
    PROVE  IInv'
  <1> USE DEF IInv, CreateInvite, history
  <1>0. /\ call' \in [Calls -> CallStates]
        /\ \A d \in Calls : call'[d].op # "idle" => call'[d] = call[d]
    BY DoneCall
  <1> DEFINE row == [st |-> "open", org |-> call[c].org, email |-> e,
                     role |-> r, projects |-> ps]
  <1>1. /\ call[c].org \in created /\ call[c].org \in Orgs
        /\ row \in InviteRows
    BY CallFields DEF CallInv, InviteRows
  <1>2. invite' \in [Invites -> InviteRows]
    BY <1>1 DEF TypeOK
  <1>3. /\ invite'[i] = row
        /\ \A j \in Invites \ {i} : invite'[j] = invite[j]
    BY DEF TypeOK
  <1>4. TypeOK'
    BY <1>0, <1>2 DEF TypeOK, Live
  <1>5. RowInv'
    BY <1>1, <1>3 DEF TypeOK, RowInv, ValidAssignments
  <1>6. CallInv'
    <2>1. \A d \in Calls : call[d].op \in {"asked", "accept"} => call[d].invite \in Invites
      BY CallFields
    <2> QED
      BY <1>0, <1>3, <2>1 DEF CallInv, At, Live
  <1>7. ApartInv'
    BY <1>0 DEF ApartInv, At
  <1>8. AdminInv'
    BY <1>0 DEF AdminInv, TakesAdmin, At, AdminsOf, UsersOf, Live
  <1>9. RegisterInv'
    BY <1>0 DEF RegisterInv, At
  <1>10. MembersBelong' /\ InviteUsedOnce' /\ OrgKeepsAdmin'
    BY DEF MembersBelong, InviteUsedOnce, OrgKeepsAdmin, AdminsOf, UsersOf, Live
  <1> QED
    BY <1>4, <1>5, <1>6, <1>7, <1>8, <1>9, <1>10

(* An invite whose status alone changes keeps its fields. *)
LEMMA InviteStatus ==
    ASSUME TypeOK, NEW i \in Invites, invite[i].st # "unused",
           NEW st \in {"open", "expired", "accepted"},
           invite' = [invite EXCEPT ![i].st = st]
    PROVE  /\ invite' \in [Invites -> InviteRows]
           /\ invite'[i].st = st
           /\ \A j \in Invites : invite'[j].org = invite[j].org
                                  /\ invite'[j].projects = invite[j].projects
           /\ \A j \in Invites \ {i} : invite'[j] = invite[j]
  <1>1. invite[i] \in InviteRows /\ invite'[i] = [invite[i] EXCEPT !.st = st]
    BY DEF TypeOK
  <1>2. /\ invite'[i] \in InviteRows
        /\ invite'[i].st = st
        /\ invite'[i].org = invite[i].org /\ invite'[i].projects = invite[i].projects
    BY <1>1 DEF InviteRows
  <1>3. \A j \in Invites \ {i} : invite'[j] = invite[j]
    BY DEF TypeOK
  <1> QED
    BY <1>2, <1>3 DEF TypeOK

(* Expire keeps the inductive invariant. *)
LEMMA ExpireIInv ==
    ASSUME IInv, NEW i \in Invites, Expire(i)
    PROVE  IInv'
  <1> USE DEF IInv, Expire, history
  <1>1. /\ invite' \in [Invites -> InviteRows]
        /\ invite'[i].st = "expired"
        /\ \A j \in Invites : invite'[j].org = invite[j].org
                               /\ invite'[j].projects = invite[j].projects
        /\ \A j \in Invites \ {i} : invite'[j] = invite[j]
    BY InviteStatus
  <1>2. TypeOK'
    BY <1>1 DEF TypeOK, Live
  <1>3. RowInv'
    BY <1>1 DEF TypeOK, RowInv
  <1>4. CallInv'
    <2>1. \A d \in Calls : call[d].op \in {"asked", "accept"} => call[d].invite \in Invites
      BY CallFields
    <2> QED
      BY <1>1, <2>1 DEF CallInv, At, Live
  <1>5. ApartInv' /\ RegisterInv'
    BY DEF ApartInv, RegisterInv, At
  <1>6. AdminInv'
    BY DEF AdminInv, TakesAdmin, At, AdminsOf, UsersOf, Live
  <1>7. MembersBelong' /\ InviteUsedOnce' /\ OrgKeepsAdmin'
    BY DEF MembersBelong, InviteUsedOnce, OrgKeepsAdmin, AdminsOf, UsersOf, Live
  <1> QED
    BY <1>2, <1>3, <1>4, <1>5, <1>6, <1>7

(* A transaction that takes a role or a user away leaves the organization   *)
(* an admin, unless another one took an admin at the same time.             *)
LEMMA AdminsRemain ==
    ASSUME IInv, NEW c \in Calls, call[c].op \in {"role", "delete"}, Done(c),
           UNCHANGED <<created, skewed>>,
           \A u \in UserIds \ {call[c].target} : user'[u] = user[u],
           \/ /\ user'[call[c].target].st = "live"
              /\ user'[call[c].target].role = "admin"
              /\ user'[call[c].target].org = user[call[c].target].org
           \/ At(c, "delete") \/ call[c].role # "admin"
    PROVE  AdminInv' /\ OrgKeepsAdmin'
  <1> DEFINE t == call[c].target
  <1> USE DEF IInv
  <1>0. \A d \in Calls : call'[d].op # "idle" => d # c /\ call'[d] = call[d]
    BY DoneCall
  <1>1. /\ t \in UserIds /\ user[t].st = "live" /\ user[t].org = call[c].org
        /\ created \subseteq Orgs
    BY CallFields DEF TypeOK, CallInv, Live
  <1>2. ASSUME NEW d \in Calls, NEW o \in Orgs, TakesAdmin(d, o)'
        PROVE  d # c /\ call'[d] = call[d] /\ TakesAdmin(d, o)
    <2>1. d # c /\ call'[d] = call[d] /\ call[d].op \in {"role", "delete"}
      BY <1>0, <1>2 DEF TakesAdmin
    <2>2. call[d].target # t /\ call[d].target \in UserIds
      BY <2>1, CallFields DEF ApartInv
    <2> QED
      BY <1>2, <2>1, <2>2 DEF TakesAdmin, At
  <1>3. ASSUME NEW o \in Orgs, NEW u \in AdminsOf(o), u \notin AdminsOf(o)'
        PROVE  u = t /\ TakesAdmin(c, o)
    <2>1. u = t
      BY <1>3 DEF AdminsOf, UsersOf, Live
    <2>2. user[t].st = "live" /\ user[t].role = "admin" /\ user[t].org = o
      BY <2>1 DEF AdminsOf, UsersOf, Live
    <2>3. At(c, "delete") \/ call[c].role # "admin"
      BY <1>1, <1>3, <2>1, <2>2 DEF AdminsOf, UsersOf, Live
    <2> QED
      BY <1>1, <2>1, <2>2, <2>3 DEF TakesAdmin
  <1>4. AdminInv'
    <2> SUFFICES ASSUME NEW o \in created \ skewed, NEW d \in Calls, TakesAdmin(d, o)'
                 PROVE  /\ \A e \in Calls : TakesAdmin(e, o)' => e = d
                        /\ \E u \in AdminsOf(o)' : u # call'[d].target
      BY DEF AdminInv
    <2>1. o \in Orgs /\ d # c /\ call'[d] = call[d] /\ TakesAdmin(d, o)
      BY <1>1, <1>2
    <2>2. \A e \in Calls : TakesAdmin(e, o) => e = d
      BY <2>1 DEF AdminInv
    <2>3. PICK u \in AdminsOf(o) : u # call[d].target
      BY <2>1 DEF AdminInv
    <2>4. u \in AdminsOf(o)'
      BY <1>3, <2>1, <2>2
    <2> QED
      BY <1>2, <2>1, <2>2, <2>3, <2>4
  <1>5. OrgKeepsAdmin'
    <2> SUFFICES ASSUME NEW o \in created \ skewed
                 PROVE  AdminsOf(o)' # {}
      BY DEF OrgKeepsAdmin
    <2>1. PICK u \in AdminsOf(o) : TRUE
      BY DEF OrgKeepsAdmin
    <2>2. CASE u \in AdminsOf(o)'
      BY <2>2
    <2>3. CASE u \notin AdminsOf(o)'
      <3>1. TakesAdmin(c, o)
        BY <1>1, <1>3, <2>3
      <3>2. PICK v \in AdminsOf(o) : v # t
        BY <3>1 DEF AdminInv
      <3>3. v \in AdminsOf(o)'
        BY <1>1, <1>3, <3>2
      <3> QED
        BY <3>3
    <2> QED
      BY <2>2, <2>3
  <1> QED
    BY <1>4, <1>5

(* CommitRole keeps the inductive invariant. *)
LEMMA CommitRoleIInv ==
    ASSUME IInv, NEW c \in Calls, CommitRole(c)
    PROVE  IInv'
  <1> DEFINE t == call[c].target
  <1> USE DEF IInv, CommitRole, history
  <1>0. /\ call' \in [Calls -> CallStates]
        /\ \A d \in Calls : call'[d].op # "idle" => call'[d] = call[d]
    BY DoneCall
  <1>1. /\ t \in UserIds /\ user[t].st = "live" /\ call[c].role \in Roles
        /\ call[c].op = "role"
    BY CallFields DEF CallInv, Live, At
  <1>2. user[t] \in UserRows /\ user'[t] = [user[t] EXCEPT !.role = call[c].role]
    BY <1>1 DEF TypeOK
  <1>3. /\ user'[t] \in UserRows /\ user'[t].st = "live"
        /\ user'[t].org = user[t].org /\ user'[t].role = call[c].role
    BY <1>1, <1>2 DEF UserRows
  <1>4. \A u \in UserIds \ {t} : user'[u] = user[u]
    BY DEF TypeOK
  <1>5. user' \in [UserIds -> UserRows]
    BY <1>3 DEF TypeOK
  <1>6. Live' = Live /\ \A u \in Live : user'[u].org = user[u].org
    BY <1>1, <1>3, <1>4 DEF Live
  <1>7. \A u \in UserIds : user'[u].st = user[u].st
    BY <1>1, <1>3, <1>4
  <1>8. TypeOK'
    BY <1>0, <1>5, <1>6 DEF TypeOK
  <1>9. RowInv'
    BY <1>7 DEF RowInv
  <1>10. CallInv'
    <2>1. \A d \in Calls : /\ At(d, "assign") => call[d].target \in UserIds
                           /\ call[d].op \in {"accept", "register"} =>
                                 call[d].user \in UserIds
      BY CallFields
    <2> QED
      BY <1>0, <1>6, <1>7, <2>1 DEF CallInv, At
  <1>11. ApartInv'
    BY <1>0 DEF ApartInv, At
  <1>12. AdminInv' /\ OrgKeepsAdmin'
    BY <1>1, <1>3, <1>4, AdminsRemain
  <1>13. RegisterInv'
    BY <1>0 DEF RegisterInv, At
  <1>14. MembersBelong' /\ InviteUsedOnce'
    BY <1>6 DEF MembersBelong, InviteUsedOnce
  <1> QED
    BY <1>8, <1>9, <1>10, <1>11, <1>12, <1>13, <1>14

(* CommitDelete keeps the inductive invariant. *)
LEMMA CommitDeleteIInv ==
    ASSUME IInv, NEW c \in Calls, CommitDelete(c)
    PROVE  IInv'
  <1> DEFINE t == call[c].target
  <1> USE DEF IInv, CommitDelete, history
  <1>0. /\ call' \in [Calls -> CallStates]
        /\ \A d \in Calls : call'[d].op # "idle" => d # c /\ call'[d] = call[d]
    BY DoneCall
  <1>1. t \in UserIds /\ user[t].st = "live" /\ call[c].op = "delete"
    BY CallFields DEF CallInv, Live, At
  <1>2. /\ user'[t] = [st |-> "deleted"] /\ user'[t].st = "deleted"
        /\ \A u \in UserIds \ {t} : user'[u] = user[u]
    BY <1>1 DEF TypeOK
  <1>3. user' \in [UserIds -> UserRows]
    BY DEF TypeOK, UserRows
  <1>4. Live' = Live \ {t} /\ \A u \in Live' : user'[u] = user[u]
    BY <1>1, <1>2 DEF Live
  <1>5. \A u \in UserIds : user'[u].st = "unused" <=> user[u].st = "unused"
    BY <1>1, <1>2
  <1>6. TypeOK'
    BY <1>0, <1>3, <1>4 DEF TypeOK
  <1>7. RowInv'
    BY <1>5 DEF RowInv
  <1>8. CallInv'
    <2>1. \A d \in Calls : /\ At(d, "assign") => call[d].target \in UserIds
                           /\ call[d].op \in {"accept", "register"} =>
                                 call[d].user \in UserIds
      BY CallFields
    <2>2. \A d \in Calls : d # c /\ call[d].op \in {"role", "delete"} =>
             call[d].target # t
      BY <1>1 DEF ApartInv
    <2> QED
      BY <1>0, <1>4, <1>5, <2>1, <2>2 DEF CallInv, At
  <1>9. ApartInv'
    BY <1>0 DEF ApartInv, At
  <1>10. AdminInv' /\ OrgKeepsAdmin'
    BY <1>1, <1>2, AdminsRemain DEF At
  <1>11. RegisterInv'
    BY <1>0 DEF RegisterInv, At
  <1>12. MembersBelong' /\ InviteUsedOnce'
    BY <1>4 DEF MembersBelong, InviteUsedOnce
  <1> QED
    BY <1>6, <1>7, <1>8, <1>9, <1>10, <1>11, <1>12

(* A new account takes nothing from anybody: users that were live stay as   *)
(* they are, and so do the admins of every organization.                    *)
LEMMA NewcomerKeeps ==
    ASSUME IInv, NEW c \in Calls, Done(c), NEW u \in UserIds,
           user[u].st = "unused", NEW row \in UserRows, row.st = "live",
           user' = [user EXCEPT ![u] = row], ~Registered(EmailOf[u])
    PROVE  /\ user' \in [UserIds -> UserRows]
           /\ Live' = Live \cup {u} /\ u \notin Live /\ user'[u] = row
           /\ \A v \in UserIds \ {u} : user'[v] = user[v]
           /\ \A v, w \in Live' : EmailOf[v] = EmailOf[w] => v = w
           /\ \A o : AdminsOf(o) \subseteq AdminsOf(o)'
           /\ \A d \in Calls, o \in created : TakesAdmin(d, o)' =>
                 d # c /\ call'[d] = call[d] /\ TakesAdmin(d, o)
  <1> USE DEF IInv
  <1>0. \A d \in Calls : call'[d].op # "idle" => d # c /\ call'[d] = call[d]
    BY DoneCall
  <1>1. user' \in [UserIds -> UserRows] /\ user'[u] = row
    BY DEF TypeOK
  <1>2. \A v \in UserIds \ {u} : user'[v] = user[v]
    BY DEF TypeOK
  <1>3. Live' = Live \cup {u} /\ u \notin Live
    BY <1>1, <1>2 DEF Live
  <1>4. \A v, w \in Live' : EmailOf[v] = EmailOf[w] => v = w
    BY <1>3 DEF TypeOK, Registered
  <1>5. \A o : AdminsOf(o) \subseteq AdminsOf(o)'
    BY <1>2, <1>3 DEF AdminsOf, UsersOf, Live
  <1>6. ASSUME NEW d \in Calls, NEW o \in created, TakesAdmin(d, o)'
        PROVE  d # c /\ call'[d] = call[d] /\ TakesAdmin(d, o)
    <2>1. d # c /\ call'[d] = call[d] /\ call[d].op \in {"role", "delete"}
      BY <1>0, <1>6 DEF TakesAdmin
    <2>2. call[d].target \in Live
      BY <2>1 DEF CallInv
    <2>3. user'[call[d].target] = user[call[d].target]
      BY <1>2, <1>3, <2>2 DEF Live
    <2> QED
      BY <1>6, <2>1, <2>3 DEF TakesAdmin, At
  <1> QED
    BY <1>1, <1>2, <1>3, <1>4, <1>5, <1>6

(* CommitAccept keeps the inductive invariant. *)
LEMMA CommitAcceptIInv ==
    ASSUME IInv, NEW c \in Calls, CommitAccept(c)
    PROVE  IInv'
  <1> DEFINE i == call[c].invite
             u == call[c].user
             row == [st |-> "live", org |-> invite[i].org, role |-> invite[i].role]
  <1> USE DEF IInv, CommitAccept
  <1>0. /\ call' \in [Calls -> CallStates]
        /\ \A d \in Calls : call'[d].op # "idle" => d # c /\ call'[d] = call[d]
    BY DoneCall
  <1>1. /\ i \in Invites /\ u \in UserIds /\ call[c].op = "accept"
        /\ invite[i].st # "unused" /\ invite[i].st # "accepted"
        /\ user[u].st = "unused"
    BY CallFields DEF CallInv, At
  <1>2. /\ invite[i].org \in Orgs /\ invite[i].role \in Roles
        /\ invite[i].projects \subseteq Projects /\ invite[i].org \in created
    BY <1>1, InviteFields DEF RowInv
  <1>3. row \in UserRows /\ row.st = "live" /\ row.org = invite[i].org
    BY <1>2 DEF UserRows
  <1>4. /\ user' \in [UserIds -> UserRows]
        /\ Live' = Live \cup {u} /\ u \notin Live /\ user'[u] = row
        /\ \A v \in UserIds \ {u} : user'[v] = user[v]
        /\ \A v, w \in Live' : EmailOf[v] = EmailOf[w] => v = w
        /\ \A o : AdminsOf(o) \subseteq AdminsOf(o)'
        /\ \A d \in Calls, o \in created : TakesAdmin(d, o)' =>
              d # c /\ call'[d] = call[d] /\ TakesAdmin(d, o)
    BY <1>1, <1>3, NewcomerKeeps
  <1>5. /\ invite' \in [Invites -> InviteRows]
        /\ invite'[i].st = "accepted"
        /\ \A j \in Invites : invite'[j].org = invite[j].org
                               /\ invite'[j].projects = invite[j].projects
        /\ \A j \in Invites \ {i} : invite'[j] = invite[j]
    BY <1>1, InviteStatus
  <1>6. TypeOK'
    <2>1. members' \subseteq Projects \X UserIds
      BY <1>1, <1>2 DEF TypeOK
    <2>2. origin' \in [UserIds -> Invites \cup {None}]
      BY <1>1 DEF TypeOK
    <2>3. \A v \in Live' : user'[v].org \in created
      BY <1>2, <1>3, <1>4 DEF TypeOK, Live
    <2> QED
      BY <1>0, <1>4, <1>5, <2>1, <2>2, <2>3 DEF TypeOK
  <1>7. RowInv'
    <2>1. \A v \in UserIds \ {u} : origin'[v] = origin[v]
      BY DEF TypeOK
    <2>2. origin'[u] = i
      BY <1>1 DEF TypeOK
    <2>3. \A j \in Invites : invite'[j].st # "unused" => invite[j].st # "unused"
      BY <1>1, <1>5
    <2>4. \A v \in UserIds : origin'[v] # None =>
             invite'[origin'[v]].st = "accepted" /\ user'[v].st # "unused"
      BY <1>1, <1>3, <1>4, <1>5, <2>1, <2>2 DEF TypeOK, RowInv
    <2> QED
      BY <1>5, <2>3, <2>4 DEF RowInv
  <1>8. CallInv'
    <2>1. \A d \in Calls : /\ At(d, "assign") => call[d].target \in UserIds
                           /\ call[d].op \in {"accept", "register"} =>
                                 call[d].user \in UserIds
                           /\ call[d].op \in {"asked", "accept"} =>
                                 call[d].invite \in Invites
      BY CallFields
    <2>2. \A d \in Calls \ {c} :
             /\ At(d, "accept") => call[d].invite # i
             /\ call[d].op \in {"accept", "register"} => call[d].user # u
      BY <1>1 DEF ApartInv, At
    <2>3. \A v \in Live : v # u /\ user'[v] = user[v]
      BY <1>4 DEF Live
    <2>4. \A d \in Calls : At(d, "assign") => call[d].target # u
      BY <1>1 DEF CallInv
    <2>5. SUFFICES ASSUME NEW d \in Calls, call'[d].op # "idle"
                   PROVE  /\ At(d, "admin") => call[d].org \in created
                          /\ call[d].op \in {"role", "delete"} =>
                                /\ call[d].org \in created
                                /\ call[d].target \in Live'
                                /\ user'[call[d].target].org = call[d].org
                          /\ At(d, "assign") =>
                                /\ project[call[d].project] # None
                                /\ user'[call[d].target].st # "unused"
                                /\ call[d].target \in Live' =>
                                      user'[call[d].target].org = project[call[d].project]
                          /\ call[d].op \in {"asked", "accept"} =>
                                invite'[call[d].invite].st # "unused"
                          /\ At(d, "accept") => invite'[call[d].invite].st # "accepted"
                          /\ call[d].op \in {"accept", "register"} =>
                                user'[call[d].user].st = "unused"
      BY <1>0 DEF CallInv, At
    <2>6. d # c
      BY <1>0, <2>5
    <2>7. At(d, "admin") => call[d].org \in created
      BY DEF CallInv
    <2>8. call[d].op \in {"role", "delete"} =>
             /\ call[d].org \in created /\ call[d].target \in Live'
             /\ user'[call[d].target].org = call[d].org
      BY <1>4, <2>3 DEF CallInv
    <2>9. At(d, "assign") =>
             /\ project[call[d].project] # None
             /\ user'[call[d].target].st # "unused"
             /\ call[d].target \in Live' =>
                   user'[call[d].target].org = project[call[d].project]
      BY <1>4, <2>1, <2>3, <2>4 DEF CallInv
    <2>10. /\ call[d].op \in {"asked", "accept"} => invite'[call[d].invite].st # "unused"
           /\ At(d, "accept") => invite'[call[d].invite].st # "accepted"
      <3>1. call[d].invite = i => invite'[call[d].invite].st = "accepted"
        BY <1>5
      <3>2. call[d].op \in {"asked", "accept"} /\ call[d].invite # i =>
               invite'[call[d].invite] = invite[call[d].invite]
        BY <1>5, <2>1
      <3> QED BY <2>2, <2>6, <3>1, <3>2 DEF CallInv, At
    <2>11. call[d].op \in {"accept", "register"} => user'[call[d].user].st = "unused"
      BY <1>4, <2>1, <2>2, <2>6 DEF CallInv
    <2> QED BY <2>7, <2>8, <2>9, <2>10, <2>11
  <1>9. ApartInv'
    BY <1>0 DEF ApartInv, At
  <1>10. AdminInv' /\ OrgKeepsAdmin'
    BY <1>4 DEF AdminInv, OrgKeepsAdmin
  <1>11. RegisterInv'
    BY <1>0 DEF RegisterInv, At
  <1>12. MembersBelong'
    <2>1. \A p \in invite[i].projects : project[p] = invite[i].org
      BY <1>1 DEF RowInv
    <2>2. \A m \in members : m[2] \in Live' /\ user'[m[2]].org = project[m[1]]
      BY <1>4 DEF MembersBelong, Live
    <2>3. \A m \in invite[i].projects \X {u} :
             m[2] \in Live' /\ user'[m[2]].org = project[m[1]]
      BY <1>3, <1>4, <2>1
    <2> QED
      BY <2>2, <2>3 DEF MembersBelong
  <1>13. InviteUsedOnce'
    <2>1. \A v \in UserIds \ {u} : origin'[v] = origin[v] /\ origin[v] # i
      BY <1>1, OrganizationAssumption DEF TypeOK, RowInv
    <2>2. origin'[u] = i
      BY <1>1 DEF TypeOK
    <2> QED
      BY <2>1, <2>2 DEF InviteUsedOnce
  <1> QED
    BY <1>6, <1>7, <1>8, <1>9, <1>10, <1>11, <1>12, <1>13

(* CommitRegister keeps the inductive invariant. *)
LEMMA CommitRegisterIInv ==
    ASSUME IInv, NEW c \in Calls, NEW o \in Orgs, NEW p \in Projects,
           CommitRegister(c, o, p)
    PROVE  IInv'
  <1> DEFINE u == call[c].user
             row == [st |-> "live", org |-> o, role |-> "admin"]
  <1> USE DEF IInv, CommitRegister, InsertOrganization, history
  <1>0. /\ call' \in [Calls -> CallStates]
        /\ \A d \in Calls : call'[d].op # "idle" => d # c /\ call'[d] = call[d]
    BY DoneCall
  <1>1. u \in UserIds /\ call[c].op = "register" /\ user[u].st = "unused"
    BY CallFields DEF CallInv, At
  <1>2. row \in UserRows /\ row.st = "live" /\ row.org = o
    BY OrganizationAssumption DEF UserRows
  <1>3. /\ user' \in [UserIds -> UserRows]
        /\ Live' = Live \cup {u} /\ u \notin Live /\ user'[u] = row
        /\ \A v \in UserIds \ {u} : user'[v] = user[v]
        /\ \A v, w \in Live' : EmailOf[v] = EmailOf[w] => v = w
        /\ \A x : AdminsOf(x) \subseteq AdminsOf(x)'
        /\ \A d \in Calls, x \in created : TakesAdmin(d, x)' =>
              d # c /\ call'[d] = call[d] /\ TakesAdmin(d, x)
    BY <1>1, <1>2, NewcomerKeeps
  <1>4. \A q \in Projects : project[q] # None => project'[q] = project[q]
    BY DEF TypeOK
  <1>5. TypeOK'
    <2>1. project' \in [Projects -> created' \cup {None}]
      BY DEF TypeOK
    <2>2. \A v \in Live' : user'[v].org \in created'
      BY <1>2, <1>3 DEF TypeOK, Live
    <2>3. created' \subseteq Orgs /\ skewed' \subseteq created'
      BY DEF TypeOK
    <2> QED
      BY <1>0, <1>3, <2>1, <2>2, <2>3 DEF TypeOK
  <1>6. RowInv'
    <2>1. \A j \in Invites : invite[j].st # "unused" =>
             \A q \in invite[j].projects : q \in Projects /\ project[q] # None
                                            /\ project[q] = invite[j].org
      BY InviteFields, OrganizationAssumption DEF RowInv, TypeOK
    <2>2. \A v \in UserIds : user[v].st # "unused" => user'[v].st # "unused"
      BY <1>1, <1>3
    <2> QED
      BY <1>4, <2>1, <2>2 DEF RowInv
  <1>7. CallInv'
    <2>1. \A d \in Calls : /\ At(d, "assign") => /\ call[d].target \in UserIds
                                                 /\ call[d].project \in Projects
                           /\ call[d].op \in {"accept", "register"} =>
                                 call[d].user \in UserIds
      BY CallFields
    <2>2. \A d \in Calls \ {c} :
             call[d].op \in {"accept", "register"} => call[d].user # u
      BY <1>1 DEF ApartInv, At
    <2>3. \A v \in Live : v # u /\ user'[v] = user[v]
      BY <1>3 DEF Live
    <2>4. \A d \in Calls : At(d, "assign") => call[d].target # u
      BY <1>1 DEF CallInv
    <2> QED
      BY <1>0, <1>3, <1>4, <2>1, <2>2, <2>3, <2>4 DEF CallInv, At
  <1>8. ApartInv'
    BY <1>0 DEF ApartInv, At
  <1>9. \A d \in Calls : ~TakesAdmin(d, o)'
    BY <1>0 DEF TakesAdmin, CallInv
  <1>10. AdminInv'
    BY <1>3, <1>9 DEF AdminInv
  <1>11. OrgKeepsAdmin'
    <2>1. u \in AdminsOf(o)'
      BY <1>2, <1>3 DEF AdminsOf, UsersOf, Live
    <2> QED
      BY <1>3, <2>1 DEF OrgKeepsAdmin
  <1>12. RegisterInv'
    BY <1>0, <1>1 DEF RegisterInv, At
  <1>13. MembersBelong'
    BY <1>3, <1>4, OrganizationAssumption DEF TypeOK, MembersBelong, Live
  <1>14. InviteUsedOnce'
    BY DEF InviteUsedOnce
  <1> QED
    BY <1>5, <1>6, <1>7, <1>8, <1>10, <1>11, <1>12, <1>13, <1>14

-----------------------------------------------------------------------------
(* Every step of every handler keeps the inductive invariant. *)
LEMMA NextIInv == IInv /\ [Next]_vars => IInv'
  <1> SUFFICES ASSUME IInv, [Next]_vars PROVE IInv'
    OBVIOUS
  <1>1. CASE UNCHANGED vars
    <2> USE <1>1 DEF vars, history, IInv
    <2>1. TypeOK' /\ RowInv' /\ MembersBelong' /\ InviteUsedOnce' /\ OrgKeepsAdmin'
      BY DEF TypeOK, RowInv, MembersBelong, InviteUsedOnce, OrgKeepsAdmin,
             AdminsOf, UsersOf, Live
    <2>2. CallInv' /\ ApartInv' /\ RegisterInv'
      BY DEF CallInv, ApartInv, RegisterInv, At, Live
    <2>3. AdminInv'
      BY DEF AdminInv, TakesAdmin, At, AdminsOf, UsersOf, Live
    <2> QED
      BY <2>1, <2>2, <2>3
  <1>2. CASE Next
    BY <1>2, AuthenticateIInv, RefuseIInv, BeginRoleIInv, BeginDeleteIInv,
       BeginAssignIInv, RemoveMemberIInv, CreateProjectIInv, CreateInviteIInv,
       ExpireIInv, AskAcceptIInv, BeginAcceptIInv, BeginRegisterIInv,
       CommitRoleIInv, CommitDeleteIInv, CommitAssignIInv, CommitAcceptIInv,
       CommitRegisterIInv
    DEF Next, AdminCall
  <1> QED
    BY <1>1, <1>2

(* The inductive invariant holds in every reachable state. *)
THEOREM Invariance == Spec => []IInv
  BY InitIInv, NextIInv, PTL DEF Spec

(* assign_project_member, delete_user and accept_invite: a project's        *)
(* members exist and belong to its organization, although none of the       *)
(* handlers that add one locks the user or the project.                     *)
THEOREM MembersDoBelong == Spec => []MembersBelong
  BY Invariance, PTL DEF IInv

(* accept_invite: FOR UPDATE on an invite that is not accepted makes one    *)
(* account of it, whatever calls with the same token overlap.               *)
THEOREM InviteOnce == Spec => []InviteUsedOnce
  BY Invariance, PTL DEF IInv

(* update_user_role and delete_user: an organization keeps an admin unless  *)
(* two calls took one each at the same time.                                *)
THEOREM KeepsAdmin == Spec => []OrgKeepsAdmin
  BY Invariance, PTL DEF IInv

(* register: with public registration off there is never a second           *)
(* organization, unless registrations overlapped or an organization lost    *)
(* its admins to the race above.                                            *)
THEOREM RegistrationCloses == Spec => []ClosedRegistration
  <1>1. IInv => ClosedRegistration
    <2> SUFFICES ASSUME IInv, ~public, ~raced, skewed = {}
                 PROVE  Cardinality(created) <= 1
      BY DEF ClosedRegistration
    <2>1. \A o, p \in created : o = p
      BY DEF IInv, RegisterInv
    <2>2. CASE created = {}
      BY <2>2, FS_EmptySet
    <2>3. ASSUME NEW o \in created
          PROVE  Cardinality(created) <= 1
      <3>1. created = {o}
        BY <2>1
      <3> QED
        BY <3>1, FS_Singleton
    <2> QED
      BY <2>2, <2>3
  <1> QED
    BY <1>1, Invariance, PTL

-----------------------------------------------------------------------------
(* API keys and their cache. *)

(* A call that is over has nothing left to delete.  One rotate_api_key at a *)
(* time holds the project's row, and the entry it will delete is that of    *)
(* the key in use.                                                          *)
RotationInv ==
    /\ \A a \in Admins : apc[a] = "idle" => drop[a] = {}
    /\ \A a, b \in Admins : apc[a] = "locked" /\ apc[b] = "locked" => a = b
    /\ \A a \in Admins : apc[a] = "locked" =>
           drop[a] = {k \in Legacy : status[k] = "live"}

(* No entry of the key is in the cache or about to be put there. *)
Gone(k) ==
    /\ status[k] = "dead"
    /\ left[k] = 0
    /\ \A q \in Requests : ~(rpc[q] = "store" /\ rkey[q] = k)

(* A dead key whose deletion neither failed nor is still to come is gone    *)
(* from the cache for good.                                                 *)
CacheInv ==
    \A k \in Keys :
        (status[k] = "dead" /\ k \notin tainted /\ \A a \in Admins : k \notin drop[a])
          => Gone(k)

(* What a request knows: a key that was withdrawn before it began stays     *)
(* gone, one that was live existed, and only a key with the scope it needs  *)
(* takes it as far as the cache.                                            *)
RequestInv ==
    \A q \in Requests :
        /\ then[q] = "withdrawn" =>
              rpc[q] \notin {"store", "granted"} /\ Gone(rkey[q])
        /\ then[q] = "live" => status[rkey[q]] # "unused"
        /\ rpc[q] \in {"store", "granted"} => ApiKeyAllows(rkey[q], NeedOf[q])

(* The inductive invariant. *)
KeyInv ==
    /\ KeyTypeOK
    /\ RotationInv
    /\ CacheInv
    /\ RequestInv
    /\ LiveKeyIsAccepted

-----------------------------------------------------------------------------
(* KeyInit establishes the inductive invariant. *)
LEMMA InitKeyInv == KeyInit => KeyInv
  <1> SUFFICES ASSUME KeyInit PROVE KeyInv
    OBVIOUS
  <1> USE ApiKeyAssumption DEF KeyInit
  <1>1. KeyTypeOK
    <2>1. \A j \in Legacy : status[j] = "live" <=> j = First
      OBVIOUS
    <2>2. \E k \in Legacy : \A j \in Legacy : status[j] = "live" <=> j = k
      BY <2>1
    <2>3. left \in [Keys -> 0 .. TTL] /\ faults \in 0 .. MaxFaults
      OBVIOUS
    <2> QED
      BY <2>2, <2>3 DEF KeyTypeOK, Verdicts
  <1>2. RotationInv
    BY DEF RotationInv
  <1>3. CacheInv /\ RequestInv /\ LiveKeyIsAccepted
    BY DEF CacheInv, RequestInv, Gone, LiveKeyIsAccepted
  <1> QED
    BY <1>1, <1>2, <1>3 DEF KeyInv

(* Tick keeps the inductive invariant. *)
LEMMA TickKeyInv ==
    ASSUME KeyInv, Tick
    PROVE  KeyInv'
  <1> USE DEF KeyInv, Tick, request, admin, keyHistory
  <1>1. \A k \in Keys : /\ left'[k] \in 0 .. TTL
                        /\ left[k] = 0 => left'[k] = 0
    BY ApiKeyAssumption DEF KeyTypeOK
  <1>2. KeyTypeOK'
    BY <1>1 DEF KeyTypeOK
  <1>3. RotationInv'
    BY DEF RotationInv
  <1>4. CacheInv' /\ RequestInv'
    BY <1>1 DEF KeyTypeOK, CacheInv, RequestInv, Gone, ApiKeyAllows
  <1>5. LiveKeyIsAccepted'
    BY DEF LiveKeyIsAccepted
  <1> QED
    BY <1>2, <1>3, <1>4, <1>5

(* Begin keeps the inductive invariant: a request that finds its key        *)
(* withdrawn finds it gone from the cache.                                  *)
LEMMA BeginKeyInv ==
    ASSUME KeyInv, NEW q \in Requests, NEW k \in Keys, Begin(q, k)
    PROVE  KeyInv'
  <1> USE DEF KeyInv, Begin, admin
  <1>1. KeyTypeOK'
    BY DEF KeyTypeOK, Verdicts
  <1>2. RotationInv'
    BY DEF RotationInv
  <1>3. CacheInv'
    BY DEF KeyTypeOK, CacheInv, Gone
  <1>4. RequestInv'
    BY DEF KeyTypeOK, CacheInv, RequestInv, Gone, ApiKeyAllows
  <1>5. LiveKeyIsAccepted'
    BY DEF KeyTypeOK, LiveKeyIsAccepted
  <1> QED
    BY <1>1, <1>2, <1>3, <1>4, <1>5

(* A request that goes on without touching the cache keeps the inductive    *)
(* invariant, where it may go on to store only an allowed and live key, and *)
(* is refused only without one.                                             *)
LEMMA GotoKeyInv ==
    ASSUME KeyInv, NEW q \in Requests, NEW p, KeyGoto(q, p),
           p \in {"load", "store"} \cup Verdicts,
           p = "store" => status[rkey[q]] = "live",
           p = "granted" => then[q] # "withdrawn",
           p \in {"store", "granted"} => ApiKeyAllows(rkey[q], NeedOf[q]),
           (p \in {"unknown", "denied"} /\ status[rkey[q]] = "live")
              => ~ApiKeyAllows(rkey[q], NeedOf[q]),
           UNCHANGED <<status, left, admin, keyHistory>>,
           faults' \in 0 .. MaxFaults
    PROVE  KeyInv'
  <1> USE DEF KeyInv, KeyGoto, admin, keyHistory
  <1>1. KeyTypeOK'
    BY DEF KeyTypeOK, Verdicts
  <1>2. RotationInv'
    BY DEF RotationInv
  <1>3. CacheInv'
    BY DEF KeyTypeOK, CacheInv, Gone
  <1>4. RequestInv'
    BY DEF KeyTypeOK, RequestInv, Gone, ApiKeyAllows
  <1>5. LiveKeyIsAccepted'
    BY DEF KeyTypeOK, LiveKeyIsAccepted, ApiKeyAllows
  <1> QED
    BY <1>1, <1>2, <1>3, <1>4, <1>5

(* LookUp keeps the inductive invariant. *)
LEMMA LookUpKeyInv ==
    ASSUME KeyInv, NEW q \in Requests, LookUp(q)
    PROVE  KeyInv'
  <1>1. faults' \in 0 .. MaxFaults
    BY DEF KeyInv, KeyTypeOK, LookUp
  <1>2. left[rkey[q]] > 0 => then[q] # "withdrawn"
    BY DEF KeyInv, RequestInv, Gone
  <1>3. CASE KeyGoto(q, "load")
    BY <1>1, <1>3, GotoKeyInv DEF LookUp, Verdicts
  <1>4. CASE /\ left[rkey[q]] > 0 /\ ApiKeyAllows(rkey[q], NeedOf[q])
             /\ KeyGoto(q, "granted")
    BY <1>1, <1>2, <1>4, GotoKeyInv DEF LookUp, Verdicts
  <1>5. CASE ~ApiKeyAllows(rkey[q], NeedOf[q]) /\ KeyGoto(q, "denied")
    BY <1>1, <1>5, GotoKeyInv DEF LookUp, Verdicts
  <1> QED
    BY <1>3, <1>4, <1>5 DEF LookUp

(* Load keeps the inductive invariant. *)
LEMMA LoadKeyInv ==
    ASSUME KeyInv, NEW q \in Requests, Load(q)
    PROVE  KeyInv'
  <1>1. faults' \in 0 .. MaxFaults
    BY DEF KeyInv, KeyTypeOK, Load
  <1>2. CASE status[rkey[q]] # "live" /\ KeyGoto(q, "unknown")
    BY <1>1, <1>2, GotoKeyInv DEF Load, Verdicts
  <1>3. CASE ~ApiKeyAllows(rkey[q], NeedOf[q]) /\ KeyGoto(q, "denied")
    BY <1>1, <1>3, GotoKeyInv DEF Load, Verdicts
  <1>4. CASE /\ status[rkey[q]] = "live" /\ ApiKeyAllows(rkey[q], NeedOf[q])
             /\ KeyGoto(q, "store")
    BY <1>1, <1>4, GotoKeyInv DEF Load, Verdicts
  <1> QED
    BY <1>2, <1>3, <1>4 DEF Load

(* Store keeps the inductive invariant: no key that is gone is stored. *)
LEMMA StoreKeyInv ==
    ASSUME KeyInv, NEW q \in Requests, Store(q)
    PROVE  KeyInv'
  <1> USE DEF KeyInv, Store, KeyGoto, admin, keyHistory
  <1>1. KeyTypeOK'
    BY ApiKeyAssumption DEF KeyTypeOK, Verdicts
  <1>2. RotationInv'
    BY DEF RotationInv
  <1>3. \A k \in Keys : Gone(k) => Gone(k)'
    BY DEF KeyTypeOK, Gone
  <1>4. CacheInv'
    BY <1>3 DEF CacheInv
  <1>5. RequestInv'
    BY <1>3 DEF KeyTypeOK, RequestInv, ApiKeyAllows
  <1>6. LiveKeyIsAccepted'
    BY DEF KeyTypeOK, LiveKeyIsAccepted
  <1> QED
    BY <1>1, <1>2, <1>4, <1>5, <1>6

(* RequestFails keeps the inductive invariant. *)
LEMMA RequestFailsKeyInv ==
    ASSUME KeyInv, NEW q \in Requests, RequestFails(q)
    PROVE  KeyInv'
  <1>1. faults' \in 0 .. MaxFaults
    BY ApiKeyAssumption DEF KeyInv, KeyTypeOK, RequestFails
  <1> QED
    BY <1>1, GotoKeyInv DEF RequestFails, Verdicts

(* Answer keeps the inductive invariant. *)
LEMMA AnswerKeyInv ==
    ASSUME KeyInv, NEW q \in Requests, Answer(q)
    PROVE  KeyInv'
  <1> USE DEF KeyInv, Answer, admin
  <1>1. KeyTypeOK'
    BY ApiKeyAssumption DEF KeyTypeOK, Verdicts
  <1>2. RotationInv'
    BY DEF RotationInv
  <1>3. CacheInv'
    BY DEF KeyTypeOK, CacheInv, Gone
  <1>4. RequestInv'
    BY DEF KeyTypeOK, RequestInv, Gone, ApiKeyAllows
  <1>5. LiveKeyIsAccepted'
    BY DEF KeyTypeOK, LiveKeyIsAccepted
  <1> QED
    BY <1>1, <1>2, <1>3, <1>4, <1>5

-----------------------------------------------------------------------------
(* CreateApiKey keeps the inductive invariant. *)
LEMMA CreateKeyInv ==
    ASSUME KeyInv, NEW k \in Keys, CreateApiKey(k)
    PROVE  KeyInv'
  <1> USE DEF KeyInv, CreateApiKey, request, admin, keyHistory
  <1>1. KeyTypeOK'
    BY ApiKeyAssumption DEF KeyTypeOK
  <1>2. RotationInv'
    BY ApiKeyAssumption DEF KeyTypeOK, RotationInv
  <1>3. CacheInv'
    BY DEF KeyTypeOK, CacheInv, Gone
  <1>4. RequestInv'
    BY DEF KeyTypeOK, RequestInv, Gone, ApiKeyAllows
  <1>5. LiveKeyIsAccepted'
    BY DEF KeyTypeOK, RequestInv, LiveKeyIsAccepted
  <1> QED
    BY <1>1, <1>2, <1>3, <1>4, <1>5

(* Revoke keeps the inductive invariant. *)
LEMMA RevokeKeyInv ==
    ASSUME KeyInv, NEW a \in Admins, NEW k \in Keys, Revoke(a, k)
    PROVE  KeyInv'
  <1> USE DEF KeyInv, Revoke, request, keyHistory
  <1>1. KeyTypeOK'
    BY ApiKeyAssumption DEF KeyTypeOK
  <1>2. RotationInv'
    BY ApiKeyAssumption DEF KeyTypeOK, RotationInv
  <1>3. CacheInv'
    BY DEF KeyTypeOK, RotationInv, CacheInv, Gone
  <1>4. RequestInv'
    BY DEF KeyTypeOK, RequestInv, Gone, ApiKeyAllows
  <1>5. LiveKeyIsAccepted'
    BY DEF KeyTypeOK, LiveKeyIsAccepted
  <1> QED
    BY <1>1, <1>2, <1>3, <1>4, <1>5

(* RotateLock keeps the inductive invariant. *)
LEMMA RotateLockKeyInv ==
    ASSUME KeyInv, NEW a \in Admins, RotateLock(a)
    PROVE  KeyInv'
  <1> USE DEF KeyInv, RotateLock, request, keyHistory
  <1>1. KeyTypeOK'
    BY ApiKeyAssumption DEF KeyTypeOK
  <1>2. RotationInv'
    BY DEF KeyTypeOK, RotationInv
  <1>3. CacheInv'
    BY DEF KeyTypeOK, RotationInv, CacheInv, Gone
  <1>4. RequestInv'
    BY DEF KeyTypeOK, RequestInv, Gone, ApiKeyAllows
  <1>5. LiveKeyIsAccepted'
    BY DEF LiveKeyIsAccepted
  <1> QED
    BY <1>1, <1>2, <1>3, <1>4, <1>5

(* What a rotation does to the keys: the new one becomes live, the one it   *)
(* replaces dead, and both are among the entries it will delete.            *)
LEMMA RotatedKeys ==
    ASSUME KeyInv, NEW a \in Admins, NEW k \in Keys, RotateCommit(a, k)
    PROVE  /\ status'[k] = "live" /\ status[k] = "unused"
           /\ \A j \in Keys \ {k} :
                 status'[j] = (IF j \in Legacy /\ status[j] = "live"
                               THEN "dead" ELSE status[j])
           /\ \A j \in Keys : status'[j] # status[j] => j \in drop'[a]
  <1> USE DEF RotateCommit, Rotated
  <1>1. status'[k] = "live" /\ status[k] = "unused"
    OBVIOUS
  <1>2. ASSUME NEW j \in Keys \ {k}
        PROVE  status'[j] = IF j \in Legacy /\ status[j] = "live"
                            THEN "dead" ELSE status[j]
    OBVIOUS
  <1>3. ASSUME NEW j \in Keys, status'[j] # status[j]
        PROVE  j \in drop'[a]
    BY <1>1, <1>2, <1>3 DEF KeyInv, KeyTypeOK, RotationInv
  <1> QED
    BY <1>1, <1>2, <1>3

(* RotateCommit keeps the inductive invariant. *)
LEMMA RotateCommitKeyInv ==
    ASSUME KeyInv, NEW a \in Admins, NEW k \in Keys, RotateCommit(a, k)
    PROVE  KeyInv'
  <1> USE DEF KeyInv, RotateCommit, request, keyHistory
  <1>0. /\ k \in Legacy
        /\ status'[k] = "live" /\ status[k] = "unused"
        /\ \A j \in Keys \ {k} :
              status'[j] = IF j \in Legacy /\ status[j] = "live"
                           THEN "dead" ELSE status[j]
        /\ \A j \in Keys : status'[j] # status[j] => j \in drop'[a]
    BY RotatedKeys
  <1>1. KeyTypeOK'
    <2>1. status' \in [Keys -> {"unused", "live", "dead"}]
      BY <1>0 DEF KeyTypeOK, Rotated
    <2>2. \A j \in Legacy : status'[j] = "live" <=> j = k
      BY <1>0, ApiKeyAssumption DEF KeyTypeOK
    <2> QED
      BY <1>0, <2>1, <2>2 DEF KeyTypeOK
  <1>2. RotationInv'
    BY DEF KeyTypeOK, RotationInv
  <1>3. CacheInv'
    BY <1>0 DEF KeyTypeOK, CacheInv, Gone
  <1>4. RequestInv'
    BY <1>0 DEF KeyTypeOK, RequestInv, Gone, ApiKeyAllows
  <1>5. LiveKeyIsAccepted'
    BY <1>0 DEF KeyTypeOK, RequestInv, LiveKeyIsAccepted
  <1> QED
    BY <1>1, <1>2, <1>3, <1>4, <1>5

(* An admin call that ends having deleted some of its entries keeps the     *)
(* inductive invariant.                                                     *)
LEMMA EndAdminKeyInv ==
    ASSUME KeyInv, NEW a \in Admins, apc[a] = "invalidate",
           NEW D \in SUBSET drop[a], EndAdmin(a, D), faults' \in 0 .. MaxFaults
    PROVE  KeyInv'
  <1> USE DEF KeyInv, EndAdmin, request
  <1>1. KeyTypeOK'
    BY ApiKeyAssumption DEF KeyTypeOK
  <1>2. RotationInv'
    BY DEF KeyTypeOK, RotationInv
  <1>3. \A k \in Keys : Gone(k) => Gone(k)'
    BY DEF KeyTypeOK, Gone
  <1>4. CacheInv'
    BY <1>3 DEF KeyTypeOK, CacheInv, Gone
  <1>5. RequestInv'
    BY <1>3 DEF KeyTypeOK, RequestInv, ApiKeyAllows
  <1>6. LiveKeyIsAccepted'
    BY DEF LiveKeyIsAccepted
  <1> QED
    BY <1>1, <1>2, <1>4, <1>5, <1>6

(* Invalidate keeps the inductive invariant. *)
LEMMA InvalidateKeyInv ==
    ASSUME KeyInv, NEW a \in Admins, Invalidate(a)
    PROVE  KeyInv'
  <1>1. faults' \in 0 .. MaxFaults
    BY DEF KeyInv, KeyTypeOK, Invalidate
  <1> QED
    BY <1>1, EndAdminKeyInv DEF Invalidate

(* InvalidateFails keeps the inductive invariant. *)
LEMMA InvalidateFailsKeyInv ==
    ASSUME KeyInv, NEW a \in Admins, InvalidateFails(a)
    PROVE  KeyInv'
  <1>1. faults' \in 0 .. MaxFaults
    BY ApiKeyAssumption DEF KeyInv, KeyTypeOK, InvalidateFails
  <1> QED
    BY <1>1, EndAdminKeyInv DEF InvalidateFails

(* RotateFails keeps the inductive invariant: the keys it would have        *)
(* replaced are live still.                                                 *)
LEMMA RotateFailsKeyInv ==
    ASSUME KeyInv, NEW a \in Admins, RotateFails(a)
    PROVE  KeyInv'
  <1> USE DEF KeyInv, RotateFails, request, keyHistory
  <1>1. KeyTypeOK'
    <2>1. faults' \in 0 .. MaxFaults
      BY ApiKeyAssumption DEF KeyTypeOK
    <2> QED
      BY <2>1 DEF KeyTypeOK
  <1>2. RotationInv'
    BY DEF KeyTypeOK, RotationInv
  <1>3. CacheInv'
    BY DEF KeyTypeOK, RotationInv, CacheInv, Gone
  <1>4. RequestInv'
    BY DEF KeyTypeOK, RequestInv, Gone, ApiKeyAllows
  <1>5. LiveKeyIsAccepted'
    BY DEF LiveKeyIsAccepted
  <1> QED
    BY <1>1, <1>2, <1>3, <1>4, <1>5

-----------------------------------------------------------------------------
(* Every step of a request, an admin call or the clock keeps the inductive  *)
(* invariant.                                                               *)
LEMMA NextKeyInv == KeyInv /\ [KeyNext]_keyVars => KeyInv'
  <1> SUFFICES ASSUME KeyInv, [KeyNext]_keyVars PROVE KeyInv'
    OBVIOUS
  <1>1. CASE UNCHANGED keyVars
    BY <1>1 DEF keyVars, request, admin, keyHistory, KeyInv, KeyTypeOK, RotationInv,
                CacheInv, RequestInv, Gone, LiveKeyIsAccepted, ApiKeyAllows
  <1>2. CASE KeyNext
    BY <1>2, TickKeyInv, BeginKeyInv, LookUpKeyInv, LoadKeyInv, StoreKeyInv, AnswerKeyInv,
       RequestFailsKeyInv, CreateKeyInv, RevokeKeyInv, RotateLockKeyInv,
       RotateCommitKeyInv, InvalidateKeyInv, InvalidateFailsKeyInv, RotateFailsKeyInv
    DEF KeyNext, RequestStep, AdminStep
  <1> QED
    BY <1>1, <1>2

(* The inductive invariant holds in every reachable state. *)
THEOREM KeyInvariance == KeySpec => []KeyInv
  BY InitKeyInv, NextKeyInv, PTL DEF KeySpec

(* get_project_from_api_key never grants a request that began after its key *)
(* was withdrawn and its cache entry deleted, nor one beyond the key's      *)
(* scope, whatever requests and admin calls overlap.                        *)
THEOREM WithdrawnRefused == KeySpec => []WithdrawnKeyIsRefused
  <1>1. KeyInv => WithdrawnKeyIsRefused
    BY DEF KeyInv, RequestInv, WithdrawnKeyIsRefused, ApiKeyAllows
  <1> QED
    BY <1>1, KeyInvariance, PTL

(* get_project_from_api_key never calls a key unknown or denied that was    *)
(* live when the request began, still is, and has the scope, whatever state *)
(* the cache is in.                                                         *)
THEOREM LiveAccepted == KeySpec => []LiveKeyIsAccepted
  BY KeyInvariance, PTL DEF KeyInv
=============================================================================
