SPECIFICATION Spec
CONSTANTS
    ann = ann
    u1 = u1
    u2 = u2
    u3 = u3
    u4 = u4
    UserIds = {u1, u2, u3, u4}
    EmailOf <- MCEmailOf
    Calls = {c1, c2}
    Orgs = {o1, o2}
    Projects = {p1, p2}
    Invites = {i1}
    Roles <- MCRoles
    None = None
SYMMETRY Symmetry
INVARIANT OrgKeepsAdmin
INVARIANT InviteUsedOnce
INVARIANT MembersBelong
INVARIANT ClosedRegistration
CHECK_DEADLOCK FALSE
