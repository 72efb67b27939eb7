--------------------------- MODULE MCOrganization ---------------------------
(* Four accounts: two with the address ann, the others with one each. *)
EXTENDS Organization, TLC

CONSTANTS ann, u1, u2, u3, u4

MCEmailOf == u1 :> ann @@ u2 :> ann @@ u3 :> u3 @@ u4 :> u4
MCRoles == {"admin", "member"}

(* EmailOf is the same under each of these. *)
Symmetry ==
    Permutations(Calls) \cup Permutations(Orgs) \cup Permutations(Projects)
      \cup Permutations({u1, u2}) \cup Permutations({u3, u4})
=============================================================================
