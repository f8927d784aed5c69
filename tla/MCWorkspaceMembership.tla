----------------------- MODULE MCWorkspaceMembership -----------------------
(***************************************************************************)
(* Small instances of WorkspaceMembership: two or three users share a      *)
(* workspace, with two requests at once.                                   *)
(***************************************************************************)
EXTENDS WorkspaceMembership, TLC

CONSTANTS u1, u2, u3, w1, r1, r2

UserSymmetry == Permutations(Users)

MembershipSymmetry ==
  UserSymmetry \cup Permutations(Requests)

=============================================================================
