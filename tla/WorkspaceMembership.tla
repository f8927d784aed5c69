------------------------ MODULE WorkspaceMembership ------------------------
(***************************************************************************)
(* workspaces/services.py: who belongs to which workspace, in which role.   *)
(* Web workers run each operation in one transaction at READ COMMITTED:     *)
(* its plain reads see what is committed when they run, SELECT ... FOR      *)
(* UPDATE waits for the row, and its writes appear at its commit.  An       *)
(* action is a statement that reads what another transaction may change, or *)
(* the last one with the commit; a lock and the read behind it are one      *)
(* action, since nobody else changes the locked row in between.  Requests   *)
(* that are refused before they lock anything change nothing.               *)
(***************************************************************************)
EXTENDS Naturals

CONSTANTS
  Users,      \* accounts
  Workspaces, \* team and personal workspaces, created or not
  Requests,   \* transactions that may run at once
  Limits,     \* values of max_uses
  NoLimit,    \* max_uses is None
  Idle,       \* a request slot without a transaction
  MaxUses     \* bound: redemptions of a code that sets no limit

ASSUME MembershipAssumption ==
  /\ Limits \subseteq Nat \cup {NoLimit}
  /\ NoLimit \notin Nat
  /\ MaxUses \in Nat

VARIABLES
  alive,      \* the accounts
  state,      \* [Workspaces -> {"new", "live", "gone"}]
  role,       \* [Workspaces -> [Users -> Roles]], the membership rows
  pending,    \* [Workspaces -> [Users -> Nat]], pending invitations
  code,       \* [Workspaces -> Codes], an invite code of each workspace
  tx          \* [Requests -> Transactions]

vars == <<alive, state, role, pending, code, tx>>

(* Rows are always active: no code writes the status "pending".             *)
Roles == {"none", "member", "admin"}
Codes == [issued : BOOLEAN, active : BOOLEAN, limit : Limits \cup {NoLimit}, uses : Nat]
NoCode == [issued |-> FALSE, active |-> FALSE, limit |-> NoLimit, uses |-> 0]

(* A removal is the change to the role "none".  admins: those the last-admin *)
(* check found in the workspace, before the transaction writes anything.    *)
Change == [op : {"change"}, workspace : Workspaces, member : Users, to : Roles,
           locked : BOOLEAN, admins : SUBSET Users]
Redemption == [op : {"redeem"}, actor : Users, workspace : Workspaces, uses : Nat]
Invitation == [op : {"invite"}, workspace : Workspaces, member : Users]
Deletion == [op : {"delete"}, actor : Users, rows : SUBSET Workspaces,
             unchecked : SUBSET Workspaces, solo : SUBSET Workspaces,
             admins : [Workspaces -> SUBSET Users]]
Transactions == {Idle} \cup Change \cup Redemption \cup Invitation \cup Deletion

Runs(r, op) == tx[r] # Idle /\ tx[r].op = op
End(r) == tx' = [tx EXCEPT ![r] = Idle]

Members(w) == {u \in Users : role[w][u] # "none"}
Admins(w) == {u \in Users : role[w][u] = "admin"}

(* Row locks: SELECT ... FOR UPDATE of memberships; with select_related,    *)
(* an account deletion locks the workspaces of its rows as well, and a      *)
(* redemption the workspace of its invite code.                             *)
Holds(r, w, u) ==
  \/ Runs(r, "change") /\ tx[r].locked /\ tx[r].workspace = w /\ tx[r].member = u
  \/ Runs(r, "delete") /\ w \in tx[r].rows /\ tx[r].actor = u
HeldByOther(r, w, u) == \E q \in Requests \ {r} : Holds(q, w, u)

(* Wrong variant of Locks: a deletion locks its membership rows only.       *)
LocksForCodes(r, w) == Runs(r, "redeem") /\ tx[r].workspace = w

Locks(r, w) ==
  \/ Runs(r, "redeem") /\ tx[r].workspace = w
  \/ Runs(r, "delete") /\ w \in tx[r].rows

(* A row that is inserted takes a share of the row lock of the workspace it *)
(* refers to, so it waits for whoever has locked the workspace.             *)
LockedByOther(r, w) == \E q \in Requests \ {r} : Locks(q, w)

Init ==
  /\ alive = Users
  /\ state = [w \in Workspaces |-> "new"]
  /\ role = [w \in Workspaces |-> [u \in Users |-> "none"]]
  /\ pending = [w \in Workspaces |-> [u \in Users |-> 0]]
  /\ code = [w \in Workspaces |-> NoCode]
  /\ tx = [r \in Requests |-> Idle]

-----------------------------------------------------------------------------
CreateWorkspace(r, u, w) ==
  /\ tx[r] = Idle /\ u \in alive
  /\ state[w] = "new"
  /\ state' = [state EXCEPT ![w] = "live"]
  /\ role' = [role EXCEPT ![w][u] = "admin"]
  /\ UNCHANGED <<alive, pending, code, tx>>

(* One code per workspace: each has a row and a count of its own.  No caller *)
(* sets expires_at.                                                         *)
IssueInviteCode(r, u, w, limit) ==
  /\ tx[r] = Idle
  /\ u \in Admins(w)
  /\ ~code[w].issued /\ ~LockedByOther(r, w)
  /\ code' = [code EXCEPT ![w] =
       [issued |-> TRUE, active |-> TRUE, limit |-> limit, uses |-> 0]]
  /\ UNCHANGED <<alive, state, role, pending, tx>>

(* change_member_role and remove_team_member: require_admin reads the row   *)
(* of the actor and locks nothing.                                          *)
StartChange(r, u, w, m, to) ==
  /\ tx[r] = Idle
  /\ u \in Admins(w)
  /\ tx' = [tx EXCEPT ![r] =
       [op |-> "change", workspace |-> w, member |-> m, to |-> to, locked |-> FALSE,
        admins |-> {}]]
  /\ UNCHANGED <<alive, state, role, pending, code>>

(* Wrong variant of Permitted: the member is not excluded from the count.   *)
PermittedAnyAdmin(w, m, to) ==
  /\ m \in Members(w)
  /\ m \in Admins(w) /\ to # "admin" => Admins(w) # {}

(* The member is active, and not the last admin if it is to be one no more. *)
Permitted(w, m, to) ==
  /\ m \in Members(w)
  /\ m \in Admins(w) /\ to # "admin" => Admins(w) \ {m} # {}

CheckChange(r) ==
  /\ Runs(r, "change") /\ ~tx[r].locked
  /\ ~HeldByOther(r, tx[r].workspace, tx[r].member)
  /\ IF Permitted(tx[r].workspace, tx[r].member, tx[r].to)
     THEN tx' = [tx EXCEPT ![r].locked = TRUE, ![r].admins = Admins(tx[r].workspace)]
     ELSE End(r)
  /\ UNCHANGED <<alive, state, role, pending, code>>

CommitChange(r) ==
  /\ Runs(r, "change") /\ tx[r].locked
  /\ role' = [role EXCEPT ![tx[r].workspace][tx[r].member] = tx[r].to]
  /\ End(r)
  /\ UNCHANGED <<alive, state, pending, code>>

-----------------------------------------------------------------------------
Redeemable(c) ==
  /\ c.active
  /\ c.limit # NoLimit => c.uses < c.limit

(* Wrong variant of StartRedeem: the invite code is read without a lock.    *)
StartRedeemUnlocked(r, u, w) ==
  /\ tx[r] = Idle /\ u \in alive
  /\ Redeemable(code[w]) /\ code[w].uses < MaxUses
  /\ tx' = [tx EXCEPT ![r] =
       [op |-> "redeem", actor |-> u, workspace |-> w, uses |-> code[w].uses]]
  /\ UNCHANGED <<alive, state, role, pending, code>>

StartRedeem(r, u, w) ==
  /\ tx[r] = Idle /\ u \in alive
  /\ ~LockedByOther(r, w)
  /\ Redeemable(code[w]) /\ code[w].uses < MaxUses
  /\ tx' = [tx EXCEPT ![r] =
       [op |-> "redeem", actor |-> u, workspace |-> w, uses |-> code[w].uses]]
  /\ UNCHANGED <<alive, state, role, pending, code>>

Joined(w, u) ==
  IF role[w][u] = "none" THEN [role EXCEPT ![w][u] = "member"] ELSE role

(* Members who redeem a code use it up as well.  The row that is inserted   *)
(* refers to the account and the workspace, which must still be there.      *)
CommitRedeem(r) ==
  LET w == tx[r].workspace
      uses == tx[r].uses + 1
  IN /\ Runs(r, "redeem")
     /\ tx[r].actor \in alive /\ state[w] = "live"
     /\ role' = Joined(w, tx[r].actor)
     /\ code' = [code EXCEPT ![w].uses = uses,
                   ![w].active = @ /\ (code[w].limit # NoLimit => uses < code[w].limit)]
     /\ End(r)
     /\ UNCHANGED <<alive, state, pending>>

(* Two requests may both find no pending invitation: FOR UPDATE locks only  *)
(* rows that exist.                                                         *)
StartInvite(r, u, w, m) ==
  /\ tx[r] = Idle
  /\ u \in Admins(w) /\ m \in alive \ Members(w)
  /\ pending[w][m] = 0
  /\ tx' = [tx EXCEPT ![r] = [op |-> "invite", workspace |-> w, member |-> m]]
  /\ UNCHANGED <<alive, state, role, pending, code>>

CommitInvite(r) ==
  /\ Runs(r, "invite")
  /\ tx[r].member \in alive /\ state[tx[r].workspace] = "live"
  /\ ~LockedByOther(r, tx[r].workspace)
  /\ pending' = [pending EXCEPT ![tx[r].workspace][tx[r].member] = @ + 1]
  /\ End(r)
  /\ UNCHANGED <<alive, state, role, code>>

(* Wrong variant of RespondToInvitation: an answered invitation counts.     *)
RespondAgain(r, u, w, accept) ==
  /\ tx[r] = Idle /\ u \in alive /\ state[w] = "live"
  /\ pending' = [pending EXCEPT ![w][u] = @ - 1]
  /\ role' = IF accept THEN Joined(w, u) ELSE role
  /\ UNCHANGED <<alive, state, code, tx>>

RespondToInvitation(r, u, w, accept) ==
  /\ tx[r] = Idle
  /\ pending[w][u] > 0
  /\ accept /\ u \notin Members(w) => ~LockedByOther(r, w)
  /\ pending' = [pending EXCEPT ![w][u] = @ - 1]
  /\ role' = IF accept THEN Joined(w, u) ELSE role
  /\ UNCHANGED <<alive, state, code, tx>>

-----------------------------------------------------------------------------
(* delete_account_with_personal_data: all rows of the user are locked, then *)
(* each workspace is looked at in turn.                                     *)
StartDelete(r, u) ==
  LET rows == {w \in Workspaces : u \in Members(w)}
  IN /\ tx[r] = Idle /\ u \in alive
     /\ \A w \in rows : ~HeldByOther(r, w, u) /\ ~LockedByOther(r, w)
     /\ tx' = [tx EXCEPT ![r] =
          [op |-> "delete", actor |-> u, rows |-> rows, unchecked |-> rows, solo |-> {},
           admins |-> [w \in Workspaces |-> {}]]]
     /\ UNCHANGED <<alive, state, role, pending, code>>

Others(w, u) == Members(w) \ {u}

CheckDelete(r, w) ==
  LET u == tx[r].actor
      others == Others(w, u)
  IN /\ Runs(r, "delete") /\ w \in tx[r].unchecked
     /\ IF others # {} /\ u \in Admins(w) /\ others \cap Admins(w) = {}
        THEN End(r)
        ELSE tx' = [tx EXCEPT ![r].unchecked = @ \ {w},
                              ![r].solo = IF others = {} THEN @ \cup {w} ELSE @,
                              ![r].admins[w] = Admins(w)]
     /\ UNCHANGED <<alive, state, role, pending, code>>

(* The solo workspaces go with everything that refers to them, then the     *)
(* account with its rows; rows that others hold are waited for.             *)
CommitDelete(r) ==
  LET u == tx[r].actor
      solo == tx[r].solo
      Goes(w, v) == w \in solo \/ v = u
  IN /\ Runs(r, "delete") /\ tx[r].unchecked = {}
     /\ \A w \in Workspaces, v \in Users : Goes(w, v) => ~HeldByOther(r, w, v)
     /\ alive' = alive \ {u}
     /\ state' = [w \in Workspaces |-> IF w \in solo THEN "gone" ELSE state[w]]
     /\ role' = [w \in Workspaces |-> [v \in Users |->
          IF Goes(w, v) THEN "none" ELSE role[w][v]]]
     /\ pending' = [w \in Workspaces |-> [v \in Users |->
          IF Goes(w, v) THEN 0 ELSE pending[w][v]]]
     /\ code' = [w \in Workspaces |-> IF w \in solo THEN NoCode ELSE code[w]]
     /\ End(r)

(* A lost connection, a broken constraint, a deadlock the database resolves.*)
Rollback(r) ==
  /\ tx[r] # Idle
  /\ End(r)
  /\ UNCHANGED <<alive, state, role, pending, code>>

-----------------------------------------------------------------------------
Start(r) ==
  \E u \in Users, w \in Workspaces :
    \/ CreateWorkspace(r, u, w)
    \/ \E limit \in Limits : IssueInviteCode(r, u, w, limit)
    \/ \E m \in Users, to \in Roles : StartChange(r, u, w, m, to)
    \/ StartRedeem(r, u, w)
    \/ \E m \in Users : StartInvite(r, u, w, m)
    \/ \E accept \in BOOLEAN : RespondToInvitation(r, u, w, accept)

Continue(r) ==
  \/ CheckChange(r) \/ CommitChange(r)
  \/ CommitRedeem(r) \/ CommitInvite(r)
  \/ \E w \in Workspaces : CheckDelete(r, w)
  \/ CommitDelete(r)
  \/ Rollback(r)

Next == \E r \in Requests : Start(r) \/ (\E u \in Users : StartDelete(r, u)) \/ Continue(r)

Spec == Init /\ [][Next]_vars

-----------------------------------------------------------------------------
(* Properties.                                                              *)

(* Every variable has its type.                                             *)
TypeOK ==
  /\ alive \subseteq Users
  /\ state \in [Workspaces -> {"new", "live", "gone"}]
  /\ role \in [Workspaces -> [Users -> Roles]]
  /\ pending \in [Workspaces -> [Users -> Nat]]
  /\ code \in [Workspaces -> Codes]
  /\ tx \in [Requests -> Transactions]

(* What the last-admin checks are for: a workspace is left without somebody *)
(* who can manage it only by a transaction whose check counted admins that  *)
(* are not the ones at its commit.  Nothing else, no mix of demotions,      *)
(* removals, invitations and account deletions, takes the last admin.       *)
AdminLostToRaceOnly ==
  [][\A w \in Workspaces :
       /\ Admins(w) # {} /\ Admins(w)' = {}
       /\ state'[w] = "live"
       => \E r \in Requests :
            /\ tx'[r] = Idle
            /\ \/ Runs(r, "change") /\ tx[r].workspace = w /\ tx[r].admins # Admins(w)
               \/ Runs(r, "delete") /\ tx[r].admins[w] # Admins(w)]_vars

(* The errors of change_member_role and remove_team_member: the last admin  *)
(* of a workspace can be neither demoted nor removed.                       *)
LastAdminStays ==
  [][\A w \in Workspaces, u \in alive' :
       state'[w] = "live" /\ Admins(w) = {u} => role'[w][u] = "admin"]_vars

(* Deleting an account takes along the workspaces of which the user was the *)
(* sole member, and never one that somebody else belongs to, not even when  *)
(* somebody joins between the check and the deletion.                       *)
OnlySoleDeleted ==
  [][\A w \in Workspaces : state[w] = "live" /\ state'[w] = "gone" =>
       Members(w) \subseteq alive \ alive']_vars

(* Nobody joins for free: a new member either answered an invitation of its *)
(* own or moved the count of a code that had uses left, however many        *)
(* requests redeem the code at once.                                        *)
JoinCounted ==
  [][\A w \in Workspaces, u \in Users : role[w][u] = "none" /\ role'[w][u] = "member" =>
       \/ pending[w][u] > 0 /\ pending'[w][u] = pending[w][u] - 1
       \/ Redeemable(code[w]) /\ code'[w].uses = code[w].uses + 1]_vars

=============================================================================
