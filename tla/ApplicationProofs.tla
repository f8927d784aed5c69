------------------------- MODULE ApplicationProofs -------------------------
(***************************************************************************)
(* Proofs about WorkspaceMembership, for any number of users, workspaces   *)
(* and requests that run at once; about CliConfig, for any number of       *)
(* commands, servers, accounts and tokens; about Search, for any files,    *)
(* folders, workers, models and windows and any number of searches and of  *)
(* steps beside them; about ModelPlanning, for any hosts, catalogs and     *)
(* measures; and about the four side by side.                              *)
(***************************************************************************)
EXTENDS MCApplication, FiniteSetTheorems, SequenceTheorems, WellFoundedInduction, TLAPS


-----------------------------------------------------------------------------
(* Typing.                                                                  *)

(* The operation of a transaction tells its fields.                         *)
LEMMA TransactionKinds ==
  ASSUME TypeOK, NEW r \in Requests
  PROVE  /\ Runs(r, "change") => tx[r] \in Change
         /\ Runs(r, "redeem") => tx[r] \in Redemption
         /\ Runs(r, "invite") => tx[r] \in Invitation
         /\ Runs(r, "delete") => tx[r] \in Deletion
<1>1. tx[r] \in Transactions
  BY DEF TypeOK
<1>2. \A t \in Change : t.op = "change"
  BY DEF Change
<1>3. \A t \in Redemption : t.op = "redeem"
  BY DEF Redemption
<1>4. \A t \in Invitation : t.op = "invite"
  BY DEF Invitation
<1>5. \A t \in Deletion : t.op = "delete"
  BY DEF Deletion
<1> QED
  BY <1>1, <1>2, <1>3, <1>4, <1>5 DEF Runs, Transactions

LEMMA EndTypes ==
  ASSUME TypeOK, NEW r \in Requests, End(r)
  PROVE  tx' \in [Requests -> Transactions]
BY DEF TypeOK, End, Transactions

LEMMA JoinTypes ==
  ASSUME TypeOK, NEW w \in Workspaces, NEW u \in Users
  PROVE  Joined(w, u) \in [Workspaces -> [Users -> Roles]]
<1>1. role \in [Workspaces -> [Users -> Roles]] /\ "member" \in Roles
  BY DEF TypeOK, Roles
<1> QED
  BY <1>1 DEF Joined

LEMMA NoCodeTypes == NoCode \in Codes
BY DEF NoCode, Codes

LEMMA InitTypes == Init => TypeOK
<1> SUFFICES ASSUME Init PROVE TypeOK
  OBVIOUS
<1>1. alive \subseteq Users /\ state \in [Workspaces -> {"new", "live", "gone"}]
  BY DEF Init
<1>2. role \in [Workspaces -> [Users -> Roles]] /\ pending \in [Workspaces -> [Users -> Nat]]
  BY DEF Init, Roles
<1>3. code \in [Workspaces -> Codes] /\ tx \in [Requests -> Transactions]
  BY NoCodeTypes DEF Init, Transactions
<1> QED
  BY <1>1, <1>2, <1>3 DEF TypeOK

LEMMA StartTypes ==
  ASSUME TypeOK, NEW r \in Requests, NEW u \in Users, NEW w \in Workspaces
  PROVE  /\ CreateWorkspace(r, u, w) => TypeOK'
         /\ \A limit \in Limits : IssueInviteCode(r, u, w, limit) => TypeOK'
         /\ \A m \in Users, to \in Roles : StartChange(r, u, w, m, to) => TypeOK'
         /\ StartRedeem(r, u, w) => TypeOK'
         /\ \A m \in Users : StartInvite(r, u, w, m) => TypeOK'
         /\ \A accept \in BOOLEAN : RespondToInvitation(r, u, w, accept) => TypeOK'
<1>1. CreateWorkspace(r, u, w) => TypeOK'
  BY DEF CreateWorkspace, TypeOK, Roles
<1>2. ASSUME NEW limit \in Limits, IssueInviteCode(r, u, w, limit) PROVE TypeOK'
  <2>1. [issued |-> TRUE, active |-> TRUE, limit |-> limit, uses |-> 0] \in Codes
    BY DEF Codes
  <2> QED
    BY <1>2, <2>1 DEF IssueInviteCode, TypeOK
<1>3. ASSUME NEW m \in Users, NEW to \in Roles, StartChange(r, u, w, m, to) PROVE TypeOK'
  <2>1. [op |-> "change", workspace |-> w, member |-> m, to |-> to, locked |-> FALSE,
         admins |-> {}] \in Transactions
    BY DEF Transactions, Change
  <2> QED
    BY <1>3, <2>1 DEF StartChange, TypeOK
<1>4. ASSUME StartRedeem(r, u, w) PROVE TypeOK'
  <2>1. code[w].uses \in Nat
    BY DEF TypeOK, Codes
  <2>2. [op |-> "redeem", actor |-> u, workspace |-> w, uses |-> code[w].uses]
          \in Transactions
    BY <2>1 DEF Transactions, Redemption
  <2> QED
    BY <1>4, <2>2 DEF StartRedeem, TypeOK
<1>5. ASSUME NEW m \in Users, StartInvite(r, u, w, m) PROVE TypeOK'
  <2>1. [op |-> "invite", workspace |-> w, member |-> m] \in Transactions
    BY DEF Transactions, Invitation
  <2> QED
    BY <1>5, <2>1 DEF StartInvite, TypeOK
<1>6. ASSUME NEW accept \in BOOLEAN, RespondToInvitation(r, u, w, accept) PROVE TypeOK'
  <2>1. pending[w][u] - 1 \in Nat /\ pending \in [Workspaces -> [Users -> Nat]]
    BY <1>6 DEF RespondToInvitation, TypeOK
  <2>2. pending' \in [Workspaces -> [Users -> Nat]]
    BY <1>6, <2>1 DEF RespondToInvitation
  <2>3. role' \in [Workspaces -> [Users -> Roles]]
    BY <1>6, JoinTypes DEF RespondToInvitation, TypeOK
  <2> QED
    BY <1>6, <2>2, <2>3 DEF RespondToInvitation, TypeOK
<1> QED
  BY <1>1, <1>2, <1>3, <1>4, <1>5, <1>6

LEMMA StartDeleteTypes ==
  ASSUME TypeOK, NEW r \in Requests, NEW u \in Users, StartDelete(r, u)
  PROVE  TypeOK'
<1> DEFINE rows == {w \in Workspaces : u \in Members(w)}
<1> DEFINE none == [w \in Workspaces |-> {}]
<1>1. [op |-> "delete", actor |-> u, rows |-> rows, unchecked |-> rows, solo |-> {},
       admins |-> none] \in Transactions
  BY DEF Transactions, Deletion
<1> HIDE DEF rows
<1>2. tx' \in [Requests -> Transactions]
  BY <1>1 DEF StartDelete, TypeOK, rows
<1> QED
  BY <1>2 DEF StartDelete, TypeOK

LEMMA ContinueTypes ==
  ASSUME TypeOK, NEW r \in Requests, Continue(r)
  PROVE  TypeOK'
<1>1. CASE CheckChange(r)
  <2>1. tx[r] \in Change
    BY <1>1, TransactionKinds DEF CheckChange
  <2>2. [tx[r] EXCEPT !.locked = TRUE, !.admins = Admins(tx[r].workspace)] \in Transactions
    BY <2>1 DEF Change, Transactions, Admins
  <2>3. tx' \in [Requests -> Transactions]
    BY <1>1, <2>2, EndTypes DEF CheckChange, TypeOK
  <2> QED
    BY <1>1, <2>3 DEF CheckChange, TypeOK
<1>2. CASE CommitChange(r)
  <2>1. tx[r].workspace \in Workspaces /\ tx[r].member \in Users /\ tx[r].to \in Roles
    BY <1>2, TransactionKinds DEF CommitChange, Change
  <2>2. role' \in [Workspaces -> [Users -> Roles]]
    BY <1>2, <2>1 DEF CommitChange, TypeOK
  <2>3. tx' \in [Requests -> Transactions]
    BY <1>2, EndTypes DEF CommitChange
  <2> QED
    BY <1>2, <2>2, <2>3 DEF CommitChange, TypeOK
<1>3. CASE CommitRedeem(r)
  <2> DEFINE w == tx[r].workspace
  <2>1. w \in Workspaces /\ tx[r].actor \in Users /\ tx[r].uses \in Nat
    BY <1>3, TransactionKinds DEF CommitRedeem, Redemption
  <2>2. role' \in [Workspaces -> [Users -> Roles]]
    BY <1>3, <2>1, JoinTypes DEF CommitRedeem
  <2>3. code' \in [Workspaces -> Codes]
    <3>1. code[w] \in Codes /\ code \in [Workspaces -> Codes]
      BY <2>1 DEF TypeOK
    <3>2. \A n \in Nat, b \in BOOLEAN :
            [code[w] EXCEPT !.uses = n, !.active = b] \in Codes
      BY <3>1 DEF Codes
    <3>3. PICK n \in Nat, b \in BOOLEAN :
            code' = [code EXCEPT ![w] = [code[w] EXCEPT !.uses = n, !.active = b]]
      <4>1. tx[r].uses + 1 \in Nat /\ code[w].active \in BOOLEAN
        BY <2>1, <3>1 DEF Codes
      <4> QED
        BY <1>3, <4>1, <2>1, <3>1 DEF CommitRedeem, Codes
    <3> QED
      BY <3>1, <3>2, <3>3
  <2>4. tx' \in [Requests -> Transactions]
    BY <1>3, EndTypes DEF CommitRedeem
  <2> QED
    BY <1>3, <2>2, <2>3, <2>4 DEF CommitRedeem, TypeOK
<1>4. CASE CommitInvite(r)
  <2>1. tx[r].workspace \in Workspaces /\ tx[r].member \in Users
    BY <1>4, TransactionKinds DEF CommitInvite, Invitation
  <2>2. pending' \in [Workspaces -> [Users -> Nat]]
    BY <1>4, <2>1 DEF CommitInvite, TypeOK
  <2>3. tx' \in [Requests -> Transactions]
    BY <1>4, EndTypes DEF CommitInvite
  <2> QED
    BY <1>4, <2>2, <2>3 DEF CommitInvite, TypeOK
<1>5. ASSUME NEW w \in Workspaces, CheckDelete(r, w) PROVE TypeOK'
  <2>1. tx[r] \in Deletion
    BY <1>5, TransactionKinds DEF CheckDelete
  <2>2. \A solo \in SUBSET Workspaces :
          [tx[r] EXCEPT !.unchecked = tx[r].unchecked \ {w}, !.solo = solo,
                        !.admins = [tx[r].admins EXCEPT ![w] = Admins(w)]] \in Transactions
    BY <2>1 DEF Deletion, Transactions, Admins
  <2>3. tx[r].solo \cup {w} \in SUBSET Workspaces /\ tx[r].solo \in SUBSET Workspaces
    BY <2>1 DEF Deletion
  <2>4. tx' \in [Requests -> Transactions]
    <3>1. CASE End(r)
      BY <3>1, EndTypes
    <3>2. CASE ~End(r)
      <4>1. PICK solo \in SUBSET Workspaces : tx' =
              [tx EXCEPT ![r] = [tx[r] EXCEPT !.unchecked = tx[r].unchecked \ {w}, !.solo = solo,
                                   !.admins = [tx[r].admins EXCEPT ![w] = Admins(w)]]]
        BY <1>5, <2>3, <3>2, <2>1, ZenonT(60) DEF CheckDelete, TypeOK, Deletion
      <4> QED
        BY <4>1, <2>2 DEF TypeOK
    <3> QED
      BY <3>1, <3>2
  <2> QED
    BY <1>5, <2>4 DEF CheckDelete, TypeOK
<1>6. CASE CommitDelete(r)
  <2>1. alive' \subseteq Users /\ tx' \in [Requests -> Transactions]
    BY <1>6, EndTypes DEF CommitDelete, TypeOK
  <2>2. state' \in [Workspaces -> {"new", "live", "gone"}]
    BY <1>6 DEF CommitDelete, TypeOK
  <2>3. role' \in [Workspaces -> [Users -> Roles]]
    BY <1>6 DEF CommitDelete, TypeOK, Roles
  <2>4. pending' \in [Workspaces -> [Users -> Nat]]
    BY <1>6 DEF CommitDelete, TypeOK
  <2>5. code' \in [Workspaces -> Codes]
    BY <1>6, NoCodeTypes DEF CommitDelete, TypeOK
  <2> QED
    BY <2>1, <2>2, <2>3, <2>4, <2>5 DEF TypeOK
<1>7. CASE Rollback(r)
  BY <1>7, EndTypes DEF Rollback, TypeOK
<1> QED
  BY <1>1, <1>2, <1>3, <1>4, <1>5, <1>6, <1>7 DEF Continue

LEMMA NextTypes == TypeOK /\ [Next]_vars => TypeOK'
<1> SUFFICES ASSUME TypeOK, [Next]_vars PROVE TypeOK'
  OBVIOUS
<1>1. CASE UNCHANGED vars
  BY <1>1 DEF vars, TypeOK
<1>2. ASSUME NEW r \in Requests, Start(r) PROVE TypeOK'
  BY <1>2, StartTypes DEF Start
<1>3. ASSUME NEW r \in Requests, NEW u \in Users, StartDelete(r, u) PROVE TypeOK'
  BY <1>3, StartDeleteTypes
<1>4. ASSUME NEW r \in Requests, Continue(r) PROVE TypeOK'
  BY <1>4, ContinueTypes
<1> QED
  BY <1>1, <1>2, <1>3, <1>4 DEF Next

(* Every reachable state is well typed.                                     *)
THEOREM MembershipTypes == Spec => []TypeOK
<1> QED
  BY InitTypes, NextTypes, PTL DEF Spec
-----------------------------------------------------------------------------
(* What the row locks achieve.                                              *)

(* A membership row and a workspace are locked by one transaction at a time *)
(* and a locked membership row stays.                                       *)
RowsLocked ==
  \A r, q \in Requests, w \in Workspaces, u \in Users :
    Holds(r, w, u) /\ Holds(q, w, u) => r = q

HeldRowStays ==
  \A r \in Requests, w \in Workspaces, u \in Users :
    Holds(r, w, u) => role[w][u] # "none"

WorkspacesLocked ==
  \A r, q \in Requests, w \in Workspaces : Locks(r, w) /\ Locks(q, w) => r = q

(* A redemption knows the count of the code it has locked.                  *)
CodeAsRead ==
  \A r \in Requests :
    Runs(r, "redeem") =>
      /\ tx[r].uses = code[tx[r].workspace].uses
      /\ Redeemable(code[tx[r].workspace])

ActiveIsIssued == \A w \in Workspaces : code[w].active => code[w].issued
NewIsEmpty ==
  \A w \in Workspaces, u \in Users :
    state[w] = "new" => role[w][u] = "none" /\ pending[w][u] = 0

(* A deletion looks only at workspaces whose rows it has locked.            *)
SoloChecked ==
  \A r \in Requests : Runs(r, "delete") =>
    tx[r].unchecked \subseteq tx[r].rows /\ tx[r].solo \subseteq tx[r].rows

LockInv ==
  /\ TypeOK /\ RowsLocked /\ HeldRowStays /\ WorkspacesLocked
  /\ CodeAsRead /\ ActiveIsIssued /\ NewIsEmpty /\ SoloChecked

(* What a step of r leaves to the other transactions: their state, the rows *)
(* and the codes they have locked, and workspaces nobody else joins.        *)
LeftAlone(r) ==
  /\ \A q \in Requests \ {r} : tx'[q] = tx[q]
  /\ \A w \in Workspaces, u \in Users :
       HeldByOther(r, w, u) => role'[w][u] = role[w][u]
  /\ \A w \in Workspaces :
       LockedByOther(r, w) =>
         /\ code'[w] = code[w]
         /\ \A u \in Users :
              role[w][u] = "none" /\ role'[w][u] # "none" => state[w] = "new"

LEMMA JoinKeeps ==
  ASSUME TypeOK, NEW w \in Workspaces, NEW u \in Users
  PROVE  \A v \in Workspaces, m \in Users :
           /\ role[v][m] # "none" => Joined(w, u)[v][m] = role[v][m]
           /\ v # w => Joined(w, u)[v][m] = role[v][m]
           /\ u \in Members(w) => Joined(w, u)[v][m] = role[v][m]
           /\ Joined(w, u)[v][m] \in {role[v][m], "member"}
BY DEF TypeOK, Joined, Members

LEMMA HeldIsMember ==
  ASSUME LockInv, NEW r \in Requests, NEW w \in Workspaces, NEW u \in Users,
         HeldByOther(r, w, u)
  PROVE  role[w][u] # "none" /\ state[w] # "new"
BY DEF LockInv, HeldByOther, HeldRowStays, NewIsEmpty

LEMMA StartLeaves ==
  ASSUME LockInv, NEW r \in Requests, Start(r)
  PROVE  LeftAlone(r)
<1> USE DEF LockInv
<1> PICK u \in Users, w \in Workspaces :
      \/ CreateWorkspace(r, u, w)
      \/ \E limit \in Limits : IssueInviteCode(r, u, w, limit)
      \/ \E m \in Users, to \in Roles : StartChange(r, u, w, m, to)
      \/ StartRedeem(r, u, w)
      \/ \E m \in Users : StartInvite(r, u, w, m)
      \/ \E accept \in BOOLEAN : RespondToInvitation(r, u, w, accept)
  BY DEF Start
<1>1. CASE CreateWorkspace(r, u, w)
  <2>1. state[w] = "new" /\ code' = code /\ tx' = tx
    BY <1>1 DEF CreateWorkspace
  <2>2. \A v \in Workspaces, m \in Users : v # w => role'[v][m] = role[v][m]
    BY <1>1 DEF CreateWorkspace, TypeOK
  <2>3. \A v \in Workspaces, m \in Users : HeldByOther(r, v, m) => v # w
    BY <2>1, HeldIsMember
  <2> QED
    BY <2>1, <2>2, <2>3 DEF LeftAlone
<1>2. ASSUME NEW limit \in Limits, IssueInviteCode(r, u, w, limit) PROVE LeftAlone(r)
  <2>1. tx' = tx /\ role' = role /\ ~LockedByOther(r, w)
    BY <1>2 DEF IssueInviteCode
  <2>2. \A v \in Workspaces : v # w => code'[v] = code[v]
    BY <1>2 DEF IssueInviteCode, TypeOK
  <2> QED
    BY <2>1, <2>2 DEF LeftAlone
<1>3. ASSUME role' = role, code' = code, NEW t, tx' = [tx EXCEPT ![r] = t]
      PROVE  LeftAlone(r)
  BY <1>3 DEF LeftAlone, TypeOK
<1>4. ASSUME NEW accept \in BOOLEAN, RespondToInvitation(r, u, w, accept) PROVE LeftAlone(r)
  <2>1. tx' = tx /\ code' = code
    BY <1>4 DEF RespondToInvitation
  <2>2. \A v \in Workspaces, m \in Users : role[v][m] # "none" => role'[v][m] = role[v][m]
    BY <1>4, JoinKeeps DEF RespondToInvitation
  <2>3. \A v \in Workspaces, m \in Users : LockedByOther(r, v) => role'[v][m] = role[v][m]
    BY <1>4, JoinKeeps DEF RespondToInvitation
  <2> QED
    BY <2>1, <2>2, <2>3, HeldIsMember DEF LeftAlone
<1> QED
  BY <1>1, <1>2, <1>3, <1>4 DEF StartChange, StartRedeem, StartInvite

LEMMA ContinueLeaves ==
  ASSUME LockInv, NEW r \in Requests, Continue(r)
  PROVE  LeftAlone(r)
<1> USE DEF LockInv
<1>1. ASSUME role' = role, code' = code, NEW t, tx' = [tx EXCEPT ![r] = t]
      PROVE  LeftAlone(r)
  BY <1>1 DEF LeftAlone, TypeOK
<1>2. CASE CheckChange(r)
  <2>1. role' = role /\ code' = code
    BY <1>2 DEF CheckChange
  <2>2. \E t : tx' = [tx EXCEPT ![r] = t]
    BY <1>2 DEF CheckChange, End
  <2> QED
    BY <1>1, <2>1, <2>2
<1>3. CASE CommitChange(r)
  <2>1. Holds(r, tx[r].workspace, tx[r].member)
    BY <1>3 DEF CommitChange, Holds
  <2>2. tx[r].workspace \in Workspaces /\ tx[r].member \in Users /\ tx[r].to \in Roles
    BY <1>3, TransactionKinds DEF CommitChange, Change
  <2>3. ~HeldByOther(r, tx[r].workspace, tx[r].member)
    BY <2>1, <2>2 DEF RowsLocked, HeldByOther
  <2>4. \A w \in Workspaces, u \in Users :
          w # tx[r].workspace \/ u # tx[r].member => role'[w][u] = role[w][u]
    BY <1>3, <2>2 DEF CommitChange, TypeOK
  <2>5. role[tx[r].workspace][tx[r].member] # "none"
    BY <2>1, <2>2 DEF HeldRowStays
  <2>6. code' = code /\ \A q \in Requests \ {r} : tx'[q] = tx[q]
    BY <1>3 DEF CommitChange, End, TypeOK
  <2> QED
    BY <2>3, <2>4, <2>5, <2>6 DEF LeftAlone
<1>4. CASE CommitRedeem(r)
  <2>1. tx[r].workspace \in Workspaces /\ tx[r].actor \in Users /\ Runs(r, "redeem")
    BY <1>4, TransactionKinds DEF CommitRedeem, Redemption
  <2>2. ~LockedByOther(r, tx[r].workspace)
    BY <2>1 DEF WorkspacesLocked, LockedByOther, Locks
  <2>3. \A w \in Workspaces, u \in Users :
          /\ role[w][u] # "none" => role'[w][u] = role[w][u]
          /\ w # tx[r].workspace => role'[w][u] = role[w][u]
    BY <1>4, <2>1, JoinKeeps DEF CommitRedeem
  <2>4. \A w \in Workspaces : w # tx[r].workspace => code'[w] = code[w]
    BY <1>4 DEF CommitRedeem, TypeOK
  <2>5. \A q \in Requests \ {r} : tx'[q] = tx[q]
    BY <1>4 DEF CommitRedeem, End, TypeOK
  <2> QED
    BY <2>2, <2>3, <2>4, <2>5, HeldIsMember DEF LeftAlone
<1>5. CASE CommitInvite(r) \/ Rollback(r)
  BY <1>1, <1>5 DEF CommitInvite, Rollback, End
<1>6. ASSUME NEW w \in Workspaces, CheckDelete(r, w) PROVE LeftAlone(r)
  <2>1. role' = role /\ code' = code
    BY <1>6 DEF CheckDelete
  <2>2. \E t : tx' = [tx EXCEPT ![r] = t]
    BY <1>6 DEF CheckDelete, End
  <2> QED
    BY <1>1, <2>1, <2>2
<1>7. CASE CommitDelete(r)
  <2>1. \A w \in Workspaces, u \in Users : HeldByOther(r, w, u) => role'[w][u] = role[w][u]
    BY <1>7 DEF CommitDelete
  <2>2. \A w \in Workspaces, u \in Users : role[w][u] = "none" => role'[w][u] = "none"
    BY <1>7 DEF CommitDelete
  <2>3. tx[r].solo \subseteq tx[r].rows /\ Runs(r, "delete")
    BY <1>7 DEF CommitDelete, SoloChecked
  <2>4. \A w \in Workspaces : LockedByOther(r, w) => code'[w] = code[w]
    <3>1. \A w \in Workspaces : w \in tx[r].rows => ~LockedByOther(r, w)
      BY <2>3 DEF WorkspacesLocked, LockedByOther, Locks
    <3> QED
      BY <1>7, <2>3, <3>1 DEF CommitDelete
  <2>5. \A q \in Requests \ {r} : tx'[q] = tx[q]
    BY <1>7 DEF CommitDelete, End, TypeOK
  <2> QED
    BY <2>1, <2>2, <2>4, <2>5 DEF LeftAlone
<1> QED
  BY <1>2, <1>3, <1>4, <1>5, <1>6, <1>7 DEF Continue

(* What r itself has to show beyond that: it locks only what is free.       *)
LEMMA LockStep ==
  ASSUME LockInv, TypeOK', NEW r \in Requests, LeftAlone(r),
         \A w \in Workspaces, u \in Users :
           Holds(r, w, u)' => ~HeldByOther(r, w, u) /\ role'[w][u] # "none",
         \A w \in Workspaces : Locks(r, w)' => ~LockedByOther(r, w),
         Runs(r, "redeem")' =>
           /\ tx'[r].uses = code'[tx'[r].workspace].uses
           /\ Redeemable(code'[tx'[r].workspace]),
         Runs(r, "delete")' =>
           tx'[r].unchecked \subseteq tx'[r].rows /\ tx'[r].solo \subseteq tx'[r].rows,
         ActiveIsIssued', NewIsEmpty'
  PROVE  LockInv'
<1>1. \A q \in Requests \ {r} :
        /\ \A op \in {"change", "redeem", "delete"} : Runs(q, op)' <=> Runs(q, op)
        /\ \A w \in Workspaces, u \in Users : Holds(q, w, u)' <=> Holds(q, w, u)
        /\ \A w \in Workspaces : Locks(q, w)' <=> Locks(q, w)
        /\ tx'[q] = tx[q]
  BY DEF LeftAlone, Runs, Holds, Locks
<1>2. RowsLocked'
  BY <1>1 DEF LockInv, RowsLocked, HeldByOther
<1>3. WorkspacesLocked'
  BY <1>1 DEF LockInv, WorkspacesLocked, LockedByOther
<1>4. HeldRowStays'
  <2> SUFFICES ASSUME NEW q \in Requests \ {r}, NEW w \in Workspaces, NEW u \in Users,
                      Holds(q, w, u)
               PROVE  role'[w][u] # "none"
    BY <1>1 DEF HeldRowStays
  <2>1. HeldByOther(r, w, u)
    BY DEF HeldByOther
  <2> QED
    BY <2>1, HeldIsMember DEF LeftAlone
<1>5. CodeAsRead'
  <2> SUFFICES ASSUME NEW q \in Requests \ {r}, Runs(q, "redeem")
               PROVE  /\ tx[q].uses = code'[tx[q].workspace].uses
                      /\ Redeemable(code'[tx[q].workspace])
    BY <1>1 DEF CodeAsRead
  <2>1. tx[q].workspace \in Workspaces
    BY TransactionKinds DEF LockInv, Redemption
  <2>2. LockedByOther(r, tx[q].workspace)
    BY DEF LockedByOther, Locks
  <2> QED
    BY <2>1, <2>2 DEF LockInv, CodeAsRead, LeftAlone
<1>6. SoloChecked'
  BY <1>1 DEF LockInv, SoloChecked
<1> QED
  BY <1>2, <1>3, <1>4, <1>5, <1>6 DEF LockInv

(* Steps after which r has no lock.                                         *)
LEMMA QuietStep ==
  ASSUME LockInv, TypeOK', NEW r \in Requests, LeftAlone(r),
         ~Runs(r, "redeem")' /\ ~Runs(r, "delete")',
         Runs(r, "change")' => ~tx'[r].locked,
         ActiveIsIssued', NewIsEmpty'
  PROVE  LockInv'
<1>1. /\ \A w \in Workspaces, u \in Users : ~Holds(r, w, u)'
      /\ \A w \in Workspaces : ~Locks(r, w)'
  BY DEF Holds, Locks
<1> QED
  BY <1>1, LockStep

LEMMA IdleStep ==
  ASSUME LockInv, TypeOK', NEW r \in Requests, LeftAlone(r), tx'[r] = Idle,
         ActiveIsIssued', NewIsEmpty'
  PROVE  LockInv'
BY QuietStep DEF Runs

LEMMA Ended ==
  ASSUME LockInv, NEW r \in Requests, End(r)
  PROVE  tx'[r] = Idle
BY DEF LockInv, TypeOK, End

LEMMA StartLocks ==
  ASSUME LockInv, TypeOK', NEW r \in Requests, Start(r)
  PROVE  LockInv'
<1> USE DEF LockInv
<1>0. LeftAlone(r)
  BY StartLeaves
<1> PICK u \in Users, w \in Workspaces :
      \/ CreateWorkspace(r, u, w)
      \/ \E limit \in Limits : IssueInviteCode(r, u, w, limit)
      \/ \E m \in Users, to \in Roles : StartChange(r, u, w, m, to)
      \/ StartRedeem(r, u, w)
      \/ \E m \in Users : StartInvite(r, u, w, m)
      \/ \E accept \in BOOLEAN : RespondToInvitation(r, u, w, accept)
  BY DEF Start
<1>1. CASE CreateWorkspace(r, u, w)
  <2>1. tx'[r] = Idle /\ code' = code
    BY <1>1 DEF CreateWorkspace
  <2>2. ActiveIsIssued' /\ NewIsEmpty'
    BY <1>1, <2>1 DEF CreateWorkspace, ActiveIsIssued, NewIsEmpty, TypeOK
  <2> QED
    BY <1>0, <2>1, <2>2, IdleStep
<1>2. ASSUME NEW limit \in Limits, IssueInviteCode(r, u, w, limit) PROVE LockInv'
  <2>1. tx'[r] = Idle /\ state' = state /\ role' = role /\ pending' = pending
    BY <1>2 DEF IssueInviteCode
  <2>2. ActiveIsIssued' /\ NewIsEmpty'
    BY <1>2, <2>1 DEF IssueInviteCode, ActiveIsIssued, NewIsEmpty, TypeOK
  <2> QED
    BY <1>0, <2>1, <2>2, IdleStep
<1>3. ASSUME state' = state, role' = role, pending' = pending, code' = code PROVE ActiveIsIssued' /\ NewIsEmpty'
  BY <1>3 DEF ActiveIsIssued, NewIsEmpty
<1>4. ASSUME NEW m \in Users, NEW to \in Roles, StartChange(r, u, w, m, to) PROVE LockInv'
  <2>1. tx'[r] = [op |-> "change", workspace |-> w, member |-> m, to |-> to,
                  locked |-> FALSE, admins |-> {}]
    BY <1>4 DEF StartChange, TypeOK
  <2>2. ~Runs(r, "redeem")' /\ ~Runs(r, "delete")' /\ ~tx'[r].locked
    BY <2>1 DEF Runs
  <2>3. state' = state /\ role' = role /\ pending' = pending /\ code' = code
    BY <1>4 DEF StartChange
  <2> QED
    BY <1>0, <1>3, <2>2, <2>3, QuietStep
<1>5. CASE StartRedeem(r, u, w)
  <2>1. tx'[r] = [op |-> "redeem", actor |-> u, workspace |-> w, uses |-> code[w].uses]
    BY <1>5 DEF StartRedeem, TypeOK
  <2>2. \A v \in Workspaces : Locks(r, v)' => v = w
    BY <2>1 DEF Locks, Runs
  <2>3. ~Runs(r, "delete")' /\ \A v \in Workspaces, x \in Users : ~Holds(r, v, x)'
    BY <2>1 DEF Runs, Holds
  <2>4. state' = state /\ role' = role /\ pending' = pending /\ code' = code
    BY <1>5 DEF StartRedeem
  <2>5. /\ ~LockedByOther(r, w)
        /\ tx'[r].uses = code'[tx'[r].workspace].uses
        /\ Redeemable(code'[tx'[r].workspace])
    BY <1>5, <2>1, <2>4 DEF StartRedeem
  <2> QED
    BY <1>0, <1>3, <2>2, <2>3, <2>4, <2>5, LockStep
<1>6. ASSUME NEW m \in Users, StartInvite(r, u, w, m) PROVE LockInv'
  <2>1. tx'[r] = [op |-> "invite", workspace |-> w, member |-> m]
    BY <1>6 DEF StartInvite, TypeOK
  <2>2. ~Runs(r, "redeem")' /\ ~Runs(r, "delete")' /\ ~Runs(r, "change")'
    BY <2>1 DEF Runs
  <2>3. state' = state /\ role' = role /\ pending' = pending /\ code' = code
    BY <1>6 DEF StartInvite
  <2> QED
    BY <1>0, <1>3, <2>2, <2>3, QuietStep
<1>7. ASSUME NEW accept \in BOOLEAN, RespondToInvitation(r, u, w, accept) PROVE LockInv'
  <2>1. tx'[r] = Idle /\ code' = code /\ state' = state
    BY <1>7 DEF RespondToInvitation
  <2>2. ActiveIsIssued'
    BY <2>1 DEF ActiveIsIssued
  <2>3. NewIsEmpty'
    <3>1. state[w] # "new" /\ \A v \in Workspaces, m \in Users : v # w => role'[v][m] = role[v][m]
      BY <1>7, JoinKeeps DEF RespondToInvitation, NewIsEmpty
    <3> QED
      BY <1>7, <2>1, <3>1 DEF RespondToInvitation, NewIsEmpty, TypeOK
  <2> QED
    BY <1>0, <2>1, <2>2, <2>3, IdleStep
<1> QED
  BY <1>1, <1>2, <1>4, <1>5, <1>6, <1>7

LEMMA StartDeleteLocks ==
  ASSUME LockInv, TypeOK', NEW r \in Requests, NEW u \in Users, StartDelete(r, u)
  PROVE  LockInv' /\ LeftAlone(r)
<1> USE DEF LockInv
<1> DEFINE rows == {w \in Workspaces : u \in Members(w)}
           start == [op |-> "delete", actor |-> u, rows |-> rows, unchecked |-> rows,
                     solo |-> {}, admins |-> [w \in Workspaces |-> {}]]
<1>1. /\ tx' = [tx EXCEPT ![r] = start]
      /\ state' = state /\ role' = role /\ pending' = pending /\ code' = code
      /\ \A w \in rows : ~HeldByOther(r, w, u) /\ ~LockedByOther(r, w)
  BY DEF StartDelete
<1>2. \A w \in rows : role[w][u] # "none"
  BY DEF Members
<1>3. /\ start.op = "delete" /\ start.rows = rows /\ start.actor = u
      /\ start.unchecked = rows /\ start.solo = {}
  OBVIOUS
<1> HIDE DEF rows, start
<1>4. LeftAlone(r)
  BY <1>1 DEF LeftAlone, TypeOK
<1>5. tx'[r] = start
  BY <1>1 DEF TypeOK
<1>6. ~Runs(r, "redeem")'
  BY <1>3, <1>5 DEF Runs
<1>7. \A w \in Workspaces, v \in Users :
        Holds(r, w, v)' => ~HeldByOther(r, w, v) /\ role'[w][v] # "none"
  BY <1>1, <1>2, <1>3, <1>5 DEF Runs, Holds
<1>8. \A w \in Workspaces : Locks(r, w)' => ~LockedByOther(r, w)
  BY <1>1, <1>3, <1>5, <1>6 DEF Locks
<1>9. ActiveIsIssued' /\ NewIsEmpty'
  BY <1>1 DEF ActiveIsIssued, NewIsEmpty
<1> QED
  BY <1>3, <1>4, <1>5, <1>6, <1>7, <1>8, <1>9, LockStep

(* A workspace that was looked at and did not end the deletion.             *)
LEMMA Checked ==
  ASSUME LockInv, NEW r \in Requests, NEW w \in Workspaces, CheckDelete(r, w), ~End(r)
  PROVE  /\ tx'[r].op = "delete" /\ tx'[r].rows = tx[r].rows /\ tx'[r].actor = tx[r].actor
         /\ tx'[r].unchecked = tx[r].unchecked \ {w}
         /\ tx'[r].solo = IF Others(w, tx[r].actor) = {} THEN tx[r].solo \cup {w}
                          ELSE tx[r].solo
         /\ tx'[r].admins = [tx[r].admins EXCEPT ![w] = Admins(w)]
<1> DEFINE solo == IF Others(w, tx[r].actor) = {} THEN tx[r].solo \cup {w} ELSE tx[r].solo
           admins == [tx[r].admins EXCEPT ![w] = Admins(w)]
<1>1. tx[r] \in Deletion
  BY TransactionKinds DEF LockInv, CheckDelete
<1>2. tx' = [tx EXCEPT ![r] = [tx[r] EXCEPT !.unchecked = tx[r].unchecked \ {w}, !.solo = solo,
                                           !.admins = admins]]
  BY <1>1 DEF CheckDelete, Deletion, LockInv, TypeOK
<1> HIDE DEF solo, admins
<1>3. tx'[r] = [tx[r] EXCEPT !.unchecked = tx[r].unchecked \ {w}, !.solo = solo,
                            !.admins = admins]
  BY <1>2 DEF LockInv, TypeOK
<1>4. /\ tx'[r].op = "delete" /\ tx'[r].rows = tx[r].rows /\ tx'[r].actor = tx[r].actor
      /\ tx'[r].unchecked = tx[r].unchecked \ {w}
      /\ tx'[r].solo = solo /\ tx'[r].admins = admins
  BY <1>1, <1>3 DEF Deletion
<1> QED
  BY <1>4 DEF solo, admins

LEMMA ContinueLocks ==
  ASSUME LockInv, TypeOK', NEW r \in Requests, Continue(r)
  PROVE  LockInv'
<1> USE DEF LockInv
<1>0. LeftAlone(r)
  BY ContinueLeaves
<1>1. ASSUME state' = state, role' = role, pending' = pending, code' = code
      PROVE  ActiveIsIssued' /\ NewIsEmpty'
  BY <1>1 DEF ActiveIsIssued, NewIsEmpty
<1>2. CASE CheckChange(r)
  <2>1. state' = state /\ role' = role /\ pending' = pending /\ code' = code
    BY <1>2 DEF CheckChange
  <2>2. CASE End(r)
    BY <1>0, <1>1, <2>1, <2>2, Ended, IdleStep
  <2>3. CASE ~End(r)
    <3>1. /\ Permitted(tx[r].workspace, tx[r].member, tx[r].to)
          /\ tx' = [tx EXCEPT ![r].locked = TRUE, ![r].admins = Admins(tx[r].workspace)]
          /\ ~HeldByOther(r, tx[r].workspace, tx[r].member)
      BY <1>2, <2>3 DEF CheckChange
    <3>2. tx[r] \in Change
      BY <1>2, TransactionKinds DEF CheckChange
    <3>3. tx'[r] = [tx[r] EXCEPT !.locked = TRUE, !.admins = Admins(tx[r].workspace)]
      BY <3>1 DEF TypeOK
    <3>4. /\ tx'[r].op = "change" /\ tx'[r].workspace = tx[r].workspace
          /\ tx'[r].member = tx[r].member
      BY <3>2, <3>3 DEF Change
    <3>5. ~Runs(r, "redeem")' /\ ~Runs(r, "delete")'
      BY <3>4 DEF Runs
    <3>6. role[tx[r].workspace][tx[r].member] # "none"
      BY <3>1 DEF Permitted, Members
    <3>7. \A w \in Workspaces, u \in Users :
            Holds(r, w, u)' => ~HeldByOther(r, w, u) /\ role'[w][u] # "none"
      BY <2>1, <3>1, <3>4, <3>5, <3>6 DEF Holds
    <3>8. \A w \in Workspaces : ~Locks(r, w)'
      BY <3>5 DEF Locks
    <3> QED
      BY <1>0, <1>1, <2>1, <3>5, <3>7, <3>8, LockStep
  <2> QED
    BY <2>2, <2>3
<1>3. CASE CommitChange(r)
  <2>1. /\ End(r) /\ code' = code /\ state' = state /\ pending' = pending
        /\ Holds(r, tx[r].workspace, tx[r].member)
    BY <1>3 DEF CommitChange, Holds
  <2>2. tx[r].workspace \in Workspaces /\ tx[r].member \in Users
    BY <1>3, TransactionKinds DEF CommitChange, Change
  <2>3. state[tx[r].workspace] # "new"
    BY <2>1, <2>2 DEF HeldRowStays, NewIsEmpty
  <2>4. NewIsEmpty'
    BY <1>3, <2>1, <2>2, <2>3 DEF NewIsEmpty, CommitChange, TypeOK
  <2>5. ActiveIsIssued'
    BY <2>1 DEF ActiveIsIssued
  <2> QED
    BY <1>0, <2>1, <2>4, <2>5, Ended, IdleStep
<1>4. CASE CommitRedeem(r)
  <2>1. tx[r].workspace \in Workspaces /\ tx[r].actor \in Users /\ Runs(r, "redeem")
    BY <1>4, TransactionKinds DEF CommitRedeem, Redemption
  <2>2. /\ End(r) /\ state' = state /\ pending' = pending
        /\ state[tx[r].workspace] = "live" /\ role' = Joined(tx[r].workspace, tx[r].actor)
    BY <1>4 DEF CommitRedeem
  <2>3. NewIsEmpty'
    <3>1. \A v \in Workspaces, m \in Users :
            v # tx[r].workspace => role'[v][m] = role[v][m]
      BY <2>1, <2>2, JoinKeeps
    <3> QED
      BY <2>1, <2>2, <3>1 DEF NewIsEmpty
  <2>4. \A w \in Workspaces \ {tx[r].workspace} : code'[w] = code[w]
    BY <1>4 DEF CommitRedeem, TypeOK
  <2>5. /\ code[tx[r].workspace].issued
        /\ code'[tx[r].workspace].issued = code[tx[r].workspace].issued
    <3>1. Redeemable(code[tx[r].workspace])
      BY <2>1 DEF CodeAsRead
    <3>2. code[tx[r].workspace].issued
      BY <2>1, <3>1 DEF Redeemable, ActiveIsIssued
    <3>3. code \in [Workspaces -> Codes]
      BY DEF TypeOK
    <3>4. PICK uses, inUse : code' = [code EXCEPT ![tx[r].workspace].uses = uses,
                                                 ![tx[r].workspace].active = inUse]
      BY <1>4 DEF CommitRedeem
    <3>5. code'[tx[r].workspace] = [code[tx[r].workspace] EXCEPT !.uses = uses, !.active = inUse]
      BY <2>1, <3>3, <3>4
    <3>6. code[tx[r].workspace] \in Codes
      BY <2>1, <3>3
    <3> QED
      BY <3>2, <3>5, <3>6 DEF Codes
  <2>6. ActiveIsIssued'
    BY <2>4, <2>5 DEF ActiveIsIssued
  <2> QED
    BY <1>0, <2>2, <2>3, <2>6, Ended, IdleStep
<1>5. CASE CommitInvite(r)
  <2>1. /\ End(r) /\ role' = role /\ code' = code /\ state' = state
        /\ state[tx[r].workspace] = "live"
    BY <1>5 DEF CommitInvite
  <2>2. NewIsEmpty'
    BY <1>5, <2>1 DEF CommitInvite, NewIsEmpty, TypeOK
  <2>3. ActiveIsIssued'
    BY <2>1 DEF ActiveIsIssued
  <2> QED
    BY <1>0, <2>1, <2>2, <2>3, Ended, IdleStep
<1>6. ASSUME NEW w \in Workspaces, CheckDelete(r, w) PROVE LockInv'
  <2>1. state' = state /\ role' = role /\ pending' = pending /\ code' = code
    BY <1>6 DEF CheckDelete
  <2>2. CASE End(r)
    BY <1>0, <1>1, <2>1, <2>2, Ended, IdleStep
  <2>3. CASE ~End(r)
    <3>1. /\ tx[r] \in Deletion /\ Runs(r, "delete") /\ w \in tx[r].unchecked
          /\ w \in tx[r].rows
      BY <1>6, TransactionKinds DEF CheckDelete, SoloChecked
    <3>2. /\ tx'[r].op = "delete" /\ tx'[r].rows = tx[r].rows /\ tx'[r].actor = tx[r].actor
          /\ tx'[r].unchecked \subseteq tx[r].unchecked
          /\ tx'[r].solo \subseteq tx[r].solo \cup {w}
      BY <1>6, <2>3, Checked
    <3>3. ~Runs(r, "change")' /\ ~Runs(r, "redeem")'
      BY <3>2 DEF Runs
    <3>4. /\ \A v \in Workspaces, u \in Users : Holds(r, v, u)' => Holds(r, v, u)
          /\ \A v \in Workspaces : Locks(r, v)' => Locks(r, v)
      BY <3>1, <3>2, <3>3 DEF Runs, Holds, Locks
    <3>5. \A v \in Workspaces, u \in Users :
            Holds(r, v, u) => ~HeldByOther(r, v, u) /\ role'[v][u] # "none"
      BY <2>1 DEF RowsLocked, HeldRowStays, HeldByOther
    <3>6. \A v \in Workspaces : Locks(r, v) => ~LockedByOther(r, v)
      BY DEF WorkspacesLocked, LockedByOther
    <3>7. tx'[r].unchecked \subseteq tx'[r].rows /\ tx'[r].solo \subseteq tx'[r].rows
      BY <3>1, <3>2 DEF SoloChecked
    <3> QED
      BY <1>0, <1>1, <2>1, <3>3, <3>4, <3>5, <3>6, <3>7, LockStep
  <2> QED
    BY <2>2, <2>3
<1>7. CASE CommitDelete(r)
  <2>1. ActiveIsIssued' /\ End(r)
    BY <1>7 DEF CommitDelete, ActiveIsIssued, NoCode
  <2>2. NewIsEmpty'
    BY <1>7 DEF CommitDelete, NewIsEmpty
  <2> QED
    BY <1>0, <2>1, <2>2, Ended, IdleStep
<1>8. CASE Rollback(r)
  <2>1. /\ End(r) /\ state' = state /\ role' = role /\ pending' = pending /\ code' = code
    BY <1>8 DEF Rollback
  <2> QED
    BY <1>0, <1>1, <2>1, Ended, IdleStep
<1> QED
  BY <1>2, <1>3, <1>4, <1>5, <1>6, <1>7, <1>8 DEF Continue

LEMMA LockInit == Init => LockInv
<1> SUFFICES ASSUME Init PROVE LockInv
  OBVIOUS
<1>1. \A r \in Requests, op \in {"change", "redeem", "delete"} : ~Runs(r, op)
  BY DEF Init, Runs
<1>2. /\ \A r \in Requests, w \in Workspaces, u \in Users : ~Holds(r, w, u)
      /\ \A r \in Requests, w \in Workspaces : ~Locks(r, w)
  BY <1>1 DEF Holds, Locks
<1>3. RowsLocked /\ HeldRowStays /\ WorkspacesLocked /\ CodeAsRead /\ SoloChecked
  BY <1>1, <1>2 DEF RowsLocked, HeldRowStays, WorkspacesLocked, CodeAsRead, SoloChecked
<1>4. ActiveIsIssued /\ NewIsEmpty
  BY DEF Init, ActiveIsIssued, NewIsEmpty, NoCode
<1> QED
  BY <1>3, <1>4, InitTypes DEF LockInv

LEMMA LockNext == LockInv /\ [Next]_vars => LockInv'
<1> SUFFICES ASSUME LockInv, [Next]_vars PROVE LockInv'
  OBVIOUS
<1>1. TypeOK'
  BY NextTypes DEF LockInv
<1>2. CASE UNCHANGED vars
  <2>1. /\ \A r \in Requests, op \in {"change", "redeem", "delete"} : Runs(r, op)' <=> Runs(r, op)
        /\ \A r \in Requests, w \in Workspaces, u \in Users : Holds(r, w, u)' <=> Holds(r, w, u)
        /\ \A r \in Requests, w \in Workspaces : Locks(r, w)' <=> Locks(r, w)
    BY <1>2 DEF vars, Runs, Holds, Locks
  <2>2. RowsLocked' /\ HeldRowStays' /\ WorkspacesLocked'
    BY <1>2, <2>1 DEF vars, LockInv, RowsLocked, HeldRowStays, WorkspacesLocked
  <2>3. CodeAsRead' /\ ActiveIsIssued' /\ NewIsEmpty' /\ SoloChecked'
    BY <1>2, <2>1 DEF vars, LockInv, CodeAsRead, ActiveIsIssued, NewIsEmpty, SoloChecked
  <2> QED
    BY <1>1, <2>2, <2>3 DEF LockInv
<1>3. CASE Next
  BY <1>1, <1>3, StartLocks, StartDeleteLocks, ContinueLocks DEF Next
<1> QED
  BY <1>2, <1>3

-----------------------------------------------------------------------------
(* What the checks achieve.                                                 *)

(* A change whose member may not be the last admin: the row is still the    *)
(* one that was checked, and the check counted another admin.               *)
ChangeChecked ==
  \A r \in Requests : Runs(r, "change") /\ tx[r].locked =>
    /\ tx[r].member \in tx[r].admins <=> role[tx[r].workspace][tx[r].member] = "admin"
    /\ tx[r].member \in tx[r].admins /\ tx[r].to # "admin" =>
         tx[r].admins \ {tx[r].member} # {}

(* A deletion has seen no admins where it did not look; elsewhere the user  *)
(* is alone, or is no admin, or another admin was counted.                  *)
DeleteChecked ==
  \A r \in Requests : Runs(r, "delete") => \A w \in Workspaces :
    \/ w \in tx[r].solo
    \/ w \in tx[r].unchecked
    \/ w \notin tx[r].rows /\ tx[r].admins[w] = {}
    \/ tx[r].actor \notin tx[r].admins[w]
    \/ tx[r].admins[w] \ {tx[r].actor} # {}

(* Nobody joins a workspace whose sole member deletes the account.          *)
SoloAlone ==
  \A r \in Requests : Runs(r, "delete") =>
    \A w \in tx[r].solo : Members(w) \subseteq {tx[r].actor}

(* Rows refer to accounts that exist.                                       *)
RowsRefer ==
  \A w \in Workspaces, u \in Users :
    role[w][u] # "none" \/ pending[w][u] > 0 => u \in alive

CheckInv == LockInv /\ ChangeChecked /\ DeleteChecked /\ SoloAlone /\ RowsRefer

(* A step of r leaves what the others have checked; what remains to show is *)
(* about r.                                                                 *)
LEMMA CheckStep ==
  ASSUME CheckInv, LockInv', NEW r \in Requests, LeftAlone(r),
         Runs(r, "change")' /\ tx'[r].locked =>
           /\ tx'[r].member \in tx'[r].admins
                <=> role'[tx'[r].workspace][tx'[r].member] = "admin"
           /\ tx'[r].member \in tx'[r].admins /\ tx'[r].to # "admin" =>
                tx'[r].admins \ {tx'[r].member} # {},
         Runs(r, "delete")' => \A w \in Workspaces :
           \/ w \in tx'[r].solo
           \/ w \in tx'[r].unchecked
           \/ w \notin tx'[r].rows /\ tx'[r].admins[w] = {}
           \/ tx'[r].actor \notin tx'[r].admins[w]
           \/ tx'[r].admins[w] \ {tx'[r].actor} # {},
         Runs(r, "delete")' => \A w \in tx'[r].solo : Members(w)' \subseteq {tx'[r].actor},
         RowsRefer'
  PROVE  CheckInv'
<1> USE DEF CheckInv
<1>1. \A q \in Requests \ {r} :
        /\ tx'[q] = tx[q]
        /\ \A op \in {"change", "delete"} : Runs(q, op)' <=> Runs(q, op)
  BY DEF LeftAlone, Runs
<1>2. ChangeChecked'
  <2>1. ASSUME NEW q \in Requests \ {r}, Runs(q, "change"), tx[q].locked
        PROVE  role'[tx[q].workspace][tx[q].member] = role[tx[q].workspace][tx[q].member]
    <3>1. tx[q].workspace \in Workspaces /\ tx[q].member \in Users
      BY <2>1, TransactionKinds DEF LockInv, Change
    <3>2. HeldByOther(r, tx[q].workspace, tx[q].member)
      BY <2>1 DEF HeldByOther, Holds
    <3> QED
      BY <3>1, <3>2 DEF LeftAlone
  <2> QED
    BY <1>1, <2>1 DEF ChangeChecked
<1>3. DeleteChecked'
  BY <1>1 DEF DeleteChecked
<1>4. SoloAlone'
  <2> SUFFICES ASSUME NEW q \in Requests \ {r}, Runs(q, "delete"), NEW w \in tx[q].solo
               PROVE  Members(w)' \subseteq {tx[q].actor}
    BY <1>1 DEF SoloAlone
  <2>1. w \in tx[q].rows /\ w \in Workspaces /\ tx[q].actor \in Users
    BY TransactionKinds DEF LockInv, Deletion, SoloChecked
  <2>2. HeldByOther(r, w, tx[q].actor) /\ LockedByOther(r, w)
    BY <2>1 DEF HeldByOther, Holds, LockedByOther, Locks
  <2>3. state[w] # "new"
    BY <2>1, <2>2, HeldIsMember
  <2>4. \A u \in Users : role[w][u] = "none" => role'[w][u] = "none"
    BY <2>1, <2>2, <2>3 DEF LeftAlone
  <2> QED
    BY <2>4 DEF Members, SoloAlone
<1> QED
  BY <1>2, <1>3, <1>4

LEMMA EndStep ==
  ASSUME CheckInv, LockInv', NEW r \in Requests, LeftAlone(r), tx'[r] = Idle, RowsRefer'
  PROVE  CheckInv'
BY CheckStep DEF Runs

LEMMA StartChecks ==
  ASSUME CheckInv, LockInv', NEW r \in Requests, Start(r)
  PROVE  CheckInv'
<1> USE DEF CheckInv
<1>0. LeftAlone(r)
  BY StartLeaves
<1> PICK u \in Users, w \in Workspaces :
      \/ CreateWorkspace(r, u, w)
      \/ \E limit \in Limits : IssueInviteCode(r, u, w, limit)
      \/ \E m \in Users, to \in Roles : StartChange(r, u, w, m, to)
      \/ StartRedeem(r, u, w)
      \/ \E m \in Users : StartInvite(r, u, w, m)
      \/ \E accept \in BOOLEAN : RespondToInvitation(r, u, w, accept)
  BY DEF Start
<1>1. CASE CreateWorkspace(r, u, w)
  <2>1. tx'[r] = Idle
    BY <1>1 DEF CreateWorkspace
  <2>2. RowsRefer'
    BY <1>1 DEF CreateWorkspace, RowsRefer, LockInv, TypeOK
  <2> QED
    BY <1>0, <2>1, <2>2, EndStep
<1>2. ASSUME alive' = alive, role' = role, pending' = pending PROVE RowsRefer'
  BY <1>2 DEF RowsRefer
<1>3. ASSUME NEW limit \in Limits, IssueInviteCode(r, u, w, limit) PROVE CheckInv'
  <2>1. tx'[r] = Idle /\ alive' = alive /\ role' = role /\ pending' = pending
    BY <1>3 DEF IssueInviteCode
  <2> QED
    BY <1>0, <1>2, <2>1, EndStep
<1>4. ASSUME NEW m \in Users, NEW to \in Roles, StartChange(r, u, w, m, to) PROVE CheckInv'
  <2>1. tx'[r] = [op |-> "change", workspace |-> w, member |-> m, to |-> to,
                  locked |-> FALSE, admins |-> {}]
    BY <1>4 DEF StartChange, LockInv, TypeOK
  <2>2. ~tx'[r].locked /\ ~Runs(r, "delete")'
    BY <2>1 DEF Runs
  <2>3. alive' = alive /\ role' = role /\ pending' = pending
    BY <1>4 DEF StartChange
  <2> QED
    BY <1>0, <1>2, <2>2, <2>3, CheckStep
<1>5. CASE StartRedeem(r, u, w)
  <2>1. tx'[r] = [op |-> "redeem", actor |-> u, workspace |-> w, uses |-> code[w].uses]
    BY <1>5 DEF StartRedeem, LockInv, TypeOK
  <2>2. ~Runs(r, "change")' /\ ~Runs(r, "delete")'
    BY <2>1 DEF Runs
  <2>3. alive' = alive /\ role' = role /\ pending' = pending
    BY <1>5 DEF StartRedeem
  <2> QED
    BY <1>0, <1>2, <2>2, <2>3, CheckStep
<1>6. ASSUME NEW m \in Users, StartInvite(r, u, w, m) PROVE CheckInv'
  <2>1. tx'[r] = [op |-> "invite", workspace |-> w, member |-> m]
    BY <1>6 DEF StartInvite, LockInv, TypeOK
  <2>2. ~Runs(r, "change")' /\ ~Runs(r, "delete")'
    BY <2>1 DEF Runs
  <2>3. alive' = alive /\ role' = role /\ pending' = pending
    BY <1>6 DEF StartInvite
  <2> QED
    BY <1>0, <1>2, <2>2, <2>3, CheckStep
<1>7. ASSUME NEW accept \in BOOLEAN, RespondToInvitation(r, u, w, accept) PROVE CheckInv'
  <2>1. tx'[r] = Idle /\ u \in alive /\ alive' = alive
    BY <1>7 DEF RespondToInvitation, RowsRefer
  <2>2. \A v \in Workspaces, m \in Users :
          role'[v][m] # "none" => role[v][m] # "none" \/ m = u
    BY <1>7 DEF RespondToInvitation, Joined, LockInv, TypeOK
  <2>3. \A v \in Workspaces, m \in Users : pending'[v][m] > 0 => pending[v][m] > 0 \/ m = u
    BY <1>7 DEF RespondToInvitation, LockInv, TypeOK
  <2>4. RowsRefer'
    BY <2>1, <2>2, <2>3 DEF RowsRefer
  <2> QED
    BY <1>0, <2>1, <2>4, EndStep
<1> QED
  BY <1>1, <1>3, <1>4, <1>5, <1>6, <1>7

LEMMA StartDeleteChecks ==
  ASSUME CheckInv, LockInv', NEW r \in Requests, NEW u \in Users, StartDelete(r, u)
  PROVE  CheckInv'
<1> USE DEF CheckInv
<1> DEFINE rows == {w \in Workspaces : u \in Members(w)}
           none == [w \in Workspaces |-> {}]
<1>1. LeftAlone(r)
  BY StartDeleteLocks DEF LockInv
<1>2. tx'[r] = [op |-> "delete", actor |-> u, rows |-> rows, unchecked |-> rows,
                solo |-> {}, admins |-> none]
  BY DEF StartDelete, LockInv, TypeOK
<1>3. \A w \in Workspaces : none[w] = {}
  OBVIOUS
<1>4. RowsRefer'
  BY DEF StartDelete, RowsRefer
<1> HIDE DEF rows, none
<1>5. ~Runs(r, "change")'
  BY <1>2 DEF Runs
<1> QED
  BY <1>1, <1>2, <1>3, <1>4, <1>5, CheckStep

LEMMA ContinueChecks ==
  ASSUME CheckInv, LockInv', NEW r \in Requests, Continue(r)
  PROVE  CheckInv'
<1> USE DEF CheckInv
<1>0. LeftAlone(r)
  BY ContinueLeaves
<1>1. ASSUME alive' = alive, role' = role, pending' = pending PROVE RowsRefer'
  BY <1>1 DEF RowsRefer
<1>2. CASE CheckChange(r)
  <2>1. alive' = alive /\ role' = role /\ pending' = pending
    BY <1>2 DEF CheckChange
  <2>2. CASE End(r)
    BY <1>0, <1>1, <2>1, <2>2, Ended, EndStep
  <2>3. CASE ~End(r)
    <3>1. tx[r] \in Change
      BY <1>2, TransactionKinds DEF CheckChange, LockInv
    <3>2. tx'[r] = [tx[r] EXCEPT !.locked = TRUE, !.admins = Admins(tx[r].workspace)]
      BY <1>2, <2>3 DEF CheckChange, LockInv, TypeOK
    <3>3. /\ tx'[r].op = "change" /\ tx'[r].workspace = tx[r].workspace
          /\ tx'[r].member = tx[r].member /\ tx'[r].to = tx[r].to
          /\ tx'[r].admins = Admins(tx[r].workspace)
      BY <3>1, <3>2 DEF Change
    <3>4. Permitted(tx[r].workspace, tx[r].member, tx[r].to) /\ tx[r].member \in Users
      BY <1>2, <2>3, <3>1 DEF CheckChange, Change
    <3>5. ~Runs(r, "delete")'
      BY <3>3 DEF Runs
    <3> QED
      BY <1>0, <1>1, <2>1, <3>3, <3>4, <3>5, CheckStep DEF Permitted, Admins
  <2> QED
    BY <2>2, <2>3
<1>3. CASE CommitChange(r)
  <2>1. /\ End(r) /\ alive' = alive /\ pending' = pending
        /\ Holds(r, tx[r].workspace, tx[r].member)
    BY <1>3 DEF CommitChange, Holds
  <2>2. tx[r].workspace \in Workspaces /\ tx[r].member \in Users
    BY <1>3, TransactionKinds DEF CommitChange, Change, LockInv
  <2>3. tx[r].member \in alive
    BY <2>1, <2>2 DEF LockInv, HeldRowStays, RowsRefer
  <2>4. RowsRefer'
    BY <1>3, <2>1, <2>2, <2>3 DEF RowsRefer, CommitChange, LockInv, TypeOK
  <2> QED
    BY <1>0, <2>1, <2>4, Ended, EndStep
<1>4. CASE CommitRedeem(r)
  <2>1. End(r) /\ alive' = alive /\ pending' = pending /\ tx[r].actor \in alive
    BY <1>4 DEF CommitRedeem
  <2>2. \A v \in Workspaces, m \in Users :
          role'[v][m] # "none" => role[v][m] # "none" \/ m = tx[r].actor
    BY <1>4 DEF CommitRedeem, Joined, LockInv, TypeOK
  <2>3. RowsRefer'
    BY <2>1, <2>2 DEF RowsRefer
  <2> QED
    BY <1>0, <2>1, <2>3, Ended, EndStep
<1>5. CASE CommitInvite(r)
  <2>1. End(r) /\ alive' = alive /\ role' = role /\ tx[r].member \in alive
    BY <1>5 DEF CommitInvite
  <2>2. \A v \in Workspaces, m \in Users :
          pending'[v][m] # pending[v][m] => m = tx[r].member
    BY <1>5 DEF CommitInvite, LockInv, TypeOK
  <2>3. RowsRefer'
    BY <2>1, <2>2 DEF RowsRefer
  <2> QED
    BY <1>0, <2>1, <2>3, Ended, EndStep
<1>6. ASSUME NEW w \in Workspaces, CheckDelete(r, w) PROVE CheckInv'
  <2>1. alive' = alive /\ role' = role /\ pending' = pending
    BY <1>6 DEF CheckDelete
  <2>2. CASE End(r)
    BY <1>0, <1>1, <2>1, <2>2, Ended, EndStep
  <2>3. CASE ~End(r)
    <3>1. Runs(r, "delete") /\ tx[r] \in Deletion
      BY <1>6, TransactionKinds DEF CheckDelete, LockInv
    <3> DEFINE u == tx[r].actor
    <3>2. /\ tx'[r].op = "delete" /\ tx'[r].rows = tx[r].rows /\ tx'[r].actor = u
          /\ tx'[r].unchecked = tx[r].unchecked \ {w}
          /\ tx'[r].solo = IF Others(w, u) = {} THEN tx[r].solo \cup {w} ELSE tx[r].solo
          /\ tx'[r].admins = [tx[r].admins EXCEPT ![w] = Admins(w)]
      BY <1>6, <2>3, Checked
    <3>3. ~Runs(r, "change")'
      BY <3>2 DEF Runs
    <3>4. /\ tx'[r].admins[w] = Admins(w)
          /\ \A v \in Workspaces \ {w} : tx'[r].admins[v] = tx[r].admins[v]
      BY <3>1, <3>2 DEF Deletion
    <3>5. \/ w \in tx'[r].solo
          \/ u \notin tx'[r].admins[w]
          \/ tx'[r].admins[w] \ {u} # {}
      <4>1. Others(w, u) # {} /\ u \in Admins(w) => Others(w, u) \cap Admins(w) # {}
        BY <1>6, <2>3 DEF CheckDelete
      <4> QED
        BY <3>2, <3>4, <4>1 DEF Others
    <3>6. \A v \in Workspaces :
           \/ v \in tx'[r].solo
           \/ v \in tx'[r].unchecked
           \/ v \notin tx'[r].rows /\ tx'[r].admins[v] = {}
           \/ tx'[r].actor \notin tx'[r].admins[v]
           \/ tx'[r].admins[v] \ {tx'[r].actor} # {}
      BY <3>1, <3>2, <3>4, <3>5 DEF DeleteChecked
    <3>7. \A v \in tx'[r].solo : Members(v)' \subseteq {tx'[r].actor}
      <4>1. \A v \in tx'[r].solo : Members(v) \subseteq {u}
        BY <3>1, <3>2 DEF SoloAlone, Others
      <4> QED
        BY <2>1, <3>2, <4>1 DEF Members
    <3> QED
      BY <1>0, <1>1, <2>1, <3>3, <3>6, <3>7, CheckStep
  <2> QED
    BY <2>2, <2>3
<1>7. CASE CommitDelete(r)
  <2>1. End(r)
    BY <1>7 DEF CommitDelete
  <2>2. RowsRefer'
    BY <1>7 DEF CommitDelete, RowsRefer, LockInv, TypeOK
  <2> QED
    BY <1>0, <2>1, <2>2, Ended, EndStep
<1>8. CASE Rollback(r)
  <2>1. End(r) /\ alive' = alive /\ role' = role /\ pending' = pending
    BY <1>8 DEF Rollback
  <2> QED
    BY <1>0, <1>1, <2>1, Ended, EndStep
<1> QED
  BY <1>2, <1>3, <1>4, <1>5, <1>6, <1>7, <1>8 DEF Continue

LEMMA CheckInit == Init => CheckInv
<1> SUFFICES ASSUME Init PROVE CheckInv
  OBVIOUS
<1>1. \A r \in Requests, op \in {"change", "delete"} : ~Runs(r, op)
  BY DEF Init, Runs
<1>2. ChangeChecked /\ DeleteChecked /\ SoloAlone
  BY <1>1 DEF ChangeChecked, DeleteChecked, SoloAlone
<1>3. RowsRefer
  BY DEF Init, RowsRefer
<1> QED
  BY <1>2, <1>3, LockInit DEF CheckInv

LEMMA CheckNext == CheckInv /\ [Next]_vars => CheckInv'
<1> SUFFICES ASSUME CheckInv, [Next]_vars PROVE CheckInv'
  OBVIOUS
<1>1. LockInv'
  BY LockNext DEF CheckInv
<1>2. CASE UNCHANGED vars
  <2>1. \A r \in Requests, op \in {"change", "delete"} : Runs(r, op)' <=> Runs(r, op)
    BY <1>2 DEF vars, Runs
  <2>2. \A w \in Workspaces : Members(w)' = Members(w)
    BY <1>2 DEF vars, Members
  <2>3. ChangeChecked' /\ DeleteChecked' /\ RowsRefer'
    BY <1>2, <2>1 DEF vars, CheckInv, ChangeChecked, DeleteChecked, RowsRefer
  <2>4. SoloAlone'
    <3> SUFFICES ASSUME NEW r \in Requests, Runs(r, "delete"), NEW w \in tx[r].solo
                 PROVE  Members(w)' \subseteq {tx[r].actor}
      BY <1>2, <2>1 DEF vars, SoloAlone
    <3>1. w \in Workspaces
      BY TransactionKinds DEF CheckInv, LockInv, Deletion
    <3> QED
      BY <2>2, <3>1 DEF CheckInv, SoloAlone
  <2> QED
    BY <1>1, <2>3, <2>4 DEF CheckInv
<1>3. CASE Next
  BY <1>1, <1>3, StartChecks, StartDeleteChecks, ContinueChecks DEF Next
<1> QED
  BY <1>2, <1>3

-----------------------------------------------------------------------------
(* What a step may do to one workspace.                                     *)

Counted(w, u) ==
  \/ pending[w][u] > 0 /\ pending'[w][u] = pending[w][u] - 1
  \/ Redeemable(code[w]) /\ code'[w].uses = code[w].uses + 1

LEMMA CountedNext ==
  ASSUME LockInv, [Next]_vars, NEW w \in Workspaces, NEW u \in Users,
         role[w][u] = "none", role'[w][u] = "member"
  PROVE  Counted(w, u)
<1> USE DEF LockInv
<1>1. ~UNCHANGED role
  OBVIOUS
<1>2. ASSUME NEW r \in Requests, NEW v \in Users, NEW x \in Workspaces, CreateWorkspace(r, v, x)
      PROVE  FALSE
  BY <1>2 DEF CreateWorkspace, TypeOK
<1>3. ASSUME NEW r \in Requests, NEW v \in Users, NEW x \in Workspaces,
             NEW accept \in BOOLEAN, RespondToInvitation(r, v, x, accept)
      PROVE  Counted(w, u)
  <2>1. w = x /\ u = v
    BY <1>1, <1>3 DEF RespondToInvitation, Joined, TypeOK
  <2> QED
    BY <1>3, <2>1 DEF RespondToInvitation, Counted, TypeOK
<1>4. ASSUME NEW r \in Requests, CommitChange(r) PROVE FALSE
  <2>1. Holds(r, tx[r].workspace, tx[r].member)
    BY <1>4 DEF CommitChange, Holds
  <2>2. tx[r].workspace \in Workspaces /\ tx[r].member \in Users
    BY <1>4, TransactionKinds DEF CommitChange, Change
  <2>3. role[tx[r].workspace][tx[r].member] # "none"
    BY <2>1, <2>2 DEF HeldRowStays
  <2> QED
    BY <1>4, <2>3 DEF CommitChange, TypeOK
<1>5. ASSUME NEW r \in Requests, CommitRedeem(r) PROVE Counted(w, u)
  <2>1. tx[r].workspace \in Workspaces /\ tx[r].actor \in Users /\ Runs(r, "redeem")
    BY <1>5, TransactionKinds DEF CommitRedeem, Redemption
  <2>2. w = tx[r].workspace
    BY <1>1, <1>5, <2>1 DEF CommitRedeem, Joined, TypeOK
  <2>3. Redeemable(code[w]) /\ tx[r].uses = code[w].uses
    BY <2>1, <2>2 DEF CodeAsRead
  <2>4. code'[w].uses = tx[r].uses + 1
    BY <1>5, <2>1, <2>2 DEF CommitRedeem, TypeOK, Codes
  <2> QED
    BY <2>3, <2>4 DEF Counted
<1>6. ASSUME NEW r \in Requests, CommitDelete(r) PROVE FALSE
  BY <1>6 DEF CommitDelete
<1>7. ASSUME NEW r \in Requests, Start(r) PROVE Counted(w, u)
  BY <1>1, <1>2, <1>3, <1>7 DEF Start, IssueInviteCode, StartChange, StartRedeem, StartInvite
<1>8. ASSUME NEW r \in Requests, Continue(r) PROVE Counted(w, u)
  BY <1>1, <1>4, <1>5, <1>6, <1>8
     DEF Continue, CheckChange, CommitInvite, CheckDelete, Rollback
<1>9. ASSUME NEW r \in Requests, NEW v \in Users, StartDelete(r, v) PROVE FALSE
  BY <1>1, <1>9 DEF StartDelete
<1>10. Next
  BY <1>1 DEF vars
<1> QED
  BY <1>7, <1>8, <1>9, <1>10 DEF Next

LEMMA SoleNext ==
  ASSUME CheckInv, [Next]_vars, NEW w \in Workspaces, state[w] = "live", state'[w] = "gone"
  PROVE  Members(w) \subseteq alive \ alive'
<1> USE DEF CheckInv, LockInv
<1>1. ~UNCHANGED state
  OBVIOUS
<1>2. ASSUME NEW r \in Requests, Start(r) PROVE FALSE
  BY <1>1, <1>2 DEF Start, CreateWorkspace, IssueInviteCode, StartChange, StartRedeem,
                    StartInvite, RespondToInvitation, TypeOK
<1>3. ASSUME NEW r \in Requests, NEW u \in Users, StartDelete(r, u) PROVE FALSE
  BY <1>1, <1>3 DEF StartDelete
<1>4. ASSUME NEW r \in Requests, CommitDelete(r)
      PROVE  Members(w) \subseteq alive \ alive'
  <2>1. Runs(r, "delete") /\ w \in tx[r].solo
    BY <1>4 DEF CommitDelete
  <2>2. Members(w) \subseteq {tx[r].actor}
    BY <2>1 DEF SoloAlone
  <2>3. Members(w) \subseteq alive
    BY DEF Members, RowsRefer
  <2>4. alive' = alive \ {tx[r].actor}
    BY <1>4 DEF CommitDelete
  <2> QED
    BY <2>2, <2>3, <2>4
<1>5. ASSUME NEW r \in Requests, Continue(r)
      PROVE  Members(w) \subseteq alive \ alive'
  BY <1>1, <1>4, <1>5 DEF Continue, CheckChange, CommitChange, CommitRedeem, CommitInvite,
                          CheckDelete, Rollback
<1>6. Next
  BY <1>1 DEF vars
<1> QED
  BY <1>2, <1>3, <1>5, <1>6 DEF Next

(* r ends having counted other admins of w than there are.                  *)
Raced(r, w) ==
  /\ tx'[r] = Idle
  /\ \/ Runs(r, "change") /\ tx[r].workspace = w /\ tx[r].admins # Admins(w)
     \/ Runs(r, "delete") /\ tx[r].admins[w] # Admins(w)

LEMMA AdminLostNext ==
  ASSUME CheckInv, [Next]_vars, NEW w \in Workspaces,
         Admins(w) # {}, Admins(w)' = {}, state'[w] = "live"
  PROVE  \E r \in Requests : Raced(r, w)
<1> USE DEF CheckInv, LockInv
<1> PICK a \in Users : role[w][a] = "admin"
  BY DEF Admins
<1>0. \A u \in Users : role'[w][u] # "admin"
  BY DEF Admins
<1>1. role' # role
  BY <1>0
<1>2. ASSUME NEW r \in Requests, Start(r) PROVE FALSE
  <2>1. ASSUME NEW u \in Users, NEW x \in Workspaces PROVE Joined(x, u)[w][a] = "admin"
    BY <2>1 DEF Joined, TypeOK
  <2>2. ASSUME NEW u \in Users, NEW x \in Workspaces, CreateWorkspace(r, u, x) PROVE FALSE
    BY <1>0, <2>2 DEF CreateWorkspace, TypeOK
  <2>3. ASSUME NEW u \in Users, NEW x \in Workspaces, NEW accept \in BOOLEAN,
               RespondToInvitation(r, u, x, accept)
        PROVE  FALSE
    BY <1>0, <1>1, <2>1, <2>3 DEF RespondToInvitation
  <2> QED
    BY <1>1, <1>2, <2>2, <2>3 DEF Start, IssueInviteCode, StartChange, StartRedeem, StartInvite
<1>3. ASSUME NEW r \in Requests, NEW u \in Users, StartDelete(r, u) PROVE FALSE
  BY <1>1, <1>3 DEF StartDelete
<1>4. ASSUME NEW r \in Requests, CommitChange(r) PROVE Raced(r, w)
  <2> DEFINE m == tx[r].member
  <2>1. Runs(r, "change") /\ tx[r].locked /\ tx'[r] = Idle
    BY <1>4, Ended DEF CommitChange
  <2>2. tx[r].workspace \in Workspaces /\ m \in Users
    BY <2>1, TransactionKinds DEF Change
  <2>3. role' = [role EXCEPT ![tx[r].workspace][m] = tx[r].to]
    BY <1>4 DEF CommitChange
  <2>4. tx[r].workspace = w /\ m = a /\ tx[r].to # "admin"
    BY <1>0, <2>2, <2>3 DEF TypeOK
  <2>5. Admins(w) \ {m} = {}
    BY <1>0, <2>2, <2>3, <2>4 DEF Admins, TypeOK
  <2>6. tx[r].admins \ {m} # {}
    BY <2>1, <2>4 DEF ChangeChecked
  <2> QED
    BY <2>1, <2>4, <2>5, <2>6 DEF Raced
<1>5. ASSUME NEW r \in Requests, CommitRedeem(r) PROVE FALSE
  <2>1. role'[w][a] = "admin"
    BY <1>5 DEF CommitRedeem, Joined, TypeOK
  <2> QED
    BY <1>0, <2>1
<1>6. ASSUME NEW r \in Requests, CommitDelete(r) PROVE Raced(r, w)
  <2> DEFINE u == tx[r].actor
  <2>1. Runs(r, "delete") /\ tx[r].unchecked = {} /\ tx'[r] = Idle
    BY <1>6, Ended DEF CommitDelete
  <2>2. w \notin tx[r].solo
    BY <1>6 DEF CommitDelete
  <2>3. \A v \in Users : v # u => role'[w][v] = role[w][v]
    BY <1>6, <2>2 DEF CommitDelete
  <2>4. Admins(w) \subseteq {u}
    BY <1>0, <2>3 DEF Admins
  <2>5. \/ tx[r].admins[w] = {}
        \/ u \notin tx[r].admins[w]
        \/ tx[r].admins[w] \ {u} # {}
    BY <2>1, <2>2 DEF DeleteChecked
  <2>6. tx[r].admins[w] # Admins(w)
    BY <2>4, <2>5
  <2> QED
    BY <2>1, <2>6 DEF Raced
<1>7. ASSUME NEW r \in Requests, Continue(r) PROVE Raced(r, w)
  BY <1>1, <1>4, <1>5, <1>6, <1>7
     DEF Continue, CheckChange, CommitInvite, CheckDelete, Rollback
<1>8. Next
  BY <1>1 DEF vars
<1> QED
  BY <1>2, <1>3, <1>7, <1>8 DEF Next

-----------------------------------------------------------------------------
(* Theorems.                                                                *)

LEMMA CheckHolds == Spec => []CheckInv
<1> QED
  BY CheckInit, CheckNext, PTL DEF Spec

(* Whatever requests run at once, a new member used up an invitation or one *)
(* use of a code that had one left.                                         *)
THEOREM JoinsAreCounted == Spec => JoinCounted
<1>1. Init => LockInv
  BY LockInit
<1>2. LockInv /\ [Next]_vars => LockInv'
  BY LockNext
<1>3. LockInv /\ [Next]_vars =>
        [\A w \in Workspaces, u \in Users : role[w][u] = "none" /\ role'[w][u] = "member" =>
           \/ pending[w][u] > 0 /\ pending'[w][u] = pending[w][u] - 1
           \/ Redeemable(code[w]) /\ code'[w].uses = code[w].uses + 1]_vars
  BY CountedNext DEF Counted
<1> QED
  BY <1>1, <1>2, <1>3, PTL DEF Spec, JoinCounted

(* However account deletions, redemptions and invitations interleave, the   *)
(* workspaces deleted with an account have no other member.                 *)
THEOREM SoleMembersOnly == Spec => OnlySoleDeleted
<1>1. CheckInv /\ [Next]_vars =>
        [\A w \in Workspaces : state[w] = "live" /\ state'[w] = "gone" =>
           Members(w) \subseteq alive \ alive']_vars
  BY SoleNext
<1> QED
  BY <1>1, CheckHolds, PTL DEF Spec, OnlySoleDeleted

(* A workspace loses its last admin only to a check that is out of date at  *)
(* the commit: the last-admin checks are right, but for the race.           *)
THEOREM AdminLostToStaleCheck == Spec => AdminLostToRaceOnly
<1>1. CheckInv /\ [Next]_vars =>
        [\A w \in Workspaces :
           /\ Admins(w) # {} /\ Admins(w)' = {}
           /\ state'[w] = "live"
           => \E r \in Requests :
                /\ tx'[r] = Idle
                /\ \/ Runs(r, "change") /\ tx[r].workspace = w /\ tx[r].admins # Admins(w)
                   \/ Runs(r, "delete") /\ tx[r].admins[w] # Admins(w)]_vars
  BY AdminLostNext DEF Raced
<1> QED
  BY <1>1, CheckHolds, PTL DEF Spec, AdminLostToRaceOnly

-----------------------------------------------------------------------------
(* Types.                                                                   *)

Steps == {"load", "add", "set", "use", "look", "request", "verify", "save", "writeConfig",
          "writeTokens"}
Withs == [remote : Remotes \cup {Nobody}, alias : Aliases \cup Credentials \cup {Nobody},
          slot : Slots \cup {Nobody}, url : Urls \cup {Nobody}, token : Tokens \cup {Nobody},
          skip : BOOLEAN, reuse : BOOLEAN]
ClientRecords ==
  [todo : Seq(Steps), with : Withs, config : ConfigFile, tokens : TokenFile,
   seen : [config : ConfigFile, tokens : TokenFile], identity : Accounts \cup {Nobody}]
Legacies == {Nobody} \cup [alias : Aliases, token : Tokens]

CliShape ==
  /\ files \in [config : ConfigFile, tokens : TokenFile, legacy : Legacies]
  /\ client \in [Clients -> ClientRecords]
  /\ sent \subseteq Slots \X Tokens \X Urls
  /\ amiss \in [raced : BOOLEAN, cut : BOOLEAN, moved : SUBSET Remotes, unverified : SUBSET Slots]
  /\ cliRuns \in [commands : 0..MaxCliCommands, kills : 0..MaxCliKills]

(* What the order of the steps of every command comes to: arguments are     *)
(* there for the steps that use them, nothing is verified twice, tokens are *)
(* written right after the configuration.                                   *)
AfterVerify == {"load", "save", "writeConfig", "writeTokens"}

Program(c) ==
  /\ \A i \in 1..Len(c.todo) :
       /\ c.todo[i] \in {"add", "set", "use", "look"} => c.with.remote \in Remotes
       /\ c.todo[i] \in {"add", "set"} => c.with.url \in Urls
       /\ c.todo[i] = "use" => c.with.alias \in Aliases
       /\ c.todo[i] \in {"verify", "save"} => c.with.slot \in Slots /\ c.with.token \in Tokens
       /\ c.todo[i] \notin AfterVerify => c.identity = Nobody
  /\ c.with.reuse => c.with.slot \in Slots /\ c.with.token \in Tokens
  /\ \A i, j \in 1..Len(c.todo) : c.todo[i] = "verify" /\ i < j => c.todo[j] \in AfterVerify
  /\ \A i \in 1..(Len(c.todo) - 1) :
       /\ c.todo[i + 1] = "writeTokens" => c.todo[i] = "writeConfig"
       /\ c.todo[i + 1] \in {"request", "set"} => c.todo[i] \in {"load", "writeTokens"}

At(c, step) == c.todo # <<>> /\ c.todo[1] = step

(* A configuration is changed in memory: what is known of an alias stays,   *)
(* no address is forgotten.                                                 *)
Follows(old, new) ==
  /\ \A r \in Remotes : old.urls[r] # Nobody => new.urls[r] # Nobody
  /\ \A n \in Names : old.ids[n] # Nobody => new.ids[n] # Nobody
  /\ \A n \in Names : old.ids[n] \notin {Nobody, Unverified} => new.ids[n] = old.ids[n]

(* What a command has in memory.                                            *)
Memory(c) ==
  /\ c.tokens.version = 2 /\ Follows(c.seen.config, c.config)
  /\ c.todo # <<>> /\ ~At(c, "load") => c.config.version = 2
  /\ At(c, "writeTokens") => c.seen.config = c.config
  /\ At(c, "request") \/ At(c, "set") =>
       /\ c.seen.config.urls = c.config.urls
       /\ c.seen.config.version = 0 => c.config.listed = {}
  /\ c.identity # Nobody => /\ c.with.token \in Tokens
                            /\ Issued[c.with.token] = [url |-> c.with.url, account |-> c.identity]

(* A command that read files of version 1 writes both of the new ones first. *)
ConvertsFirst(legacy, c) ==
  legacy # Nobody /\ c.seen.config.version = 0 /\ c.todo # <<>> /\ ~At(c, "load") =>
    At(c, "writeConfig") /\ Len(c.todo) > 1 /\ c.todo[2] = "writeTokens"

(* Every token is of an account that is known, and of the one and at the    *)
(* address that stand there, unless it is excused.                          *)
Good(conf, tokens, unverified, moved) ==
  \A s \in Slots :
    tokens.of[s] # Nobody =>
      /\ conf.urls[s[1]] # Nobody /\ conf.ids[<<s[1], s[2]>>] # Nobody
      /\ \/ s \in unverified
         \/ /\ conf.ids[<<s[1], s[2]>>] = Issued[tokens.of[s]].account
            /\ s[1] \in moved \/ Issued[tokens.of[s]].url = conf.urls[s[1]]

(* What the next write of the configuration is going to excuse.             *)
Excused(a, c) == a.unverified \cup IF c.seen.config.version = 0 THEN c.config.listed ELSE {}
Moving(a, c) ==
  a.moved \cup {r \in Remotes : c.seen.config.urls[r] \notin {Nobody, c.config.urls[r]}}

(* While no two commands overlapped, the files are good, what is in memory  *)
(* is, and so are the tokens about to be written with the configuration     *)
(* that stands by then.                                                     *)
Trusted ==
  /\ Good(files.config, files.tokens, amiss.unverified, amiss.moved)
  /\ \A p \in Clients :
       /\ Good(client[p].config, client[p].tokens, Excused(amiss, client[p]),
               Moving(amiss, client[p]))
       /\ At(client[p], "writeTokens") =>
            Good(files.config, client[p].tokens, amiss.unverified, amiss.moved)
  /\ SentHome /\ FilesLoad

CliInv ==
  /\ CliShape
  /\ \A p \in Clients :
       Program(client[p]) /\ Memory(client[p]) /\ ConvertsFirst(files.legacy, client[p])
  /\ files.legacy = Nobody => files.tokens.version # 1
  /\ files.config.version = 0 => files.config = NoFile
  /\ ~amiss.raced => Trusted
-----------------------------------------------------------------------------
(* What a configuration and the tokens come to.                             *)

LEMMA AccountsKnown ==
  ASSUME NEW t \in Tokens
  PROVE  /\ Issued[t] \in [url : Urls, account : Accounts] /\ t # Nobody
         /\ Issued[t].account \in Accounts /\ Issued[t].url \in Urls
         /\ Issued[t].account \notin {Nobody, Unverified} /\ Issued[t].url # Nobody
BY CliAssumption

LEMMA FollowsItself == \A c : Follows(c, c)
BY DEF Follows

LEMMA FollowsOn ==
  ASSUME NEW a, NEW b, NEW c, Follows(a, b), Follows(b, c)
  PROVE  Follows(a, c)
BY DEF Follows

LEMMA GoodGrows ==
  ASSUME NEW c, NEW t, NEW u, NEW v, NEW m, NEW k, Good(c, t, u, m), u \subseteq v, m \subseteq k
  PROVE  Good(c, t, v, k)
BY DEF Good

(* Tokens stay good when the configuration changes as one may, with the     *)
(* remotes whose address it changes excused.                                *)
LEMMA GoodFollows ==
  ASSUME NEW c, NEW d, NEW t \in TokenFile, NEW u, NEW v, NEW m, NEW k,
         Good(c, t, u, m), Follows(c, d), u \subseteq v, m \subseteq k,
         \A r \in Remotes : c.urls[r] \notin {Nobody, d.urls[r]} => r \in k
  PROVE  Good(d, t, v, k)
<1> SUFFICES ASSUME NEW s \in Slots, t.of[s] # Nobody
             PROVE  /\ d.urls[s[1]] # Nobody /\ d.ids[<<s[1], s[2]>>] # Nobody
                    /\ \/ s \in v
                       \/ /\ d.ids[<<s[1], s[2]>>] = Issued[t.of[s]].account
                          /\ s[1] \in k \/ Issued[t.of[s]].url = d.urls[s[1]]
  BY DEF Good
<1>1. t.of[s] \in Tokens /\ s[1] \in Remotes /\ <<s[1], s[2]>> \in Names
  BY DEF TokenFile, Slots, Names
<1>2. Issued[t.of[s]].account \notin {Nobody, Unverified}
  BY <1>1, AccountsKnown
<1>3. /\ c.urls[s[1]] # Nobody /\ c.ids[<<s[1], s[2]>>] # Nobody
      /\ \/ s \in u
         \/ /\ c.ids[<<s[1], s[2]>>] = Issued[t.of[s]].account
            /\ s[1] \in m \/ Issued[t.of[s]].url = c.urls[s[1]]
  BY DEF Good
<1>4. d.urls[s[1]] # Nobody /\ d.ids[<<s[1], s[2]>>] # Nobody
  BY <1>1, <1>3 DEF Follows
<1>5. CASE s \in u
  BY <1>4, <1>5
<1>6. CASE /\ c.ids[<<s[1], s[2]>>] = Issued[t.of[s]].account
           /\ s[1] \in m \/ Issued[t.of[s]].url = c.urls[s[1]]
  <2>1. d.ids[<<s[1], s[2]>>] = Issued[t.of[s]].account
    BY <1>1, <1>2, <1>6 DEF Follows
  <2>2. s[1] \in k \/ Issued[t.of[s]].url = d.urls[s[1]]
    <3>1. CASE s[1] \in m
      BY <3>1
    <3>2. CASE Issued[t.of[s]].url = c.urls[s[1]]
      BY <1>1, <1>3, <3>2
    <3> QED
      BY <1>6, <3>1, <3>2
  <2> QED
    BY <1>4, <2>1, <2>2
<1> QED
  BY <1>3, <1>5, <1>6

(* One more token that is good.                                             *)
LEMMA GoodWithOne ==
  ASSUME NEW c, NEW t \in TokenFile, NEW t2 \in TokenFile, NEW u, NEW m,
         NEW s \in Slots, NEW x \in Tokens,
         Good(c, t, u, m), t2.of = [t.of EXCEPT ![s] = x],
         c.urls[s[1]] # Nobody, c.ids[<<s[1], s[2]>>] # Nobody,
         \/ s \in u
         \/ /\ c.ids[<<s[1], s[2]>>] = Issued[x].account
            /\ s[1] \in m \/ Issued[x].url = c.urls[s[1]]
  PROVE  Good(c, t2, u, m)
<1>1. t.of \in [Slots -> Tokens \cup {Nobody}]
  BY DEF TokenFile
<1>2. t2.of[s] = x /\ \A z \in Slots : z # s => t2.of[z] = t.of[z]
  BY <1>1
<1> QED
  BY <1>2 DEF Good

LEMMA NothingIsGood ==
  ASSUME NEW c, NEW u, NEW m
  PROVE  Good(c, EmptyTokens, u, m)
BY DEF Good, EmptyTokens

(* No version is a version that is not there.                               *)
LEMMA EmptyTypes == EmptyConfig \in ConfigFile /\ NoFile \in ConfigFile /\ EmptyTokens \in TokenFile
<1>1. EmptyConfig \in ConfigFile
  BY DEF EmptyConfig, ConfigFile
<1>2. NoFile \in ConfigFile
  BY <1>1 DEF NoFile, ConfigFile
<1>3. EmptyTokens \in TokenFile
  BY DEF EmptyTokens, TokenFile
<1> QED
  BY <1>1, <1>2, <1>3

LEMMA NoFileHasNothing ==
  /\ NoFile.version = 0 /\ EmptyConfig.version = 2 /\ NoFile.urls = EmptyConfig.urls
  /\ NoFile.listed = {} /\ EmptyConfig.listed = {}
  /\ \A r \in Remotes : NoFile.urls[r] = Nobody
  /\ \A n \in Names : NoFile.ids[n] = Nobody
BY DEF NoFile, EmptyConfig

LEMMA NoFileFollowed == \A c : Follows(NoFile, c)
BY NoFileHasNothing DEF Follows

LEMMA OffTypes == Off \in ClientRecords /\ Off.todo = <<>>
<1>1. NoArguments \in Withs
  BY DEF NoArguments, Withs
<1> QED
  BY <1>1, EmptyTypes DEF Off, ClientRecords, Steps

LEMMA OffKept ==
  ASSUME NEW legacy, NEW u, NEW m
  PROVE  /\ Program(Off) /\ Memory(Off) /\ ConvertsFirst(legacy, Off)
         /\ Good(Off.config, Off.tokens, u, m) /\ ~At(Off, "writeTokens")
<1>1. Off.todo = <<>> /\ Off.tokens = EmptyTokens /\ Off.identity = Nobody /\ ~Off.with.reuse
  BY DEF Off, NoArguments
<1>2. Off.seen.config = NoFile /\ Off.config = NoFile /\ EmptyTokens.version = 2
  BY DEF Off, EmptyTokens
<1>3. Program(Off)
  BY <1>1 DEF Program
<1>4. Memory(Off)
  BY <1>1, <1>2, NoFileFollowed DEF Memory, At
<1>5. ConvertsFirst(legacy, Off)
  BY <1>1 DEF ConvertsFirst
<1> QED
  BY <1>1, <1>3, <1>4, <1>5, NothingIsGood DEF At
-----------------------------------------------------------------------------
(* A command goes on to its next step.                                      *)

LEMMA TailOf ==
  ASSUME NEW s \in Seq(Steps), Len(s) # 0, Len(s) # 1
  PROVE  /\ Tail(s) \in Seq(Steps) /\ Len(s) > 1 /\ Tail(s) # <<>> /\ Tail(s)[1] = s[2]
<1>1. Len(s) \in Nat /\ Len(s) > 1
  <2>1. Len(s) \in Nat
    BY LenProperties
  <2>2. \A n \in Nat : n # 0 /\ n # 1 => n > 1
    OBVIOUS
  <2> QED
    BY <2>1, <2>2
<1>2. Len(<<>>) = 0
  BY EmptySeq
<1>3. Tail(s) \in Seq(Steps) /\ Len(Tail(s)) = Len(s) - 1
  <2>1. s # <<>>
    BY <1>1, <1>2
  <2> QED
    BY <1>1, <2>1
<1>4. 1 \in 1..(Len(s) - 1) /\ Len(Tail(s)) # 0
  BY <1>1, <1>3
<1>5. Tail(s)[1] = s[1 + 1]
  BY <1>1, <1>2, <1>4
<1>6. Tail(s) # <<>>
  BY <1>2, <1>4
<1> QED
  BY <1>1, <1>3, <1>5, <1>6

LEMMA OnAt ==
  ASSUME NEW p \in Clients, NEW step, client \in [Clients -> ClientRecords]
  PROVE  On(p, step) <=> At(client[p], step)
<1>1. client[p].todo \in Seq(Steps)
  BY DEF ClientRecords
<1>2. CASE client[p].todo = <<>>
  BY <1>2 DEF On, At
<1>3. CASE client[p].todo # <<>>
  <2>1. Head(client[p].todo) = client[p].todo[1]
    BY <1>1, <1>3
  <2> QED
    BY <2>1 DEF On, At
<1> QED
  BY <1>2, <1>3

(* c is what a step made of b; the rest of its program is one as well.      *)
LEMMA TailIsProgram ==
  ASSUME NEW b \in ClientRecords, NEW d \in ClientRecords, Program(b), b.todo # <<>>,
         d.todo = Tail(b.todo), d.with = b.with, d.identity = b.identity \/ At(b, "verify")
  PROVE  Program(d)
<1>1. b.todo \in Seq(Steps) /\ Len(b.todo) \in Nat /\ Len(b.todo) > 0
  BY DEF ClientRecords
<1>2. /\ d.todo \in Seq(Steps) /\ Len(d.todo) = Len(b.todo) - 1
      /\ \A i \in 1..Len(d.todo) : d.todo[i] = b.todo[i + 1] /\ i + 1 \in 1..Len(b.todo)
  BY <1>1
<1>3. ASSUME NEW i \in 1..Len(d.todo)
      PROVE  /\ d.todo[i] \in {"add", "set", "use", "look"} => d.with.remote \in Remotes
             /\ d.todo[i] \in {"add", "set"} => d.with.url \in Urls
             /\ d.todo[i] = "use" => d.with.alias \in Aliases
             /\ d.todo[i] \in {"verify", "save"} => d.with.slot \in Slots /\ d.with.token \in Tokens
  <2>1. d.todo[i] = b.todo[i + 1] /\ i + 1 \in 1..Len(b.todo)
    BY <1>2
  <2> QED
    BY <2>1 DEF Program
<1>4. ASSUME NEW i \in 1..Len(d.todo), d.todo[i] \notin AfterVerify
      PROVE  d.identity = Nobody
  <2>1. d.todo[i] = b.todo[i + 1] /\ i + 1 \in 1..Len(b.todo) /\ 1 \in 1..Len(b.todo) /\ 1 < i + 1
    BY <1>1, <1>2
  <2>2. ~At(b, "verify")
    BY <1>4, <2>1 DEF Program, At
  <2> QED
    BY <1>4, <2>1, <2>2 DEF Program
<1>5. d.with.reuse => d.with.slot \in Slots /\ d.with.token \in Tokens
  BY DEF Program
<1>6. ASSUME NEW i \in 1..Len(d.todo), NEW j \in 1..Len(d.todo), d.todo[i] = "verify", i < j
      PROVE  d.todo[j] \in AfterVerify
  <2>1. /\ d.todo[i] = b.todo[i + 1] /\ i + 1 \in 1..Len(b.todo)
        /\ d.todo[j] = b.todo[j + 1] /\ j + 1 \in 1..Len(b.todo) /\ i + 1 < j + 1
    BY <1>2, <1>6
  <2> QED
    BY <1>6, <2>1 DEF Program
<1>7. ASSUME NEW i \in 1..(Len(d.todo) - 1)
      PROVE  /\ d.todo[i + 1] = "writeTokens" => d.todo[i] = "writeConfig"
             /\ d.todo[i + 1] \in {"request", "set"} => d.todo[i] \in {"load", "writeTokens"}
  <2>1. /\ d.todo[i] = b.todo[i + 1] /\ d.todo[i + 1] = b.todo[(i + 1) + 1]
        /\ i + 1 \in 1..(Len(b.todo) - 1)
    BY <1>1, <1>2
  <2> QED
    BY <2>1 DEF Program
<1> QED
  BY <1>3, <1>4, <1>5, <1>6, <1>7 DEF Program

(* The record of a command that goes on with c, and the step it comes to.   *)
Advanced(c, d) ==
  /\ d.todo # <<>> /\ d.todo[1] = c.todo[2] /\ Len(c.todo) > 1
  /\ d.with = c.with /\ d.config = c.config /\ d.tokens = c.tokens /\ d.seen = c.seen
  /\ d.identity = c.identity

Comes(c, d) ==
  /\ d \in ClientRecords /\ Program(d)
  /\ d = Off \/ Advanced(c, d)
  /\ At(d, "writeTokens") => At(c, "writeConfig")
  /\ At(d, "request") \/ At(d, "set") => At(c, "load") \/ At(c, "writeTokens")

LEMMA NextStep ==
  ASSUME NEW p \in Clients, client \in [Clients -> ClientRecords], client[p].todo # <<>>,
         NEW b \in ClientRecords, Program(b), b.todo = client[p].todo, NEW c \in ClientRecords, GoOn(p, c), c.todo = b.todo,
         c.with = b.with, c.identity = b.identity \/ At(c, "verify")
  PROVE  \E d : client' = [client EXCEPT ![p] = d] /\ Comes(c, d)
<1> DEFINE d == IF Len(c.todo) = 1 THEN Off ELSE [c EXCEPT !.todo = Tail(c.todo)]
<1>1. client' = [client EXCEPT ![p] = d]
  BY DEF GoOn
<1>2. client[p] \in ClientRecords /\ c.todo \in Seq(Steps) /\ Len(c.todo) \in Nat /\ Len(c.todo) > 0
  BY DEF ClientRecords
<1>3. CASE Len(c.todo) = 1
  <2>1. d = Off
    BY <1>3
  <2>2. Comes(c, Off)
    BY OffTypes, OffKept DEF Comes, At
  <2> QED
    BY <1>1, <2>1, <2>2
<1>4. CASE Len(c.todo) # 1
  <2>1. d = [c EXCEPT !.todo = Tail(c.todo)]
    BY <1>4
  <2>2. /\ Tail(c.todo) \in Seq(Steps) /\ Len(c.todo) > 1 /\ Tail(c.todo) # <<>>
        /\ Tail(c.todo)[1] = c.todo[2]
    BY <1>2, <1>4, TailOf
  <2>3. d \in ClientRecords /\ d.todo = Tail(c.todo)
    BY <2>1, <2>2 DEF ClientRecords
  <2>4. /\ d.with = c.with /\ d.config = c.config /\ d.tokens = c.tokens /\ d.seen = c.seen
        /\ d.identity = c.identity
    BY <2>1 DEF ClientRecords
  <2> HIDE DEF d
  <2>5. Program(d)
    <3>1. b.todo # <<>> /\ (At(c, "verify") => At(b, "verify"))
      BY <1>2 DEF At
    <3> QED
      BY <2>3, <2>4, <3>1, TailIsProgram
  <2>6. Advanced(c, d)
    BY <2>2, <2>3, <2>4 DEF Advanced
  <2>7. /\ At(d, "writeTokens") => At(c, "writeConfig")
        /\ At(d, "request") \/ At(d, "set") => At(c, "load") \/ At(c, "writeTokens")
    <3>1. 1 \in 1..(Len(b.todo) - 1) /\ 1 + 1 = 2
      BY <1>2, <2>2
    <3>2. /\ c.todo[2] = "writeTokens" => c.todo[1] = "writeConfig"
          /\ c.todo[2] \in {"request", "set"} => c.todo[1] \in {"load", "writeTokens"}
      BY <3>1 DEF Program
    <3> QED
      BY <1>2, <2>2, <2>3, <3>2 DEF At
  <2> QED
    BY <1>1, <2>3, <2>5, <2>6, <2>7 DEF Comes
<1> QED
  BY <1>3, <1>4
-----------------------------------------------------------------------------
(* What a step leaves alone.                                                *)

LEMMA Replaced ==
  ASSUME NEW p \in Clients, NEW d \in ClientRecords, client \in [Clients -> ClientRecords],
         client' = [client EXCEPT ![p] = d]
  PROVE  /\ client' \in [Clients -> ClientRecords] /\ client'[p] = d
         /\ \A q \in Clients : q # p => client'[q] = client[q]
OBVIOUS

AmissTypes == [raced : BOOLEAN, cut : BOOLEAN, moved : SUBSET Remotes, unverified : SUBSET Slots]

(* What went amiss stays.                                                   *)
Grows ==
  /\ amiss' \in AmissTypes
  /\ (amiss.raced => amiss'.raced) /\ (amiss.cut => amiss'.cut)
  /\ amiss.moved \subseteq amiss'.moved /\ amiss.unverified \subseteq amiss'.unverified

Kept(c) == c \in ClientRecords /\ Program(c) /\ Memory(c) /\ ConvertsFirst(files.legacy, c)

LEMMA SameAmissGrows == ASSUME CliShape, UNCHANGED amiss PROVE Grows
BY DEF CliShape, Grows, AmissTypes

LEMMA StepKeeps ==
  ASSUME CliInv, NEW p \in Clients, NEW d, Kept(d), client' = [client EXCEPT ![p] = d],
         files' \in [config : ConfigFile, tokens : TokenFile, legacy : Legacies],
         files'.legacy = files.legacy, Grows, sent' \subseteq Slots \X Tokens \X Urls,
         cliRuns' \in [commands : 0..MaxCliCommands, kills : 0..MaxCliKills]
  PROVE  /\ CliShape'
         /\ \A q \in Clients :
              Program(client'[q]) /\ Memory(client'[q]) /\ ConvertsFirst(files'.legacy, client'[q])
<1>1. client \in [Clients -> ClientRecords] /\ d \in ClientRecords
  BY DEF CliInv, CliShape, Kept
<1>2. /\ client' \in [Clients -> ClientRecords] /\ client'[p] = d
      /\ \A q \in Clients : q # p => client'[q] = client[q]
  BY <1>1, Replaced
<1>3. CliShape'
  BY <1>2 DEF CliShape, Grows, AmissTypes
<1>4. ASSUME NEW q \in Clients
      PROVE  Program(client'[q]) /\ Memory(client'[q]) /\ ConvertsFirst(files'.legacy, client'[q])
  <2>1. CASE q = p
    BY <1>2, <2>1 DEF Kept
  <2>2. CASE q # p
    BY <1>2, <2>2 DEF CliInv
  <2> QED
    BY <2>1, <2>2
<1> QED
  BY <1>3, <1>4

LEMMA ExcusesGrow ==
  ASSUME Grows, NEW c
  PROVE  Excused(amiss, c) \subseteq Excused(amiss', c) /\ Moving(amiss, c) \subseteq Moving(amiss', c)
BY DEF Grows, Excused, Moving

LEMMA SentHomeGrows ==
  ASSUME CliShape, SentHome, Grows, UNCHANGED sent
  PROVE  SentHome'
BY DEF SentHome, Grows

(* A step that writes no file.                                              *)
LEMMA UnwrittenStep ==
  ASSUME CliInv, NEW p \in Clients, NEW d, Kept(d), client' = [client EXCEPT ![p] = d],
         UNCHANGED files, Grows, sent' \subseteq Slots \X Tokens \X Urls,
         cliRuns' \in [commands : 0..MaxCliCommands, kills : 0..MaxCliKills],
         ~amiss'.raced =>
           /\ Good(d.config, d.tokens, Excused(amiss', d), Moving(amiss', d))
           /\ SentHome',
         ~At(d, "writeTokens"), At(client[p], "writeTokens") => amiss'.cut
  PROVE  CliInv'
<1>1. /\ CliShape'
      /\ \A q \in Clients :
           Program(client'[q]) /\ Memory(client'[q]) /\ ConvertsFirst(files'.legacy, client'[q])
  <2>1. files' \in [config : ConfigFile, tokens : TokenFile, legacy : Legacies]
    BY DEF CliInv, CliShape
  <2> QED
    BY <2>1, StepKeeps
<1>2. /\ client \in [Clients -> ClientRecords] /\ d \in ClientRecords
      /\ client' \in [Clients -> ClientRecords] /\ client'[p] = d
      /\ \A q \in Clients : q # p => client'[q] = client[q]
  BY Replaced DEF CliInv, CliShape, Kept
<1>3. ASSUME ~amiss'.raced
      PROVE  Trusted'
  <2>1. Trusted
    BY <1>3 DEF CliInv, Grows
  <2>2. Good(files.config, files.tokens, amiss'.unverified, amiss'.moved)
    BY <2>1, GoodGrows DEF Trusted, Grows
  <2>3. ASSUME NEW q \in Clients
        PROVE  Good(client'[q].config, client'[q].tokens, Excused(amiss', client'[q]),
                    Moving(amiss', client'[q]))
    <3>1. CASE q = p
      BY <1>2, <1>3, <3>1
    <3>2. CASE q # p
      <4>1. Good(client[q].config, client[q].tokens, Excused(amiss, client[q]),
                 Moving(amiss, client[q]))
        BY <2>1 DEF Trusted
      <4> QED
        BY <1>2, <3>2, <4>1, ExcusesGrow, GoodGrows
    <3> QED
      BY <3>1, <3>2
  <2>4. ASSUME NEW q \in Clients, At(client'[q], "writeTokens")
        PROVE  Good(files.config, client'[q].tokens, amiss'.unverified, amiss'.moved)
    <3>1. q # p /\ client'[q] = client[q]
      BY <1>2, <2>4
    <3>2. Good(files.config, client[q].tokens, amiss.unverified, amiss.moved)
      BY <2>1, <2>4, <3>1 DEF Trusted
    <3> QED
      BY <3>1, <3>2, GoodGrows DEF Grows
  <2>5. FilesLoad'
    <3> SUFFICES ASSUME files'.config.version = 2, files'.tokens.version = 1, ~amiss'.cut
                 PROVE  \E q \in Clients : On(q, "writeTokens")'
      BY DEF FilesLoad
    <3>1. PICK q \in Clients : On(q, "writeTokens")
      BY <2>1 DEF Trusted, FilesLoad, Grows
    <3>2. q # p
      BY <1>2, <3>1, OnAt
    <3> QED
      BY <1>2, <3>1, <3>2 DEF On
  <2> QED
    BY <1>3, <2>2, <2>3, <2>4, <2>5 DEF Trusted
<1> QED
  BY <1>1, <1>3 DEF CliInv
-----------------------------------------------------------------------------
(* The steps in memory.                                                     *)

LEMMA StopKeeps ==
  ASSUME CliInv, NEW p \in Clients, Stop(p), UNCHANGED files, Grows,
         sent' \subseteq Slots \X Tokens \X Urls,
         cliRuns' \in [commands : 0..MaxCliCommands, kills : 0..MaxCliKills],
         ~amiss'.raced => SentHome', At(client[p], "writeTokens") => amiss'.cut
  PROVE  CliInv'
<1>1. Kept(Off) /\ ~At(Off, "writeTokens")
  BY OffTypes, OffKept DEF Kept
<1>2. client' = [client EXCEPT ![p] = Off]
  BY DEF Stop
<1>3. Good(Off.config, Off.tokens, Excused(amiss', Off), Moving(amiss', Off))
  BY OffKept
<1> QED
  BY <1>1, <1>2, <1>3, UnwrittenStep

LEMMA NothingSent ==
  ASSUME CliInv, UNCHANGED sent, Grows
  PROVE  sent' \subseteq Slots \X Tokens \X Urls /\ (~amiss'.raced => SentHome')
<1>1. sent' \subseteq Slots \X Tokens \X Urls
  BY DEF CliInv, CliShape
<1>2. ASSUME ~amiss'.raced
      PROVE  SentHome'
  <2>1. SentHome /\ CliShape
    BY <1>2 DEF CliInv, Trusted, Grows
  <2> QED
    BY <2>1, SentHomeGrows
<1> QED
  BY <1>1, <1>2

LEMMA RunsTyped ==
  ASSUME CliInv, UNCHANGED cliRuns
  PROVE  cliRuns' \in [commands : 0..MaxCliCommands, kills : 0..MaxCliKills]
BY DEF CliInv, CliShape

Inner == {"add", "set", "use", "look", "verify", "save"}

(* A step in memory made c of what the command had, and it goes on.         *)
LEMMA GoesOn ==
  ASSUME CliInv, NEW p \in Clients, NEW step \in Inner, At(client[p], step),
         NEW b \in ClientRecords, Program(b), b.todo = client[p].todo,
         NEW c \in ClientRecords, c.todo = client[p].todo, c.with = b.with,
         c.identity = b.identity \/ At(c, "verify"), GoOn(p, c),
         UNCHANGED <<files, sent, cliRuns>>, Grows,
         c.seen = client[p].seen, c.tokens.version = 2, c.config.version = 2,
         Follows(c.seen.config, c.config),
         c.identity # Nobody =>
           c.with.token \in Tokens /\ Issued[c.with.token] = [url |-> c.with.url, account |-> c.identity],
         ~amiss'.raced => Good(c.config, c.tokens, Excused(amiss', c), Moving(amiss', c))
  PROVE  CliInv'
<1>1. client \in [Clients -> ClientRecords] /\ client[p].todo # <<>> /\ ConvertsFirst(files.legacy, client[p])
  BY DEF CliInv, CliShape, At
<1>2. PICK d : client' = [client EXCEPT ![p] = d] /\ Comes(c, d)
  BY <1>1, NextStep
<1>3. ~At(c, "writeConfig") /\ ~At(c, "load") /\ ~At(c, "writeTokens") /\ ~At(client[p], "writeTokens")
  BY DEF At, Inner
<1>4. ~At(d, "writeTokens") /\ ~At(d, "request") /\ ~At(d, "set") /\ d \in ClientRecords /\ Program(d)
  BY <1>2, <1>3 DEF Comes
<1>5. CASE d = Off
  BY <1>2, <1>3, <1>5, StopKeeps, NothingSent, RunsTyped DEF Stop
<1>6. CASE Advanced(c, d)
  <2>1. Memory(d)
    BY <1>4, <1>6 DEF Memory, Advanced
  <2>2. files.legacy = Nobody \/ c.seen.config.version # 0
    BY <1>1, <1>3 DEF ConvertsFirst, At, Inner
  <2>3. ConvertsFirst(files.legacy, d)
    BY <1>6, <2>2 DEF ConvertsFirst, Advanced
  <2>4. /\ Excused(amiss', d) = Excused(amiss', c) /\ Moving(amiss', d) = Moving(amiss', c)
        /\ d.config = c.config /\ d.tokens = c.tokens
    BY <1>6 DEF Advanced, Excused, Moving
  <2> QED
    BY <1>2, <1>3, <1>4, <2>1, <2>3, <2>4, UnwrittenStep, NothingSent, RunsTyped DEF Kept
<1> QED
  BY <1>2, <1>5, <1>6 DEF Comes
-----------------------------------------------------------------------------
(* A command begins.                                                        *)

LEMMA IssueKeeps ==
  ASSUME CliInv, NEW p \in Clients, NEW todo \in Seq(Steps), NEW with \in Withs,
         Issue(p, todo, with), todo # <<>>, todo[1] = "load",
         Program([Off EXCEPT !.todo = todo, !.with = with])
  PROVE  CliInv'
<1> DEFINE d == [Off EXCEPT !.todo = todo, !.with = with]
<1>1. d \in ClientRecords /\ d.todo = todo /\ d.with = with
  BY OffTypes DEF ClientRecords
<1>2. /\ d.identity = Nobody /\ d.seen.config = NoFile /\ d.tokens = EmptyTokens
      /\ d.config = NoFile /\ EmptyTokens.version = 2
  BY DEF Off, EmptyTokens
<1>3. client' = [client EXCEPT ![p] = d] /\ Program(d)
  BY DEF Issue
<1> HIDE DEF d
<1>4. At(d, "load") /\ ~At(d, "writeTokens") /\ ~At(d, "request") /\ ~At(d, "set")
  BY <1>1 DEF At
<1>5. Memory(d)
  BY <1>2, <1>4, NoFileFollowed DEF Memory
<1>6. ConvertsFirst(files.legacy, d)
  BY <1>4 DEF ConvertsFirst
<1>7. ~At(client[p], "writeTokens")
  BY OffTypes DEF Issue, At
<1>8. Grows
  BY SameAmissGrows DEF CliInv, Issue
<1>9. cliRuns' \in [commands : 0..MaxCliCommands, kills : 0..MaxCliKills]
  <2>1. /\ cliRuns \in [commands : 0..MaxCliCommands, kills : 0..MaxCliKills]
        /\ cliRuns.commands < MaxCliCommands /\ MaxCliCommands \in Nat
    BY CliAssumption DEF CliInv, CliShape, Issue
  <2>2. cliRuns.commands + 1 \in 0..MaxCliCommands
    BY <2>1
  <2> QED
    BY <2>1, <2>2 DEF Issue
<1>10. Good(d.config, d.tokens, Excused(amiss', d), Moving(amiss', d))
  BY <1>2, NothingIsGood
<1>11. UNCHANGED <<files, sent>>
  BY DEF Issue
<1> QED
  BY <1>1, <1>3, <1>4, <1>5, <1>6, <1>7, <1>8, <1>9, <1>10, <1>11, UnwrittenStep, NothingSent DEF Kept

LEMMA NoArgumentsTypes ==
  /\ NoArguments \in Withs
  /\ NoArguments.remote = Nobody /\ NoArguments.alias = Nobody /\ NoArguments.slot = Nobody
  /\ NoArguments.url = Nobody /\ NoArguments.token = Nobody
  /\ ~NoArguments.skip /\ ~NoArguments.reuse
BY DEF NoArguments, Withs

(* The programs of three steps.                                             *)
LEMMA ShortProgram ==
  ASSUME NEW with \in Withs, ~with.reuse, with.remote \in Remotes,
         NEW step \in {"add", "set", "use"},
         step \in {"add", "set"} => with.url \in Urls, step = "use" => with.alias \in Aliases
  PROVE  LET todo == <<"load", step, "writeConfig">> IN
         todo \in Seq(Steps) /\ todo # <<>> /\ todo[1] = "load"
         /\ Program([Off EXCEPT !.todo = todo, !.with = with])
<1> DEFINE todo == <<"load", step, "writeConfig">>
           d == [Off EXCEPT !.todo = todo, !.with = with]
<1>1. /\ todo \in Seq(Steps) /\ todo # <<>> /\ Len(todo) = 3
      /\ todo[1] = "load" /\ todo[2] = step /\ todo[3] = "writeConfig"
  BY DEF Steps
<1>2. d.todo = todo /\ d.with = with /\ d.identity = Nobody
  BY DEF Off
<1> HIDE DEF todo, d
<1>3. \A i \in 1..Len(d.todo) : i = 1 \/ i = 2 \/ i = 3
  <2>1. Len(d.todo) = 3
    BY <1>1, <1>2
  <2> QED
    BY <2>1
<1>4. \A i \in 1..(Len(d.todo) - 1) : (i = 1 /\ i + 1 = 2) \/ (i = 2 /\ i + 1 = 3)
  <2>1. Len(d.todo) = 3
    BY <1>1, <1>2
  <2> QED
    BY <2>1
<1>5. \A i \in 1..Len(d.todo) : d.todo[i] # "verify" /\ d.todo[i] # "save"
  BY <1>1, <1>2, <1>3
<1>6. ASSUME NEW i \in 1..(Len(d.todo) - 1)
      PROVE  /\ d.todo[i + 1] \notin {"writeTokens", "request"}
             /\ d.todo[i + 1] = "set" => d.todo[i] = "load"
  BY <1>1, <1>2, <1>4
<1>7. ASSUME NEW i \in 1..Len(d.todo)
      PROVE  /\ d.todo[i] \in {"add", "set", "use", "look"} => d.with.remote \in Remotes
             /\ d.todo[i] \in {"add", "set"} => d.with.url \in Urls
             /\ d.todo[i] = "use" => d.with.alias \in Aliases
  BY <1>1, <1>2, <1>3
<1>8. Program(d)
  BY <1>2, <1>5, <1>6, <1>7 DEF Program
<1> QED
  BY <1>1, <1>8 DEF d, todo

LEMMA RequestProgram ==
  ASSUME NEW with \in Withs, ~with.reuse
  PROVE  LET todo == <<"load", "request">> IN
         todo \in Seq(Steps) /\ todo # <<>> /\ todo[1] = "load"
         /\ Program([Off EXCEPT !.todo = todo, !.with = with])
<1> DEFINE todo == <<"load", "request">>
           d == [Off EXCEPT !.todo = todo, !.with = with]
<1>1. /\ todo \in Seq(Steps) /\ todo # <<>> /\ Len(todo) = 2
      /\ todo[1] = "load" /\ todo[2] = "request"
  BY DEF Steps
<1>2. d.todo = todo /\ d.with = with /\ d.identity = Nobody
  BY DEF Off
<1> HIDE DEF todo, d
<1>3. \A i \in 1..Len(d.todo) : i = 1 \/ i = 2
  <2>1. Len(d.todo) = 2
    BY <1>1, <1>2
  <2> QED
    BY <2>1
<1>4. \A i \in 1..(Len(d.todo) - 1) : i = 1 /\ i + 1 = 2
  <2>1. Len(d.todo) = 2
    BY <1>1, <1>2
  <2> QED
    BY <2>1
<1>5. \A i \in 1..Len(d.todo) : d.todo[i] \notin {"verify", "save", "add", "set", "use", "look"}
  BY <1>1, <1>2, <1>3
<1>6. ASSUME NEW i \in 1..(Len(d.todo) - 1)
      PROVE  /\ d.todo[i + 1] # "writeTokens"
             /\ d.todo[i + 1] \in {"request", "set"} => d.todo[i] \in {"load", "writeTokens"}
  BY <1>1, <1>2, <1>4
<1>7. Program(d)
  BY <1>2, <1>5, <1>6 DEF Program
<1> QED
  BY <1>1, <1>7 DEF d, todo

(* The steps that save an account, after any that only look.                *)
LEMMA SaveTypes ==
  /\ SaveSteps \in Seq(Steps) /\ Len(SaveSteps) = 5 /\ SaveSteps[1] = "verify"
  /\ SaveSteps[2] = "load" /\ SaveSteps[3] = "save" /\ SaveSteps[4] = "writeConfig"
  /\ SaveSteps[5] = "writeTokens"
BY DEF SaveSteps, Steps

LEMMA SaveProgram ==
  ASSUME NEW c, NEW first \in Seq(Steps), c.todo = first \o SaveSteps, c.identity = Nobody,
         c.with.slot \in Slots, c.with.token \in Tokens, c.with.remote \in Remotes,
         \A i \in 1..Len(first) :
           /\ first[i] \notin {"verify", "set", "use", "writeTokens", "request"}
           /\ first[i] = "add" => c.with.url \in Urls
  PROVE  Program(c)
<1>1. /\ Len(first) \in Nat /\ c.todo \in Seq(Steps) /\ Len(c.todo) = Len(first) + 5
      /\ \A i \in 1..Len(first) : c.todo[i] = first[i]
      /\ \A i \in 1..5 : c.todo[Len(first) + i] = SaveSteps[i]
  <2>1. /\ Len(first) \in Nat /\ first \o SaveSteps \in Seq(Steps)
        /\ Len(first \o SaveSteps) = Len(first) + Len(SaveSteps)
        /\ \A i \in 1..(Len(first) + Len(SaveSteps)) : (first \o SaveSteps)[i] =
             IF i <= Len(first) THEN first[i] ELSE SaveSteps[i - Len(first)]
    <3>1. SaveSteps \in Seq(Steps)
      BY SaveTypes
    <3>2. Len(first) \in Nat
      BY LenProperties
    <3> QED
      BY <3>1, <3>2, ConcatProperties, Zenon
  <2>2. Len(SaveSteps) = 5
    BY SaveTypes
  <2>3. \A i \in 1..Len(first) : i <= Len(first) /\ i \in 1..(Len(first) + 5)
    BY <2>1
  <2>4. \A i \in 1..5 : /\ Len(first) + i \in 1..(Len(first) + 5) /\ ~(Len(first) + i <= Len(first))
                       /\ (Len(first) + i) - Len(first) = i
    BY <2>1
  <2> QED
    BY <2>1, <2>2, <2>3, <2>4
<1> DEFINE n == Len(first)
<1>2. /\ c.todo[n + 1] = "verify" /\ c.todo[n + 2] = "load" /\ c.todo[n + 3] = "save"
      /\ c.todo[n + 4] = "writeConfig" /\ c.todo[n + 5] = "writeTokens"
  BY <1>1, SaveTypes
<1> HIDE DEF n
<1>3. /\ n \in Nat /\ Len(c.todo) = n + 5
      /\ \A i \in 1..(n + 5) : i \in 1..n \/ i = n + 1 \/ i = n + 2 \/ i = n + 3 \/ i = n + 4 \/ i = n + 5
  BY <1>1 DEF n
<1>4. \A i \in 1..n : c.todo[i] = first[i]
  BY <1>1 DEF n
<1>5. ASSUME NEW i \in 1..Len(c.todo)
      PROVE  /\ c.todo[i] \in {"add", "set", "use", "look"} => c.with.remote \in Remotes
             /\ c.todo[i] = "add" => c.with.url \in Urls
             /\ c.todo[i] \notin {"use", "set"}
             /\ c.todo[i] # "request"
             /\ c.todo[i] = "writeTokens" => i = n + 5
             /\ c.todo[i] = "verify" => i = n + 1
  <2>1. CASE i \in 1..n
    BY <1>4, <2>1 DEF n
  <2>2. CASE i = n + 1 \/ i = n + 2 \/ i = n + 3 \/ i = n + 4 \/ i = n + 5
    BY <1>2, <2>2
  <2> QED
    BY <1>3, <2>1, <2>2
<1>6. ASSUME NEW i \in 1..Len(c.todo), NEW j \in 1..Len(c.todo), c.todo[i] = "verify", i < j
      PROVE  c.todo[j] \in AfterVerify
  <2>1. i = n + 1
    BY <1>5, <1>6
  <2>2. j = n + 2 \/ j = n + 3 \/ j = n + 4 \/ j = n + 5
    BY <1>3, <1>6, <2>1
  <2> QED
    BY <1>2, <2>2 DEF AfterVerify
<1>7. ASSUME NEW i \in 1..(Len(c.todo) - 1)
      PROVE  /\ c.todo[i + 1] = "writeTokens" => c.todo[i] = "writeConfig"
             /\ c.todo[i + 1] \notin {"request", "set"}
  <2>1. i + 1 \in 1..Len(c.todo) /\ (i + 1 = n + 5 => i = n + 4)
    BY <1>3
  <2> QED
    BY <1>2, <1>5, <2>1
<1>8. /\ \A i \in 1..Len(c.todo) :
           /\ c.todo[i] \in {"add", "set", "use", "look"} => c.with.remote \in Remotes
           /\ c.todo[i] = "add" => c.with.url \in Urls
           /\ c.todo[i] \notin {"use", "set"}
      /\ \A i, j \in 1..Len(c.todo) : c.todo[i] = "verify" /\ i < j => c.todo[j] \in AfterVerify
      /\ \A i \in 1..(Len(c.todo) - 1) :
           /\ c.todo[i + 1] = "writeTokens" => c.todo[i] = "writeConfig"
           /\ c.todo[i + 1] \notin {"request", "set"}
  BY <1>5, <1>6, <1>7
<1> QED
  BY <1>8 DEF Program

LEMMA LongTodo ==
  ASSUME NEW first \in Seq(Steps), Len(first) > 0, first[1] = "load"
  PROVE  /\ first \o SaveSteps \in Seq(Steps) /\ first \o SaveSteps # <<>>
         /\ (first \o SaveSteps)[1] = "load"
<1>1. SaveSteps \in Seq(Steps) /\ Len(SaveSteps) = 5
  BY SaveTypes
<1>2. Len(first) \in Nat
  BY LenProperties
<1>3. /\ first \o SaveSteps \in Seq(Steps)
      /\ Len(first \o SaveSteps) = Len(first) + Len(SaveSteps)
      /\ \A i \in 1..(Len(first) + Len(SaveSteps)) : (first \o SaveSteps)[i] =
           IF i <= Len(first) THEN first[i] ELSE SaveSteps[i - Len(first)]
  BY <1>1, ConcatProperties, Zenon
<1>4. 1 \in 1..(Len(first) + Len(SaveSteps)) /\ 1 <= Len(first) /\ Len(first) + 5 # 0
  BY <1>1, <1>2
<1>5. Len(first \o SaveSteps) # 0
  BY <1>1, <1>3, <1>4
<1> QED
  BY <1>3, <1>4, <1>5, EmptySeq

LEMMA AddRemoteKeeps ==
  ASSUME CliInv, NEW p \in Clients, NEW r \in Remotes, NEW u \in Urls,
         AddRemote(p, r, u) \/ SetUrl(p, r, u)
  PROVE  CliInv'
<1> DEFINE with == [NoArguments EXCEPT !.remote = r, !.url = u]
<1>1. with \in Withs /\ with.remote = r /\ with.url = u /\ ~with.reuse
  BY NoArgumentsTypes DEF Withs
<1> HIDE DEF with
<1>2. CASE AddRemote(p, r, u)
  <2>1. Issue(p, <<"load", "add", "writeConfig">>, with)
    BY <1>2 DEF AddRemote, with
  <2> QED
    BY <1>1, <2>1, ShortProgram, IssueKeeps
<1>3. CASE SetUrl(p, r, u)
  <2>1. Issue(p, <<"load", "set", "writeConfig">>, with)
    BY <1>3 DEF SetUrl, with
  <2> QED
    BY <1>1, <2>1, ShortProgram, IssueKeeps
<1> QED
  BY <1>2, <1>3

LEMMA UseAccountKeeps ==
  ASSUME CliInv, NEW p \in Clients, NEW r \in Remotes, NEW a \in Aliases, UseAccount(p, r, a)
  PROVE  CliInv'
<1> DEFINE with == [NoArguments EXCEPT !.remote = r, !.alias = a]
<1>1. with \in Withs /\ with.remote = r /\ with.alias = a /\ ~with.reuse
  BY NoArgumentsTypes DEF Withs
<1>2. Issue(p, <<"load", "use", "writeConfig">>, with)
  BY DEF UseAccount
<1> HIDE DEF with
<1> QED
  BY <1>1, <1>2, ShortProgram, IssueKeeps

LEMMA RequestKeeps ==
  ASSUME CliInv, NEW p \in Clients, NEW purpose \in Credentials, Request(p, purpose)
  PROVE  CliInv'
<1> DEFINE with == [NoArguments EXCEPT !.alias = purpose]
<1>1. with \in Withs /\ ~with.reuse
  BY NoArgumentsTypes DEF Withs
<1>2. Issue(p, <<"load", "request">>, with)
  BY DEF Request
<1> HIDE DEF with
<1> QED
  BY <1>1, <1>2, RequestProgram, IssueKeeps

LEMMA SaveAccountKeeps ==
  ASSUME CliInv, NEW p \in Clients, NEW s \in Slots, NEW t \in Tokens, NEW skip \in BOOLEAN,
         AddAccount(p, s, t, skip) \/ \E u \in Urls : ConnectAccount(p, s, u, t, skip)
  PROVE  CliInv'
<1>1. s[1] \in Remotes
  BY DEF Slots
<1>2. ASSUME NEW with \in Withs, NEW first \in Seq(Steps), Issue(p, first \o SaveSteps, with),
             Len(first) > 0, first[1] = "load",
             with.remote = s[1], with.slot = s, with.token = t,
             \A i \in 1..Len(first) :
               /\ first[i] \notin {"verify", "set", "use", "writeTokens", "request"}
               /\ first[i] = "add" => with.url \in Urls
      PROVE  CliInv'
  <2> DEFINE todo == first \o SaveSteps
             c == [Off EXCEPT !.todo = todo, !.with = with]
  <2>1. c.todo = todo /\ c.with = with /\ c.identity = Nobody
    BY DEF Off
  <2>2. todo \in Seq(Steps) /\ todo # <<>> /\ todo[1] = "load"
    BY <1>2, LongTodo
  <2>3. Program(c)
    <3> HIDE DEF c
    <3> QED
      BY <1>1, <1>2, <2>1, SaveProgram DEF todo
  <2> QED
    BY <1>2, <2>2, <2>3, IssueKeeps
<1>3. CASE AddAccount(p, s, t, skip)
  <2> DEFINE with == [NoArguments EXCEPT !.remote = s[1], !.slot = s, !.token = t, !.skip = skip]
             first == <<"load", "look">>
  <2>1. with \in Withs /\ with.remote = s[1] /\ with.slot = s /\ with.token = t
    BY <1>1, NoArgumentsTypes DEF Withs
  <2>2. Issue(p, first \o SaveSteps, with)
    BY <1>3 DEF AddAccount
  <2>3. first \in Seq(Steps) /\ Len(first) = 2 /\ first[1] = "load" /\ first[2] = "look"
    BY DEF Steps
  <2> HIDE DEF with, first
  <2>4. \A i \in 1..Len(first) : i = 1 \/ i = 2
    BY <2>3
  <2>5. \A i \in 1..Len(first) : first[i] \notin {"verify", "set", "use", "writeTokens", "request", "add"}
    BY <2>3, <2>4
  <2>6. Len(first) > 0
    BY <2>3
  <2> QED
    BY <1>2, <2>1, <2>2, <2>3, <2>5, <2>6
<1>4. CASE \E u \in Urls : ConnectAccount(p, s, u, t, skip)
  <2>1. PICK u \in Urls : ConnectAccount(p, s, u, t, skip)
    BY <1>4
  <2> DEFINE with == [NoArguments EXCEPT !.remote = s[1], !.slot = s, !.url = u, !.token = t,
                                         !.skip = skip, !.reuse = TRUE]
             first == <<"load", "add", "writeConfig">>
  <2>2. with \in Withs /\ with.remote = s[1] /\ with.slot = s /\ with.token = t /\ with.url = u
    BY <1>1, NoArgumentsTypes DEF Withs
  <2>3. Issue(p, first \o SaveSteps, with)
    BY <2>1 DEF ConnectAccount
  <2>4. /\ first \in Seq(Steps) /\ Len(first) = 3 /\ first[1] = "load" /\ first[2] = "add"
        /\ first[3] = "writeConfig"
    BY DEF Steps
  <2> HIDE DEF with, first
  <2>5. \A i \in 1..Len(first) : i = 1 \/ i = 2 \/ i = 3
    BY <2>4
  <2>6. \A i \in 1..Len(first) : first[i] \notin {"verify", "set", "use", "writeTokens", "request"}
    BY <2>4, <2>5
  <2>7. Len(first) > 0
    BY <2>4
  <2> QED
    BY <1>2, <2>2, <2>3, <2>4, <2>6, <2>7
<1> QED
  BY <1>3, <1>4

LEMMA CommandsKeep ==
  ASSUME CliInv, NEW p \in Clients, CliCommands(p)
  PROVE  CliInv'
<1>1. ASSUME NEW n \in Names, UseAccount(p, n[1], n[2])
      PROVE  CliInv'
  <2>1. n[1] \in Remotes /\ n[2] \in Aliases
    BY DEF Names
  <2> QED
    BY <1>1, <2>1, UseAccountKeeps
<1> QED
  BY <1>1, AddRemoteKeeps, RequestKeeps, SaveAccountKeeps DEF CliCommands
-----------------------------------------------------------------------------
(* The steps in memory, one by one.                                         *)

LEMMA InnerFacts ==
  ASSUME CliInv, NEW p \in Clients, NEW step \in Inner, On(p, step)
  PROVE  /\ client[p] \in ClientRecords /\ At(client[p], step)
         /\ Program(client[p]) /\ Memory(client[p]) /\ client[p].config.version = 2
         /\ client[p].config \in ConfigFile /\ client[p].tokens \in TokenFile
         /\ step \in {"add", "set", "use", "look"} => With(p).remote \in Remotes
         /\ step \in {"add", "set"} => With(p).url \in Urls
         /\ step = "use" => With(p).alias \in Aliases
         /\ step \in {"verify", "save"} => With(p).slot \in Slots /\ With(p).token \in Tokens
         /\ step # "save" => client[p].identity = Nobody
         /\ With(p) \in Withs
<1>1. client[p] \in ClientRecords /\ At(client[p], step)
  BY OnAt DEF CliInv, CliShape
<1>2. Program(client[p]) /\ Memory(client[p])
  BY DEF CliInv
<1>3. client[p].config.version = 2
  BY <1>1, <1>2 DEF Memory, At, Inner
<1>4. 1 \in 1..Len(client[p].todo) /\ client[p].todo[1] = step
  BY <1>1 DEF At, ClientRecords
<1>5. step # "save" => step \notin AfterVerify
  BY DEF Inner, AfterVerify
<1>6. step # "save" => client[p].identity = Nobody
  BY <1>2, <1>4, <1>5 DEF Program
<1>7. /\ step \in {"add", "set", "use", "look"} => With(p).remote \in Remotes
      /\ step \in {"add", "set"} => With(p).url \in Urls
      /\ step = "use" => With(p).alias \in Aliases
      /\ step \in {"verify", "save"} => With(p).slot \in Slots /\ With(p).token \in Tokens
  BY <1>2, <1>4 DEF Program, With
<1>8. client[p].config \in ConfigFile /\ client[p].tokens \in TokenFile /\ With(p) \in Withs
  BY <1>1 DEF ClientRecords, With
<1> QED
  BY <1>1, <1>2, <1>3, <1>6, <1>7, <1>8

(* A step that stops the command without a word.                            *)
LEMMA InnerStops ==
  ASSUME CliInv, NEW p \in Clients, NEW step \in Inner, On(p, step), Stop(p),
         UNCHANGED <<files, sent, amiss, cliRuns>>
  PROVE  CliInv'
<1>1. ~At(client[p], "writeTokens")
  BY InnerFacts DEF At, Inner
<1>2. Grows
  BY SameAmissGrows DEF CliInv
<1> QED
  BY <1>1, <1>2, StopKeeps, NothingSent, RunsTyped

(* A step that changes the configuration in memory.                         *)
LEMMA ConfigStep ==
  ASSUME CliInv, NEW p \in Clients, NEW step \in Inner, On(p, step),
         NEW conf \in ConfigFile, conf.version = 2, Follows(client[p].config, conf),
         GoOn(p, [client[p] EXCEPT !.config = conf]),
         UNCHANGED <<files, sent, amiss, cliRuns>>, client[p].config.listed \subseteq conf.listed,
         \A r \in Remotes :
           \/ conf.urls[r] = client[p].config.urls[r] \/ client[p].config.urls[r] = Nobody
           \/ client[p].seen.config.urls[r] = client[p].config.urls[r]
  PROVE  CliInv'
<1> DEFINE b == client[p]
           c == [b EXCEPT !.config = conf]
<1>1. /\ b \in ClientRecords /\ At(b, step) /\ Program(b) /\ Memory(b)
      /\ b.config.version = 2
  BY InnerFacts
<1>2. /\ c \in ClientRecords /\ c.todo = b.todo /\ c.with = b.with /\ c.identity = b.identity
      /\ c.seen = b.seen /\ c.tokens = b.tokens /\ c.config = conf
  BY <1>1 DEF ClientRecords
<1>3. Grows
  BY SameAmissGrows DEF CliInv
<1>4. Follows(c.seen.config, c.config)
  BY <1>1, <1>2, FollowsOn DEF Memory
<1>5. GoOn(p, c)
  OBVIOUS
<1> HIDE DEF c
<1>6. ASSUME ~amiss'.raced
      PROVE  Good(c.config, c.tokens, Excused(amiss', c), Moving(amiss', c))
  <2>1. Good(b.config, b.tokens, Excused(amiss, b), Moving(amiss, b))
    BY <1>6 DEF CliInv, Trusted
  <2>2. Excused(amiss, b) \subseteq Excused(amiss', c)
    BY <1>2 DEF Excused
  <2>3. ASSUME NEW r \in Remotes, b.config.urls[r] \notin {Nobody, c.config.urls[r]}
        PROVE  r \in Moving(amiss', c)
    BY <1>2, <2>3 DEF Moving
  <2>4. ASSUME NEW r \in Moving(amiss, b), r \notin Moving(amiss', c)
        PROVE  FALSE
    <3>1. r \in Remotes /\ b.seen.config.urls[r] \notin {Nobody, b.config.urls[r]}
      BY <2>4 DEF Moving
    <3>2. c.config.urls[r] = b.config.urls[r] \/ b.config.urls[r] = Nobody
      BY <1>2, <3>1
    <3>3. b.config.urls[r] # Nobody
      BY <1>1, <3>1 DEF Memory, Follows
    <3> QED
      BY <1>2, <2>4, <3>1, <3>2, <3>3 DEF Moving
  <2>5. b.tokens \in TokenFile
    BY <1>1 DEF ClientRecords
  <2> QED
    BY <1>2, <2>1, <2>2, <2>3, <2>4, <2>5, GoodFollows
<1>7. c.identity # Nobody =>
        c.with.token \in Tokens /\ Issued[c.with.token] = [url |-> c.with.url, account |-> c.identity]
  BY <1>1, <1>2 DEF Memory
<1>8. c.tokens.version = 2
  BY <1>1, <1>2 DEF Memory
<1> QED
  BY <1>1, <1>2, <1>3, <1>4, <1>5, <1>6, <1>7, <1>8, GoesOn

LEMMA AddKeeps ==
  ASSUME CliInv, NEW p \in Clients, Add(p)
  PROVE  CliInv'
<1> DEFINE b == client[p]
           r == With(p).remote
<1>1. /\ On(p, "add") /\ "add" \in Inner /\ UNCHANGED <<files, sent, amiss, cliRuns>>
  BY DEF Add, Inner
<1>2. /\ b \in ClientRecords /\ At(b, "add") /\ Program(b) /\ Memory(b)
      /\ b.config.version = 2 /\ b.config \in ConfigFile /\ r \in Remotes /\ With(p).url \in Urls
      /\ b.identity = Nobody /\ With(p) \in Withs /\ With(p) = b.with
  BY <1>1, InnerFacts DEF With
<1>3. CASE Stop(p)
  BY <1>1, <1>3, InnerStops
<1>4. CASE /\ b.config.urls[r] = Nobody
           /\ GoOn(p, [client[p] EXCEPT !.config.urls[r] = With(p).url,
                         !.config.active = IF @ = Nobody THEN <<r, Nobody>> ELSE @])
  <2> DEFINE conf == [b.config EXCEPT !.urls[r] = With(p).url,
                          !.active = IF b.config.active = Nobody THEN <<r, Nobody>> ELSE b.config.active]
  <2>1. [client[p] EXCEPT !.config.urls[r] = With(p).url,
           !.config.active = IF @ = Nobody THEN <<r, Nobody>> ELSE @] = [client[p] EXCEPT !.config = conf]
    BY <1>2 DEF ClientRecords, ConfigFile
  <2>2. /\ conf.version = 2 /\ conf.ids = b.config.ids /\ conf.listed = b.config.listed
        /\ \A x \in Remotes : conf.urls[x] = IF x = r THEN With(p).url ELSE b.config.urls[x]
    BY <1>2 DEF ConfigFile
  <2>3. conf \in ConfigFile
    BY <1>2 DEF ConfigFile
  <2> HIDE DEF conf
  <2>4. Follows(b.config, conf)
    BY <1>2, <1>4, <2>2 DEF Follows
  <2>5. GoOn(p, [client[p] EXCEPT !.config = conf])
    BY <1>4, <2>1
  <2> QED
    BY <1>1, <1>4, <2>2, <2>3, <2>4, <2>5, ConfigStep
<1>5. CASE /\ b.config.urls[r] = With(p).url /\ With(p).reuse
           /\ client' = [client EXCEPT ![p].todo = SaveSteps]
  <2> DEFINE d == [b EXCEPT !.todo = SaveSteps]
  <2>1. client' = [client EXCEPT ![p] = d]
    BY <1>5 DEF CliInv, CliShape
  <2>2. /\ d \in ClientRecords /\ d.todo = SaveSteps /\ d.with = b.with /\ d.identity = Nobody
        /\ d.config = b.config /\ d.tokens = b.tokens /\ d.seen = b.seen
    BY <1>2, SaveTypes DEF ClientRecords
  <2> HIDE DEF d
  <2>3. Program(d)
    <3>1. d.with.slot \in Slots /\ d.with.token \in Tokens /\ d.with.remote \in Remotes
      BY <1>2, <1>5, <2>2 DEF Program
    <3>2. <<>> \in Seq(Steps) /\ Len(<<>>) = 0 /\ SaveSteps = <<>> \o SaveSteps
      BY EmptySeq, ConcatEmptySeq, SaveTypes
    <3>3. \A i \in 1..Len(<<>>) : FALSE
      BY <3>2
    <3> QED
      BY <2>2, <3>1, <3>2, <3>3, SaveProgram
  <2>4. At(d, "verify") /\ ~At(d, "load") /\ ~At(d, "writeTokens") /\ ~At(d, "request") /\ ~At(d, "set")
    BY <2>2, SaveTypes, EmptySeq, SMTT(30) DEF At
  <2>5. Memory(d)
    BY <1>2, <2>2, <2>4 DEF Memory
  <2>6. ConvertsFirst(files.legacy, d)
    <3>1. ConvertsFirst(files.legacy, b) /\ ~At(b, "load") /\ ~At(b, "writeConfig") /\ b.todo # <<>>
      BY <1>2 DEF CliInv, At
    <3> QED
      BY <2>2, <3>1 DEF ConvertsFirst
  <2>7. Grows
    BY <1>1, SameAmissGrows DEF CliInv
  <2>8. ASSUME ~amiss'.raced
        PROVE  Good(d.config, d.tokens, Excused(amiss', d), Moving(amiss', d))
    <3>1. Good(b.config, b.tokens, Excused(amiss, b), Moving(amiss, b))
      BY <1>1, <2>8 DEF CliInv, Trusted
    <3> QED
      BY <1>1, <2>2, <3>1 DEF Excused, Moving
  <2>9. ~At(b, "writeTokens")
    BY <1>2 DEF At
  <2> QED
    BY <1>1, <2>1, <2>2, <2>3, <2>4, <2>5, <2>6, <2>7, <2>8, <2>9, UnwrittenStep, NothingSent,
       RunsTyped DEF Kept
<1> QED
  BY <1>3, <1>4, <1>5 DEF Add

LEMMA SetKeeps ==
  ASSUME CliInv, NEW p \in Clients, Set(p)
  PROVE  CliInv'
<1> DEFINE b == client[p]
           r == With(p).remote
           conf == [b.config EXCEPT !.urls[r] = With(p).url]
<1>1. /\ On(p, "set") /\ "set" \in Inner /\ UNCHANGED <<files, sent, amiss, cliRuns>>
  BY DEF Set, Inner
<1>2. /\ b \in ClientRecords /\ At(b, "set") /\ Memory(b)
      /\ b.config.version = 2 /\ b.config \in ConfigFile /\ r \in Remotes /\ With(p).url \in Urls
  BY <1>1, InnerFacts
<1>3. CASE Stop(p)
  BY <1>1, <1>3, InnerStops
<1>4. CASE GoOn(p, [client[p] EXCEPT !.config.urls[r] = With(p).url])
  <2>1. [client[p] EXCEPT !.config.urls[r] = With(p).url] = [client[p] EXCEPT !.config = conf]
    BY <1>2 DEF ClientRecords, ConfigFile
  <2>2. /\ conf.version = 2 /\ conf.ids = b.config.ids /\ conf.listed = b.config.listed
        /\ \A x \in Remotes : conf.urls[x] = IF x = r THEN With(p).url ELSE b.config.urls[x]
    BY <1>2 DEF ConfigFile
  <2>3. conf \in ConfigFile
    BY <1>2 DEF ConfigFile
  <2>4. Nobody \notin Urls
    BY CliAssumption
  <2> HIDE DEF conf
  <2>5. Follows(b.config, conf)
    BY <1>2, <2>2, <2>4 DEF Follows
  <2>6. GoOn(p, [client[p] EXCEPT !.config = conf])
    BY <1>4, <2>1
  <2>7. b.seen.config.urls = b.config.urls
    BY <1>2 DEF Memory
  <2> QED
    BY <1>1, <2>2, <2>3, <2>5, <2>6, <2>7, ConfigStep
<1> QED
  BY <1>3, <1>4 DEF Set

LEMMA UseKeeps ==
  ASSUME CliInv, NEW p \in Clients, Use(p)
  PROVE  CliInv'
<1> DEFINE b == client[p]
           n == <<With(p).remote, With(p).alias>>
           conf == [b.config EXCEPT !.active = n]
<1>1. /\ On(p, "use") /\ "use" \in Inner /\ UNCHANGED <<files, sent, amiss, cliRuns>>
  BY DEF Use, Inner
<1>2. /\ b \in ClientRecords /\ b.config.version = 2 /\ b.config \in ConfigFile
      /\ With(p).remote \in Remotes /\ With(p).alias \in Aliases
  BY <1>1, InnerFacts
<1>3. CASE Stop(p)
  BY <1>1, <1>3, InnerStops
<1>4. CASE GoOn(p, [client[p] EXCEPT !.config.active = n])
  <2>1. [client[p] EXCEPT !.config.active = n] = [client[p] EXCEPT !.config = conf]
    BY <1>2 DEF ClientRecords, ConfigFile
  <2>2. /\ conf.version = 2 /\ conf.ids = b.config.ids /\ conf.listed = b.config.listed
        /\ conf.urls = b.config.urls
    BY <1>2 DEF ConfigFile
  <2>3. conf \in ConfigFile
    BY <1>2 DEF ConfigFile, Names
  <2> HIDE DEF conf
  <2>4. Follows(b.config, conf)
    BY <2>2 DEF Follows
  <2>5. GoOn(p, [client[p] EXCEPT !.config = conf])
    BY <1>4, <2>1
  <2> QED
    BY <1>1, <2>2, <2>3, <2>4, <2>5, ConfigStep
<1> QED
  BY <1>3, <1>4 DEF Use

(* The same configuration and tokens in memory are as good as before.       *)
LEMMA SameMemoryGood ==
  ASSUME CliInv, NEW p \in Clients, NEW c, UNCHANGED amiss, ~amiss'.raced,
         c.config = client[p].config, c.tokens = client[p].tokens, c.seen = client[p].seen
  PROVE  Good(c.config, c.tokens, Excused(amiss', c), Moving(amiss', c))
<1>1. Good(client[p].config, client[p].tokens, Excused(amiss, client[p]), Moving(amiss, client[p]))
  BY DEF CliInv, Trusted
<1> QED
  BY <1>1 DEF Excused, Moving

LEMMA LookKeeps ==
  ASSUME CliInv, NEW p \in Clients, Look(p)
  PROVE  CliInv'
<1> DEFINE b == client[p]
           u == b.config.urls[With(p).remote]
           c == [b EXCEPT !.with.url = u]
<1>1. /\ On(p, "look") /\ "look" \in Inner /\ UNCHANGED <<files, sent, amiss, cliRuns>>
  BY DEF Look, Inner
<1>2. /\ b \in ClientRecords /\ At(b, "look") /\ Memory(b) /\ Program(b) /\ b.config.version = 2
      /\ b.config \in ConfigFile /\ With(p).remote \in Remotes /\ b.identity = Nobody
      /\ b.with \in Withs
  BY <1>1, InnerFacts DEF With
<1>3. CASE Stop(p)
  BY <1>1, <1>3, InnerStops
<1>4. CASE u # Nobody /\ GoOn(p, [client[p] EXCEPT !.with.url = u])
  <2>1. u \in Urls
    BY <1>2, <1>4 DEF ConfigFile
  <2>2. [b.with EXCEPT !.url = u] \in Withs
    BY <1>2, <2>1 DEF Withs
  <2>3. /\ c \in ClientRecords /\ c.todo = b.todo /\ c.config = b.config /\ c.tokens = b.tokens
        /\ c.seen = b.seen /\ c.identity = Nobody /\ c.with = [b.with EXCEPT !.url = u]
    BY <1>2, <2>2 DEF ClientRecords
  <2>4. /\ c.with.url = u /\ c.with.remote = b.with.remote /\ c.with.alias = b.with.alias
        /\ c.with.slot = b.with.slot /\ c.with.token = b.with.token /\ c.with.reuse = b.with.reuse
    BY <1>2, <2>3 DEF Withs
  <2>5. GoOn(p, c)
    BY <1>4
  <2> HIDE DEF c, u
  <2>6. Program(c)
    BY <1>2, <2>1, <2>3, <2>4 DEF Program
  <2>7. Grows
    BY <1>1, SameAmissGrows DEF CliInv
  <2>8. c.tokens.version = 2 /\ c.config.version = 2 /\ Follows(c.seen.config, c.config)
    BY <1>2, <2>3 DEF Memory
  <2>9. ~amiss'.raced => Good(c.config, c.tokens, Excused(amiss', c), Moving(amiss', c))
    BY <1>1, <2>3, SameMemoryGood
  <2> QED
    BY <1>1, <1>2, <2>3, <2>5, <2>6, <2>7, <2>8, <2>9, GoesOn
<1> QED
  BY <1>3, <1>4 DEF Look

LEMMA VerifyKeeps ==
  ASSUME CliInv, NEW p \in Clients, Verify(p)
  PROVE  CliInv'
<1> DEFINE b == client[p]
           t == With(p).token
<1>1. /\ On(p, "verify") /\ "verify" \in Inner /\ UNCHANGED <<files, sent, amiss, cliRuns>>
  BY DEF Verify, Inner
<1>2. /\ b \in ClientRecords /\ At(b, "verify") /\ Memory(b) /\ Program(b) /\ b.config.version = 2
      /\ t \in Tokens /\ With(p) = b.with
  BY <1>1, InnerFacts DEF With
<1>3. ASSUME NEW i \in Accounts \cup {Nobody}, GoOn(p, [client[p] EXCEPT !.identity = i]),
             i # Nobody => Issued[t] = [url |-> b.with.url, account |-> i]
      PROVE  CliInv'
  <2> DEFINE c == [b EXCEPT !.identity = i]
  <2>1. /\ c \in ClientRecords /\ c.todo = b.todo /\ c.config = b.config /\ c.tokens = b.tokens
        /\ c.seen = b.seen /\ c.identity = i /\ c.with = b.with
    BY <1>2 DEF ClientRecords
  <2>2. GoOn(p, c)
    BY <1>3
  <2> HIDE DEF c
  <2>3. Grows
    BY <1>1, SameAmissGrows DEF CliInv
  <2>4. c.tokens.version = 2 /\ c.config.version = 2 /\ Follows(c.seen.config, c.config)
    BY <1>2, <2>1 DEF Memory
  <2>5. ~amiss'.raced => Good(c.config, c.tokens, Excused(amiss', c), Moving(amiss', c))
    BY <1>1, <2>1, SameMemoryGood
  <2>6. At(c, "verify")
    BY <1>2, <2>1 DEF At
  <2>7. c.identity # Nobody =>
          c.with.token \in Tokens /\ Issued[c.with.token] = [url |-> c.with.url, account |-> c.identity]
    BY <1>2, <1>3, <2>1
  <2> QED
    BY <1>1, <1>2, <2>1, <2>2, <2>3, <2>4, <2>5, <2>6, <2>7, GoesOn
<1>4. CASE Stop(p)
  BY <1>1, <1>4, InnerStops
<1>5. CASE GoOn(p, [client[p] EXCEPT !.identity = Nobody])
  BY <1>3, <1>5
<1>6. CASE Issued[t].url = With(p).url /\ GoOn(p, [client[p] EXCEPT !.identity = Issued[t].account])
  <2>1. /\ Issued[t] = [url |-> b.with.url, account |-> Issued[t].account]
        /\ Issued[t].account \in Accounts
    BY <1>2, <1>6, AccountsKnown
  <2> QED
    BY <1>3, <1>6, <2>1
<1> QED
  BY <1>4, <1>5, <1>6 DEF Verify

LEMMA SaveKeeps ==
  ASSUME CliInv, NEW p \in Clients, Save(p)
  PROVE  CliInv'
<1> DEFINE b == client[p]
           s == b.with.slot
           n == <<s[1], s[2]>>
           i == b.identity
           id == IF i # Nobody THEN i ELSE IF b.config.ids[n] = Nobody THEN Unverified ELSE b.config.ids[n]
           c == [b EXCEPT !.config.ids[n] = IF i # Nobody THEN i ELSE IF @ = Nobody THEN Unverified ELSE @,
                          !.config.listed = @ \cup {s}, !.config.active = n, !.tokens.of[s] = b.with.token]
           conf == [b.config EXCEPT !.ids[n] = id, !.listed = b.config.listed \cup {s}, !.active = n]
           tokens == [b.tokens EXCEPT !.of[s] = b.with.token]
<1>1. /\ On(p, "save") /\ "save" \in Inner /\ UNCHANGED <<files, sent, cliRuns>>
  BY DEF Save, Inner
<1>2. /\ b \in ClientRecords /\ At(b, "save") /\ Memory(b) /\ Program(b) /\ b.config.version = 2
      /\ s \in Slots /\ b.with.token \in Tokens /\ b.config \in ConfigFile /\ b.tokens \in TokenFile
  BY <1>1, InnerFacts DEF With
<1>3. s[1] \in Remotes /\ n \in Names /\ i \in Accounts \cup {Nobody}
  BY <1>2 DEF Slots, Names, ClientRecords
<1>4. CASE Stop(p) /\ UNCHANGED amiss
  BY <1>1, <1>4, InnerStops
<1>5. CASE /\ b.config.urls[s[1]] # Nobody /\ Fits(b.config.ids[n], i) /\ GoOn(p, c)
           /\ amiss' = [amiss EXCEPT
                !.unverified = IF i = Nobody THEN @ \cup {s} ELSE @,
                !.moved = IF b.config.urls[s[1]] # b.with.url THEN @ \cup {s[1]} ELSE @]
  <2>1. c = [b EXCEPT !.config = conf, !.tokens = tokens]
    BY <1>2, <1>3, ZenonT(60) DEF ClientRecords, ConfigFile, TokenFile
  <2>2. /\ conf.version = 2 /\ conf.urls = b.config.urls
        /\ conf.listed = b.config.listed \cup {s}
        /\ \A m \in Names : conf.ids[m] = IF m = n THEN id ELSE b.config.ids[m]
    BY <1>2, <1>3 DEF ConfigFile
  <2>3. id \in Accounts \cup {Nobody, Unverified} /\ id # Nobody
    BY <1>2, <1>3, CliAssumption DEF ConfigFile
  <2>4. conf \in ConfigFile
    <3>1. b.config.listed \cup {s} \in SUBSET Slots
      BY <1>2 DEF ConfigFile
    <3> QED
      BY <1>2, <1>3, <2>3, <3>1 DEF ConfigFile
  <2>5. tokens \in TokenFile /\ tokens.version = 2 /\ tokens.of = [b.tokens.of EXCEPT ![s] = b.with.token]
    BY <1>2 DEF TokenFile, Memory
  <2>6. /\ c \in ClientRecords /\ c.todo = b.todo /\ c.config = conf /\ c.tokens = tokens
        /\ c.seen = b.seen /\ c.identity = i /\ c.with = b.with
    BY <1>2, <2>1, <2>4, <2>5, ZenonT(60) DEF ClientRecords
  <2>7. GoOn(p, c)
    BY <1>5
  <2>8. Grows
    <3>1. amiss \in AmissTypes
      BY DEF CliInv, CliShape, AmissTypes
    <3> QED
      BY <1>2, <1>3, <1>5, <3>1 DEF Grows, AmissTypes
  <2>9. /\ amiss.raced = amiss'.raced
        /\ i = Nobody => s \in amiss'.unverified
        /\ b.config.urls[s[1]] # b.with.url => s[1] \in amiss'.moved
    BY <1>5 DEF CliInv, CliShape
  <2> HIDE DEF c, conf, tokens, id
  <2>10. Follows(b.config, conf)
    <3>1. b.config.ids[n] \notin {Nobody, Unverified} => id = b.config.ids[n]
      BY <1>5 DEF Fits, id
    <3> QED
      BY <2>2, <2>3, <3>1 DEF Follows
  <2>11. Follows(c.seen.config, c.config)
    BY <1>2, <2>6, <2>10, FollowsOn DEF Memory
  <2>12. i # Nobody => Issued[b.with.token] = [url |-> b.with.url, account |-> i]
    BY <1>2 DEF Memory
  <2>13. ASSUME ~amiss'.raced
         PROVE  Good(c.config, c.tokens, Excused(amiss', c), Moving(amiss', c))
    <3>1. Good(b.config, b.tokens, Excused(amiss, b), Moving(amiss, b))
      BY <2>9, <2>13 DEF CliInv, Trusted
    <3>2. Excused(amiss, b) \subseteq Excused(amiss', c) /\ Moving(amiss, b) \subseteq Moving(amiss', c)
      BY <2>2, <2>6, <2>8 DEF Excused, Moving, Grows
    <3>3. \A r \in Remotes : b.config.urls[r] \notin {Nobody, conf.urls[r]} => r \in Moving(amiss', c)
      BY <2>2
    <3>4. Good(conf, b.tokens, Excused(amiss', c), Moving(amiss', c))
      BY <1>2, <2>10, <3>1, <3>2, <3>3, GoodFollows
    <3>5. conf.urls[s[1]] # Nobody /\ conf.ids[n] = id
      BY <1>3, <1>5, <2>2
    <3>6. \/ s \in Excused(amiss', c)
          \/ /\ conf.ids[n] = Issued[b.with.token].account
             /\ s[1] \in Moving(amiss', c) \/ Issued[b.with.token].url = conf.urls[s[1]]
      <4>1. CASE i = Nobody
        BY <2>9, <4>1 DEF Excused
      <4>2. CASE i # Nobody
        <5>1. id = i /\ Issued[b.with.token].account = i /\ Issued[b.with.token].url = b.with.url
          BY <2>12, <4>2 DEF id
        <5>2. s[1] \in Moving(amiss', c) \/ b.with.url = conf.urls[s[1]]
          BY <2>2, <2>9 DEF Moving
        <5> QED
          BY <3>5, <5>1, <5>2
      <4> QED
        BY <4>1, <4>2
    <3>7. conf.ids[n] # Nobody
      BY <2>3, <3>5
    <3>8. b.tokens \in TokenFile /\ tokens \in TokenFile /\ s \in Slots /\ b.with.token \in Tokens
      BY <1>2, <2>5
    <3>9. conf.urls[s[1]] # Nobody /\ conf.ids[<<s[1], s[2]>>] # Nobody
      BY <3>5, <3>7
    <3>10. tokens.of = [b.tokens.of EXCEPT ![s] = b.with.token]
      BY <2>5
    <3>11. \A u, m : \/ ~Good(conf, b.tokens, u, m)
                     \/ /\ s \notin u
                        /\ \/ conf.ids[<<s[1], s[2]>>] # Issued[b.with.token].account
                           \/ s[1] \notin m /\ Issued[b.with.token].url # conf.urls[s[1]]
                     \/ Good(conf, tokens, u, m)
      <4> HIDE DEF b, s, n
      <4> QED
        BY <3>8, <3>9, <3>10, GoodWithOne, SMTT(30)
    <3>12. Good(conf, tokens, Excused(amiss', c), Moving(amiss', c))
      BY <3>4, <3>6, <3>11
    <3> QED
      BY <2>6, <3>12
  <2>14. c.identity # Nobody =>
           c.with.token \in Tokens /\ Issued[c.with.token] = [url |-> c.with.url, account |-> c.identity]
    BY <1>2, <2>6, <2>12
  <2> QED
    BY <1>1, <1>2, <2>2, <2>5, <2>6, <2>7, <2>8, <2>11, <2>13, <2>14, GoesOn
<1> QED
  BY <1>4, <1>5 DEF Save, With
-----------------------------------------------------------------------------
(* Both files are read.                                                     *)

LEMMA WritesFirst ==
  ASSUME NEW e \in ClientRecords, NEW d \in ClientRecords, Program(e),
         d.todo = <<"writeConfig", "writeTokens">> \o e.todo, d.with = e.with,
         d.identity = e.identity, ~At(e, "writeTokens")
  PROVE  Program(d) /\ At(d, "writeConfig") /\ Len(d.todo) > 1 /\ d.todo[2] = "writeTokens"
<1> DEFINE two == <<"writeConfig", "writeTokens">>
           n == Len(e.todo)
<1>1. /\ two \in Seq(Steps) /\ Len(two) = 2 /\ two[1] = "writeConfig" /\ two[2] = "writeTokens"
      /\ e.todo \in Seq(Steps)
  BY DEF Steps, ClientRecords
<1>2. n \in Nat
  BY <1>1, LenProperties
<1>3. d.todo = two \o e.todo
  OBVIOUS
<1> HIDE DEF two
<1>4. /\ two \o e.todo \in Seq(Steps) /\ Len(two \o e.todo) = Len(two) + Len(e.todo)
      /\ \A i \in 1..(Len(two) + Len(e.todo)) : (two \o e.todo)[i] =
           IF i <= Len(two) THEN two[i] ELSE e.todo[i - Len(two)]
  BY <1>1, ConcatProperties, Zenon
<1> HIDE DEF n
<1>5. /\ Len(d.todo) = 2 + n
      /\ \A i \in 1..(2 + n) : d.todo[i] = IF i <= 2 THEN two[i] ELSE e.todo[i - 2]
  BY <1>1, <1>3, <1>4 DEF n
<1>6. d.todo[1] = "writeConfig" /\ d.todo[2] = "writeTokens" /\ Len(d.todo) > 1
  BY <1>1, <1>2, <1>5
<1>7. \A i \in 1..Len(d.todo) :
        i = 1 \/ i = 2 \/ (i > 2 /\ i - 2 \in 1..Len(e.todo) /\ d.todo[i] = e.todo[i - 2])
  BY <1>2, <1>5 DEF n
<1>8. ASSUME NEW i \in 1..Len(d.todo)
      PROVE  /\ d.todo[i] \in {"add", "set", "use", "look"} => d.with.remote \in Remotes
             /\ d.todo[i] \in {"add", "set"} => d.with.url \in Urls
             /\ d.todo[i] = "use" => d.with.alias \in Aliases
             /\ d.todo[i] \in {"verify", "save"} => d.with.slot \in Slots /\ d.with.token \in Tokens
             /\ d.todo[i] \notin AfterVerify => d.identity = Nobody
  <2>1. CASE i = 1 \/ i = 2
    BY <1>6, <2>1 DEF AfterVerify
  <2>2. CASE i - 2 \in 1..Len(e.todo) /\ d.todo[i] = e.todo[i - 2]
    BY <2>2 DEF Program
  <2> QED
    BY <1>7, <2>1, <2>2
<1>9. ASSUME NEW i \in 1..Len(d.todo), NEW j \in 1..Len(d.todo), d.todo[i] = "verify", i < j
      PROVE  d.todo[j] \in AfterVerify
  <2>1. i > 2 /\ i - 2 \in 1..Len(e.todo) /\ d.todo[i] = e.todo[i - 2]
    BY <1>6, <1>7, <1>9
  <2>2. j - 2 \in 1..Len(e.todo) /\ d.todo[j] = e.todo[j - 2] /\ i - 2 < j - 2
    BY <1>7, <1>9, <2>1
  <2> QED
    BY <1>9, <2>1, <2>2 DEF Program
<1>10. ASSUME NEW i \in 1..(Len(d.todo) - 1)
       PROVE  /\ d.todo[i + 1] = "writeTokens" => d.todo[i] = "writeConfig"
              /\ d.todo[i + 1] \in {"request", "set"} => d.todo[i] \in {"load", "writeTokens"}
  <2>1. i = 1 \/ i = 2 \/ i > 2
    OBVIOUS
  <2>2. CASE i = 1
    BY <1>6, <2>2
  <2>3. CASE i = 2
    <3>1. d.todo[3] = e.todo[1] /\ 1 \in 1..Len(e.todo) /\ i + 1 = 3
      <4>1. 3 \in 1..Len(d.todo)
        BY <1>2, <1>5, <2>3
      <4> QED
        BY <1>7, <2>3, <4>1
    <3>2. e.todo # <<>>
      BY <3>1, EmptySeq
    <3> QED
      BY <1>6, <2>3, <3>1, <3>2 DEF At
  <2>4. CASE i > 2
    <3>1. /\ i \in 1..Len(d.todo) /\ i + 1 \in 1..Len(d.todo) /\ (i + 1) - 2 = (i - 2) + 1
          /\ i - 2 \in 1..(Len(e.todo) - 1)
      BY <1>2, <1>5, <2>4 DEF n
    <3>2. d.todo[i] = e.todo[i - 2] /\ d.todo[i + 1] = e.todo[(i - 2) + 1]
      BY <1>7, <2>4, <3>1
    <3> QED
      BY <3>1, <3>2 DEF Program
  <2> QED
    BY <2>1, <2>2, <2>3, <2>4
<1>11. d.with.reuse => d.with.slot \in Slots /\ d.with.token \in Tokens
  BY DEF Program
<1>12. Program(d)
  BY <1>8, <1>9, <1>10, <1>11 DEF Program
<1>13. d.todo # <<>>
  BY <1>6, EmptySeq
<1> QED
  BY <1>6, <1>12, <1>13 DEF At

LEMMA LoadFacts ==
  ASSUME CliInv, NEW p \in Clients, On(p, "load"), NEW conf \in ConfigFile, NEW tokens \in TokenFile,
         NEW todo \in Seq(Steps),
         client' = [client EXCEPT ![p] = [client[p] EXCEPT !.config = conf, !.tokens = tokens,
                      !.seen = [config |-> files.config, tokens |-> files.tokens], !.todo = todo]],
         UNCHANGED <<files, sent, amiss, cliRuns>>,
         conf.version = 2, tokens.version = 2, Follows(files.config, conf),
         \/ /\ todo = Tail(client[p].todo)
            /\ files.legacy = Nobody \/ files.config.version # 0
            /\ files.config.urls = conf.urls
            /\ files.config.version = 0 => conf.listed = {}
         \/ todo = <<"writeConfig", "writeTokens">> \o Tail(client[p].todo),
         ~amiss.raced =>
           Good(conf, tokens, amiss.unverified \cup IF files.config.version = 0 THEN conf.listed ELSE {},
                amiss.moved)
  PROVE  CliInv'
<1> DEFINE b == client[p]
           d == [b EXCEPT !.config = conf, !.tokens = tokens,
                   !.seen = [config |-> files.config, tokens |-> files.tokens], !.todo = todo]
           e == [b EXCEPT !.config = conf, !.tokens = tokens,
                   !.seen = [config |-> files.config, tokens |-> files.tokens], !.todo = Tail(b.todo)]
<1>1. b \in ClientRecords /\ At(b, "load") /\ Program(b) /\ Memory(b)
  BY OnAt DEF CliInv, CliShape
<1>2. b.todo \in Seq(Steps) /\ b.todo # <<>> /\ b.todo[1] = "load"
  BY <1>1 DEF ClientRecords, At
<1>3. Tail(b.todo) \in Seq(Steps) /\ (Tail(b.todo) # <<>> => Len(b.todo) > 1 /\ Tail(b.todo)[1] = b.todo[2])
  <2>1. Len(b.todo) \in Nat /\ Len(b.todo) # 0
    BY <1>2, EmptySeq
  <2>2. CASE Len(b.todo) = 1
    <3>1. Tail(b.todo) \in Seq(Steps) /\ Len(Tail(b.todo)) = 0
      BY <1>2, <2>2
    <3>2. Tail(b.todo) = <<>>
      BY <3>1, EmptySeq
    <3> QED
      BY <3>1, <3>2
  <2>3. CASE Len(b.todo) # 1
    BY <1>2, <2>1, <2>3, TailOf
  <2> QED
    BY <2>2, <2>3
<1>4. /\ d \in ClientRecords /\ d.todo = todo /\ d.with = b.with /\ d.identity = b.identity
      /\ d.config = conf /\ d.tokens = tokens /\ d.seen.config = files.config
  BY <1>1 DEF ClientRecords, CliInv, CliShape
<1>5. /\ e \in ClientRecords /\ e.todo = Tail(b.todo) /\ e.with = b.with /\ e.identity = b.identity
  BY <1>1, <1>3 DEF ClientRecords, CliInv, CliShape
<1>6. client' = [client EXCEPT ![p] = d]
  OBVIOUS
<1> HIDE DEF d, e
<1>7. Program(e)
  BY <1>1, <1>2, <1>5, TailIsProgram
<1>8. ~At(e, "writeTokens")
  <2> SUFFICES ASSUME At(e, "writeTokens") PROVE FALSE
    OBVIOUS
  <2>1. Len(b.todo) > 1 /\ b.todo[2] = "writeTokens"
    BY <1>3, <1>5 DEF At
  <2>2. 1 \in 1..(Len(b.todo) - 1) /\ 1 + 1 = 2
    BY <1>2, <2>1, LenProperties
  <2> QED
    BY <1>1, <1>2, <2>1, <2>2 DEF Program
<1>9. /\ Program(d) /\ ~At(d, "writeTokens") /\ ConvertsFirst(files.legacy, d)
      /\ At(d, "request") \/ At(d, "set") =>
           /\ files.config.urls = conf.urls
           /\ files.config.version = 0 => conf.listed = {}
  <2>1. CASE /\ todo = Tail(b.todo)
             /\ files.legacy = Nobody \/ files.config.version # 0
             /\ files.config.urls = conf.urls
             /\ files.config.version = 0 => conf.listed = {}
    <3>1. Program(d)
      BY <1>1, <1>2, <1>4, <2>1, TailIsProgram
    <3>2. ~At(d, "writeTokens")
      BY <1>4, <1>5, <1>8, <2>1 DEF At
    <3>3. ConvertsFirst(files.legacy, d)
      BY <1>4, <2>1 DEF ConvertsFirst
    <3> QED
      BY <2>1, <3>1, <3>2, <3>3
  <2>2. CASE todo = <<"writeConfig", "writeTokens">> \o Tail(b.todo)
    <3>1. Program(d) /\ At(d, "writeConfig") /\ Len(d.todo) > 1 /\ d.todo[2] = "writeTokens"
      BY <1>4, <1>5, <1>7, <1>8, <2>2, WritesFirst
    <3> QED
      BY <3>1 DEF At, ConvertsFirst
  <2> QED
    BY <2>1, <2>2
<1>10. Memory(d)
  BY <1>1, <1>4, <1>9 DEF Memory
<1>11. Grows
  BY SameAmissGrows DEF CliInv
<1>12. ASSUME ~amiss'.raced
       PROVE  Good(d.config, d.tokens, Excused(amiss', d), Moving(amiss', d))
  <2>1. Good(conf, tokens, amiss.unverified \cup IF files.config.version = 0 THEN conf.listed ELSE {},
             amiss.moved)
    BY <1>12
  <2>2. /\ amiss.unverified \cup (IF files.config.version = 0 THEN conf.listed ELSE {}) \subseteq Excused(amiss', d)
        /\ amiss.moved \subseteq Moving(amiss', d)
    BY <1>4 DEF Excused, Moving
  <2> QED
    BY <1>4, <2>1, <2>2, GoodGrows
<1>13. ~At(b, "writeTokens")
  BY <1>1 DEF At
<1> QED
  BY <1>4, <1>6, <1>9, <1>10, <1>11, <1>12, <1>13, UnwrittenStep, NothingSent, RunsTyped DEF Kept

LEMMA LegacyTypes ==
  ASSUME NEW known \in [alias : Aliases, token : Tokens]
  PROVE  /\ LegacyConfig(known) \in ConfigFile /\ LegacyConfig(known).version = 2
         /\ LegacyTokens(known) \in TokenFile /\ LegacyTokens(known).version = 2
         /\ LegacyConfig(known).urls[DefaultRemote] = Issued[known.token].url
         /\ LegacyConfig(known).ids[<<DefaultRemote, known.alias>>] = Unverified
         /\ LegacyConfig(known).listed = {<<DefaultRemote, known.alias, "default">>}
         /\ LegacyTokens(known).of = [EmptyTokens.of EXCEPT ![<<DefaultRemote, known.alias, "default">>] = known.token]
         /\ <<DefaultRemote, known.alias, "default">> \in Slots
<1>1. /\ DefaultRemote \in Remotes /\ known.alias \in Aliases /\ known.token \in Tokens
      /\ <<DefaultRemote, known.alias>> \in Names
  BY CliAssumption DEF Names
<1>2. <<DefaultRemote, known.alias, "default">> \in Slots
  BY <1>1 DEF Slots, Credentials
<1>3. Issued[known.token].url \in Urls
  BY <1>1, AccountsKnown
<1> DEFINE c == LegacyConfig(known)
<1>4. /\ EmptyConfig.version = 2 /\ EmptyConfig.urls \in [Remotes -> Urls \cup {Nobody}]
      /\ EmptyConfig.ids \in [Names -> Accounts \cup {Nobody, Unverified}]
  BY DEF EmptyConfig
<1>6. /\ c.version = 2 /\ c.listed = {<<DefaultRemote, known.alias, "default">>}
      /\ c.urls = [EmptyConfig.urls EXCEPT ![DefaultRemote] = Issued[known.token].url]
      /\ c.ids = [EmptyConfig.ids EXCEPT ![<<DefaultRemote, known.alias>>] = Unverified]
  BY <1>4, EmptyTypes DEF LegacyConfig, ConfigFile
<1>7. /\ c.urls[DefaultRemote] = Issued[known.token].url
      /\ c.ids[<<DefaultRemote, known.alias>>] = Unverified
  BY <1>1, <1>4, <1>6
<1>8. c \in ConfigFile
  <2>1. c.listed \in SUBSET Slots
    BY <1>2, <1>6
  <2> QED
    BY <1>1, <1>2, <1>3, <1>4, <2>1, EmptyTypes DEF ConfigFile, LegacyConfig
<1>9. EmptyTokens.version = 2 /\ EmptyTokens.of \in [Slots -> Tokens \cup {Nobody}]
  BY DEF EmptyTokens
<1>10. /\ LegacyTokens(known) \in TokenFile /\ LegacyTokens(known).version = 2
       /\ LegacyTokens(known).of = [EmptyTokens.of EXCEPT ![<<DefaultRemote, known.alias, "default">>] = known.token]
  BY <1>1, <1>9, EmptyTypes DEF LegacyTokens, TokenFile
<1> QED
  BY <1>2, <1>6, <1>7, <1>8, <1>10

(* What a known of version 1 says is good, but nobody verified it.        *)
LEMMA LegacyGood ==
  ASSUME NEW known \in [alias : Aliases, token : Tokens], NEW u, NEW m,
         LegacyConfig(known).listed \subseteq u
  PROVE  Good(LegacyConfig(known), LegacyTokens(known), u, m)
<1> DEFINE s == <<DefaultRemote, known.alias, "default">>
<1>1. Good(LegacyConfig(known), EmptyTokens, u, m)
  BY NothingIsGood
<1>2. /\ LegacyConfig(known).urls[s[1]] # Nobody
      /\ LegacyConfig(known).ids[<<s[1], s[2]>>] # Nobody
  BY LegacyTypes, AccountsKnown, CliAssumption
<1>3. s \in u
  BY LegacyTypes
<1> QED
  BY <1>1, <1>2, <1>3, LegacyTypes, EmptyTypes, GoodWithOne, ZenonT(60)

LEMMA LoadKeeps ==
  ASSUME CliInv, NEW p \in Clients, Load(p)
  PROVE  CliInv'
<1>1. On(p, "load") /\ UNCHANGED <<files, sent, amiss, cliRuns>>
  BY DEF Load
<1>2. client[p] \in ClientRecords /\ At(client[p], "load") /\ Tail(client[p].todo) \in Seq(Steps)
  <2>1. client[p] \in ClientRecords /\ At(client[p], "load")
    BY <1>1, OnAt DEF CliInv, CliShape
  <2>2. client[p].todo \in Seq(Steps) /\ client[p].todo # <<>>
    BY <2>1 DEF ClientRecords, At
  <2> QED
    BY <2>1, <2>2
<1>3. /\ files.config \in ConfigFile /\ files.tokens \in TokenFile /\ files.legacy \in Legacies
      /\ files.config.version \in {0, 2} /\ files.tokens.version \in 0..2
  BY DEF CliInv, CliShape, ConfigFile, TokenFile
<1>4. files.config.version = 0 => files.config = NoFile
  BY DEF CliInv
<1> DEFINE Reads(c, t, todo) ==
             client' = [client EXCEPT ![p] = [client[p] EXCEPT !.config = c, !.tokens = t,
                          !.seen = [config |-> files.config, tokens |-> files.tokens], !.todo = todo]]
<1>5. CASE /\ files.config.version = 0 /\ files.legacy = Nobody
           /\ Reads(EmptyConfig, EmptyTokens, Tail(client[p].todo))
  <2>1. files.config = NoFile
    BY <1>4, <1>5
  <2>2. /\ EmptyTokens.version = 2 /\ EmptyConfig.version = 2 /\ files.config.urls = EmptyConfig.urls
        /\ EmptyConfig.listed = {}
    BY <2>1, NoFileHasNothing DEF EmptyTokens
  <2> QED
    BY <1>1, <1>2, <1>5, <2>1, <2>2, NothingIsGood, NoFileFollowed, EmptyTypes, LoadFacts
<1>6. CASE /\ files.config.version = 0 /\ files.legacy # Nobody
           /\ Reads(LegacyConfig(files.legacy), LegacyTokens(files.legacy),
                    <<"writeConfig", "writeTokens">> \o Tail(client[p].todo))
  <2>1. files.config = NoFile /\ files.legacy \in [alias : Aliases, token : Tokens]
    BY <1>3, <1>4, <1>6 DEF Legacies
  <2>2. <<"writeConfig", "writeTokens">> \o Tail(client[p].todo) \in Seq(Steps)
    <3>1. <<"writeConfig", "writeTokens">> \in Seq(Steps)
      BY DEF Steps
    <3> QED
      BY <1>2, <3>1, ConcatProperties
  <2>3. Good(LegacyConfig(files.legacy), LegacyTokens(files.legacy),
             amiss.unverified \cup IF files.config.version = 0 THEN LegacyConfig(files.legacy).listed ELSE {},
             amiss.moved)
    BY <1>6, <2>1, LegacyGood
  <2>4. Follows(files.config, LegacyConfig(files.legacy))
    BY <2>1, NoFileFollowed
  <2> QED
    BY <1>1, <1>6, <2>1, <2>2, <2>3, <2>4, LegacyTypes, LoadFacts
<1>7. CASE Stop(p)
  <2>1. ~At(client[p], "writeTokens")
    BY <1>2 DEF At
  <2>2. Grows
    BY <1>1, SameAmissGrows DEF CliInv
  <2> QED
    BY <1>1, <1>7, <2>1, <2>2, StopKeeps, NothingSent, RunsTyped
<1>8. CASE /\ files.config.version # 0
           /\ Reads(files.config, [files.tokens EXCEPT !.version = 2], Tail(client[p].todo))
  <2> DEFINE tokens == [files.tokens EXCEPT !.version = 2]
  <2>1. tokens \in TokenFile /\ tokens.version = 2 /\ tokens.of = files.tokens.of
    BY <1>3 DEF TokenFile
  <2>2. ASSUME ~amiss.raced
        PROVE  Good(files.config, tokens,
                    amiss.unverified \cup IF files.config.version = 0 THEN files.config.listed ELSE {},
                    amiss.moved)
    <3>1. Good(files.config, files.tokens, amiss.unverified, amiss.moved)
      BY <2>2 DEF CliInv, Trusted
    <3> QED
      BY <1>8, <2>1, <3>1 DEF Good
  <2>3. Follows(files.config, files.config) /\ files.config.version = 2
    BY <1>3, <1>8, FollowsItself
  <2>4. Reads(files.config, tokens, Tail(client[p].todo))
    BY <1>8
  <2> HIDE DEF tokens
  <2> QED
    BY <1>1, <1>2, <1>3, <1>8, <2>1, <2>2, <2>3, <2>4, LoadFacts
<1> QED
  BY <1>3, <1>5, <1>6, <1>7, <1>8 DEF Load
-----------------------------------------------------------------------------
(* The configuration is written.                                            *)

LEMMA WriteConfigKept ==
  ASSUME CliInv, NEW p \in Clients, WriteConfigFile(p)
  PROVE  \E d : /\ client' = [client EXCEPT ![p] = d] /\ Kept(d)
                /\ ~At(d, "request") /\ ~At(d, "set")
                /\ \/ d = Off /\ Len(client[p].todo) = 1
                   \/ /\ d.config = client[p].config /\ d.tokens = client[p].tokens
                      /\ d.seen.config = client[p].config
                      /\ d.todo # <<>> /\ d.todo[1] = client[p].todo[2]
<1> DEFINE b == client[p]
           c == [b EXCEPT !.seen.config = b.config]
<1>1. /\ b \in ClientRecords /\ At(b, "writeConfig") /\ Program(b) /\ Memory(b)
      /\ client \in [Clients -> ClientRecords] /\ b.todo # <<>> /\ b.config.version = 2
  <2>1. client \in [Clients -> ClientRecords] /\ At(b, "writeConfig") /\ Program(b) /\ Memory(b)
    BY OnAt DEF WriteConfigFile, CliInv, CliShape
  <2>2. b.config.version = 2 /\ b.todo # <<>>
    BY <2>1 DEF Memory, At
  <2> QED
    BY <2>1, <2>2
<1>2. /\ c \in ClientRecords /\ c.todo = b.todo /\ c.with = b.with /\ c.identity = b.identity
      /\ c.config = b.config /\ c.tokens = b.tokens /\ c.seen.config = b.config
  BY <1>1 DEF ClientRecords
<1>3. GoOn(p, c)
  BY DEF WriteConfigFile
<1>4. CASE Len(b.todo) = 1
  <2>1. client' = [client EXCEPT ![p] = Off]
    BY <1>2, <1>3, <1>4 DEF GoOn
  <2> QED
    BY <1>4, <2>1, OffTypes, OffKept DEF Kept, At
<1>5. CASE Len(b.todo) # 1
  <2>1. client' = [client EXCEPT ![p] = [c EXCEPT !.todo = Tail(c.todo)]]
    BY <1>2, <1>3, <1>5 DEF GoOn
  <2> DEFINE d == [c EXCEPT !.todo = Tail(c.todo)]
  <2> HIDE DEF c
  <2>2. /\ Tail(b.todo) \in Seq(Steps) /\ Len(b.todo) > 1 /\ Tail(b.todo) # <<>>
        /\ Tail(b.todo)[1] = b.todo[2]
    <3>1. b.todo \in Seq(Steps) /\ Len(b.todo) # 0
      BY <1>1, EmptySeq DEF ClientRecords
    <3> QED
      BY <1>5, <3>1, TailOf
  <2>3. /\ d \in ClientRecords /\ d.todo = Tail(b.todo) /\ d.with = b.with /\ d.identity = b.identity
        /\ d.config = b.config /\ d.tokens = b.tokens /\ d.seen.config = b.config
    BY <1>2, <2>2 DEF ClientRecords
  <2>4. client' = [client EXCEPT ![p] = d]
    BY <2>1
  <2> HIDE DEF d
  <2>5. Program(d)
    BY <1>1, <2>3, TailIsProgram
  <2>6. ~At(d, "request") /\ ~At(d, "set")
    <3>1. 1 \in 1..(Len(b.todo) - 1) /\ 1 + 1 = 2
      BY <1>1, <2>2, LenProperties DEF ClientRecords
    <3>2. b.todo[2] \in {"request", "set"} => b.todo[1] \in {"load", "writeTokens"}
      BY <1>1, <3>1 DEF Program
    <3> QED
      BY <1>1, <2>2, <2>3, <3>2 DEF At
  <2>7. Memory(d)
    BY <1>1, <2>3, <2>6, FollowsItself DEF Memory
  <2>8. ConvertsFirst(files.legacy, d)
    BY <1>1, <2>3 DEF ConvertsFirst
  <2> QED
    BY <2>2, <2>3, <2>4, <2>5, <2>6, <2>7, <2>8 DEF Kept
<1> QED
  BY <1>4, <1>5

LEMMA WriteConfigKeeps ==
  ASSUME CliInv, NEW p \in Clients, WriteConfigFile(p)
  PROVE  CliInv'
<1> DEFINE b == client[p]
<1>1. PICK d : /\ client' = [client EXCEPT ![p] = d] /\ Kept(d)
               /\ ~At(d, "request") /\ ~At(d, "set")
               /\ \/ d = Off /\ Len(b.todo) = 1
                  \/ /\ d.config = b.config /\ d.tokens = b.tokens /\ d.seen.config = b.config
                     /\ d.todo # <<>> /\ d.todo[1] = b.todo[2]
  BY WriteConfigKept
<1>2. /\ b \in ClientRecords /\ At(b, "writeConfig") /\ Memory(b) /\ ConvertsFirst(files.legacy, b)
      /\ client \in [Clients -> ClientRecords] /\ b.config.version = 2 /\ b.config \in ConfigFile
      /\ files \in [config : ConfigFile, tokens : TokenFile, legacy : Legacies]
      /\ amiss \in AmissTypes
  <2>1. client \in [Clients -> ClientRecords] /\ At(b, "writeConfig") /\ Memory(b)
        /\ ConvertsFirst(files.legacy, b)
    BY OnAt DEF WriteConfigFile, CliInv, CliShape
  <2>2. b.config.version = 2 /\ b.config \in ConfigFile
    BY <2>1 DEF Memory, At, ClientRecords
  <2> QED
    BY <2>1, <2>2 DEF CliInv, CliShape, AmissTypes
<1>3. /\ files' \in [config : ConfigFile, tokens : TokenFile, legacy : Legacies]
      /\ files'.config = b.config /\ files'.tokens = files.tokens /\ files'.legacy = files.legacy
      /\ UNCHANGED <<sent, cliRuns>>
  BY <1>2 DEF WriteConfigFile
<1>4. /\ amiss'.raced <=> amiss.raced \/ files.config # b.seen.config
      /\ amiss'.moved = amiss.moved \cup {r \in Remotes : files.config.urls[r] \notin {Nobody, b.config.urls[r]}}
      /\ amiss'.unverified = amiss.unverified \cup IF b.seen.config.version = 0 THEN b.config.listed ELSE {}
      /\ amiss'.cut = amiss.cut /\ amiss' \in AmissTypes
  <2>1. b.config.listed \subseteq Slots
    BY <1>2 DEF ConfigFile
  <2> QED
    BY <1>2, <2>1 DEF WriteConfigFile, AmissTypes
<1>5. Grows
  BY <1>4 DEF Grows
<1>6. /\ client' \in [Clients -> ClientRecords] /\ client'[p] = d
      /\ \A q \in Clients : q # p => client'[q] = client[q]
  BY <1>1, <1>2, Replaced DEF Kept
<1>7. /\ CliShape'
      /\ \A q \in Clients :
           Program(client'[q]) /\ Memory(client'[q]) /\ ConvertsFirst(files'.legacy, client'[q])
  BY <1>1, <1>3, <1>5, NothingSent, RunsTyped, StepKeeps
<1>8. ASSUME ~amiss'.raced
      PROVE  Trusted'
  <2>1. Trusted /\ files.config = b.seen.config
    BY <1>4, <1>8 DEF CliInv
  <2>2. Follows(files.config, b.config)
    BY <1>2, <2>1 DEF Memory
  <2>3. \A r \in Remotes : files.config.urls[r] \notin {Nobody, b.config.urls[r]} => r \in amiss'.moved
    BY <1>4
  <2>4. amiss.unverified \subseteq amiss'.unverified /\ amiss.moved \subseteq amiss'.moved
    BY <1>4
  <2>5. ASSUME NEW t \in TokenFile, Good(files.config, t, amiss.unverified, amiss.moved)
        PROVE  Good(b.config, t, amiss'.unverified, amiss'.moved)
    BY <2>2, <2>3, <2>4, <2>5, GoodFollows
  <2>6. Good(files'.config, files'.tokens, amiss'.unverified, amiss'.moved)
    BY <1>2, <1>3, <2>1, <2>5 DEF Trusted
  <2>7. Good(b.config, b.tokens, amiss'.unverified, amiss'.moved)
    <3>1. Good(b.config, b.tokens, Excused(amiss, b), Moving(amiss, b))
      BY <2>1 DEF Trusted
    <3>2. Excused(amiss, b) \subseteq amiss'.unverified /\ Moving(amiss, b) \subseteq amiss'.moved
      BY <1>4, <2>1 DEF Excused, Moving
    <3> QED
      BY <3>1, <3>2, GoodGrows
  <2>8. ASSUME NEW q \in Clients
        PROVE  /\ Good(client'[q].config, client'[q].tokens, Excused(amiss', client'[q]),
                       Moving(amiss', client'[q]))
               /\ At(client'[q], "writeTokens") =>
                    Good(files'.config, client'[q].tokens, amiss'.unverified, amiss'.moved)
    <3>1. CASE q # p
      <4>1. /\ Good(client[q].config, client[q].tokens, Excused(amiss, client[q]),
                    Moving(amiss, client[q]))
            /\ At(client[q], "writeTokens") =>
                 Good(files.config, client[q].tokens, amiss.unverified, amiss.moved)
        BY <2>1 DEF Trusted
      <4>2. client[q].tokens \in TokenFile
        BY <1>2 DEF ClientRecords
      <4>3. Good(client[q].config, client[q].tokens, Excused(amiss', client[q]), Moving(amiss', client[q]))
        BY <1>5, <4>1, ExcusesGrow, GoodGrows
      <4> QED
        BY <1>3, <1>6, <2>5, <3>1, <4>1, <4>2, <4>3
    <3>2. CASE q = p /\ d = Off
      BY <1>6, <3>2, OffKept
    <3>3. CASE q = p /\ d.config = b.config /\ d.tokens = b.tokens
      <4>1. amiss'.unverified \subseteq Excused(amiss', d) /\ amiss'.moved \subseteq Moving(amiss', d)
        BY DEF Excused, Moving
      <4> QED
        BY <1>3, <1>6, <2>7, <3>3, <4>1, GoodGrows
    <3> QED
      BY <1>1, <3>1, <3>2, <3>3
  <2>9. SentHome'
    BY <1>8, <1>3, <1>5, NothingSent
  <2>10. FilesLoad'
    <3> SUFFICES ASSUME files'.tokens.version = 1, ~amiss'.cut
                 PROVE  \E q \in Clients : On(q, "writeTokens")'
      BY DEF FilesLoad
    <3>1. CASE files.config.version = 2
      <4>1. PICK q \in Clients : On(q, "writeTokens")
        BY <1>3, <1>4, <2>1, <3>1 DEF Trusted, FilesLoad
      <4>2. q # p
        BY <1>2, <4>1, OnAt DEF At
      <4> QED
        BY <1>6, <4>1, <4>2 DEF On
    <3>2. CASE files.config.version # 2
      <4>1. files.config.version = 0 /\ files.legacy # Nobody
        BY <1>2, <1>3, <3>2 DEF ConfigFile, CliInv
      <4>2. Len(b.todo) > 1 /\ b.todo[2] = "writeTokens"
        BY <1>2, <2>1, <4>1 DEF ConvertsFirst, At
      <4>3. d.todo # <<>> /\ d.todo[1] = "writeTokens"
        BY <1>1, <4>2
      <4>4. On(p, "writeTokens")'
        <5>1. Head(d.todo) = d.todo[1]
          BY <1>1, <4>3 DEF Kept, ClientRecords
        <5> QED
          BY <1>6, <4>3, <5>1 DEF On
      <4> QED
        BY <4>4
    <3> QED
      BY <3>1, <3>2
  <2> QED
    BY <2>6, <2>8, <2>9, <2>10 DEF Trusted
<1>9. /\ files'.legacy = Nobody => files'.tokens.version # 1
      /\ files'.config.version = 0 => files'.config = NoFile
  BY <1>2, <1>3 DEF CliInv
<1> QED
  BY <1>7, <1>8, <1>9 DEF CliInv
-----------------------------------------------------------------------------
(* The tokens are written.                                                  *)

LEMMA WriteTokensKeeps ==
  ASSUME CliInv, NEW p \in Clients, WriteTokens(p)
  PROVE  CliInv'
<1> DEFINE b == client[p]
           c == [b EXCEPT !.seen.tokens = b.tokens]
<1>1. /\ b \in ClientRecords /\ At(b, "writeTokens") /\ Program(b) /\ Memory(b)
      /\ client \in [Clients -> ClientRecords] /\ b.todo # <<>> /\ b.config.version = 2
      /\ files \in [config : ConfigFile, tokens : TokenFile, legacy : Legacies]
      /\ amiss \in AmissTypes
  <2>1. client \in [Clients -> ClientRecords] /\ At(b, "writeTokens") /\ Program(b) /\ Memory(b)
    BY OnAt DEF WriteTokens, CliInv, CliShape
  <2>2. b.config.version = 2 /\ b.todo # <<>>
    BY <2>1 DEF Memory, At
  <2> QED
    BY <2>1, <2>2 DEF CliInv, CliShape, AmissTypes
<1>2. /\ c \in ClientRecords /\ c.todo = b.todo /\ c.with = b.with /\ c.identity = b.identity
      /\ c.config = b.config /\ c.tokens = b.tokens /\ c.seen.config = b.seen.config
  BY <1>1 DEF ClientRecords
<1>3. GoOn(p, c)
  BY DEF WriteTokens
<1> HIDE DEF c
<1>4. PICK d : client' = [client EXCEPT ![p] = d] /\ Comes(c, d)
  BY <1>1, <1>2, <1>3, NextStep
<1>5. b.seen.config = b.config /\ b.tokens.version = 2 /\ b.tokens \in TokenFile
  BY <1>1 DEF Memory, ClientRecords
<1>6. /\ files' \in [config : ConfigFile, tokens : TokenFile, legacy : Legacies]
      /\ files'.config = files.config /\ files'.tokens = b.tokens /\ files'.legacy = files.legacy
      /\ UNCHANGED <<sent, cliRuns>>
  BY <1>1, <1>5 DEF WriteTokens
<1>7. /\ amiss.raced => amiss'.raced
      /\ amiss'.moved = amiss.moved /\ amiss'.unverified = amiss.unverified
      /\ amiss'.cut = amiss.cut /\ amiss' \in AmissTypes
  BY <1>1 DEF WriteTokens, AmissTypes
<1>8. Grows
  BY <1>7 DEF Grows
<1>9. ~At(c, "writeConfig") /\ ~At(d, "writeTokens")
  BY <1>1, <1>2, <1>4 DEF At, Comes
<1>10. Kept(d)
  <2>1. CASE d = Off
    BY <2>1, OffTypes, OffKept DEF Kept
  <2>2. CASE Advanced(c, d)
    <3>1. Memory(d)
      BY <1>1, <1>2, <1>5, <1>9, <2>2 DEF Memory, Advanced
    <3>2. ConvertsFirst(files.legacy, d)
      BY <1>1, <1>2, <1>5, <2>2 DEF ConvertsFirst, Advanced
    <3> QED
      BY <1>4, <3>1, <3>2 DEF Kept, Comes
  <2> QED
    BY <1>4, <2>1, <2>2 DEF Comes
<1>11. /\ client' \in [Clients -> ClientRecords] /\ client'[p] = d
       /\ \A q \in Clients : q # p => client'[q] = client[q]
  BY <1>1, <1>4, <1>10, Replaced DEF Kept
<1>12. /\ CliShape'
       /\ \A q \in Clients :
            Program(client'[q]) /\ Memory(client'[q]) /\ ConvertsFirst(files'.legacy, client'[q])
  BY <1>4, <1>6, <1>8, <1>10, NothingSent, RunsTyped, StepKeeps
<1>13. ASSUME ~amiss'.raced
       PROVE  Trusted'
  <2>1. Trusted
    BY <1>7, <1>13 DEF CliInv
  <2>2. Good(files'.config, files'.tokens, amiss'.unverified, amiss'.moved)
    BY <1>1, <1>6, <1>7, <2>1 DEF Trusted
  <2>3. ASSUME NEW q \in Clients
        PROVE  /\ Good(client'[q].config, client'[q].tokens, Excused(amiss', client'[q]),
                       Moving(amiss', client'[q]))
               /\ At(client'[q], "writeTokens") =>
                    Good(files'.config, client'[q].tokens, amiss'.unverified, amiss'.moved)
    <3>1. CASE q # p
      BY <1>6, <1>7, <1>11, <2>1, <3>1 DEF Trusted, Excused, Moving
    <3>2. CASE q = p /\ d = Off
      BY <1>11, <3>2, OffKept
    <3>3. CASE q = p /\ Advanced(c, d)
      <4>1. Good(b.config, b.tokens, Excused(amiss, b), Moving(amiss, b))
        BY <2>1 DEF Trusted
      <4>2. d.config = b.config /\ d.tokens = b.tokens /\ d.seen.config = b.seen.config
        BY <1>2, <3>3 DEF Advanced
      <4>3. Excused(amiss', d) = Excused(amiss, b) /\ Moving(amiss', d) = Moving(amiss, b)
        BY <1>7, <4>2 DEF Excused, Moving
      <4> QED
        BY <1>9, <1>11, <3>3, <4>1, <4>2, <4>3
    <3> QED
      BY <1>4, <3>1, <3>2, <3>3 DEF Comes
  <2>4. SentHome'
    BY <1>6, <1>8, <1>13, NothingSent
  <2>5. FilesLoad'
    BY <1>5, <1>6 DEF FilesLoad
  <2> QED
    BY <2>2, <2>3, <2>4, <2>5 DEF Trusted
<1>14. /\ files'.legacy = Nobody => files'.tokens.version # 1
       /\ files'.config.version = 0 => files'.config = NoFile
  BY <1>5, <1>6 DEF CliInv
<1> QED
  BY <1>12, <1>13, <1>14 DEF CliInv

-----------------------------------------------------------------------------
(* A request, and a command killed.                                         *)

LEMMA SendKeeps ==
  ASSUME CliInv, NEW p \in Clients, Send(p)
  PROVE  CliInv'
<1> DEFINE b == client[p]
<1>1. On(p, "request") /\ Stop(p) /\ UNCHANGED <<files, amiss, cliRuns>>
  BY DEF Send
<1>2. b \in ClientRecords /\ At(b, "request") /\ Memory(b) /\ CliShape /\ b.config \in ConfigFile
      /\ b.tokens \in TokenFile
  <2>1. b \in ClientRecords /\ At(b, "request")
    BY <1>1, OnAt DEF CliInv, CliShape
  <2> QED
    BY <2>1 DEF CliInv, ClientRecords
<1>3. Grows /\ ~At(b, "writeTokens")
  BY <1>1, <1>2, SameAmissGrows DEF At
<1>4. CASE UNCHANGED sent
  BY <1>1, <1>3, <1>4, StopKeeps, NothingSent, RunsTyped
<1>5. CASE \E n \in Names :
             \E s \in Chosen(b.config, n, With(p).alias) :
               /\ Selected(b.config, n) /\ b.config.urls[n[1]] # Nobody /\ b.tokens.of[s] # Nobody
               /\ sent' = sent \cup {<<s, b.tokens.of[s], b.config.urls[n[1]]>>}
  <2>0. PICK n \in Names :
          \E s \in Chosen(b.config, n, With(p).alias) :
            /\ b.config.urls[n[1]] # Nobody /\ b.tokens.of[s] # Nobody
            /\ sent' = sent \cup {<<s, b.tokens.of[s], b.config.urls[n[1]]>>}
    BY <1>5
  <2>1. PICK s \in Chosen(b.config, n, With(p).alias) :
          /\ b.config.urls[n[1]] # Nobody /\ b.tokens.of[s] # Nobody
          /\ sent' = sent \cup {<<s, b.tokens.of[s], b.config.urls[n[1]]>>}
    BY <2>0
  <2>2. s \in b.config.listed /\ s[1] = n[1] /\ s \in Slots
    <3>1. s \in b.config.listed /\ <<s[1], s[2]>> = n
      BY <2>1 DEF Chosen
    <3> QED
      BY <1>2, <3>1 DEF ConfigFile
  <2>3. n[1] \in Remotes /\ b.config.urls[n[1]] \in Urls /\ b.tokens.of[s] \in Tokens
    BY <1>2, <2>1, <2>2 DEF Names, ConfigFile, TokenFile
  <2>4. sent' \subseteq Slots \X Tokens \X Urls
    BY <1>2, <2>1, <2>2, <2>3 DEF CliShape
  <2>5. ASSUME ~amiss'.raced
        PROVE  SentHome'
    <3>1. Trusted
      BY <1>1, <2>5 DEF CliInv
    <3>2. Excused(amiss, b) = amiss.unverified /\ Moving(amiss, b) = amiss.moved
      BY <1>2 DEF Excused, Moving, Memory
    <3>3. Good(b.config, b.tokens, amiss.unverified, amiss.moved)
      BY <3>1, <3>2 DEF Trusted
    <3>4. s[1] \notin amiss.moved /\ s \notin amiss.unverified =>
            Issued[b.tokens.of[s]].url = b.config.urls[n[1]]
      BY <2>1, <2>2, <3>3 DEF Good
    <3>5. ASSUME NEW m \in sent', m[1][1] \notin amiss.moved, m[1] \notin amiss.unverified
          PROVE  Issued[m[2]].url = m[3]
      <4>1. CASE m \in sent
        BY <3>1, <3>5, <4>1 DEF Trusted, SentHome
      <4>2. CASE m = <<s, b.tokens.of[s], b.config.urls[n[1]]>>
        BY <3>4, <3>5, <4>2
      <4> QED
        BY <2>1, <4>1, <4>2
    <3> QED
      BY <1>1, <3>5 DEF SentHome
  <2> QED
    BY <1>1, <1>3, <2>4, <2>5, StopKeeps, RunsTyped
<1> QED
  BY <1>4, <1>5 DEF Send

LEMMA KillKeeps ==
  ASSUME CliInv, NEW p \in Clients, KillClient(p)
  PROVE  CliInv'
<1>1. amiss \in AmissTypes /\ client \in [Clients -> ClientRecords]
  BY DEF CliInv, CliShape, AmissTypes
<1>2. Stop(p) /\ UNCHANGED <<files, sent>> /\ amiss' = [amiss EXCEPT !.cut = @ \/ On(p, "writeTokens")]
  BY DEF KillClient
<1>3. /\ (amiss.raced <=> amiss'.raced) /\ (amiss'.cut <=> amiss.cut \/ On(p, "writeTokens"))
      /\ amiss'.moved = amiss.moved /\ amiss'.unverified = amiss.unverified /\ amiss' \in AmissTypes
  BY <1>1, <1>2 DEF AmissTypes
<1>4. Grows
  BY <1>3 DEF Grows
<1>5. At(client[p], "writeTokens") => amiss'.cut
  BY <1>1, <1>3, OnAt
<1>6. cliRuns' \in [commands : 0..MaxCliCommands, kills : 0..MaxCliKills]
  <2>1. /\ cliRuns \in [commands : 0..MaxCliCommands, kills : 0..MaxCliKills]
        /\ cliRuns.kills < MaxCliKills /\ MaxCliKills \in Nat
    BY CliAssumption DEF CliInv, CliShape, KillClient
  <2>2. cliRuns.kills + 1 \in 0..MaxCliKills
    BY <2>1
  <2> QED
    BY <2>1, <2>2 DEF KillClient
<1> QED
  BY <1>2, <1>4, <1>5, <1>6, StopKeeps, NothingSent

-----------------------------------------------------------------------------
(* The invariant.                                                           *)

LEMMA BeginsWellFiled ==
  ASSUME CliInit
  PROVE  /\ files \in [config : ConfigFile, tokens : TokenFile, legacy : Legacies]
         /\ files.legacy = Nobody => files.tokens.version # 1
         /\ files.config.version = 0 => files.config = NoFile
         /\ FilesLoad /\ Good(files.config, files.tokens, {}, {})
<1>1. ASSUME NEW v \in {0, 1}, NEW legacy \in Legacies, legacy = Nobody => v = 0,
             files = [config |-> NoFile, tokens |-> [EmptyTokens EXCEPT !.version = v], legacy |-> legacy]
      PROVE  /\ files \in [config : ConfigFile, tokens : TokenFile, legacy : Legacies]
             /\ files.legacy = Nobody => files.tokens.version # 1
             /\ files.config.version = 0 => files.config = NoFile
             /\ FilesLoad /\ Good(files.config, files.tokens, {}, {})
  <2> DEFINE tokens == [EmptyTokens EXCEPT !.version = v]
  <2>1. tokens \in TokenFile /\ tokens.version = v /\ tokens.of = EmptyTokens.of
    BY EmptyTypes DEF TokenFile
  <2>2. files.config = NoFile /\ files.tokens = tokens /\ files.legacy = legacy
    BY <1>1
  <2>3. files = [config |-> NoFile, tokens |-> tokens, legacy |-> legacy]
    BY <1>1
  <2> HIDE DEF tokens
  <2>4. Good(NoFile, tokens, {}, {})
    BY <2>1 DEF Good, EmptyTokens
  <2> QED
    BY <1>1, <2>1, <2>2, <2>3, <2>4, EmptyTypes, NoFileHasNothing DEF FilesLoad
<1>2. ASSUME NEW a \in Aliases, NEW t \in Tokens, NEW old, old = [alias |-> a, token |-> t],
             files = [config |-> [LegacyConfig(old) EXCEPT !.ids[<<DefaultRemote, a>>] = Issued[t].account],
                      tokens |-> LegacyTokens(old), legacy |-> Nobody]
      PROVE  /\ files \in [config : ConfigFile, tokens : TokenFile, legacy : Legacies]
             /\ files.legacy = Nobody => files.tokens.version # 1
             /\ files.config.version = 0 => files.config = NoFile
             /\ FilesLoad /\ Good(files.config, files.tokens, {}, {})
  <2> DEFINE conf == [LegacyConfig(old) EXCEPT !.ids[<<DefaultRemote, a>>] = Issued[t].account]
             s == <<DefaultRemote, a, "default">>
  <2>1. /\ old \in [alias : Aliases, token : Tokens] /\ old.alias = a /\ old.token = t
        /\ <<DefaultRemote, a>> \in Names
    BY <1>2, CliAssumption DEF Names
  <2>2. /\ LegacyConfig(old) \in ConfigFile /\ LegacyConfig(old).version = 2
        /\ LegacyTokens(old) \in TokenFile /\ LegacyTokens(old).version = 2
        /\ LegacyConfig(old).urls[DefaultRemote] = Issued[t].url
        /\ LegacyTokens(old).of = [EmptyTokens.of EXCEPT ![s] = t] /\ s \in Slots
    BY <2>1, LegacyTypes
  <2>3. /\ Issued[t].account \in Accounts /\ Issued[t].account # Nobody /\ Issued[t].url # Nobody
    BY AccountsKnown
  <2>4. /\ conf \in ConfigFile /\ conf.version = 2 /\ conf.urls[DefaultRemote] = Issued[t].url
        /\ conf.ids[<<DefaultRemote, a>>] = Issued[t].account
    BY <2>1, <2>2, <2>3 DEF ConfigFile
  <2>5. files = [config |-> conf, tokens |-> LegacyTokens(old), legacy |-> Nobody]
    BY <1>2
  <2> HIDE DEF conf
  <2>6. Good(conf, EmptyTokens, {}, {})
    BY NothingIsGood
  <2>7. Good(conf, LegacyTokens(old), {}, {})
    BY <2>2, <2>3, <2>4, <2>6, EmptyTypes, GoodWithOne
  <2> QED
    BY <2>2, <2>4, <2>5, <2>7 DEF FilesLoad, Legacies
<1>3. CASE files = [config |-> NoFile, tokens |-> [EmptyTokens EXCEPT !.version = 0], legacy |-> Nobody]
  BY <1>1, <1>3 DEF Legacies
<1>4. CASE \E a \in Aliases, t \in Tokens :
             LET old == [alias |-> a, token |-> t] IN
             files = [config |-> [LegacyConfig(old) EXCEPT !.ids[<<DefaultRemote, a>>] = Issued[t].account],
                      tokens |-> LegacyTokens(old), legacy |-> Nobody]
  BY <1>2, <1>4
<1>5. CASE \E a \in Aliases, t \in Tokens :
             files = [config |-> NoFile, tokens |-> [EmptyTokens EXCEPT !.version = 1],
                      legacy |-> [alias |-> a, token |-> t]]
  <2>1. PICK a \in Aliases, t \in Tokens :
          files = [config |-> NoFile, tokens |-> [EmptyTokens EXCEPT !.version = 1],
                   legacy |-> [alias |-> a, token |-> t]]
    BY <1>5
  <2>2. [alias |-> a, token |-> t] \in Legacies
    BY DEF Legacies
  <2>3. [alias |-> a, token |-> t] # Nobody
    BY CliAssumption
  <2> QED
    BY <1>1, <2>1, <2>2, <2>3
<1> QED
  BY <1>3, <1>4, <1>5 DEF CliInit

LEMMA BeginsCli == CliInit => CliInv
<1> SUFFICES ASSUME CliInit PROVE CliInv
  OBVIOUS
<1>1. client \in [Clients -> ClientRecords] /\ \A p \in Clients : client[p] = Off
  BY OffTypes DEF CliInit
<1>2. sent = {} /\ amiss \in AmissTypes /\ amiss.unverified = {} /\ amiss.moved = {}
  BY DEF CliInit, AmissTypes
<1>3. cliRuns \in [commands : 0..MaxCliCommands, kills : 0..MaxCliKills]
  BY CliAssumption DEF CliInit
<1>4. CliShape
  BY <1>1, <1>2, <1>3, BeginsWellFiled DEF CliShape, AmissTypes
<1>5. Trusted
  BY <1>1, <1>2, BeginsWellFiled, OffKept DEF Trusted, SentHome
<1> QED
  BY <1>1, <1>4, <1>5, BeginsWellFiled, OffKept DEF CliInv

LEMMA CliStays == CliInv /\ [CliNext]_cliVars => CliInv'
<1> SUFFICES ASSUME CliInv, [CliNext]_cliVars PROVE CliInv'
  OBVIOUS
<1>1. CASE CliNext
  <2>1. PICK p \in Clients :
          \/ CliCommands(p) \/ Load(p) \/ Add(p) \/ Set(p) \/ Use(p) \/ Look(p) \/ Verify(p) \/ Save(p)
          \/ WriteConfigFile(p) \/ WriteTokens(p) \/ Send(p) \/ KillClient(p)
    BY <1>1 DEF CliNext
  <2> QED
    BY <2>1, CommandsKeep, LoadKeeps, AddKeeps, SetKeeps, UseKeeps, LookKeeps, VerifyKeeps, SaveKeeps,
       WriteConfigKeeps, WriteTokensKeeps, SendKeeps, KillKeeps
<1>2. CASE UNCHANGED cliVars
  BY <1>2 DEF cliVars, CliInv, CliShape, Trusted, SentHome, FilesLoad, On
<1> QED
  BY <1>1, <1>2

(* Every variable of the command line client has its type.                  *)
THEOREM CliTypeCorrect == CliSpec => []CliTypeOK
<1>1. CliInv => CliTypeOK
  <2> SUFFICES ASSUME CliInv PROVE CliTypeOK
    OBVIOUS
  <2>1. \A p \in Clients : client[p].config \in ConfigFile /\ client[p].tokens \in TokenFile
    BY DEF CliInv, CliShape, ClientRecords
  <2> QED
    BY <2>1 DEF CliInv, CliShape, CliTypeOK
<1> QED
  BY <1>1, BeginsCli, CliStays, PTL DEF CliSpec

(* However commands run and wherever they are killed, as long as no two of  *)
(* them overlapped: the tokens stored under a verified alias are all of its *)
(* account, a token goes to the server that issued it unless its address    *)
(* was changed or it was saved without verification, and the two files are  *)
(* of one version unless a conversion was cut.                              *)
THEOREM CredentialsStayWhereVerified == CliSpec => []CredentialsFit
<1>1. CliInv => CredentialsFit
  <2> SUFFICES ASSUME CliInv, ~amiss.raced PROVE AliasIsOneAccount /\ SentHome /\ FilesLoad
    BY DEF CredentialsFit
  <2>1. Trusted
    BY DEF CliInv
  <2>2. AliasIsOneAccount
    BY <2>1 DEF Trusted, Good, AliasIsOneAccount
  <2> QED
    BY <2>1, <2>2 DEF Trusted
<1> QED
  BY <1>1, BeginsCli, CliStays, PTL DEF CliSpec

-----------------------------------------------------------------------------
(* Searches: types.                                                         *)

LEMMA NoSearchTyped ==
  ASSUME NEW w \in Workers, NEW p \in Spaces
  PROVE  NoSearch(w, p) \in SearchStates
  BY DEF NoSearch, SearchStates, Over, Underway, JobStatuses

LEMMA SearchTyped ==
  ASSUME SearchTypeOK, NEW s \in Searches
  PROVE  /\ search[s] \in SearchStates
         /\ search[s].at \in Over \cup Underway /\ search[s].on \in Workers
         /\ search[s].job \in JobStatuses /\ search[s].space \in Spaces
         /\ search[s].scope \subseteq Files /\ search[s].allowed \subseteq Files
         /\ search[s].size \in Nat /\ search[s].query \in Models \cup {NoModel}
         /\ search[s].rows \subseteq ChunkRows /\ search[s].todo \subseteq ChunkRows
         /\ search[s].context \subseteq ChunkRows \X ChunkRows
         /\ search[s].scored \subseteq Scores /\ search[s].calm \in BOOLEAN
         /\ loaded[search[s].on] \in Models /\ loaded[Executor] \in Models
  BY DEF SearchTypeOK, SearchStates, Processes

(* A step that changes one search, or what is left of the bounds.           *)
LEMMA NowTyped ==
  ASSUME SearchTypeOK, NEW s \in Searches, NEW q \in SearchStates, Now(s, q)
  PROVE  search' \in [Searches -> SearchStates]
  BY DEF SearchTypeOK, Now

LEMMA AffordTyped ==
  ASSUME SearchTypeOK, NEW kind \in Kinds, Afford(kind)
  PROVE  spare' \in [Kinds -> Nat]
  BY DEF SearchTypeOK, Afford

LEMMA JobNowTyped ==
  ASSUME NEW job \in JobStatuses, NEW status \in JobStatuses
  PROVE  JobNow(job, status) \in JobStatuses
  BY DEF JobNow

LEMMA LeftTyped ==
  ASSUME SearchTypeOK, NEW s \in Searches, NEW at \in Over, NEW status \in JobStatuses
  PROVE  Left(search[s], at, status) \in SearchStates
<1>1. NoSearch(search[s].on, search[s].space) \in SearchStates
  BY SearchTyped, NoSearchTyped
<1>2. JobNow(search[s].job, status) \in JobStatuses
  BY SearchTyped, JobNowTyped
<1>. QED  BY <1>1, <1>2 DEF Left, SearchStates

(* Rows.                                                                    *)
LEMMA RowTyped ==
  ASSUME SearchTypeOK, NEW f \in Files, NEW i \in Indices
  PROVE  Row(f, i) \in ChunkRows
  BY DEF SearchTypeOK, IndexStates, Row, ChunkRows

LEMMA FindableTyped ==
  ASSUME SearchTypeOK, NEW s \in Searches, NEW q, q.scope = search[s].scope
  PROVE  Findable(q) \subseteq ChunkRows
<1>1. ASSUME NEW x \in Findable(q) PROVE x \in ChunkRows
  <2>0. PICK f \in q.scope : x \in {Row(f, i) : i \in index[f].embedded}
    BY <1>1 DEF Findable
  <2>1. PICK i \in index[f].embedded : x = Row(f, i)
    BY <2>0
  <2>2. f \in Files /\ i \in Indices
    BY <2>0, <2>1, SearchTyped DEF SearchTypeOK, IndexStates
  <2>. QED  BY <2>1, <2>2, RowTyped
<1>. QED  BY <1>1

LEMMA WindowTyped ==
  ASSUME SearchTypeOK, NEW E \in SUBSET ChunkRows
  PROVE  WindowRows(E) \subseteq ChunkRows
<1>1. ASSUME NEW x \in WindowRows(E) PROVE x \in ChunkRows
  <2>1. PICK f \in FilesOf(E) : x \in RowsOf(f)
    BY <1>1 DEF WindowRows
  <2>2. PICK i \in index[f].chunks : x = Row(f, i)
    BY <2>1 DEF RowsOf
  <2>3. f \in Files
    BY <2>1 DEF FilesOf, ChunkRows
  <2>4. i \in Indices
    BY <2>2, <2>3 DEF SearchTypeOK, IndexStates
  <2>. QED  BY <2>2, <2>3, <2>4, RowTyped
<1>. QED  BY <1>1

LEMMA FramedTyped ==
  ASSUME NEW E \in SUBSET ChunkRows, NEW read \in SUBSET ChunkRows
  PROVE  Framed(E, read) \subseteq ChunkRows \X ChunkRows
  BY DEF Framed, TextOf

LEMMA SearchTypesStart == SearchInit => SearchTypeOK
<1> SUFFICES ASSUME SearchInit PROVE SearchTypeOK
  OBVIOUS
<1> DEFINE w == CHOOSE w \in Workers : TRUE
           p == CHOOSE p \in Spaces : TRUE
<1>1. w \in Workers /\ p \in Spaces
  BY SearchAssumption
<1>2. NoSearch(w, p) \in SearchStates
  BY <1>1, NoSearchTyped
<1>3. search \in [Searches -> SearchStates]
  BY <1>2 DEF SearchInit
<1>4. index \in [Files -> IndexStates]
  BY SearchAssumption DEF SearchInit, IndexStates
<1>5. segments \subseteq Segments
  <2>1. ASSUME NEW g \in [file : Files, at : Indices, model : {FirstModel}, late : {FALSE}]
        PROVE  g \in Segments
    BY SearchAssumption DEF Segments
  <2>. QED  BY <2>1 DEF SearchInit
<1>6. change \in [at : {"none", "blanked", "embedding", "installed", "kept"}, to : Models]
  BY SearchAssumption DEF SearchInit
<1>7. above \in [Files -> SUBSET Folders] /\ trash \subseteq Nodes /\ active \in Models
      /\ loaded \in [Processes -> Models] /\ spare \in [Kinds -> Nat]
  BY SearchAssumption DEF SearchInit
<1>. QED  BY <1>3, <1>4, <1>5, <1>6, <1>7 DEF SearchTypeOK

LEMMA SearchingTypes ==
  ASSUME SearchTypeOK, NEW s \in Searches, Searching(s)
  PROVE  SearchTypeOK'
<1> DEFINE q == search[s]
           Rest == /\ above \in [Files -> SUBSET Folders] /\ trash \subseteq Nodes
                   /\ index \in [Files -> IndexStates]
                   /\ active \in Models /\ loaded \in [Processes -> Models]
                   /\ change \in [at : {"none", "blanked", "embedding", "installed", "kept"}, to : Models]
<1>0. Rest' /\ segments \subseteq Segments /\ spare \in [Kinds -> Nat]
  BY DEF SearchTypeOK, Searching, AskSearch, StartSearch, EmbedQuery, QueryNotEmbedded, ReadRows,
         RowsUnreadable, LoadContexts, ReuseSegments, EmbedSegments, LeaveWhole, AnswerSearch,
         shelfVars, runtimeVars
<1>a. ASSUME NEW z \in SearchStates, Now(s, z), UNCHANGED <<segments, spare>> PROVE SearchTypeOK'
  <2>1. search' \in [Searches -> SearchStates]
    BY <1>a, NowTyped
  <2>. QED  BY <1>0, <1>a, <2>1 DEF SearchTypeOK
<1>1. ASSUME AskSearch(s) PROVE SearchTypeOK'
  <2>1. PICK w \in Workers, p \in Spaces, o \in Origins, N \in SUBSET Nodes, k \in Sizes :
          Now(s, [NoSearch(w, p) EXCEPT
                    !.at = "asked", !.job = IF o = "answer" THEN "PENDING" ELSE "none", !.size = k,
                    !.scope = ScopeOf(Expanded(N, p)),
                    !.allowed = IF N = {} THEN Files
                                ELSE Files \cap (N \cup {f \in Files : above[f] \cap N # {}})])
    BY <1>1 DEF AskSearch
  <2> DEFINE z == [NoSearch(w, p) EXCEPT
                    !.at = "asked", !.job = IF o = "answer" THEN "PENDING" ELSE "none", !.size = k,
                    !.scope = ScopeOf(Expanded(N, p)),
                    !.allowed = IF N = {} THEN Files
                                ELSE Files \cap (N \cup {f \in Files : above[f] \cap N # {}})]
  <2>2. ScopeOf(Expanded(N, p)) \subseteq Files
    BY DEF ScopeOf
  <2>3. k \in Nat
    BY SearchAssumption
  <2>4. NoSearch(w, p) \in SearchStates
    BY NoSearchTyped
  <2>5. z \in SearchStates
    BY <2>2, <2>3, <2>4, ZenonT(60) DEF SearchStates, Underway, JobStatuses
  <2>6. search' \in [Searches -> SearchStates]
    BY <2>1, <2>5, NowTyped
  <2>7. spare' \in [Kinds -> Nat] /\ segments' = segments
    BY <1>1, AffordTyped DEF AskSearch, Kinds
  <2>. QED  BY <1>0, <2>6, <2>7 DEF SearchTypeOK
<1>2. ASSUME StartSearch(s) PROVE SearchTypeOK'
  <2> DEFINE y == [q EXCEPT !.model = loaded[q.on], !.calm = Calm(q.on), !.job = JobNow(q.job, "PROCESSING")]
             z == [y EXCEPT !.at = IF Findable(y) = {} THEN "framed" ELSE "looking"]
  <2>1. Now(s, z) /\ UNCHANGED <<segments, spare>>
    BY <1>2 DEF StartSearch
  <2>2. JobNow(q.job, "PROCESSING") \in JobStatuses
    BY SearchTyped, JobNowTyped DEF JobStatuses
  <2>3. Calm(q.on) \in BOOLEAN
    BY DEF Calm
  <2>4. y \in SearchStates
    BY <2>2, <2>3, SearchTyped, ZenonT(60) DEF SearchStates
  <2>5. z \in SearchStates
    BY <2>4 DEF SearchStates, Underway
  <2>. QED  BY <2>1, <2>5, <1>a
<1>3. ASSUME EmbedQuery(s) PROVE SearchTypeOK'
  <2>1. [q EXCEPT !.at = "embedded", !.query = loaded[Executor]] \in SearchStates
    BY SearchTyped, ZenonT(60) DEF SearchStates, Underway
  <2>. QED  BY <1>3, <2>1, <1>a DEF EmbedQuery
<1>4. ASSUME QueryNotEmbedded(s) \/ RowsUnreadable(s) PROVE SearchTypeOK'
  <2>1. PICK at \in {"busy", "failed"} : Now(s, Left(q, at, "FAILED"))
    BY <1>4 DEF QueryNotEmbedded, RowsUnreadable, Ends
  <2>2. Left(q, at, "FAILED") \in SearchStates
    BY LeftTyped DEF Over, JobStatuses
  <2>. QED  BY <1>4, <2>1, <2>2, <1>a DEF QueryNotEmbedded, RowsUnreadable
<1>5. ASSUME ReadRows(s) PROVE SearchTypeOK'
  <2>1. PICK K \in SUBSET Findable(q) : \E E \in SUBSET K : Now(s, [q EXCEPT !.at = "read", !.rows = E])
    BY <1>5 DEF ReadRows
  <2>2. PICK E \in SUBSET K : Now(s, [q EXCEPT !.at = "read", !.rows = E])
    BY <2>1
  <2>3. E \subseteq ChunkRows
    BY <2>1, <2>2, FindableTyped
  <2>4. [q EXCEPT !.at = "read", !.rows = E] \in SearchStates
    BY <2>3, SearchTyped, ZenonT(60) DEF SearchStates, Underway
  <2>. QED  BY <1>5, <2>2, <2>4, <1>a DEF ReadRows
<1>6. ASSUME LoadContexts(s) PROVE SearchTypeOK'
  <2> DEFINE c == Framed(q.rows, WindowRows(q.rows))
  <2>1. PICK todo \in {{}, q.rows} : Now(s, [q EXCEPT !.at = "framed", !.todo = todo, !.context = c])
    BY <1>6 DEF LoadContexts
  <2>2. c \subseteq ChunkRows \X ChunkRows /\ todo \subseteq ChunkRows
    BY SearchTyped, WindowTyped, FramedTyped
  <2> HIDE DEF c
  <2>3. [q EXCEPT !.at = "framed", !.todo = todo, !.context = c] \in SearchStates
    BY <2>2, SearchTyped, ZenonT(60) DEF SearchStates, Underway
  <2>. QED  BY <1>6, <2>1, <2>3, <1>a DEF LoadContexts
<1>b. ASSUME NEW r \in q.todo, NEW g \in Models, NEW late \in BOOLEAN
      PROVE  [q EXCEPT !.todo = q.todo \ {r}, !.scored = q.scored \cup {[row |-> r, model |-> g, late |-> late]}]
               \in SearchStates
  <2>1. [row |-> r, model |-> g, late |-> late] \in Scores
    BY <1>b, SearchTyped DEF Scores
  <2> DEFINE T == q.todo \ {r}
             S == q.scored \cup {[row |-> r, model |-> g, late |-> late]}
  <2>2. T \subseteq ChunkRows /\ S \subseteq Scores
    BY <2>1, SearchTyped
  <2> HIDE DEF T, S
  <2>3. [q EXCEPT !.todo = T, !.scored = S] \in SearchStates
    BY <2>2, SearchTyped, ZenonT(60) DEF SearchStates
  <2>. QED  BY <2>3 DEF T, S
<1>7. ASSUME ReuseSegments(s) PROVE SearchTypeOK'
  <2>1. PICK r \in q.todo, g \in segments : Scored(s, r, g.model, g.late)
    BY <1>7 DEF ReuseSegments
  <2>2. g.model \in Models /\ g.late \in BOOLEAN
    BY <2>1 DEF SearchTypeOK, Segments
  <2>. QED  BY <1>7, <2>1, <2>2, <1>a, <1>b DEF ReuseSegments, Scored
<1>8. ASSUME EmbedSegments(s) PROVE SearchTypeOK'
  <2>1. PICK r \in q.todo :
          /\ segments' = segments \cup {[file |-> r.file, at |-> r.at, model |-> loaded[Executor],
                                         late |-> ~q.calm]}
          /\ Scored(s, r, loaded[Executor], ~q.calm)
    BY <1>8 DEF EmbedSegments
  <2>2. loaded[Executor] \in Models /\ (~q.calm) \in BOOLEAN /\ r \in ChunkRows
    BY <2>1, SearchTyped
  <2>3. segments' \subseteq Segments
    <3>1. r.file \in Files /\ r.at \in Indices
      BY <2>2 DEF ChunkRows
    <3>2. [file |-> r.file, at |-> r.at, model |-> loaded[Executor], late |-> ~q.calm] \in Segments
      BY <2>2, <3>1 DEF Segments
    <3>. QED  BY <1>0, <2>1, <3>2
  <2>4. search' \in [Searches -> SearchStates]
    BY <2>1, <2>2, <1>b, NowTyped DEF Scored
  <2>. QED  BY <1>0, <1>8, <2>3, <2>4 DEF SearchTypeOK, EmbedSegments
<1>9. ASSUME LeaveWhole(s) PROVE SearchTypeOK'
  <2>1. PICK r \in q.todo : Now(s, [q EXCEPT !.todo = q.todo \ {r}])
    BY <1>9 DEF LeaveWhole
  <2> DEFINE T == q.todo \ {r}
  <2>2. T \subseteq ChunkRows
    BY SearchTyped
  <2> HIDE DEF T
  <2>3. [q EXCEPT !.todo = T] \in SearchStates
    BY <2>2, SearchTyped DEF SearchStates
  <2>. QED  BY <1>9, <2>1, <2>3, <1>a DEF LeaveWhole, T
<1>10. ASSUME AnswerSearch(s) PROVE SearchTypeOK'
  <2>1. PICK A \in SUBSET FilesOf(q.rows) :
          Now(s, [q EXCEPT !.at = "answered", !.answer = A, !.job = JobNow(q.job, "COMPLETED")])
    BY <1>10 DEF AnswerSearch
  <2>2. A \subseteq Files
    BY <2>1, SearchTyped DEF FilesOf, ChunkRows
  <2>3. JobNow(q.job, "COMPLETED") \in JobStatuses
    BY SearchTyped, JobNowTyped DEF JobStatuses
  <2>4. [q EXCEPT !.at = "answered", !.answer = A, !.job = JobNow(q.job, "COMPLETED")] \in SearchStates
    BY <2>2, <2>3, SearchTyped, ZenonT(60) DEF SearchStates, Over
  <2>. QED  BY <1>10, <2>1, <2>4, <1>a DEF AnswerSearch
<1>. QED  BY <1>1, <1>2, <1>3, <1>4, <1>5, <1>6, <1>7, <1>8, <1>9, <1>10 DEF Searching

LEMMA MeanwhileTypes ==
  ASSUME SearchTypeOK, SearchNext, ~ \E s \in Searches : Searching(s)
  PROVE  SearchTypeOK'
<1> DEFINE Changes == [at : {"none", "blanked", "embedding", "installed", "kept"}, to : Models]
<1>0. /\ above \in [Files -> SUBSET Folders] /\ trash \subseteq Nodes
      /\ index \in [Files -> IndexStates] /\ segments \subseteq Segments
      /\ active \in Models /\ loaded \in [Processes -> Models]
      /\ change \in Changes /\ change.to \in Models
      /\ search \in [Searches -> SearchStates] /\ spare \in [Kinds -> Nat]
  BY DEF SearchTypeOK
<1>a. ASSUME Afford("others") PROVE spare' \in [Kinds -> Nat]
  BY <1>a, AffordTyped DEF Kinds
<1>b. Disturbed \in [Searches -> SearchStates]
  <2>1. ASSUME NEW s \in Searches PROVE [search[s] EXCEPT !.calm = FALSE] \in SearchStates
    <3>1. search[s] \in SearchStates
      BY <1>0
    <3>. QED  BY <3>1 DEF SearchStates
  <2>. QED  BY <2>1 DEF Disturbed
<1>c. ASSUME NEW T \in SUBSET Files, NEW m \in Models \cup {NoModel}, MarkedAs(T, m)
      PROVE  index' \in [Files -> IndexStates]
  <2>1. ASSUME NEW f \in Files PROVE [index[f] EXCEPT !.marker = m] \in IndexStates
    BY <1>0 DEF IndexStates
  <2>. QED  BY <1>0, <1>c, <2>1 DEF MarkedAs
<1>d. ASSUME NEW T \in SUBSET Files, Embedded(T) PROVE index' \in [Files -> IndexStates]
  <2>1. ASSUME NEW f \in Files PROVE [index[f] EXCEPT !.embedded = index[f].chunks] \in IndexStates
    BY <1>0 DEF IndexStates
  <2>. QED  BY <1>0, <1>d, <2>1 DEF Embedded
<1>1. ASSUME NEW f \in Files, MoveFile(f) PROVE SearchTypeOK'
  <2>1. above' \in [Files -> SUBSET Folders]
    BY <1>0, <1>1 DEF MoveFile
  <2>. QED  BY <1>0, <1>1, <1>a, <2>1 DEF MoveFile, SearchTypeOK, runtimeVars
<1>2. ASSUME NEW n \in Nodes, TrashOrRestore(n) PROVE SearchTypeOK'
  <2>1. trash' \subseteq Nodes
    BY <1>0, <1>2 DEF TrashOrRestore
  <2>. QED  BY <1>0, <1>2, <1>a, <2>1 DEF TrashOrRestore, SearchTypeOK, runtimeVars
<1>3. ASSUME NEW f \in Files, Reparse(f) PROVE SearchTypeOK'
  <2>1. PICK C \in SUBSET Indices :
          index' = [index EXCEPT ![f].version = index[f].version + 1, ![f].chunks = C, ![f].embedded = {}]
    BY <1>3 DEF Reparse
  <2>2. [index[f] EXCEPT !.version = index[f].version + 1, !.chunks = C, !.embedded = {}] \in IndexStates
    <3>1. index[f] \in IndexStates /\ index[f].version + 1 \in Nat
      BY <1>0 DEF IndexStates
    <3>. QED  BY <3>1 DEF IndexStates
  <2>3. index' \in [Files -> IndexStates]
    BY <1>0, <2>1, <2>2
  <2>4. segments' \subseteq Segments
    BY <1>0, <1>3 DEF Reparse
  <2>. QED  BY <1>0, <1>3, <1>a, <2>3, <2>4 DEF Reparse, SearchTypeOK, shelfVars, runtimeVars
<1>4. ASSUME NEW f \in Files, StoreVectors(f) PROVE SearchTypeOK'
  <2>1. PICK I \in SUBSET (index[f].chunks \ index[f].embedded) :
          index' = [index EXCEPT ![f].embedded = index[f].embedded \cup I,
                                 ![f].marker = IF index[f].chunks \subseteq index[f].embedded \cup I
                                               THEN loaded[Executor] ELSE index[f].marker]
    BY <1>4 DEF StoreVectors
  <2>2. index[f].chunks \subseteq Indices /\ index[f].embedded \subseteq Indices
        /\ index[f].marker \in Models \cup {NoModel} /\ loaded[Executor] \in Models
    BY <1>0 DEF IndexStates, Processes
  <2>3. [index[f] EXCEPT !.embedded = index[f].embedded \cup I,
                         !.marker = IF index[f].chunks \subseteq index[f].embedded \cup I
                                    THEN loaded[Executor] ELSE index[f].marker] \in IndexStates
    BY <1>0, <2>2 DEF IndexStates
  <2>4. index' \in [Files -> IndexStates]
    BY <1>0, <2>1, <2>3
  <2>. QED  BY <1>0, <1>4, <1>a, <2>4 DEF StoreVectors, SearchTypeOK, shelfVars, runtimeVars
<1>5. ASSUME NEW f \in Files, ForgetVectors(f) PROVE SearchTypeOK'
  <2>1. PICK I \in {{}, index[f].embedded} :
          index' = [index EXCEPT ![f].embedded = I, ![f].marker = NoModel]
    BY <1>5 DEF ForgetVectors
  <2>2. [index[f] EXCEPT !.embedded = I, !.marker = NoModel] \in IndexStates
    BY <1>0, ZenonT(60) DEF IndexStates
  <2>3. index' \in [Files -> IndexStates]
    BY <1>0, <2>1, <2>2
  <2>. QED  BY <1>0, <1>5, <1>a, <2>3 DEF ForgetVectors, SearchTypeOK, shelfVars, runtimeVars
<1>6. ASSUME PurgeSegments PROVE SearchTypeOK'
  BY <1>0, <1>6, <1>a DEF PurgeSegments, SearchTypeOK, shelfVars, runtimeVars
<1>7. ASSUME NEW P \in SUBSET Processes, Restart(P) PROVE SearchTypeOK'
  <2>1. loaded' \in [Processes -> Models]
    BY <1>0, <1>7 DEF Restart
  <2>2. ASSUME NEW s \in Searches
        PROVE  Left(search[s], "lost", search[s].job) \in SearchStates /\ Disturbed[s] \in SearchStates
    BY <1>b, LeftTyped, SearchTyped DEF Over
  <2>3. search' \in [Searches -> SearchStates]
    BY <1>7, <2>2 DEF Restart
  <2>. QED  BY <1>0, <1>7, <1>a, <2>1, <2>3 DEF Restart, SearchTypeOK, shelfVars
<1>8. ASSUME NEW m \in Models, BlankMarkers(m) PROVE SearchTypeOK'
  <2>1. index' \in [Files -> IndexStates]
    BY <1>8, <1>c DEF BlankMarkers
  <2>2. change' \in Changes
    BY <1>8 DEF BlankMarkers
  <2>. QED  BY <1>0, <1>8, <1>a, <1>b, <2>1, <2>2 DEF BlankMarkers, SearchTypeOK, shelfVars
<1>9. ASSUME DropSegments \/ StopChange PROVE SearchTypeOK'
  <2>1. change' \in Changes
    BY <1>0, <1>9 DEF DropSegments, StopChange
  <2>. QED  BY <1>0, <1>9, <2>1 DEF DropSegments, StopChange, SearchTypeOK, shelfVars
<1>10. ASSUME InstallRuntime PROVE SearchTypeOK'
  <2>1. change' \in Changes
    BY <1>0, <1>10 DEF InstallRuntime
  <2>2. index' \in [Files -> IndexStates]
    BY <1>10, <1>d DEF InstallRuntime
  <2>. QED  BY <1>0, <1>10, <2>1, <2>2 DEF InstallRuntime, SearchTypeOK, shelfVars
<1>11. ASSUME MarkFiles \/ ForgetMarkers PROVE SearchTypeOK'
  <2>1. change' \in Changes
    BY <1>0, <1>11 DEF MarkFiles, ForgetMarkers
  <2>2. index' \in [Files -> IndexStates]
    BY <1>0, <1>11, <1>c DEF MarkFiles, ForgetMarkers
  <2>. QED  BY <1>0, <1>11, <2>1, <2>2 DEF MarkFiles, ForgetMarkers, SearchTypeOK, shelfVars
<1>12. ASSUME NEW m \in Models, InstallAlone(m) PROVE SearchTypeOK'
  <2>1. change' \in Changes
    BY <1>12 DEF InstallAlone
  <2>2. ASSUME NEW g \in segments PROVE [g EXCEPT !.late = TRUE] \in Segments
    BY <1>0 DEF Segments
  <2>3. segments' \subseteq Segments
    BY <1>12, <2>2 DEF InstallAlone
  <2>. QED  BY <1>0, <1>12, <1>a, <1>b, <2>1, <2>3 DEF InstallAlone, SearchTypeOK, shelfVars
<1>. QED
  BY <1>1, <1>2, <1>3, <1>4, <1>5, <1>6, <1>7, <1>8, <1>9, <1>10, <1>11, <1>12 DEF SearchNext, Changing

(* Rows, segments, runtimes and searches keep their types, whatever is      *)
(* changed beside a search and however often.                               *)
THEOREM SearchTypeCorrect == SearchSpec => []SearchTypeOK
<1>1. SearchTypeOK /\ [SearchNext]_searchVars => SearchTypeOK'
  <2>1. ASSUME SearchTypeOK, UNCHANGED searchVars PROVE SearchTypeOK'
    BY <2>1 DEF SearchTypeOK, searchVars, shelfVars, runtimeVars
  <2>. QED  BY <2>1, SearchingTypes, MeanwhileTypes
<1>. QED  BY <1>1, SearchTypesStart, PTL DEF SearchSpec

-----------------------------------------------------------------------------
(* Searches: what they are answered with.                                   *)

(* A row a search keeps is in the table as long as its parse is the last.   *)
InTable(r) ==
  /\ r.version <= index[r.file].version
  /\ r.version = index[r.file].version => r.at \in index[r.file].chunks

(* A search that is still calm runs with one model, and so did its query.   *)
CalmlyRun(q) ==
  /\ Calm(q.on)
  /\ q.at = "embedded" \/ q.rows # {} => q.query = active
  /\ \A x \in q.scored : x.late \/ x.model = active

(* The evidence a search holds is of its scope and workspace, and all that  *)
(* is compressed or scored is evidence.                                     *)
RowsKept(q) ==
  /\ \A r \in q.rows : r.file \in q.scope /\ SpaceOf[r.file] = q.space /\ InTable(r)
  /\ q.todo \subseteq q.rows /\ \A x \in q.scored : x.row \in q.rows

(* All a search holds, at each of its steps: it read nothing before it      *)
(* embedded its query, and nothing beyond its scope after that.             *)
AsAsked(q) ==
  /\ q.scope \subseteq q.allowed
  /\ q.at \in {"asked", "looking", "embedded"} => q.rows = {}
  /\ RowsKept(q)
  /\ q.at \in {"framed", "answered"} => ContextsInPlace(q)
  /\ q.at = "answered" => q.answer \subseteq FilesOf(q.rows)
  /\ q.calm => CalmlyRun(q)

(* Segments are of the active model, unless a search or --skip-reembed left *)
(* them late; a change goes on without any.                                 *)
SegmentsFit ==
  \A g \in segments : g.late \/ (g.model = active /\ change.at \notin {"embedding", "installed"})

(* The inductive invariant: segments, vectors only of chunks there are, and *)
(* what each search holds.                                                  *)
SearchInv ==
  /\ SegmentsFit
  /\ \A f \in Files : index[f].embedded \subseteq index[f].chunks
  /\ \A s \in Searches : AsAsked(search[s])

(* A file is parsed again, or its chunks stay.                              *)
IndexGrows ==
  \A f \in Files : \/ index[f].version < index'[f].version
                   \/ index'[f].version = index[f].version /\ index'[f].chunks = index[f].chunks

(* What a search has read stands, or its file has been parsed again.        *)
LEMMA FitsStay ==
  ASSUME SearchTypeOK, SearchTypeOK', IndexGrows, NEW q, q.rows \subseteq ChunkRows, AsAsked(q),
         q.calm => UNCHANGED <<active, loaded, change>>
  PROVE  AsAsked(q)'
<1>1. ASSUME NEW r \in q.rows
      PROVE  /\ r.file \in Files /\ r.version \in Nat
             /\ index[r.file].version \in Nat /\ index'[r.file].version \in Nat
             /\ r.version <= index[r.file].version /\ r.version <= index'[r.file].version
             /\ r.version = index'[r.file].version =>
                  /\ r.version = index[r.file].version
                  /\ index'[r.file].version = index[r.file].version
                  /\ index'[r.file].chunks = index[r.file].chunks
  <2>1. r.file \in Files /\ r.version \in Nat
    BY <1>1 DEF ChunkRows
  <2>2. index[r.file].version \in Nat /\ index'[r.file].version \in Nat
    BY <2>1 DEF SearchTypeOK, IndexStates
  <2>3. r.version <= index[r.file].version
    BY <1>1 DEF AsAsked, RowsKept, InTable
  <2>. QED  BY <2>1, <2>2, <2>3 DEF IndexGrows
<1>2. RowsKept(q)'
  <2>1. ASSUME NEW r \in q.rows PROVE InTable(r)'
    BY <1>1 DEF AsAsked, RowsKept, InTable
  <2>. QED  BY <2>1 DEF AsAsked, RowsKept
<1>3. ASSUME q.at \in {"framed", "answered"} PROVE ContextsInPlace(q)'
  <2>1. ASSUME NEW r \in q.rows, r.version = index'[r.file].version
        PROVE  {p[2] : p \in {c \in q.context : c[1] = r}}
                 = {[file |-> r.file, version |-> index'[r.file].version, at |-> j] :
                      j \in Around(r.at) \cap index'[r.file].chunks}
    BY <1>1, <1>3, <2>1 DEF AsAsked, ContextsInPlace, Row
  <2>. QED  BY <2>1 DEF ContextsInPlace, Row, Around
<1>4. q.calm => CalmlyRun(q)'
  BY DEF AsAsked, CalmlyRun, Calm
<1>. QED  BY <1>2, <1>3, <1>4 DEF AsAsked, FilesOf

LEMMA IndexStands ==
  ASSUME index' = index
  PROVE  IndexGrows
  BY DEF IndexGrows

(* A step of a search s that becomes q.                                     *)
LEMMA NowFits ==
  ASSUME SearchTypeOK, SearchTypeOK', SearchInv, NEW s \in Searches, NEW q, Now(s, q),
         UNCHANGED <<index, active, loaded, change>>, q.rows \subseteq ChunkRows, AsAsked(q)
  PROVE  \A u \in Searches : AsAsked(search[u])'
<1>1. ASSUME NEW z, z.rows \subseteq ChunkRows, AsAsked(z) PROVE AsAsked(z)'
  BY <1>1, FitsStay, IndexStands
<1>2. ASSUME NEW u \in Searches, NEW z, search'[u] = z, AsAsked(z)' PROVE AsAsked(search[u])'
  BY <1>2 DEF AsAsked, RowsKept, InTable, ContextsInPlace, CalmlyRun, Calm, FilesOf, Row
<1>3. ASSUME NEW u \in Searches PROVE AsAsked(search[u])'
  <2>1. CASE u = s
    <3>1. search'[u] = q
      BY <2>1 DEF Now, SearchTypeOK
    <3>2. AsAsked(q)'
      BY <1>1
    <3>. QED  BY <3>1, <3>2, <1>2
  <2>2. CASE u # s
    <3> DEFINE z == search[u]
    <3>1. search'[u] = search[u]
      BY <2>2 DEF Now, SearchTypeOK
    <3>2. search[u].rows \subseteq ChunkRows /\ AsAsked(search[u])
      BY SearchTyped DEF SearchInv
    <3>3. PICK y : y = search[u]
      OBVIOUS
    <3>4. AsAsked(y)'
      BY <3>2, <3>3, <1>1
    <3>5. search'[u] = y
      BY <3>1, <3>3
    <3>. QED  BY <3>4, <3>5, <1>2
  <2>. QED  BY <2>1, <2>2
<1>. QED  BY <1>3

(* A request that names nodes is not widened.                               *)
LEMMA ScopeWithin ==
  ASSUME SearchTypeOK, NEW N \in SUBSET Nodes, NEW p \in Spaces
  PROVE  ScopeOf(Expanded(N, p))
           \subseteq IF N = {} THEN Files ELSE Files \cap (N \cup {f \in Files : above[f] \cap N # {}})
<1> DEFINE found == {n \in N \ trash : SpaceOf[n] = p}
           named == (found \cap Files) \cup {f \in Files \ trash : SpaceOf[f] = p /\ above[f] \cap found # {}}
<1>1. Expanded(N, p) = IF N = {} THEN {} ELSE IF named = {} THEN {EmptyScope} ELSE named
  BY DEF Expanded
<1>2. named \subseteq N \cup {f \in Files : above[f] \cap N # {}}
  OBVIOUS
<1>3. Files \cap {EmptyScope} = {}
  BY SearchAssumption DEF Nodes
<1> HIDE DEF named
<1>. QED  BY <1>1, <1>2, <1>3 DEF ScopeOf

(* What a search that has not begun, or has come to nothing, is like.       *)
LEMMA NothingFits ==
  ASSUME NEW q, q.scope \subseteq q.allowed, q.rows = {}, q.todo = {}, q.scored = {},
         q.at # "answered", q.calm = FALSE
  PROVE  AsAsked(q)
  BY DEF AsAsked, RowsKept, ContextsInPlace

LEMMA LeftFits ==
  ASSUME SearchTypeOK, NEW s \in Searches, NEW at \in Over \ {"answered"}, NEW status \in JobStatuses
  PROVE  /\ Left(search[s], at, status).rows \subseteq ChunkRows
         /\ AsAsked(Left(search[s], at, status))
<1>1. NoSearch(search[s].on, search[s].space) \in SearchStates
  BY SearchTyped, NoSearchTyped
<1> DEFINE z == Left(search[s], at, status)
<1>2. /\ z.at = at /\ z.scope = {} /\ z.allowed = {} /\ z.rows = {} /\ z.todo = {} /\ z.scored = {}
      /\ z.calm = FALSE
  BY DEF Left, NoSearch
<1> HIDE DEF z
<1>3. AsAsked(z)
  BY <1>2, NothingFits
<1>. QED  BY <1>2, <1>3 DEF z

(* The windows, read once for all evidence, and told apart again.           *)
LEMMA WindowsToldApart ==
  ASSUME SearchTypeOK, NEW E \in SUBSET ChunkRows, NEW r \in E, InTable(r),
         r.version = index[r.file].version
  PROVE  {p[2] : p \in {c \in Framed(E, WindowRows(E)) : c[1] = r}}
           = {Row(r.file, j) : j \in Around(r.at) \cap index[r.file].chunks}
<1> DEFINE read == WindowRows(E)
           own == IF TextOf(r, read) = {} THEN {r} ELSE TextOf(r, read)
           asked == {Row(r.file, j) : j \in Around(r.at) \cap index[r.file].chunks}
<1>1. r = Row(r.file, r.at) /\ r.file \in Files /\ r.at \in Indices /\ r.at \in Nat
  BY SearchAssumption DEF Row, ChunkRows
<1>2. Window \in Nat /\ r.at \in Around(r.at) /\ r.at \in index[r.file].chunks
  BY <1>1, SearchAssumption DEF Around, InTable
<1>3. {p[2] : p \in {c \in Framed(E, read) : c[1] = r}} = own
  <2>1. ASSUME NEW x \in own PROVE <<r, x>> \in Framed(E, read)
    BY <2>1 DEF Framed
  <2>2. ASSUME NEW c \in Framed(E, read), c[1] = r PROVE c[2] \in own
    BY <2>2 DEF Framed
  <2> HIDE DEF own
  <2>3. ASSUME NEW x \in own PROVE x \in {p[2] : p \in {c \in Framed(E, read) : c[1] = r}}
    <3>1. <<r, x>> \in {c \in Framed(E, read) : c[1] = r}
      BY <2>1
    <3>. QED  BY <3>1
  <2>. QED  BY <2>2, <2>3
<1>4. CASE Window = 0
  <2>1. own = {r}
    BY <1>4 DEF TextOf, WindowRows
  <2>2. Around(r.at) = {r.at}
    <3>1. r.at \in Indices /\ Indices \subseteq Nat
      BY <1>1, SearchAssumption DEF ChunkRows
    <3>2. ASSUME NEW j \in Indices PROVE (j <= r.at + Window /\ r.at <= j + Window) <=> j = r.at
      <4>1. j \in Nat /\ r.at \in Nat
        BY <3>1
      <4>. QED  BY ONLY <1>4, <4>1
    <3>. QED  BY <3>1, <3>2 DEF Around
  <2>. QED  BY <1>1, <1>2, <1>3, <2>1, <2>2
<1>5. CASE Window # 0
  <2>1. ASSUME NEW x \in TextOf(r, read) PROVE x \in asked
    <3>1. x \in read /\ x.file = r.file /\ x.at \in Around(r.at)
      BY <2>1 DEF TextOf
    <3>2. PICK f \in FilesOf(E) : x \in RowsOf(f)
      BY <3>1 DEF WindowRows
    <3>3. PICK j \in index[f].chunks : x = Row(f, j)
      BY <3>2 DEF RowsOf
    <3>4. f = r.file /\ j \in Around(r.at)
      BY <3>1, <3>3 DEF Row
    <3>. QED  BY <3>3, <3>4
  <2>2. ASSUME NEW j \in Around(r.at) \cap index[r.file].chunks PROVE Row(r.file, j) \in TextOf(r, read)
    <3>1. Row(r.file, j) \in RowsOf(r.file)
      BY <2>2 DEF RowsOf
    <3>2. Row(r.file, j).file = r.file /\ Row(r.file, j).at = j
      BY DEF Row
    <3>3. r.file \in FilesOf(E) /\ r \in OfFile(E, r.file)
      BY DEF FilesOf, OfFile
    <3>4. Row(r.file, j) \in {x \in RowsOf(r.file) : \E y \in OfFile(E, r.file) : x.at \in Around(y.at)}
      BY <2>2, <3>1, <3>2, <3>3
    <3>5. Row(r.file, j) \in read
      BY <1>5, <3>3, <3>4 DEF WindowRows
    <3>. QED  BY <2>2, <3>2, <3>5 DEF TextOf
  <2>3. TextOf(r, read) = asked
    BY <2>1, <2>2
  <2>4. r \in asked
    BY <1>1, <1>2
  <2>. QED  BY <1>3, <2>3, <2>4
<1>. QED  BY <1>4, <1>5

LEMMA SearchInvStart == SearchInit => SearchInv
<1> SUFFICES ASSUME SearchInit PROVE SearchInv
  OBVIOUS
<1>1. SegmentsFit
  <2>1. ASSUME NEW g \in segments PROVE g.model = active
    <3>1. segments = {} \/ segments = [file : Files, at : Indices, model : {FirstModel}, late : {FALSE}]
      BY DEF SearchInit
    <3>2. g \in [file : Files, at : Indices, model : {FirstModel}, late : {FALSE}]
      BY <2>1, <3>1
    <3>3. g.model = FirstModel
      BY <3>2
    <3>. QED  BY <3>3 DEF SearchInit
  <2>2. change.at = "none"
    BY DEF SearchInit
  <2>. QED  BY <2>1, <2>2 DEF SegmentsFit
<1>2. \A f \in Files : index[f].embedded \subseteq index[f].chunks
  BY DEF SearchInit
<1>3. ASSUME NEW s \in Searches PROVE AsAsked(search[s])
  <2> DEFINE z == NoSearch(CHOOSE w \in Workers : TRUE, CHOOSE p \in Spaces : TRUE)
  <2>1. /\ z.at = "none" /\ z.scope = {} /\ z.allowed = {} /\ z.rows = {} /\ z.todo = {} /\ z.scored = {}
        /\ z.calm = FALSE
    BY DEF NoSearch
  <2>2. search[s] = z
    BY DEF SearchInit
  <2> HIDE DEF z
  <2>3. AsAsked(z)
    BY <2>1, NothingFits
  <2>. QED  BY <2>2, <2>3
<1>. QED  BY <1>1, <1>2, <1>3 DEF SearchInv

LEMMA SearchingKeeps ==
  ASSUME SearchTypeOK, SearchTypeOK', SearchInv, NEW s \in Searches, Searching(s)
  PROVE  SearchInv'
<1> DEFINE q == search[s]
<1>0. /\ index' = index /\ UNCHANGED <<active, loaded, change>>
      /\ \A f \in Files : index'[f].embedded \subseteq index'[f].chunks
  BY DEF SearchInv, Searching, AskSearch, StartSearch, EmbedQuery, QueryNotEmbedded, ReadRows,
         RowsUnreadable, LoadContexts, ReuseSegments, EmbedSegments, LeaveWhole, AnswerSearch, runtimeVars
<1>q. q \in SearchStates /\ AsAsked(q) /\ q.rows \subseteq ChunkRows
  BY SearchTyped DEF SearchInv
<1>a. ASSUME NEW z, Now(s, z), z.rows \subseteq ChunkRows, AsAsked(z), SegmentsFit' PROVE SearchInv'
  BY <1>0, <1>a, NowFits DEF SearchInv
<1>b. ASSUME segments' = segments PROVE SegmentsFit'
  BY <1>0, <1>b DEF SearchInv, SegmentsFit
<1>1. ASSUME AskSearch(s) PROVE SearchInv'
  <2>1. PICK w \in Workers, p \in Spaces, o \in Origins, N \in SUBSET Nodes, k \in Sizes :
          Now(s, [NoSearch(w, p) EXCEPT
                    !.at = "asked", !.job = IF o = "answer" THEN "PENDING" ELSE "none", !.size = k,
                    !.scope = ScopeOf(Expanded(N, p)),
                    !.allowed = IF N = {} THEN Files
                                ELSE Files \cap (N \cup {f \in Files : above[f] \cap N # {}})])
    BY <1>1 DEF AskSearch
  <2> DEFINE scope == ScopeOf(Expanded(N, p))
             allowed == IF N = {} THEN Files ELSE Files \cap (N \cup {f \in Files : above[f] \cap N # {}})
             z == [NoSearch(w, p) EXCEPT
                    !.at = "asked", !.job = IF o = "answer" THEN "PENDING" ELSE "none", !.size = k,
                    !.scope = scope, !.allowed = allowed]
  <2>2. scope \subseteq allowed
    BY ScopeWithin
  <2>3. Now(s, z)
    BY <2>1
  <2> HIDE DEF scope, allowed
  <2>4. /\ z.at = "asked" /\ z.scope = scope /\ z.allowed = allowed /\ z.rows = {} /\ z.todo = {}
        /\ z.scored = {} /\ z.calm = FALSE
    BY DEF NoSearch
  <2> HIDE DEF z
  <2>5. AsAsked(z) /\ z.rows \subseteq ChunkRows
    BY <2>2, <2>4, NothingFits
  <2>6. segments' = segments
    BY <1>1 DEF AskSearch
  <2>. QED  BY <2>3, <2>5, <2>6, <1>a, <1>b
<1>2. ASSUME StartSearch(s) PROVE SearchInv'
  <2> DEFINE y == [q EXCEPT !.model = loaded[q.on], !.calm = Calm(q.on), !.job = JobNow(q.job, "PROCESSING")]
             z == [y EXCEPT !.at = IF Findable(y) = {} THEN "framed" ELSE "looking"]
  <2>1. Now(s, z) /\ segments' = segments /\ q.at = "asked"
    BY <1>2 DEF StartSearch
  <2>2. /\ z.at \in {"framed", "looking"} /\ z.scope = q.scope /\ z.allowed = q.allowed
        /\ z.rows = q.rows /\ z.todo = q.todo /\ z.scored = q.scored /\ z.calm = Calm(q.on) /\ z.on = q.on
    BY <1>q DEF SearchStates
  <2> HIDE DEF z
  <2>3. q.rows = {} /\ q.todo = {} /\ q.scored = {} /\ q.scope \subseteq q.allowed
    BY <2>1, <1>q DEF AsAsked, RowsKept
  <2>4. AsAsked(z)
    BY <2>2, <2>3 DEF AsAsked, RowsKept, ContextsInPlace, CalmlyRun
  <2>. QED  BY <2>1, <2>2, <2>3, <2>4, <1>a, <1>b
<1>3. ASSUME EmbedQuery(s) PROVE SearchInv'
  <2> DEFINE z == [q EXCEPT !.at = "embedded", !.query = loaded[Executor]]
  <2>1. Now(s, z) /\ segments' = segments /\ q.at = "looking"
    BY <1>3 DEF EmbedQuery
  <2>2. /\ z.at = "embedded" /\ z.query = loaded[Executor] /\ z.scope = q.scope /\ z.allowed = q.allowed
        /\ z.rows = q.rows /\ z.todo = q.todo /\ z.scored = q.scored /\ z.calm = q.calm /\ z.on = q.on
    BY <1>q DEF SearchStates
  <2> HIDE DEF z
  <2>3. q.rows = {} /\ q.scope \subseteq q.allowed /\ RowsKept(q) /\ (q.calm => CalmlyRun(q))
    BY <2>1, <1>q DEF AsAsked
  <2>4. AsAsked(z)
    BY <2>2, <2>3 DEF AsAsked, RowsKept, ContextsInPlace, CalmlyRun, Calm
  <2>. QED  BY <2>1, <2>2, <2>3, <2>4, <1>a, <1>b
<1>4. ASSUME QueryNotEmbedded(s) \/ RowsUnreadable(s) PROVE SearchInv'
  <2>1. PICK at \in {"busy", "failed"} : Now(s, Left(q, at, "FAILED"))
    BY <1>4 DEF QueryNotEmbedded, RowsUnreadable, Ends
  <2>2. Left(q, at, "FAILED").rows \subseteq ChunkRows /\ AsAsked(Left(q, at, "FAILED"))
    BY LeftFits DEF Over, JobStatuses
  <2>3. segments' = segments
    BY <1>4 DEF QueryNotEmbedded, RowsUnreadable
  <2>. QED  BY <2>1, <2>2, <2>3, <1>a, <1>b
<1>5. ASSUME ReadRows(s) PROVE SearchInv'
  <2>1. PICK K \in SUBSET Findable(q) : \E E \in SUBSET K : Now(s, [q EXCEPT !.at = "read", !.rows = E])
    BY <1>5 DEF ReadRows
  <2>2. PICK E \in SUBSET K : Now(s, [q EXCEPT !.at = "read", !.rows = E])
    BY <2>1
  <2> DEFINE z == [q EXCEPT !.at = "read", !.rows = E]
  <2>3. E \subseteq ChunkRows
    BY <2>1, <2>2, FindableTyped
  <2>4. ASSUME NEW r \in E PROVE r.file \in q.scope /\ SpaceOf[r.file] = q.space /\ InTable(r)
    <3>1. r \in Findable(q)
      BY <2>1, <2>2, <2>4
    <3>2. PICK f \in q.scope \ trash : /\ r \in {Row(f, i) : i \in index[f].embedded}
                                      /\ SpaceOf[f] = q.space
      BY <3>1 DEF Findable
    <3>3. PICK i \in index[f].embedded : r = Row(f, i)
      BY <3>2
    <3>4. f \in Files /\ i \in index[f].chunks /\ index[f].version \in Nat
      BY <3>2, <3>3, SearchTyped DEF SearchInv, SearchTypeOK, IndexStates
    <3>. QED  BY <3>2, <3>3, <3>4 DEF InTable, Row
  <2>5. /\ z.at = "read" /\ z.scope = q.scope /\ z.allowed = q.allowed /\ z.space = q.space /\ z.rows = E
        /\ z.todo = q.todo /\ z.scored = q.scored /\ z.calm = q.calm /\ z.on = q.on /\ z.query = q.query
    BY <1>q DEF SearchStates
  <2>6. q.at = "embedded" /\ segments' = segments
    BY <1>5 DEF ReadRows
  <2>7. /\ q.rows = {} /\ q.todo = {} /\ q.scored = {} /\ q.scope \subseteq q.allowed
        /\ q.calm => CalmlyRun(q)
    BY <2>6, <1>q DEF AsAsked, RowsKept
  <2>8. Now(s, z)
    BY <2>2
  <2> HIDE DEF z
  <2>9. RowsKept(z)
    BY <2>4, <2>5, <2>7 DEF RowsKept
  <2>10. z.calm => CalmlyRun(z)
    BY <2>5, <2>6, <2>7 DEF CalmlyRun
  <2>11. AsAsked(z)
    BY <2>5, <2>7, <2>9, <2>10 DEF AsAsked
  <2>. QED  BY <2>3, <2>5, <2>6, <2>8, <2>11, <1>a, <1>b
<1>6. ASSUME LoadContexts(s) PROVE SearchInv'
  <2> DEFINE c == Framed(q.rows, WindowRows(q.rows))
  <2>1. PICK todo \in {{}, q.rows} : Now(s, [q EXCEPT !.at = "framed", !.todo = todo, !.context = c])
    BY <1>6 DEF LoadContexts
  <2>2. q.at = "read" /\ segments' = segments
    BY <1>6 DEF LoadContexts
  <2>3. ASSUME NEW r \in q.rows, r.version = index[r.file].version
        PROVE  {p[2] : p \in {d \in c : d[1] = r}} = {Row(r.file, j) : j \in Around(r.at) \cap index[r.file].chunks}
    <3>1. InTable(r)
      BY <2>3, <1>q DEF AsAsked, RowsKept
    <3>. QED  BY <2>3, <3>1, <1>q, WindowsToldApart
  <2> HIDE DEF c
  <2> DEFINE z == [q EXCEPT !.at = "framed", !.todo = todo, !.context = c]
  <2>4. /\ z.at = "framed" /\ z.scope = q.scope /\ z.allowed = q.allowed /\ z.space = q.space
        /\ z.rows = q.rows /\ z.todo = todo /\ z.scored = q.scored /\ z.calm = q.calm /\ z.on = q.on
        /\ z.query = q.query /\ z.context = c
    BY <1>q DEF SearchStates
  <2>5. Now(s, z)
    BY <2>1
  <2> HIDE DEF z
  <2>6. ContextsInPlace(z)
    BY <2>3, <2>4 DEF ContextsInPlace
  <2>7. RowsKept(z) /\ (z.calm => CalmlyRun(z)) /\ z.scope \subseteq z.allowed
    BY <2>1, <2>4, <1>q DEF AsAsked, RowsKept, CalmlyRun
  <2>8. AsAsked(z)
    BY <2>4, <2>6, <2>7 DEF AsAsked
  <2>. QED  BY <2>2, <2>4, <2>5, <2>8, <1>a, <1>b, <1>q
<1>c. ASSUME NEW r \in q.todo, NEW g, NEW late \in BOOLEAN, q.at = "framed", Scored(s, r, g, late),
             q.calm => late \/ g = active
      PROVE  \A u \in Searches : AsAsked(search[u])'
  <2> DEFINE x == [row |-> r, model |-> g, late |-> late]
             z == [q EXCEPT !.todo = q.todo \ {r}, !.scored = q.scored \cup {x}]
  <2>1. Now(s, z)
    BY <1>c DEF Scored
  <2>2. x.row = r /\ x.model = g /\ x.late = late
    OBVIOUS
  <2> HIDE DEF x
  <2>3. /\ z.at = q.at /\ z.scope = q.scope /\ z.allowed = q.allowed /\ z.space = q.space
        /\ z.rows = q.rows /\ z.todo = q.todo \ {r} /\ z.scored = q.scored \cup {x} /\ z.calm = q.calm
        /\ z.on = q.on /\ z.query = q.query /\ z.context = q.context
    BY <1>q DEF SearchStates
  <2> HIDE DEF z
  <2>4. RowsKept(z)
    BY <1>c, <1>q, <2>2, <2>3 DEF AsAsked, RowsKept
  <2>5. ContextsInPlace(z)
    BY <1>c, <1>q, <2>3 DEF AsAsked, ContextsInPlace
  <2>6. z.calm => CalmlyRun(z)
    BY <1>c, <1>q, <2>2, <2>3 DEF AsAsked, CalmlyRun
  <2>7. AsAsked(z)
    BY <1>c, <1>q, <2>3, <2>4, <2>5, <2>6 DEF AsAsked
  <2>. QED  BY <1>0, <1>q, <2>1, <2>3, <2>7, NowFits
<1>7. ASSUME ReuseSegments(s) PROVE SearchInv'
  <2>1. PICK r \in q.todo, g \in segments : Scored(s, r, g.model, g.late)
    BY <1>7 DEF ReuseSegments
  <2>2. g.late \in BOOLEAN /\ (g.late \/ g.model = active) /\ q.at = "framed" /\ segments' = segments
    BY <1>7, <2>1 DEF ReuseSegments, SearchInv, SegmentsFit, SearchTypeOK, Segments
  <2>3. \A u \in Searches : AsAsked(search[u])'
    BY <2>1, <2>2, <1>c
  <2>. QED  BY <1>0, <2>2, <2>3, <1>b DEF SearchInv
<1>8. ASSUME EmbedSegments(s) PROVE SearchInv'
  <2>1. PICK r \in q.todo :
          /\ segments' = segments \cup {[file |-> r.file, at |-> r.at, model |-> loaded[Executor],
                                         late |-> ~q.calm]}
          /\ Scored(s, r, loaded[Executor], ~q.calm)
    BY <1>8 DEF EmbedSegments
  <2>2. (~q.calm) \in BOOLEAN /\ q.at = "framed"
    BY <1>8, SearchTyped DEF EmbedSegments
  <2>3. q.calm => loaded[Executor] = active /\ change.at = "none"
    BY <1>q DEF AsAsked, CalmlyRun, Calm
  <2>4. q.calm => ~q.calm \/ loaded[Executor] = active
    BY <2>3
  <2>5. \A u \in Searches : AsAsked(search[u])'
    BY <2>1, <2>2, <2>4, <1>c
  <2>6. ASSUME NEW g \in segments'
        PROVE  g.late \/ (g.model = active /\ change.at \notin {"embedding", "installed"})
    <3>1. CASE g \in segments
      BY <3>1 DEF SearchInv, SegmentsFit
    <3>2. CASE g \notin segments
      <4>1. g.model = loaded[Executor] /\ g.late = ~q.calm
        BY <2>1, <2>6, <3>2
      <4>. QED  BY <4>1, <2>3
    <3>. QED  BY <3>1, <3>2
  <2>7. SegmentsFit'
    BY <1>0, <2>6 DEF SegmentsFit
  <2>. QED  BY <1>0, <2>5, <2>7 DEF SearchInv
<1>9. ASSUME LeaveWhole(s) PROVE SearchInv'
  <2>1. PICK r \in q.todo : Now(s, [q EXCEPT !.todo = q.todo \ {r}])
    BY <1>9 DEF LeaveWhole
  <2> DEFINE z == [q EXCEPT !.todo = q.todo \ {r}]
  <2>2. /\ z.at = q.at /\ z.scope = q.scope /\ z.allowed = q.allowed /\ z.space = q.space
        /\ z.rows = q.rows /\ z.todo = q.todo \ {r} /\ z.scored = q.scored /\ z.calm = q.calm
        /\ z.on = q.on /\ z.query = q.query /\ z.context = q.context /\ z.answer = q.answer
    BY <1>q DEF SearchStates
  <2>3. Now(s, z) /\ segments' = segments
    BY <1>9, <2>1 DEF LeaveWhole
  <2> HIDE DEF z
  <2>4. AsAsked(z)
    BY <1>q, <2>2 DEF AsAsked, RowsKept, ContextsInPlace, CalmlyRun
  <2>. QED  BY <1>q, <2>2, <2>3, <2>4, <1>a, <1>b
<1>10. ASSUME AnswerSearch(s) PROVE SearchInv'
  <2>1. PICK A \in SUBSET FilesOf(q.rows) :
          Now(s, [q EXCEPT !.at = "answered", !.answer = A, !.job = JobNow(q.job, "COMPLETED")])
    BY <1>10 DEF AnswerSearch
  <2> DEFINE z == [q EXCEPT !.at = "answered", !.answer = A, !.job = JobNow(q.job, "COMPLETED")]
  <2>2. /\ z.at = "answered" /\ z.scope = q.scope /\ z.allowed = q.allowed /\ z.space = q.space
        /\ z.rows = q.rows /\ z.todo = q.todo /\ z.scored = q.scored /\ z.calm = q.calm
        /\ z.on = q.on /\ z.query = q.query /\ z.context = q.context /\ z.answer = A
    BY <1>q DEF SearchStates
  <2>3. Now(s, z) /\ segments' = segments /\ q.at = "framed"
    BY <1>10, <2>1 DEF AnswerSearch
  <2> HIDE DEF z
  <2>4. ContextsInPlace(z)
    BY <1>q, <2>2, <2>3 DEF AsAsked, ContextsInPlace
  <2>5. RowsKept(z) /\ (z.calm => CalmlyRun(z))
    BY <1>q, <2>2, <2>3 DEF AsAsked, RowsKept, CalmlyRun
  <2>6. AsAsked(z)
    BY <1>q, <2>1, <2>2, <2>4, <2>5 DEF AsAsked
  <2>. QED  BY <1>q, <2>2, <2>3, <2>6, <1>a, <1>b
<1>. QED  BY <1>1, <1>2, <1>3, <1>4, <1>5, <1>6, <1>7, <1>8, <1>9, <1>10 DEF Searching

(* A search that goes on beside a step of others.                           *)
LEMMA BesideFits ==
  ASSUME SearchTypeOK, SearchTypeOK', SearchInv, IndexGrows, NEW u \in Searches,
         \/ search'[u] = search[u] /\ (search[u].calm => UNCHANGED <<active, loaded, change>>)
         \/ search'[u] = [search[u] EXCEPT !.calm = FALSE]
  PROVE  AsAsked(search[u])'
<1>1. search[u] \in SearchStates /\ search[u].rows \subseteq ChunkRows /\ AsAsked(search[u])
  BY SearchTyped DEF SearchInv
<1>2. ASSUME NEW z, search'[u] = z, AsAsked(z)' PROVE AsAsked(search[u])'
  BY <1>2 DEF AsAsked, RowsKept, InTable, ContextsInPlace, CalmlyRun, Calm, FilesOf, Row
<1>3. PICK y : y = search[u]
  OBVIOUS
<1>4. PICK z : z = [search[u] EXCEPT !.calm = FALSE]
  OBVIOUS
<1>5. CASE search'[u] = search[u] /\ (search[u].calm => UNCHANGED <<active, loaded, change>>)
  <2>1. y.rows \subseteq ChunkRows /\ AsAsked(y)
    BY <1>1, <1>3
  <2>2. y.calm => UNCHANGED <<active, loaded, change>>
    BY <1>3, <1>5
  <2>3. AsAsked(y)'
    BY <2>1, <2>2, FitsStay
  <2>. QED  BY <1>2, <1>3, <1>5, <2>3
<1>6. CASE search'[u] = [search[u] EXCEPT !.calm = FALSE]
  <2>1. /\ z.at = search[u].at /\ z.scope = search[u].scope /\ z.allowed = search[u].allowed
        /\ z.space = search[u].space /\ z.rows = search[u].rows /\ z.todo = search[u].todo
        /\ z.scored = search[u].scored /\ z.context = search[u].context /\ z.answer = search[u].answer
        /\ z.calm = FALSE
    BY <1>1, <1>4 DEF SearchStates
  <2>2. z.rows \subseteq ChunkRows /\ AsAsked(z)
    BY <1>1, <2>1, SMTT(30) DEF AsAsked, RowsKept, ContextsInPlace
  <2>3. AsAsked(z)'
    BY <2>1, <2>2, FitsStay
  <2>. QED  BY <1>2, <1>4, <1>6, <2>3
<1>. QED  BY <1>5, <1>6

LEMMA MarkedAsFits ==
  ASSUME SearchTypeOK, SearchInv, NEW T \in SUBSET Files, NEW m, MarkedAs(T, m) \/ Embedded(T)
  PROVE  IndexGrows /\ \A f \in Files : index'[f].embedded \subseteq index'[f].chunks
<1>1. ASSUME NEW f \in Files
      PROVE  /\ index'[f].version = index[f].version /\ index'[f].chunks = index[f].chunks
             /\ index'[f].embedded \subseteq index'[f].chunks
  <2>1. index[f] \in IndexStates /\ index[f].embedded \subseteq index[f].chunks
    BY DEF SearchTypeOK, SearchInv
  <2>. QED  BY <2>1 DEF MarkedAs, Embedded, IndexStates
<1>. QED  BY <1>1 DEF IndexGrows

LEMMA MeanwhileKeeps ==
  ASSUME SearchTypeOK, SearchTypeOK', SearchInv, SearchNext, ~ \E s \in Searches : Searching(s)
  PROVE  SearchInv'
<1> DEFINE Whole == \A f \in Files : index[f].embedded \subseteq index[f].chunks
           Beside == search' = search /\ (change.at # "none" \/ UNCHANGED <<active, loaded, change>>)
<1>0. SegmentsFit /\ Whole /\ index \in [Files -> IndexStates] /\ search \in [Searches -> SearchStates]
  BY DEF SearchInv, SearchTypeOK
<1>t. change \in [at : {"none", "blanked", "embedding", "installed", "kept"}, to : Models]
  BY DEF SearchTypeOK
<1>i. ASSUME index' = index PROVE IndexGrows /\ Whole'
  BY <1>0, <1>i, IndexStands
<1>a. ASSUME IndexGrows, Whole', SegmentsFit', Beside \/ search' = Disturbed PROVE SearchInv'
  <2>1. ASSUME NEW u \in Searches PROVE AsAsked(search[u])'
    <3>1. CASE Beside
      <4>1. search[u].calm => change.at = "none"
        BY DEF SearchInv, AsAsked, CalmlyRun, Calm
      <4>. QED  BY <1>a, <3>1, <4>1, BesideFits
    <3>2. CASE search' = Disturbed
      <4>1. search'[u] = [search[u] EXCEPT !.calm = FALSE]
        BY <3>2 DEF Disturbed
      <4>. QED  BY <1>a, <4>1, BesideFits
    <3>. QED  BY <1>a, <3>1, <3>2
  <2>. QED  BY <1>a, <2>1 DEF SearchInv
<1>b. ASSUME segments' = segments \/ segments' = {}, UNCHANGED <<active, change>> PROVE SegmentsFit'
  BY <1>0, <1>b DEF SegmentsFit
<1>1. ASSUME NEW f \in Files, MoveFile(f) PROVE SearchInv'
  BY <1>1, <1>a, <1>b, <1>i DEF MoveFile, runtimeVars
<1>2. ASSUME NEW n \in Nodes, TrashOrRestore(n) PROVE SearchInv'
  BY <1>2, <1>a, <1>b, <1>i DEF TrashOrRestore, runtimeVars
<1>3. ASSUME NEW f \in Files, Reparse(f) PROVE SearchInv'
  <2>1. PICK C \in SUBSET Indices :
          index' = [index EXCEPT ![f].version = index[f].version + 1, ![f].chunks = C, ![f].embedded = {}]
    BY <1>3 DEF Reparse
  <2>2. index[f] \in IndexStates /\ index[f].version \in Nat
    BY <1>0 DEF IndexStates
  <2>3. index'[f].version = index[f].version + 1 /\ index'[f].embedded = {}
    BY <1>0, <2>1, <2>2 DEF IndexStates
  <2>4. \A g \in Files \ {f} : index'[g] = index[g]
    BY <1>0, <2>1
  <2>5. index[f].version < index'[f].version
    BY <2>2, <2>3
  <2>6. IndexGrows /\ Whole'
    BY <1>0, <2>3, <2>4, <2>5 DEF IndexGrows
  <2>7. SegmentsFit'
    BY <1>0, <1>3 DEF Reparse, SegmentsFit, runtimeVars
  <2>. QED  BY <1>3, <1>a, <2>6, <2>7 DEF Reparse, runtimeVars
<1>c. ASSUME NEW f \in Files, NEW x \in IndexStates, index' = [index EXCEPT ![f] = x],
             x.version = index[f].version, x.chunks = index[f].chunks, x.embedded \subseteq x.chunks
      PROVE  IndexGrows /\ Whole'
  BY <1>0, <1>c DEF IndexGrows
<1>4. ASSUME NEW f \in Files, StoreVectors(f) PROVE SearchInv'
  <2>1. PICK I \in SUBSET (index[f].chunks \ index[f].embedded) :
          index' = [index EXCEPT ![f].embedded = index[f].embedded \cup I,
                                 ![f].marker = IF index[f].chunks \subseteq index[f].embedded \cup I
                                               THEN loaded[Executor] ELSE index[f].marker]
    BY <1>4 DEF StoreVectors
  <2>2. index[f] \in IndexStates /\ index[f].embedded \subseteq index[f].chunks
    BY <1>0
  <2>3. /\ index'[f].version = index[f].version /\ index'[f].chunks = index[f].chunks
        /\ index'[f].embedded = index[f].embedded \cup I
    BY <1>0, <2>1, <2>2 DEF IndexStates
  <2>4. \A g \in Files \ {f} : index'[g] = index[g]
    BY <1>0, <2>1
  <2>5. IndexGrows /\ Whole'
    BY <1>0, <2>2, <2>3, <2>4 DEF IndexGrows
  <2>. QED  BY <1>4, <1>a, <1>b, <2>5 DEF StoreVectors, runtimeVars
<1>5. ASSUME NEW f \in Files, ForgetVectors(f) PROVE SearchInv'
  <2>1. PICK I \in {{}, index[f].embedded} :
          index' = [index EXCEPT ![f].embedded = I, ![f].marker = NoModel]
    BY <1>5 DEF ForgetVectors
  <2>2. index[f] \in IndexStates /\ index[f].embedded \subseteq index[f].chunks
    BY <1>0
  <2>3. /\ index'[f].version = index[f].version /\ index'[f].chunks = index[f].chunks
        /\ index'[f].embedded = I
    BY <1>0, <2>1, <2>2 DEF IndexStates
  <2>4. \A g \in Files \ {f} : index'[g] = index[g]
    BY <1>0, <2>1
  <2>5. IndexGrows /\ Whole'
    BY <1>0, <2>1, <2>2, <2>3, <2>4 DEF IndexGrows
  <2>. QED  BY <1>5, <1>a, <1>b, <2>5 DEF ForgetVectors, runtimeVars
<1>6. ASSUME PurgeSegments PROVE SearchInv'
  BY <1>6, <1>a, <1>b, <1>i DEF PurgeSegments, runtimeVars
<1>7. ASSUME NEW P \in SUBSET Processes, Restart(P) PROVE SearchInv'
  <2>1. IndexGrows /\ Whole' /\ SegmentsFit'
    BY <1>7, <1>b, <1>i DEF Restart
  <2>2. ASSUME NEW u \in Searches PROVE AsAsked(search[u])'
    <3>1. CASE search'[u] = Left(search[u], "lost", search[u].job)
      <4>1. PICK z : z = Left(search[u], "lost", search[u].job)
        OBVIOUS
      <4>2. z.scope = {} /\ z.allowed = {} /\ z.rows = {} /\ z.todo = {} /\ z.scored = {}
            /\ z.at = "lost" /\ z.calm = FALSE
        BY <4>1 DEF Left, NoSearch
      <4>3. AsAsked(z)'
        BY <4>2 DEF AsAsked, RowsKept, ContextsInPlace
      <4>4. search'[u] = z
        BY <3>1, <4>1
      <4>. QED
        BY <4>3, <4>4 DEF AsAsked, RowsKept, InTable, ContextsInPlace, CalmlyRun, Calm, FilesOf, Row
    <3>2. CASE search'[u] # Left(search[u], "lost", search[u].job)
      <4>1. search'[u] = [search[u] EXCEPT !.calm = FALSE]
        BY <1>7, <3>2 DEF Restart, Disturbed
      <4>. QED  BY <2>1, <4>1, BesideFits
    <3>. QED  BY <3>1, <3>2
  <2>. QED  BY <2>1, <2>2 DEF SearchInv
<1>8. ASSUME NEW m \in Models, BlankMarkers(m) PROVE SearchInv'
  <2>1. IndexGrows /\ Whole'
    BY <1>8, MarkedAsFits DEF BlankMarkers
  <2>2. SegmentsFit'
    BY <1>0, <1>8 DEF BlankMarkers, SegmentsFit
  <2>. QED  BY <1>8, <1>a, <2>1, <2>2 DEF BlankMarkers
<1>9. ASSUME DropSegments \/ StopChange PROVE SearchInv'
  <2>1. SegmentsFit'
    <3>1. CASE DropSegments
      BY <3>1 DEF DropSegments, SegmentsFit
    <3>2. CASE StopChange
      <4>1. change'.at = "none"
        BY <1>t, <3>2 DEF StopChange
      <4>. QED  BY <1>0, <3>2, <4>1 DEF StopChange, SegmentsFit
    <3>. QED  BY <1>9, <3>1, <3>2
  <2>. QED  BY <1>9, <1>a, <1>i, <2>1 DEF DropSegments, StopChange
<1>10. ASSUME InstallRuntime PROVE SearchInv'
  <2>1. IndexGrows /\ Whole'
    BY <1>10, MarkedAsFits DEF InstallRuntime
  <2>2. SegmentsFit'
    BY <1>0, <1>10 DEF InstallRuntime, SegmentsFit
  <2>. QED  BY <1>10, <1>a, <2>1, <2>2 DEF InstallRuntime
<1>11. ASSUME MarkFiles \/ ForgetMarkers PROVE SearchInv'
  <2>1. IndexGrows /\ Whole'
    BY <1>11, MarkedAsFits DEF MarkFiles, ForgetMarkers
  <2>2. SegmentsFit'
    <3>1. change'.at = "none"
      BY <1>t, <1>11 DEF MarkFiles, ForgetMarkers
    <3>. QED  BY <1>0, <1>11, <3>1 DEF MarkFiles, ForgetMarkers, SegmentsFit
  <2>. QED  BY <1>11, <1>a, <2>1, <2>2 DEF MarkFiles, ForgetMarkers
<1>12. ASSUME NEW m \in Models, InstallAlone(m) PROVE SearchInv'
  <2>1. ASSUME NEW g \in segments' PROVE g.late
    <3>1. PICK h \in segments : g = [h EXCEPT !.late = TRUE]
      BY <1>12, <2>1 DEF InstallAlone
    <3>2. h \in Segments
      BY <3>1 DEF SearchTypeOK
    <3>. QED  BY <3>1, <3>2 DEF Segments
  <2>2. SegmentsFit'
    BY <2>1 DEF SegmentsFit
  <2>. QED  BY <1>12, <1>a, <1>i, <2>2 DEF InstallAlone
<1>. QED
  BY <1>1, <1>2, <1>3, <1>4, <1>5, <1>6, <1>7, <1>8, <1>9, <1>10, <1>11, <1>12 DEF SearchNext, Changing

(* However searches, moves, parses, embeddings, restarts and changes of the *)
(* runtime interleave, a search is answered from what was asked for, shows  *)
(* each evidence with the texts around it, and scores segments of one model *)
(* if it was calm, but for late ones.                                       *)
THEOREM SearchAlwaysSound == SearchSpec => []SearchSound
<1>1. SearchTypeOK /\ SearchInv /\ SearchTypeOK' /\ [SearchNext]_searchVars => SearchInv'
  <2>1. ASSUME SearchInv, UNCHANGED searchVars PROVE SearchInv'
    BY <2>1 DEF SearchInv, SegmentsFit, AsAsked, RowsKept, InTable, ContextsInPlace, CalmlyRun, Calm, FilesOf,
                Row, searchVars, shelfVars, runtimeVars
  <2>. QED  BY <2>1, SearchingKeeps, MeanwhileKeeps
<1>2. SearchTypeOK /\ SearchInv => SearchSound
  <2> SUFFICES ASSUME SearchTypeOK, SearchInv, NEW s \in Searches, search[s].at = "answered"
               PROVE  WithinRequest(search[s]) /\ ContextsInPlace(search[s]) /\ OneModelScored(search[s])
    BY DEF SearchSound
  <2> DEFINE q == search[s]
  <2>1. AsAsked(q)
    BY DEF SearchInv
  <2>2. WithinRequest(q)
    BY <2>1 DEF AsAsked, RowsKept, FilesOf, WithinRequest
  <2>3. OneModelScored(q)
    BY <2>1 DEF AsAsked, RowsKept, CalmlyRun, OneModelScored
  <2>. QED  BY <2>1, <2>2, <2>3 DEF AsAsked
<1>. QED  BY <1>1, <1>2, SearchInvStart, SearchTypeCorrect, PTL DEF SearchSpec

-----------------------------------------------------------------------------
LEMMA LeastNatural ==
  ASSUME NEW S \in SUBSET Nat, S # {}
  PROVE  \E n \in S : \A m \in S : n <= m
<1> DEFINE R == OpToRel(<, Nat)
<1>1. IsWellFoundedOn(R, Nat)
  BY NatLessThanWellFounded
<1>2. \A x, y \in Nat : y < x => <<y, x>> \in R
  BY DEF OpToRel
<1> HIDE DEF R
<1>3. PICK n \in S : \A y \in S : <<y, n>> \notin R
  BY <1>1, WFMin
<1>4. ASSUME NEW m \in S PROVE n <= m
  <2>1. m \in Nat /\ n \in Nat
    OBVIOUS
  <2>2. ~(m < n)
    BY <1>2, <1>3, <2>1
  <2> QED
    BY <2>1, <2>2
<1> QED
  BY <1>4

LEMMA NatSetInduction ==
  ASSUME NEW S, 0 \in S, \A n \in Nat : n \in S => n + 1 \in S
  PROVE  \A n \in Nat : n \in S
<1> SUFFICES ASSUME Nat \ S # {} PROVE FALSE
  OBVIOUS
<1>1. PICK n \in Nat \ S : \A m \in Nat \ S : n <= m
  BY LeastNatural
<1>2. n - 1 \in Nat /\ n - 1 \notin Nat \ S
  BY <1>1
<1> QED
  BY <1>1, <1>2

(* What Min and Max choose.                                                 *)
LEMMA MinOfNaturals ==
  ASSUME NEW S \in SUBSET Nat, S # {}
  PROVE  Min(S) \in S /\ \A y \in S : Min(S) <= y
BY LeastNatural DEF Min

LEMMA MinOfTwo ==
  ASSUME NEW a \in Int, NEW b \in Int
  PROVE  Min({a, b}) = IF a <= b THEN a ELSE b
BY DEF Min

LEMMA MaxOfTwo ==
  ASSUME NEW a \in Int, NEW b \in Int
  PROVE  Max({a, b}) = IF a >= b THEN a ELSE b
BY DEF Max

LEMMA MaxOfBounded ==
  ASSUME NEW b \in Nat, NEW S \in SUBSET 0..b, S # {}
  PROVE  Max(S) \in S /\ \A y \in S : y <= Max(S)
<1> DEFINE T == {b - x : x \in S}
<1>1. T \in SUBSET Nat /\ T # {}
  <2>1. \A x \in S : x \in Int /\ x <= b
    OBVIOUS
  <2>2. \A x \in S : b - x \in Nat
    BY <2>1
  <2> QED
    BY <2>2
<1>2. PICK n \in T : \A m \in T : n <= m
  BY <1>1, LeastNatural
<1>3. PICK x \in S : n = b - x
  OBVIOUS
<1>4. ASSUME NEW y \in S PROVE x >= y
  <2>1. b - y \in T /\ x \in 0..b /\ y \in 0..b
    OBVIOUS
  <2>2. b - x <= b - y
    BY <1>2, <1>3, <2>1
  <2> QED
    BY <2>1, <2>2
<1>5. \E z \in S : \A y \in S : z >= y
  BY <1>4
<1>6. Max(S) \in S /\ \A y \in S : Max(S) >= y
  BY <1>5 DEF Max
<1> QED
  BY <1>6

LEMMA DivOf ==
  ASSUME NEW a \in Nat, NEW b \in Nat \ {0}
  PROVE  a \div b \in Nat /\ b * (a \div b) <= a /\ a < b * (a \div b) + b
<1>1. a \div b \in Int
  OBVIOUS
<1> QED
  BY <1>1, SMTT(20)

LEMMA TimesMonotone ==
  ASSUME NEW a \in Nat, NEW b \in Nat, NEW c \in Nat, a <= b
  PROVE  a * c <= b * c /\ a * c \in Nat /\ b * c \in Nat
OBVIOUS

LEMMA DivBelow ==
  ASSUME NEW a \in Nat, NEW l \in Nat \ {0}, NEW r \in Nat, a < r * l + l
  PROVE  a \div l \in 0..r
<1> DEFINE q == a \div l
<1>1. q \in Nat /\ l * q <= a
  BY DivOf
<1> HIDE DEF q
<1>2. CASE r + 1 <= q
  <2>1. (r + 1) * l <= q * l /\ q * l \in Nat /\ r * l \in Nat
    BY <1>1, <1>2, TimesMonotone
  <2>2. (r + 1) * l = r * l + l /\ q * l = l * q
    BY <1>1
  <2> QED
    BY <1>1, <2>1, <2>2
<1> QED
  BY <1>1, <1>2 DEF q

LEMMA DivMonotone ==
  ASSUME NEW a \in Nat, NEW b \in Nat, NEW c \in Nat \ {0}, a <= b
  PROVE  a \div c <= b \div c
<1> DEFINE r == b \div c
<1>1. r \in Nat /\ b < c * r + c
  BY DivOf
<1> HIDE DEF r
<1>2. a < r * c + c
  <2>1. c * r = r * c /\ r * c \in Nat
    BY <1>1
  <2> QED
    BY <1>1, <2>1
<1>3. a \div c \in 0..r
  BY <1>1, <1>2, DivBelow
<1> QED
  BY <1>1, <1>3 DEF r


-----------------------------------------------------------------------------
(* Planning: what is probed, and what a cache takes.                        *)

CacheTypes == {"f16", "q8_0", "q4_0"}

IsProfile(p) ==
  /\ {p.ram, p.limit, p.disk} \subseteq Nat
  /\ p.total \in Seq(Nat) /\ p.free \in Seq(Nat) /\ Len(p.free) = Len(p.total)

Places == [ram : Nat, vram : Seq(Nat), layers : Nat]

IsPlace(place, p) ==
  place \in Places /\ place.ram \in Nat \ {0} /\ place.vram \in [DOMAIN p.free -> Nat]

LEMMA PlaceRecord ==
  ASSUME NEW p, IsProfile(p), NEW place, place = [ram |-> place.ram, vram |-> place.vram, layers |-> place.layers],
         place.ram \in Nat \ {0}, place.vram \in [DOMAIN p.free -> Nat], place.layers \in Nat
  PROVE  IsPlace(place, p)
<1>1. DOMAIN p.free = 1..Len(p.free) /\ Len(p.free) \in Nat
  BY LenProperties DEF IsProfile
<1>2. place.vram \in Seq(Nat)
  <2>1. place.vram = [i \in 1..Len(p.free) |-> place.vram[i]]
    BY <1>1
  <2>2. \A i \in 1..Len(p.free) : place.vram[i] \in Nat
    BY <1>1
  <2> DEFINE v == [i \in 1..Len(p.free) |-> place.vram[i]]
  <2>3. v \in Seq(Nat)
    BY <1>1, <2>2, IsASeq
  <2> QED
    BY <2>1, <2>3
<1>3. place \in Places
  <2>1. [ram |-> place.ram, vram |-> place.vram, layers |-> place.layers] \in Places
    BY <1>2 DEF Places
  <2> QED
    BY <2>1
<1> QED
  BY <1>3 DEF IsPlace

LEMMA ProbeTypes ==
  ASSUME NEW h \in Hosts
  PROVE  IsProfile(Probe(h))
<1>1. /\ {h.ram, h.limit, h.disk} \subseteq Nat
      /\ h.gpu \in {"none", "nvidia", "torch", "rocm", "metal"}
      /\ h.vram \in Seq(Nat) /\ h.free \in Seq(Nat) /\ Len(h.free) = Len(h.vram)
  BY PlanningAssumption
<1>2. [i \in DOMAIN h.vram |-> 0] \in Seq(Nat) /\ Len([i \in DOMAIN h.vram |-> 0]) = Len(h.vram)
  <2>1. DOMAIN h.vram = 1..Len(h.vram) /\ Len(h.vram) \in Nat
    BY <1>1, LenProperties
  <2>2. [i \in 1..Len(h.vram) |-> 0] \in Seq(Nat)
    BY <2>1, IsASeq
  <2> QED
    BY <2>1, <2>2, LenProperties
<1>3. /\ GpuDevices(h).total \in Seq(Nat) /\ GpuDevices(h).free \in Seq(Nat)
      /\ Len(GpuDevices(h).free) = Len(GpuDevices(h).total)
  <2>1. CASE h.gpu \in {"nvidia", "torch"}
    BY <1>1, <1>2, <2>1 DEF GpuDevices, NvidiaDevices
  <2>2. CASE h.gpu = "rocm"
    BY <1>1, <2>2 DEF GpuDevices
  <2>3. CASE h.gpu = "metal"
    <3>1. GpuDevices(h).total = <<0>> /\ GpuDevices(h).free = <<0>>
      BY <2>3 DEF GpuDevices
    <3> QED
      BY <3>1
  <2>4. CASE h.gpu = "none"
    <3>1. GpuDevices(h).total = <<>> /\ GpuDevices(h).free = <<>>
      BY <2>4 DEF GpuDevices
    <3> QED
      BY <3>1
  <2> QED
    BY <1>1, <2>1, <2>2, <2>3, <2>4
<1> QED
  BY <1>1, <1>3 DEF Probe, IsProfile

LEMMA PlanningRamType ==
  ASSUME NEW p, IsProfile(p)
  PROVE  PlanningRam(p) \in Nat
BY MinOfTwo DEF IsProfile, PlanningRam

LEMMA QuartersOf ==
  /\ CacheQuarters("f16") = 4 /\ CacheQuarters("q8_0") = 2 /\ CacheQuarters("q4_0") = 1
BY DEF CacheQuarters

LEMMA KvTypes ==
  ASSUME NEW e \in Entries, NEW context \in Nat, NEW parallel \in Nat, NEW cache \in CacheTypes
  PROVE  /\ e.kv * context * parallel * CacheQuarters(cache) + 2 \in Nat
         /\ KvMemory(e, context, parallel, cache) \in Nat
<1> DEFINE bytes == e.kv * context * parallel * CacheQuarters(cache) + 2
<1>1. e.kv \in Nat /\ CacheQuarters(cache) \in Nat
  BY QuartersOf DEF Entries, CacheTypes
<1>2. bytes \in Nat
  BY <1>1
<1> HIDE DEF bytes
<1>3. bytes \div 4 \in Nat
  BY <1>2
<1>4. KvMemory(e, context, parallel, cache) = Max({1, bytes \div 4})
  BY DEF KvMemory, bytes
<1> QED
  BY <1>2, <1>3, <1>4, MaxOfTwo DEF bytes

LEMMA KvMonotone ==
  ASSUME NEW e \in Entries, NEW small \in Nat, NEW large \in Nat, small <= large,
         NEW parallel \in Nat, NEW cache \in CacheTypes, NEW rough \in CacheTypes,
         CacheQuarters(rough) <= CacheQuarters(cache)
  PROVE  KvMemory(e, small, parallel, rough) <= KvMemory(e, large, parallel, cache)
<1> DEFINE Bytes(context, type) == e.kv * context * parallel * CacheQuarters(type) + 2
<1>1. e.kv \in Nat /\ CacheQuarters(cache) \in Nat /\ CacheQuarters(rough) \in Nat
  BY QuartersOf DEF Entries, CacheTypes
<1>2. Bytes(small, rough) <= Bytes(large, cache)
  <2>1. /\ e.kv * small <= e.kv * large /\ e.kv * small \in Nat /\ e.kv * large \in Nat
    BY <1>1, TimesMonotone
  <2>2. /\ e.kv * small * parallel <= e.kv * large * parallel
        /\ e.kv * small * parallel \in Nat /\ e.kv * large * parallel \in Nat
    BY <2>1, TimesMonotone
  <2> DEFINE s == e.kv * small * parallel
             l == e.kv * large * parallel
  <2>3. s <= l /\ s \in Nat /\ l \in Nat
    BY <2>2
  <2> HIDE DEF s, l
  <2>4. s * CacheQuarters(rough) <= l * CacheQuarters(rough)
    BY <1>1, <2>3, TimesMonotone
  <2>5. l * CacheQuarters(rough) <= l * CacheQuarters(cache)
    BY <1>1, <2>3, QuartersOf DEF CacheTypes
  <2>6. s * CacheQuarters(rough) + 2 <= l * CacheQuarters(cache) + 2
    BY <1>1, <2>3, <2>4, <2>5
  <2> QED
    BY <2>6 DEF s, l
<1>3. Bytes(small, rough) \in Nat /\ Bytes(large, cache) \in Nat
  BY KvTypes
<1> HIDE DEF Bytes
<1>4. Bytes(small, rough) \div 4 <= Bytes(large, cache) \div 4
  BY <1>2, <1>3
<1>5. /\ KvMemory(e, small, parallel, rough) = Max({1, Bytes(small, rough) \div 4})
      /\ KvMemory(e, large, parallel, cache) = Max({1, Bytes(large, cache) \div 4})
  BY DEF KvMemory, Bytes
<1>6. Bytes(small, rough) \div 4 \in Int /\ Bytes(large, cache) \div 4 \in Int
  BY <1>3
<1> QED
  BY <1>4, <1>5, <1>6, MaxOfTwo

-----------------------------------------------------------------------------
(* Planning: how many layers go to the first GPU.                           *)

Fixed(kv, kvIn) == GpuOverhead + CudaContext + (IF kvIn = "vram" THEN kv ELSE 0)
Room(p, fixed) == Max({0, (4 * p.free[1]) \div 5 - fixed})
OnGpu(e, p, fixed) == Max({1, Min({e.layers, (Room(p, fixed) * e.layers) \div e.weights})})
Moved(e, n) == IF n = e.layers THEN e.weights ELSE (n * e.weights + e.layers - 1) \div e.layers

LEMMA OffloadIs ==
  ASSUME NEW e, NEW kv, NEW p, NEW kvIn
  PROVE  LET n == OnGpu(e, p, Fixed(kv, kvIn))
         IN  PlaceOffload(e, kv, p, kvIn) =
               [ram    |-> (e.weights - Moved(e, n)) + (IF kvIn = "ram" THEN kv ELSE 0) + CpuOverhead,
                vram   |-> [i \in DOMAIN p.free |-> IF i = 1 THEN Moved(e, n) + Fixed(kv, kvIn) ELSE 0],
                layers |-> n]
BY DEF PlaceOffload, OnGpu, Moved, Fixed, Room

LEMMA EntryNumbers ==
  ASSUME NEW e \in Entries
  PROVE  /\ e.weights \in Nat \ {0} /\ e.layers \in Nat \ {0} /\ e.kv \in Nat
         /\ e.maxContext \in Nat \ {0} /\ {e.params, e.precision, e.priority, e.disk, e.speed} \subseteq Nat
BY DEF Entries

LEMMA MovedFits ==
  ASSUME NEW e \in Entries, NEW n \in 1..e.layers, NEW room \in Nat,
         n * e.weights <= room * e.layers
  PROVE  Moved(e, n) \in 0..room
<1> DEFINE w == e.weights
           l == e.layers
<1>1. w \in Nat \ {0} /\ l \in Nat \ {0} /\ n \in Nat /\ n <= l
  BY EntryNumbers
<1>2. n * w <= room * l /\ n * w \in Nat /\ room * l \in Nat
  BY <1>1
<1>3. CASE n = l
  <2>1. w * l <= room * l
    BY <1>1, <1>2, <1>3
  <2> HIDE DEF w, l
  <2>2. CASE room + 1 <= w
    <3>1. (room + 1) * l <= w * l /\ (room + 1) * l = room * l + l
      BY <1>1, <2>2, TimesMonotone
    <3>2. w * l \in Nat
      BY <1>1
    <3> QED
      BY <1>1, <1>2, <2>1, <3>1, <3>2
  <2>3. CASE w <= room
    BY <1>1, <1>3, <2>3 DEF Moved, w, l
  <2> QED
    BY <1>1, <2>2, <2>3
<1>4. CASE n # l
  <2>1. n * w + l - 1 \in Nat /\ n * w + l - 1 < room * l + l
    BY <1>1, <1>2
  <2>2. (n * w + l - 1) \div l \in 0..room
    BY <1>1, <2>1, DivBelow
  <2> QED
    BY <1>4, <2>2 DEF Moved
<1> QED
  BY <1>3, <1>4

LEMMA MovedTypes ==
  ASSUME NEW e \in Entries, NEW n \in 1..e.layers
  PROVE  Moved(e, n) \in 0..e.weights
<1>1. e.weights \in Nat /\ e.layers \in Nat /\ n \in Nat /\ n <= e.layers
  BY EntryNumbers
<1>2. n * e.weights <= e.layers * e.weights /\ e.layers * e.weights = e.weights * e.layers
  BY <1>1, TimesMonotone
<1> QED
  BY <1>1, <1>2, MovedFits

LEMMA MovedMonotone ==
  ASSUME NEW e \in Entries, NEW n \in 1..e.layers, NEW m \in 1..e.layers, n <= m
  PROVE  Moved(e, n) <= Moved(e, m)
<1> DEFINE w == e.weights
           l == e.layers
<1>1. w \in Nat \ {0} /\ l \in Nat \ {0} /\ n \in Nat /\ m \in Nat
  BY EntryNumbers
<1>2. CASE m = l
  BY <1>2, MovedTypes DEF Moved
<1>3. CASE m # l
  <2>1. n # l
    BY <1>1, <1>3
  <2>2. n * w <= m * w /\ n * w \in Nat /\ m * w \in Nat
    BY <1>1, TimesMonotone
  <2>3. n * w + l - 1 \in Nat /\ m * w + l - 1 \in Nat /\ n * w + l - 1 <= m * w + l - 1
    BY <1>1, <2>2
  <2>4. (n * w + l - 1) \div l <= (m * w + l - 1) \div l
    BY <1>1, <2>3, DivMonotone
  <2> QED
    BY <1>3, <2>1, <2>4 DEF Moved
<1> QED
  BY <1>2, <1>3

LEMMA ClampIs ==
  ASSUME NEW l \in Nat \ {0}, NEW f \in Nat
  PROVE  Max({1, Min({l, f})}) = IF f = 0 THEN 1 ELSE IF l <= f THEN l ELSE f
<1> DEFINE m == Min({l, f})
<1>1. m = IF l <= f THEN l ELSE f
  BY MinOfTwo
<1> HIDE DEF m
<1>2. m \in Nat
  BY <1>1
<1>3. Max({1, m}) = IF 1 >= m THEN 1 ELSE m
  BY <1>2, MaxOfTwo
<1> QED
  BY <1>1, <1>3 DEF m

LEMMA OnGpuTypes ==
  ASSUME NEW e \in Entries, NEW p, IsProfile(p), p.free # <<>>, NEW fixed \in Nat
  PROVE  /\ Room(p, fixed) \in Nat
         /\ (Room(p, fixed) * e.layers) \div e.weights \in Nat
         /\ OnGpu(e, p, fixed) \in 1..e.layers
<1>1. p.free[1] \in Nat
  BY DEF IsProfile
<1>2. (4 * p.free[1]) \div 5 \in Nat
  BY <1>1
<1>3. Room(p, fixed) \in Nat
  BY <1>2, MaxOfTwo DEF Room
<1>4. e.weights \in Nat \ {0} /\ e.layers \in Nat \ {0}
  BY EntryNumbers
<1>5. Room(p, fixed) * e.layers \in Nat
  BY <1>3, <1>4
<1>6. (Room(p, fixed) * e.layers) \div e.weights \in Nat
  BY <1>4, <1>5, DivOf
<1>7. OnGpu(e, p, fixed) \in 1..e.layers
  <2> DEFINE fill == (Room(p, fixed) * e.layers) \div e.weights
  <2>1. OnGpu(e, p, fixed) = Max({1, Min({e.layers, fill})}) /\ fill \in Nat
    BY <1>6 DEF OnGpu
  <2> HIDE DEF fill
  <2>2. Max({1, Min({e.layers, fill})}) = IF fill = 0 THEN 1 ELSE IF e.layers <= fill THEN e.layers ELSE fill
    BY <1>4, <2>1, ClampIs
  <2> QED
    BY <1>4, <2>1, <2>2
<1> QED
  BY <1>3, <1>6, <1>7

(* Beyond the one layer that is always tried, what is moved to the GPU     *)
(* leaves its headroom free.                                               *)
LEMMA FilledFits ==
  ASSUME NEW e \in Entries, NEW p, IsProfile(p), p.free # <<>>, NEW fixed \in Nat,
         OnGpu(e, p, fixed) # 1
  PROVE  5 * (Moved(e, OnGpu(e, p, fixed)) + fixed) <= 4 * p.free[1]
<1> DEFINE n == OnGpu(e, p, fixed)
           room == Room(p, fixed)
           fill == (room * e.layers) \div e.weights
           safe == (4 * p.free[1]) \div 5
<1>1. e.weights \in Nat \ {0} /\ e.layers \in Nat \ {0}
  BY EntryNumbers
<1>2. room \in Nat /\ fill \in Nat /\ n \in 2..e.layers
  <2>1. room \in Nat /\ fill \in Nat /\ n \in 1..e.layers /\ n # 1
    BY OnGpuTypes
  <2> HIDE DEF room, fill, n
  <2> QED
    BY <1>1, <2>1
<1>3. p.free[1] \in Nat
  BY DEF IsProfile
<1>4. safe \in Nat /\ 5 * safe <= 4 * p.free[1]
  BY <1>3
<1>5. n <= fill
  <2>1. n = Max({1, Min({e.layers, fill})})
    BY DEF OnGpu
  <2> HIDE DEF n, fill
  <2> QED
    <3>1. n = IF fill = 0 THEN 1 ELSE IF e.layers <= fill THEN e.layers ELSE fill
      BY <1>1, <1>2, <2>1, ClampIs
    <3> QED
      BY <1>1, <1>2, <3>1
<1>6. fill * e.weights <= room * e.layers /\ room * e.layers \in Nat
  <2>1. room * e.layers \in Nat
    BY <1>1, <1>2
  <2>2. e.weights * fill <= room * e.layers
    BY <1>1, <2>1, DivOf
  <2>3. e.weights * fill = fill * e.weights
    BY <1>1, <1>2
  <2> QED
    BY <2>1, <2>2, <2>3
<1>7. n * e.weights <= room * e.layers
  <2>1. n * e.weights <= fill * e.weights /\ n * e.weights \in Nat /\ fill * e.weights \in Nat
    BY <1>1, <1>2, <1>5, TimesMonotone
  <2> HIDE DEF n, fill, room
  <2> QED
    BY <1>6, <2>1
<1>8. Moved(e, n) \in 0..room
  <2>1. n \in 1..e.layers
    BY <1>2
  <2> HIDE DEF n, fill, room, safe
  <2> QED
    BY <1>2, <1>7, <2>1, MovedFits
<1>9. room # 0
  <2>1. 2 * e.weights <= n * e.weights /\ n * e.weights \in Nat
    BY <1>1, <1>2, TimesMonotone
  <2> HIDE DEF n, fill, room
  <2>2. CASE room = 0
    <3>1. room * e.layers = 0
      BY <1>1, <2>2
    <3> QED
      BY <1>1, <1>7, <2>1, <3>1
  <2> QED
    BY <2>2
<1>10. room = safe - fixed
  <2>1. room = Max({0, safe - fixed})
    BY DEF Room
  <2> HIDE DEF room, safe
  <2> QED
    BY <1>4, <1>9, <2>1, MaxOfTwo
<1> HIDE DEF n, room, safe, fill
<1> QED
  BY <1>2, <1>3, <1>4, <1>8, <1>10 DEF n

(* A smaller cache never takes layers off the GPU.                         *)
LEMMA OnGpuMonotone ==
  ASSUME NEW e \in Entries, NEW p, IsProfile(p), p.free # <<>>,
         NEW fixed \in Nat, NEW less \in Nat, less <= fixed
  PROVE  OnGpu(e, p, fixed) <= OnGpu(e, p, less)
<1> DEFINE Fill(f) == (Room(p, f) * e.layers) \div e.weights
<1>1. e.weights \in Nat \ {0} /\ e.layers \in Nat \ {0}
  BY EntryNumbers
<1>2. Room(p, fixed) <= Room(p, less)
  <2> DEFINE safe == (4 * p.free[1]) \div 5
  <2>1. safe \in Int
    BY DEF IsProfile
  <2>2. Room(p, fixed) = Max({0, safe - fixed}) /\ Room(p, less) = Max({0, safe - less})
    BY DEF Room
  <2> HIDE DEF safe
  <2> DEFINE a == safe - fixed
             b == safe - less
  <2>3. a \in Int /\ b \in Int /\ a <= b
    BY <2>1
  <2> HIDE DEF a, b
  <2>4. Max({0, a}) <= Max({0, b})
    BY <2>3, MaxOfTwo
  <2> QED
    BY <2>2, <2>4 DEF a, b
<1>3. Room(p, fixed) \in Nat /\ Room(p, less) \in Nat /\ Fill(fixed) \in Nat /\ Fill(less) \in Nat
  BY OnGpuTypes
<1>4. /\ Room(p, fixed) * e.layers <= Room(p, less) * e.layers
      /\ Room(p, fixed) * e.layers \in Nat /\ Room(p, less) * e.layers \in Nat
  BY <1>1, <1>2, <1>3, TimesMonotone
<1>5. Fill(fixed) <= Fill(less)
  BY <1>1, <1>4, DivMonotone
<1>6. /\ OnGpu(e, p, fixed) = Max({1, Min({e.layers, Fill(fixed)})})
      /\ OnGpu(e, p, less) = Max({1, Min({e.layers, Fill(less)})})
  BY DEF OnGpu
<1> HIDE DEF Fill
<1>7. OnGpu(e, p, fixed) = IF Fill(fixed) = 0 THEN 1
                          ELSE IF e.layers <= Fill(fixed) THEN e.layers ELSE Fill(fixed)
  BY <1>1, <1>3, <1>6, ClampIs
<1>8. OnGpu(e, p, less) = IF Fill(less) = 0 THEN 1
                         ELSE IF e.layers <= Fill(less) THEN e.layers ELSE Fill(less)
  BY <1>1, <1>3, <1>6, ClampIs
<1> HIDE DEF OnGpu
<1> QED
  BY <1>1, <1>3, <1>5, <1>7, <1>8

-----------------------------------------------------------------------------
(* Planning: what fits.                                                     *)

Within(place, p) ==
  place.ram <= PlanningRam(p) /\ \A i \in DOMAIN place.vram : place.vram[i] <= p.free[i]

Headed(place, p) ==
  5 * place.ram <= 4 * PlanningRam(p) /\ \A i \in DOMAIN place.vram : 5 * place.vram[i] <= 4 * p.free[i]

Lighter(a, b, p) ==
  /\ a.ram <= b.ram
  /\ \A i \in DOMAIN p.free : a.vram[i] <= b.vram[i] \/ 5 * a.vram[i] <= 4 * p.free[i]

LEMMA PoolNumbers ==
  ASSUME NEW p, IsProfile(p), NEW place, IsPlace(place, p)
  PROVE  /\ place.ram \in Nat /\ DOMAIN place.vram = DOMAIN p.free
         /\ \A i \in DOMAIN p.free : place.vram[i] \in Nat /\ p.free[i] \in Nat
BY DEF IsProfile, IsPlace

LEMMA PoolFitIs ==
  ASSUME NEW p, IsProfile(p), NEW place, IsPlace(place, p)
  PROVE  /\ PoolFit(place, p) \in {"FIT", "RISKY", "NOFIT"}
         /\ PoolFit(place, p) # "NOFIT" <=> Within(place, p)
         /\ PoolFit(place, p) = "FIT" <=> Within(place, p) /\ Headed(place, p)
<1>1. /\ place.ram \in Nat /\ DOMAIN place.vram = DOMAIN p.free /\ PlanningRam(p) \in Nat
      /\ \A i \in DOMAIN p.free : place.vram[i] \in Nat /\ p.free[i] \in Nat
  BY PoolNumbers, PlanningRamType
<1>2. (place.ram > PlanningRam(p) \/ \E i \in DOMAIN place.vram : place.vram[i] > p.free[i])
        <=> ~Within(place, p)
  BY <1>1 DEF Within
<1>3. (5 * place.ram > 4 * PlanningRam(p)
       \/ \E i \in DOMAIN place.vram : 5 * place.vram[i] > 4 * p.free[i]) <=> ~Headed(place, p)
  BY <1>1 DEF Headed
<1> QED
  BY <1>2, <1>3 DEF PoolFit

LEMMA LighterFits ==
  ASSUME NEW p, IsProfile(p), NEW a, IsPlace(a, p), NEW b, IsPlace(b, p), Lighter(a, b, p)
  PROVE  /\ PoolFit(b, p) # "NOFIT" => PoolFit(a, p) # "NOFIT"
         /\ PoolFit(b, p) = "FIT" => PoolFit(a, p) = "FIT"
<1>1. /\ a.ram \in Nat /\ DOMAIN a.vram = DOMAIN p.free /\ PlanningRam(p) \in Nat
      /\ b.ram \in Nat /\ DOMAIN b.vram = DOMAIN p.free
      /\ \A i \in DOMAIN p.free : a.vram[i] \in Nat /\ b.vram[i] \in Nat /\ p.free[i] \in Nat
  BY PoolNumbers, PlanningRamType
<1>2. Within(b, p) => Within(a, p)
  BY <1>1 DEF Within, Lighter
<1>3. Headed(b, p) => Headed(a, p)
  BY <1>1 DEF Headed, Lighter
<1> QED
  BY <1>2, <1>3, PoolFitIs

LEMMA CpuPlace ==
  ASSUME NEW p, IsProfile(p), NEW e \in Entries, NEW kv \in Nat, NEW more \in Nat, kv <= more
  PROVE  /\ IsPlace(PlaceCpu(e, kv, p), p)
         /\ Lighter(PlaceCpu(e, kv, p), PlaceCpu(e, more, p), p)
<1>1. DOMAIN p.total = DOMAIN p.free
  BY DEF IsProfile
<1>2. e.weights \in Nat
  BY EntryNumbers
<1> DEFINE a == PlaceCpu(e, kv, p)
<1>3. /\ a = [ram |-> a.ram, vram |-> a.vram, layers |-> a.layers]
      /\ a.ram \in Nat \ {0} /\ a.vram \in [DOMAIN p.free -> Nat] /\ a.layers \in Nat
  BY <1>1, <1>2 DEF PlaceCpu, CpuOverhead
<1> HIDE DEF a
<1>4. IsPlace(a, p)
  BY <1>3, PlaceRecord
<1>5. Lighter(PlaceCpu(e, kv, p), PlaceCpu(e, more, p), p)
  BY <1>1, <1>2 DEF PlaceCpu, CpuOverhead, Lighter
<1> QED
  BY <1>4, <1>5 DEF a

LEMMA VllmPlace ==
  ASSUME NEW p, IsProfile(p), NEW e \in Entries, NEW kv \in Nat
  PROVE  IsPlace(PlaceVllm(e, kv, p), p)
<1>1. DOMAIN p.total = DOMAIN p.free /\ DOMAIN p.total = 1..Gpus(p) /\ Gpus(p) \in Nat
  BY DEF IsProfile, Gpus
<1>2. e.weights \in Nat
  BY EntryNumbers
<1>3. ASSUME NEW total \in Nat, NEW i \in DOMAIN p.total
      PROVE  Share(total, Gpus(p), i) \in Nat
  <2>1. Gpus(p) \in Nat \ {0} /\ i \in Nat
    BY <1>1
  <2>2. total \div Gpus(p) \in Nat
    BY <2>1, DivOf
  <2> QED
    BY <2>2 DEF Share
<1>4. ASSUME NEW i \in DOMAIN p.free
      PROVE  PlaceVllm(e, kv, p).vram[i] \in Nat
  <2>1. Share(e.weights, Gpus(p), i) \in Nat /\ Share(kv, Gpus(p), i) \in Nat
    BY <1>1, <1>2, <1>3
  <2>2. PlaceVllm(e, kv, p).vram[i] =
          Share(e.weights, Gpus(p), i) + Share(kv, Gpus(p), i) + GpuOverhead + CudaContext
    BY <1>1 DEF PlaceVllm
  <2> QED
    BY <2>1, <2>2 DEF GpuOverhead, CudaContext
<1>5. DOMAIN PlaceVllm(e, kv, p).vram = DOMAIN p.free
  BY <1>1 DEF PlaceVllm
<1>6. PlaceVllm(e, kv, p).ram \in Nat \ {0}
  BY DEF PlaceVllm, CpuOverhead
<1>7. PlaceVllm(e, kv, p).vram = [i \in DOMAIN p.free |-> PlaceVllm(e, kv, p).vram[i]]
  BY <1>1 DEF PlaceVllm
<1> DEFINE a == PlaceVllm(e, kv, p)
<1>8. a = [ram |-> a.ram, vram |-> a.vram, layers |-> a.layers] /\ a.layers \in Nat
  BY EntryNumbers DEF PlaceVllm
<1>9. a.ram \in Nat \ {0} /\ a.vram \in [DOMAIN p.free -> Nat]
  BY <1>4, <1>5, <1>6, <1>7
<1> HIDE DEF a
<1>10. IsPlace(a, p)
  BY <1>8, <1>9, PlaceRecord
<1> QED
  BY <1>10 DEF a

LEMMA OffloadPlace ==
  ASSUME NEW p, IsProfile(p), p.free # <<>>, NEW e \in Entries, NEW kvIn \in {"vram", "ram"},
         NEW kv \in Nat, NEW more \in Nat, kv <= more
  PROVE  /\ IsPlace(PlaceOffload(e, kv, p, kvIn), p)
         /\ Lighter(PlaceOffload(e, kv, p, kvIn), PlaceOffload(e, more, p, kvIn), p)
<1> DEFINE n == OnGpu(e, p, Fixed(kv, kvIn))
           o == OnGpu(e, p, Fixed(more, kvIn))
           a == PlaceOffload(e, kv, p, kvIn)
           b == PlaceOffload(e, more, p, kvIn)
<1>1. Fixed(kv, kvIn) \in Nat /\ Fixed(more, kvIn) \in Nat /\ Fixed(kv, kvIn) <= Fixed(more, kvIn)
  BY DEF Fixed, GpuOverhead, CudaContext
<1>2. n \in 1..e.layers /\ o \in 1..e.layers /\ o <= n
  BY <1>1, OnGpuTypes, OnGpuMonotone
<1>3. e.weights \in Nat /\ Moved(e, n) \in 0..e.weights /\ Moved(e, o) \in 0..e.weights
      /\ Moved(e, o) <= Moved(e, n)
  BY <1>2, EntryNumbers, MovedTypes, MovedMonotone
<1>4. n # 1 => 5 * (Moved(e, n) + Fixed(kv, kvIn)) <= 4 * p.free[1]
  BY <1>1, FilledFits
<1>5. n = 1 => o = 1
  BY <1>2, EntryNumbers
<1>6. /\ a.ram = (e.weights - Moved(e, n)) + (IF kvIn = "ram" THEN kv ELSE 0) + CpuOverhead
      /\ a.vram = [i \in DOMAIN p.free |-> IF i = 1 THEN Moved(e, n) + Fixed(kv, kvIn) ELSE 0]
      /\ a.layers = n /\ a = [ram |-> a.ram, vram |-> a.vram, layers |-> a.layers]
      /\ b.ram = (e.weights - Moved(e, o)) + (IF kvIn = "ram" THEN more ELSE 0) + CpuOverhead
      /\ b.vram = [i \in DOMAIN p.free |-> IF i = 1 THEN Moved(e, o) + Fixed(more, kvIn) ELSE 0]
  BY OffloadIs
<1> HIDE DEF a, b, n, o
<1>7. IsPlace(a, p)
  <2>1. a.ram \in Nat \ {0}
    BY <1>3, <1>6 DEF CpuOverhead
  <2>2. Moved(e, n) + Fixed(kv, kvIn) \in Nat
    BY <1>1, <1>3
  <2>3. a.vram \in [DOMAIN p.free -> Nat] /\ a.layers \in Nat
    BY <1>2, <1>6, <2>2, EntryNumbers
  <2> QED
    BY <1>6, <2>1, <2>3, PlaceRecord
<1>8. a.ram <= b.ram
  BY <1>3, <1>6 DEF CpuOverhead
<1>9. ASSUME NEW i \in DOMAIN p.free
      PROVE  a.vram[i] <= b.vram[i] \/ 5 * a.vram[i] <= 4 * p.free[i]
  <2>1. CASE i # 1
    BY <1>6, <2>1
  <2>2. CASE i = 1 /\ n = 1
    BY <1>1, <1>3, <1>5, <1>6, <2>2
  <2>3. CASE i = 1 /\ n # 1
    BY <1>4, <1>6, <2>3
  <2> QED
    BY <2>1, <2>2, <2>3
<1> QED
  BY <1>7, <1>8, <1>9 DEF Lighter, a, b

-----------------------------------------------------------------------------
(* Planning: the places by runtime, and the assessment.                     *)

Verdicts == {"FIT", "RISKY", "NOFIT"}
Offload == "llamacpp-gpu-offload"
LlamaBackends == {"llamacpp-cpu", Offload}
Backends == LlamaBackends \cup {"vllm-cuda"}

LEMMA Combined ==
  ASSUME NEW a \in Verdicts, NEW b \in Verdicts
  PROVE  /\ CombineStatus({a, b}) \in Verdicts
         /\ CombineStatus({a, b}) # "NOFIT" <=> a # "NOFIT" /\ b # "NOFIT"
         /\ CombineStatus({a, b}) = "FIT" <=> a = "FIT" /\ b = "FIT"
BY DEF CombineStatus, Verdicts

LEMMA DiskVerdict ==
  ASSUME NEW e, NEW p
  PROVE  DiskFit(e, p) \in Verdicts
BY DEF DiskFit, Verdicts

LEMMA RuntimeSelected ==
  ASSUME NEW e \in Entries, NEW p, IsProfile(p), SelectRuntime(e, p) # Nothing
  PROVE  /\ SelectRuntime(e, p) \in Backends
         /\ SelectRuntime(e, p) = Offload => p.free # <<>>
<1>1. Gpus(p) > 0 => p.free # <<>>
  BY DEF Gpus, IsProfile
<1>2. e.format \in {"gguf", "safetensors"}
  BY DEF Entries
<1>3. CASE e.format = "safetensors"
  BY <1>3 DEF SelectRuntime, Backends, Offload
<1>4. CASE e.format = "gguf"
  BY <1>1, <1>4 DEF SelectRuntime, Backends, LlamaBackends, Offload
<1> QED
  BY <1>2, <1>3, <1>4

LEMMA PlaceTypes ==
  ASSUME NEW e \in Entries, NEW p, IsProfile(p), NEW backend \in Backends,
         backend = Offload => p.free # <<>>,
         NEW context \in Nat, NEW parallel \in Nat, NEW cache \in CacheTypes, NEW kvIn \in {"vram", "ram"}
  PROVE  IsPlace(Place(e, p, backend, context, parallel, cache, kvIn), p)
<1> DEFINE kv == KvMemory(e, context, parallel, cache)
<1>1. kv \in Nat
  BY KvTypes
<1>2. kv <= kv
  BY <1>1
<1>3. CASE backend = "llamacpp-cpu"
  <2>1. Place(e, p, backend, context, parallel, cache, kvIn) = PlaceCpu(e, kv, p)
    BY <1>3 DEF Place
  <2> HIDE DEF kv
  <2> QED
    BY <1>1, <1>2, <2>1, CpuPlace
<1>4. CASE backend = "vllm-cuda"
  <2>1. Place(e, p, backend, context, parallel, cache, kvIn) = PlaceVllm(e, kv, p)
    BY <1>4 DEF Place
  <2> HIDE DEF kv
  <2> QED
    BY <1>1, <2>1, VllmPlace
<1>5. CASE backend = Offload
  <2>1. Place(e, p, backend, context, parallel, cache, kvIn) = PlaceOffload(e, kv, p, kvIn)
    BY <1>5 DEF Place, Offload
  <2> HIDE DEF kv
  <2> QED
    BY <1>1, <1>2, <1>5, <2>1, OffloadPlace
<1> QED
  BY <1>3, <1>4, <1>5 DEF Backends, LlamaBackends

(* The place of a llama.cpp server is lighter with a smaller cache.         *)
LEMMA PlaceMonotone ==
  ASSUME NEW e \in Entries, NEW p, IsProfile(p), NEW backend \in LlamaBackends,
         backend = Offload => p.free # <<>>,
         NEW small \in Nat, NEW large \in Nat, small <= large, NEW parallel \in Nat,
         NEW rough \in CacheTypes, NEW cache \in CacheTypes,
         CacheQuarters(rough) <= CacheQuarters(cache),
         NEW kvIn \in {"vram", "ram"}, NEW kvOther \in {"vram", "ram"},
         backend = Offload => kvIn = kvOther
  PROVE  Lighter(Place(e, p, backend, small, parallel, rough, kvIn),
                 Place(e, p, backend, large, parallel, cache, kvOther), p)
<1> DEFINE kv == KvMemory(e, small, parallel, rough)
           more == KvMemory(e, large, parallel, cache)
<1>1. kv \in Nat /\ more \in Nat /\ kv <= more
  BY KvTypes, KvMonotone
<1>2. CASE backend = "llamacpp-cpu"
  <2>1. /\ Place(e, p, backend, small, parallel, rough, kvIn) = PlaceCpu(e, kv, p)
        /\ Place(e, p, backend, large, parallel, cache, kvOther) = PlaceCpu(e, more, p)
    BY <1>2 DEF Place
  <2> HIDE DEF kv, more
  <2> QED
    BY <1>1, <2>1, CpuPlace
<1>3. CASE backend = Offload
  <2>1. /\ Place(e, p, backend, small, parallel, rough, kvIn) = PlaceOffload(e, kv, p, kvIn)
        /\ Place(e, p, backend, large, parallel, cache, kvOther) = PlaceOffload(e, more, p, kvIn)
    BY <1>3 DEF Place, Offload
  <2> HIDE DEF kv, more
  <2> QED
    BY <1>1, <1>3, <2>1, OffloadPlace
<1> QED
  BY <1>2, <1>3 DEF LlamaBackends

ListedPlace(e, p) ==
  Place(e, p, SelectRuntime(e, p), Min({e.maxContext, AssessedContext}), 1, "f16",
        IF p.kvOffload THEN "vram" ELSE "ram")

LEMMA AssessIs ==
  ASSUME NEW e \in Entries, NEW p, IsProfile(p)
  PROVE  /\ Assess(e, p).status \in Verdicts
         /\ Assess(e, p).backend = SelectRuntime(e, p)
         /\ Assess(e, p).status # "NOFIT" =>
              /\ SelectRuntime(e, p) # Nothing /\ SelectRuntime(e, p) \in Backends
              /\ Assess(e, p).place = ListedPlace(e, p) /\ IsPlace(ListedPlace(e, p), p)
              /\ PoolFit(ListedPlace(e, p), p) # "NOFIT" /\ DiskFit(e, p) # "NOFIT"
         /\ Assess(e, p).status = "FIT" =>
              PoolFit(ListedPlace(e, p), p) = "FIT" /\ DiskFit(e, p) = "FIT"
<1>1. CASE SelectRuntime(e, p) = Nothing
  <2>1. Assess(e, p) = [backend |-> Nothing, place |-> Nothing, status |-> "NOFIT"]
    BY <1>1 DEF Assess
  <2> QED
    BY <1>1, <2>1 DEF Verdicts
<1>2. CASE SelectRuntime(e, p) # Nothing
  <2>1. Assess(e, p) = [backend |-> SelectRuntime(e, p), place |-> ListedPlace(e, p),
                        status |-> CombineStatus({PoolFit(ListedPlace(e, p), p), DiskFit(e, p)})]
    BY <1>2 DEF Assess, ListedPlace
  <2>2. Min({e.maxContext, AssessedContext}) \in Nat
    BY EntryNumbers, MinOfTwo DEF AssessedContext
  <2>3. /\ SelectRuntime(e, p) \in Backends
        /\ SelectRuntime(e, p) = Offload => p.free # <<>>
    BY <1>2, RuntimeSelected
  <2>4. IsPlace(ListedPlace(e, p), p)
    <3>1. "f16" \in CacheTypes /\ (IF p.kvOffload THEN "vram" ELSE "ram") \in {"vram", "ram"}
      BY DEF CacheTypes
    <3> HIDE DEF IsPlace, IsProfile
    <3> QED
      BY <2>2, <2>3, <3>1, PlaceTypes DEF ListedPlace
  <2>5. PoolFit(ListedPlace(e, p), p) \in Verdicts
    BY <2>4, PoolFitIs DEF Verdicts
  <2>6. DiskFit(e, p) \in Verdicts
    BY DiskVerdict
  <2> QED
    BY <1>2, <2>1, <2>3, <2>4, <2>5, <2>6, Combined
<1> QED
  BY <1>1, <1>2

-----------------------------------------------------------------------------
(* Planning: the serving plan.  Of the sizes that are tried one is no      *)
(* larger than the one a model is listed with.                              *)

LEMMA SizesTried ==
  ASSUME NEW e \in Entries, NEW priority \in Presets
  PROVE  LET sizes == ContextCandidates(e, priority)
         IN  /\ DOMAIN sizes \subseteq 1..3
             /\ \A x \in DOMAIN sizes : sizes[x] \in 1..ContextCap /\ sizes[x] <= e.maxContext
             /\ \E x \in DOMAIN sizes : sizes[x] <= Min({e.maxContext, AssessedContext})
<1> DEFINE cap == Min({e.maxContext, ContextCap})
           of == Contexts(priority)
           low == {x \in DOMAIN of : of[x] <= cap}
           sizes == ContextCandidates(e, priority)
           most == Min({e.maxContext, AssessedContext})
<1>1. cap \in 1..ContextCap /\ cap <= e.maxContext /\ (cap = e.maxContext \/ cap = ContextCap)
  BY EntryNumbers, MinOfTwo DEF ContextCap
<1>2. most \in 1..AssessedContext /\ (most = e.maxContext \/ most = AssessedContext) /\ e.maxContext \in Nat
  BY EntryNumbers, MinOfTwo DEF AssessedContext
<1>3. /\ of \in {<<2, 1>>, <<4, 2, 1>>, <<8, 4, 2>>}
      /\ sizes = IF low = {} THEN <<Max({1, cap})>> ELSE [x \in low |-> of[x]]
  BY DEF Presets, Contexts, ContextCandidates
<1>4. Max({1, cap}) = cap
  <2> HIDE DEF cap
  <2>1. cap \in Int /\ cap >= 1
    BY <1>1 DEF ContextCap
  <2> QED
    BY <2>1, MaxOfTwo
<1> HIDE DEF cap, of, low, sizes, most
<1>5. DOMAIN of \subseteq 1..3 /\ \A x \in DOMAIN of : of[x] \in Nat \ {0}
  BY <1>3
<1>6. CASE low = {}
  <2>1. sizes = <<cap>>
    BY <1>3, <1>4, <1>6
  <2>2. DOMAIN sizes = {1} /\ sizes[1] = cap
    BY <2>1
  <2>3. cap <= most
    <3>1. ~(\E x \in DOMAIN of : of[x] <= cap)
      BY <1>6 DEF low
    <3>2. \E x \in DOMAIN of : of[x] \in {1, 2}
      BY <1>3
    <3>3. cap = 1
      BY <1>1, <3>1, <3>2 DEF ContextCap
    <3> QED
      BY <1>2, <3>3 DEF AssessedContext
  <2> QED
    BY <1>1, <2>2, <2>3 DEF sizes, most
<1>7. CASE low # {}
  <2>1. sizes = [x \in low |-> of[x]]
    BY <1>3, <1>7
  <2>2. \A x \in low : x \in DOMAIN of /\ of[x] <= cap
    BY DEF low
  <2>3. DOMAIN sizes \subseteq 1..3
    BY <1>5, <2>1, <2>2
  <2>4. \A x \in DOMAIN sizes : sizes[x] \in 1..ContextCap /\ sizes[x] <= e.maxContext
    BY <1>1, <1>2, <1>5, <2>1, <2>2 DEF ContextCap
  <2>5. \E x \in low : of[x] <= most
    <3>1. CASE \E x \in low : of[x] = 1
      BY <1>2, <3>1 DEF AssessedContext
    <3>2. CASE ~\E x \in low : of[x] = 1
      <4>1. \A x \in DOMAIN of : of[x] = 1 => x \in low
        BY <1>1 DEF low, ContextCap
      <4>2. of = <<8, 4, 2>>
        BY <1>3, <3>2, <4>1
      <4>3. cap >= 2
        BY <1>1, <1>7, <2>2, <4>2 DEF ContextCap
      <4>4. 3 \in low /\ of[3] = 2
        BY <4>2, <4>3 DEF low
      <4>5. most = 2
        BY <1>1, <1>2, <4>3 DEF AssessedContext, ContextCap
      <4> QED
        BY <4>4, <4>5
    <3> QED
      BY <3>1, <3>2
  <2> QED
    BY <2>1, <2>3, <2>4, <2>5 DEF sizes, most
<1> QED
  BY <1>6, <1>7

(* What a setting that was tried is made of.                                *)
LEMMA TriedIs ==
  ASSUME NEW e \in Entries, NEW p, IsProfile(p), NEW priority \in Presets,
         NEW backend \in LlamaBackends, backend = Offload => p.free # <<>>,
         NEW t \in Tried(e, p, priority, backend)
  PROVE  /\ t.turn \in Nat /\ t.parallel \in 1..4 /\ t.cache \in CacheTypes
         /\ t.context \in 1..ContextCap /\ t.context <= e.maxContext
         /\ IsPlace(t.place, p)
         /\ \E kvIn \in {"vram", "ram"} :
              t.place = Place(e, p, backend, t.context, t.parallel, t.cache, kvIn)
         /\ t.status = CombineStatus({PoolFit(t.place, p), DiskFit(e, p)})
<1> DEFINE sizes == ContextCandidates(e, priority)
           most == TargetConcurrency(priority)
           caches == Caches(priority)
           kvs == KvPlacements(p, backend)
           settings == [cache : DOMAIN caches, size : DOMAIN sizes, kv : DOMAIN kvs, parallel : 1..most]
           place(s, n) == Place(e, p, backend, sizes[s.size], n, caches[s.cache], kvs[s.kv])
<1>1. PICK s \in settings :
        t = [turn |-> ((s.cache * 4 + s.size) * 4 + s.kv) * 8 + (most - s.parallel),
             cache |-> caches[s.cache], context |-> sizes[s.size], kvIn |-> kvs[s.kv],
             parallel |-> s.parallel, place |-> place(s, s.parallel),
             status |-> CombineStatus({PoolFit(place(s, s.parallel), p), DiskFit(e, p)})]
  BY DEF Tried
<1>2. /\ DOMAIN sizes \subseteq 1..3
      /\ \A x \in DOMAIN sizes : sizes[x] \in 1..ContextCap /\ sizes[x] <= e.maxContext
  BY SizesTried
<1>3. most \in 1..4
  BY DEF Presets, TargetConcurrency
<1>4. DOMAIN caches = 1..2 /\ caches[1] \in CacheTypes /\ caches[2] \in CacheTypes
  BY DEF Caches, CacheTypes
<1>5. DOMAIN kvs \subseteq 1..2 /\ \A k \in DOMAIN kvs : kvs[k] \in {"vram", "ram"}
  <2>1. kvs = <<"vram", "ram">> \/ kvs = <<"ram">>
    BY DEF KvPlacements
  <2> HIDE DEF kvs
  <2> QED
    BY <2>1
<1> HIDE DEF sizes, most, caches, kvs
<1>6. s.cache \in 1..2 /\ s.size \in DOMAIN sizes /\ s.kv \in DOMAIN kvs /\ s.parallel \in 1..most
  BY <1>4
<1>7. t.turn = ((s.cache * 4 + s.size) * 4 + s.kv) * 8 + (most - s.parallel)
  BY <1>1
<1>8. /\ t.parallel = s.parallel /\ t.cache = caches[s.cache] /\ t.context = sizes[s.size]
      /\ t.place = place(s, s.parallel)
      /\ t.status = CombineStatus({PoolFit(place(s, s.parallel), p), DiskFit(e, p)})
  BY <1>1
<1>9. t.turn \in Nat
  <2>1. s.cache \in Nat /\ s.size \in Nat /\ s.kv \in Nat /\ s.parallel \in Nat /\ s.parallel <= most /\ most \in Nat
    BY <1>2, <1>3, <1>5, <1>6
  <2> QED
    BY <1>7, <2>1
<1>10. /\ caches[s.cache] \in CacheTypes /\ kvs[s.kv] \in {"vram", "ram"}
       /\ sizes[s.size] \in 1..ContextCap /\ sizes[s.size] <= e.maxContext /\ s.parallel \in 1..4
  BY <1>2, <1>3, <1>4, <1>5, <1>6
<1>11. IsPlace(place(s, s.parallel), p)
  <2>1. sizes[s.size] \in Nat /\ s.parallel \in Nat /\ backend \in Backends
    BY <1>10 DEF ContextCap, Backends
  <2> QED
    BY <1>10, <2>1, PlaceTypes
<1> QED
  BY <1>8, <1>9, <1>10, <1>11

(* What was listed can be served: some setting is lighter than the one the  *)
(* list was made with.                                                      *)
LEMMA SomeSettingFits ==
  ASSUME NEW e \in Entries, NEW p, IsProfile(p), NEW priority \in Presets,
         SelectRuntime(e, p) \in LlamaBackends, Assess(e, p).status # "NOFIT"
  PROVE  \E t \in Tried(e, p, priority, SelectRuntime(e, p)) :
           /\ t.status # "NOFIT"
           /\ Assess(e, p).status = "FIT" => t.status = "FIT"
<1> DEFINE backend == SelectRuntime(e, p)
           sizes == ContextCandidates(e, priority)
           most == TargetConcurrency(priority)
           caches == Caches(priority)
           kvs == KvPlacements(p, backend)
           settings == [cache : DOMAIN caches, size : DOMAIN sizes, kv : DOMAIN kvs, parallel : 1..most]
           place(s, n) == Place(e, p, backend, sizes[s.size], n, caches[s.cache], kvs[s.kv])
           listed == ListedPlace(e, p)
<1>1. /\ PoolFit(listed, p) # "NOFIT" /\ DiskFit(e, p) # "NOFIT" /\ IsPlace(listed, p)
      /\ Assess(e, p).status = "FIT" => PoolFit(listed, p) = "FIT" /\ DiskFit(e, p) = "FIT"
      /\ backend # Nothing
  BY AssessIs
<1>2. backend = Offload => p.free # <<>>
  BY <1>1, RuntimeSelected
<1>3. \A y \in DOMAIN sizes : sizes[y] \in 1..ContextCap
  BY SizesTried
<1>4. \E y \in DOMAIN sizes : sizes[y] <= Min({e.maxContext, AssessedContext})
  BY SizesTried
<1>5. DOMAIN caches = 1..2 /\ caches[1] \in {"f16", "q8_0"}
  BY DEF Caches
<1>6. /\ 1 \in DOMAIN kvs /\ kvs[1] \in {"vram", "ram"}
      /\ backend = Offload => kvs[1] = IF p.kvOffload THEN "vram" ELSE "ram"
  <2>1. CASE backend = Offload /\ p.kvOffload
    <3>1. kvs = <<"vram", "ram">>
      BY <2>1 DEF KvPlacements, Offload
    <3> QED
      BY <2>1, <3>1
  <2>2. CASE ~(backend = Offload /\ p.kvOffload)
    <3>1. kvs = <<"ram">>
      BY <2>2 DEF KvPlacements, Offload
    <3> QED
      BY <2>2, <3>1
  <2> QED
    BY <2>1, <2>2
<1>7. 1 \in 1..most
  BY DEF Presets, TargetConcurrency
<1> HIDE DEF sizes, caches, kvs, most, backend
<1> PICK x \in DOMAIN sizes : sizes[x] <= Min({e.maxContext, AssessedContext})
  BY <1>4
<1> DEFINE s == [cache |-> 1, size |-> x, kv |-> 1, parallel |-> 1]
<1>8. s \in settings
  <2>1. 1 \in DOMAIN caches
    BY <1>5
  <2>2. 1 \in DOMAIN kvs /\ x \in DOMAIN sizes
    BY <1>6
  <2> DEFINE C == DOMAIN caches
             S == DOMAIN sizes
             K == DOMAIN kvs
             N == 1..most
  <2>3. 1 \in C /\ x \in S /\ 1 \in K /\ 1 \in N
    BY <1>7, <2>1, <2>2
  <2> HIDE DEF C, S, K, N
  <2>4. s \in [cache : C, size : S, kv : K, parallel : N]
    BY <2>3
  <2> QED
    BY <2>4 DEF C, S, K, N
<1>9. place(s, 1) = Place(e, p, backend, sizes[x], 1, caches[1], kvs[1])
  OBVIOUS
<1> DEFINE here == Place(e, p, backend, sizes[x], 1, caches[1], kvs[1])
<1>10. IsPlace(here, p) /\ Lighter(here, listed, p)
  <2> DEFINE size == sizes[x]
             cache == caches[1]
             kvIn == kvs[1]
             most2 == Min({e.maxContext, AssessedContext})
             kvOther == IF p.kvOffload THEN "vram" ELSE "ram"
  <2>1. size \in Nat /\ size <= most2
    BY <1>3 DEF ContextCap
  <2>2. most2 \in Nat
    BY EntryNumbers, MinOfTwo DEF AssessedContext
  <2>3. /\ cache \in CacheTypes /\ CacheQuarters(cache) <= CacheQuarters("f16") /\ "f16" \in CacheTypes
    BY <1>5, QuartersOf DEF CacheTypes
  <2>4. /\ kvIn \in {"vram", "ram"} /\ kvOther \in {"vram", "ram"}
        /\ backend = Offload => kvIn = kvOther
    <3>1. kvOther \in {"vram", "ram"}
      OBVIOUS
    <3> HIDE DEF kvOther
    <3>2. kvIn \in {"vram", "ram"}
      BY <1>6
    <3>3. backend = Offload => kvIn = kvOther
      BY <1>6 DEF kvOther
    <3> QED
      BY <3>1, <3>2, <3>3
  <2>5. backend \in LlamaBackends /\ backend \in Backends
    BY DEF backend, Backends
  <2>6. listed = Place(e, p, backend, most2, 1, "f16", kvOther)
    BY DEF ListedPlace, backend
  <2>7. here = Place(e, p, backend, size, 1, cache, kvIn)
    OBVIOUS
  <2>8. 1 \in Nat
    OBVIOUS
  <2> HIDE DEF size, cache, kvIn, most2, kvOther, listed, here
  <2>9. Lighter(here, listed, p)
    BY <1>2, <2>1, <2>2, <2>3, <2>4, <2>5, <2>6, <2>7, <2>8, PlaceMonotone
  <2>10. IsPlace(here, p)
    BY <1>2, <2>1, <2>3, <2>4, <2>5, <2>7, <2>8, PlaceTypes
  <2> QED
    BY <2>9, <2>10
<1> HIDE DEF here, listed
<1>11. /\ PoolFit(here, p) # "NOFIT" /\ PoolFit(here, p) \in Verdicts
       /\ Assess(e, p).status = "FIT" => PoolFit(here, p) = "FIT"
  BY <1>1, <1>10, LighterFits, PoolFitIs DEF Verdicts
<1> DEFINE verdict == CombineStatus({PoolFit(here, p), DiskFit(e, p)})
<1>12. /\ verdict # "NOFIT"
       /\ Assess(e, p).status = "FIT" => verdict = "FIT"
  BY <1>1, <1>11, Combined, DiskVerdict
<1>13. s.parallel = 1
  OBVIOUS
<1>14. s \in {z \in settings : PoolFit(place(z, 1), p) # "NOFIT"}
  BY <1>8, <1>9, <1>11 DEF here
<1> DEFINE t == [turn |-> ((s.cache * 4 + s.size) * 4 + s.kv) * 8 + (most - s.parallel),
                 cache |-> caches[s.cache], context |-> sizes[s.size], kvIn |-> kvs[s.kv],
                 parallel |-> s.parallel, place |-> place(s, s.parallel),
                 status |-> CombineStatus({PoolFit(place(s, s.parallel), p), DiskFit(e, p)})]
<1>15. t \in Tried(e, p, priority, backend)
  <2> HIDE DEF s
  <2> QED
    BY <1>14 DEF Tried, sizes, caches, kvs, most
<1>16. t.status = verdict
  BY <1>9, <1>13 DEF here
<1> HIDE DEF t, verdict
<1> QED
  BY <1>12, <1>15, <1>16 DEF backend

(* The first of what was tried exists.                                      *)
LEMMA FirstIs ==
  ASSUME NEW tries, tries # {}, \A t \in tries : t.turn \in Nat
  PROVE  First(tries) \in tries
<1> DEFINE turns == {t.turn : t \in tries}
<1>1. turns \in SUBSET Nat /\ turns # {}
  OBVIOUS
<1>2. PICK n \in turns : \A m \in turns : n <= m
  BY <1>1, LeastNatural
<1>3. \E t \in tries : \A u \in tries : t.turn <= u.turn
  BY <1>2
<1> QED
  BY <1>3 DEF First

(* A plan that keeps what was listed.                                       *)
Keeps(s, e, p) ==
  /\ s \in Plans /\ s # Nothing
  /\ s.parallel \in 1..4 /\ s.context \in 1..ContextCap /\ s.context <= e.maxContext
  /\ s.status = Assess(e, p).status
  /\ Within(s.place, p)
  /\ s.status = "FIT" => Headed(s.place, p)

(* A setting of the listed verdict makes a plan that keeps it.             *)
LEMMA KeepsIf ==
  ASSUME NEW e \in Entries, NEW p, IsProfile(p), NEW s, NEW backend \in Backends,
         NEW context \in 1..ContextCap, context <= e.maxContext, NEW parallel \in 1..4,
         NEW cache \in CacheTypes, NEW place, IsPlace(place, p),
         LET verdict == CombineStatus({PoolFit(place, p), DiskFit(e, p)})
         IN  verdict # "NOFIT" /\ (Assess(e, p).status = "FIT" => verdict = "FIT"),
         s = [backend |-> backend, context |-> context, parallel |-> parallel, cache |-> cache,
              place |-> place, status |-> Assess(e, p).status]
  PROVE  Keeps(s, e, p)
<1>1. /\ PoolFit(place, p) \in Verdicts /\ DiskFit(e, p) \in Verdicts
      /\ Assess(e, p).status \in Verdicts
  BY PoolFitIs, DiskVerdict, AssessIs DEF Verdicts
<1>2. /\ PoolFit(place, p) # "NOFIT"
      /\ Assess(e, p).status = "FIT" => PoolFit(place, p) = "FIT"
  BY <1>1, Combined
<1>3. Within(place, p) /\ (Assess(e, p).status = "FIT" => Headed(place, p))
  BY <1>2, PoolFitIs
<1>4. s \in Plans
  <2>1. /\ backend \in {"llamacpp-cpu", "llamacpp-gpu-offload", "vllm-cuda"}
        /\ cache \in {"f16", "q8_0", "q4_0"} /\ Assess(e, p).status \in {"FIT", "RISKY", "NOFIT"}
    BY <1>1 DEF Backends, LlamaBackends, Offload, CacheTypes, Verdicts
  <2>2. place \in [ram : Nat, vram : Seq(Nat), layers : Nat]
    BY DEF IsPlace, Places
  <2>3. context \in Nat /\ parallel \in Nat
    BY DEF ContextCap
  <2> QED
    BY <2>1, <2>2, <2>3 DEF Plans
<1>5. s # Nothing
  BY <1>4, PlanningAssumption
<1>6. s.parallel = parallel /\ s.context = context /\ s.place = place /\ s.status = Assess(e, p).status
  OBVIOUS
<1> QED
  BY <1>3, <1>4, <1>5, <1>6 DEF Keeps

(* llama.cpp always has one, vLLM may have none.                            *)
LEMMA LlamaKeeps ==
  ASSUME NEW e \in Entries, NEW p, IsProfile(p), NEW priority \in Presets,
         SelectRuntime(e, p) \in LlamaBackends, Assess(e, p).status # "NOFIT"
  PROVE  Keeps(PlanLlamacpp(e, p, priority, Assess(e, p)), e, p)
<1> DEFINE backend == SelectRuntime(e, p)
           tries == Tried(e, p, priority, backend)
           fit == {t \in tries : t.status = "FIT"}
           risky == {t \in tries : t.status = "RISKY"}
           listed == Assess(e, p)
<1>1. listed.backend = backend /\ (backend = Offload => p.free # <<>>) /\ backend \in Backends
  BY AssessIs, RuntimeSelected DEF Backends
<1> HIDE DEF backend
<1>2. \A t \in tries :
        /\ t.turn \in Nat /\ t.parallel \in 1..4 /\ t.cache \in CacheTypes
        /\ t.context \in 1..ContextCap /\ t.context <= e.maxContext
        /\ IsPlace(t.place, p)
        /\ t.status = CombineStatus({PoolFit(t.place, p), DiskFit(e, p)})
  BY <1>1, TriedIs DEF backend
<1>3. ASSUME NEW t \in tries PROVE t.status \in Verdicts
  <2>1. PoolFit(t.place, p) \in Verdicts /\ DiskFit(e, p) \in Verdicts
    BY <1>2, PoolFitIs, DiskVerdict DEF Verdicts
  <2>2. CombineStatus({PoolFit(t.place, p), DiskFit(e, p)}) \in Verdicts
    BY <2>1, Combined
  <2> QED
    BY <1>2, <2>2
<1>4. \E t \in tries : t.status # "NOFIT" /\ (listed.status = "FIT" => t.status = "FIT")
  BY SomeSettingFits DEF backend
<1>5. PlanLlamacpp(e, p, priority, listed) =
        CASE fit # {} -> PlanOf(First(fit), backend, listed.status)
          [] fit = {} /\ risky # {} /\ listed.status # "FIT" -> PlanOf(First(risky), backend, listed.status)
          [] OTHER -> Nothing
  BY <1>1 DEF PlanLlamacpp
<1> HIDE DEF tries, listed
<1>6. ASSUME NEW t \in tries, t.status # "NOFIT", listed.status = "FIT" => t.status = "FIT"
      PROVE  Keeps(PlanOf(t, backend, listed.status), e, p)
  <2>1. PlanOf(t, backend, listed.status) =
          [backend |-> backend, context |-> t.context, parallel |-> t.parallel, cache |-> t.cache,
           place |-> t.place, status |-> Assess(e, p).status]
    BY DEF PlanOf, listed
  <2> DEFINE s == PlanOf(t, backend, listed.status)
             context == t.context
             parallel == t.parallel
             cache == t.cache
             place == t.place
             verdict == CombineStatus({PoolFit(place, p), DiskFit(e, p)})
  <2>2. /\ context \in 1..ContextCap /\ context <= e.maxContext /\ parallel \in 1..4 /\ cache \in CacheTypes
        /\ IsPlace(place, p)
    BY <1>2
  <2>3. verdict # "NOFIT" /\ (Assess(e, p).status = "FIT" => verdict = "FIT")
    BY <1>2, <1>6 DEF listed
  <2>4. s = [backend |-> backend, context |-> context, parallel |-> parallel, cache |-> cache,
             place |-> place, status |-> Assess(e, p).status]
    BY <2>1
  <2> HIDE DEF s, context, parallel, cache, place
  <2>5. Keeps(s, e, p)
    BY <1>1, <2>2, <2>3, <2>4, KeepsIf
  <2> QED
    BY <2>5 DEF s
<1>7. CASE fit # {}
  <2>1. First(fit) \in fit
    BY <1>2, <1>7, FirstIs
  <2> HIDE DEF fit, risky
  <2>2. PlanLlamacpp(e, p, priority, listed) = PlanOf(First(fit), backend, listed.status)
    BY <1>5, <1>7
  <2>3. First(fit) \in tries /\ First(fit).status = "FIT"
    BY <2>1 DEF fit
  <2> QED
    BY <1>6, <2>2, <2>3 DEF listed
<1>8. CASE fit = {}
  <2>1. risky # {} /\ listed.status # "FIT"
    BY <1>3, <1>4, <1>8 DEF Verdicts
  <2>2. First(risky) \in risky
    BY <1>2, <2>1, FirstIs
  <2> HIDE DEF fit, risky
  <2>3. PlanLlamacpp(e, p, priority, listed) = PlanOf(First(risky), backend, listed.status)
    BY <1>5, <1>8, <2>1
  <2>4. First(risky) \in tries /\ First(risky).status = "RISKY"
    BY <2>2 DEF risky
  <2> QED
    BY <1>6, <2>1, <2>3, <2>4 DEF listed
<1> QED
  BY <1>7, <1>8

LEMMA VllmKeeps ==
  ASSUME NEW e \in Entries, NEW p, IsProfile(p), NEW priority \in Presets,
         SelectRuntime(e, p) = "vllm-cuda",
         PlanVllm(e, p, priority, Assess(e, p)) # Nothing
  PROVE  Keeps(PlanVllm(e, p, priority, Assess(e, p)), e, p)
<1> DEFINE sizes == {Contexts(priority)[1], e.maxContext, ContextCap}
           context == Min(sizes)
           parallel == TargetConcurrency(priority)
           place == Place(e, p, "vllm-cuda", context, parallel, "f16", "vram")
           verdict == CombineStatus({PoolFit(place, p), DiskFit(e, p)})
           s == PlanVllm(e, p, priority, Assess(e, p))
<1>1. s = IF verdict = "NOFIT" \/ (Assess(e, p).status = "FIT" /\ verdict # "FIT") THEN Nothing
          ELSE [backend |-> "vllm-cuda", context |-> context, parallel |-> parallel, cache |-> "f16",
                place |-> place, status |-> Assess(e, p).status]
  BY DEF PlanVllm
<1>2. context \in 1..ContextCap /\ context <= e.maxContext
  <2>1. sizes \in SUBSET (Nat \ {0}) /\ sizes # {} /\ e.maxContext \in sizes /\ ContextCap \in sizes
    BY EntryNumbers DEF Presets, Contexts, ContextCap
  <2> HIDE DEF sizes
  <2>2. context \in sizes /\ \A y \in sizes : context <= y
    BY <2>1, MinOfNaturals
  <2> HIDE DEF context
  <2>3. context \in Nat \ {0} /\ context <= ContextCap /\ context <= e.maxContext
    BY <2>1, <2>2
  <2> QED
    BY <2>3 DEF ContextCap
<1>3. parallel \in 1..4
  BY DEF Presets, TargetConcurrency
<1>4. IsPlace(place, p)
  <2>1. /\ "vllm-cuda" \in Backends /\ "vllm-cuda" # Offload /\ "f16" \in CacheTypes /\ "vram" \in {"vram", "ram"}
    BY DEF Backends, Offload, CacheTypes
  <2>2. context \in Nat /\ parallel \in Nat
    BY <1>2, <1>3 DEF ContextCap
  <2> HIDE DEF context, parallel
  <2> QED
    BY <2>1, <2>2, PlaceTypes
<1> HIDE DEF context, parallel, place
<1>5. /\ verdict # "NOFIT" /\ (Assess(e, p).status = "FIT" => verdict = "FIT")
      /\ s = [backend |-> "vllm-cuda", context |-> context, parallel |-> parallel, cache |-> "f16",
              place |-> place, status |-> Assess(e, p).status]
  <2> HIDE DEF verdict
  <2> QED
    BY <1>1
<1> HIDE DEF s
<1>6. "vllm-cuda" \in Backends /\ "f16" \in CacheTypes
  BY DEF Backends, CacheTypes
<1>7. Keeps(s, e, p)
  BY <1>2, <1>3, <1>4, <1>5, <1>6, KeepsIf
<1> QED
  BY <1>7 DEF s

(* Only vLLM refuses what was listed.                                       *)
LEMMA BuiltKeeps ==
  ASSUME NEW e \in Entries, NEW p, IsProfile(p), NEW priority \in Presets,
         Assess(e, p).status # "NOFIT"
  PROVE  LET built == BuildServingPlan(e, p, priority, Assess(e, p))
         IN  \/ built = Nothing /\ Assess(e, p).backend = "vllm-cuda"
             \/ Keeps(built, e, p)
<1>1. Assess(e, p).backend = SelectRuntime(e, p) /\ SelectRuntime(e, p) \in Backends
  BY AssessIs
<1>2. CASE SelectRuntime(e, p) = "vllm-cuda"
  BY <1>1, <1>2, VllmKeeps DEF BuildServingPlan
<1>3. CASE SelectRuntime(e, p) # "vllm-cuda"
  <2>1. SelectRuntime(e, p) \in LlamaBackends
    BY <1>1, <1>3 DEF Backends
  <2>2. Keeps(PlanLlamacpp(e, p, priority, Assess(e, p)), e, p)
    BY <2>1, LlamaKeeps
  <2> QED
    BY <1>1, <1>3, <2>2 DEF BuildServingPlan
<1> QED
  BY <1>2, <1>3

-----------------------------------------------------------------------------
(* Planning: the ranking.  Keys of one length are ordered by the first     *)
(* place they differ at.                                                    *)

LEMMA AboveTotal ==
  ASSUME NEW L \in Nat, NEW s \in [1..L -> Int], NEW t \in [1..L -> Int], s # t
  PROVE  Above(s, t) \/ Above(t, s)
<1> DEFINE differ == {i \in 1..L : s[i] # t[i]}
<1>1. differ \in SUBSET Nat /\ differ # {}
  OBVIOUS
<1>2. PICK i \in differ : \A j \in differ : i <= j
  BY <1>1, LeastNatural
<1>3. i \in 1..L /\ s[i] # t[i] /\ s[i] \in Int /\ t[i] \in Int
  OBVIOUS
<1>4. \A j \in 1..(i - 1) : s[j] = t[j]
  <2> TAKE j \in 1..(i - 1)
  <2>1. j \in 1..L /\ ~(i <= j)
    BY <1>3
  <2>2. j \notin differ
    BY <1>2, <2>1
  <2> QED
    BY <2>1, <2>2
<1>5. s[i] > t[i] \/ t[i] > s[i]
  BY <1>3
<1>6. DOMAIN s = 1..L /\ DOMAIN t = 1..L
  OBVIOUS
<1> HIDE DEF differ
<1> QED
  BY <1>3, <1>4, <1>5, <1>6 DEF Above

LEMMA AboveOrders ==
  ASSUME NEW L \in Nat, NEW s \in [1..L -> Int], NEW t \in [1..L -> Int], NEW u \in [1..L -> Int],
         Above(s, t)
  PROVE  /\ ~Above(t, s) /\ s # t
         /\ Above(t, u) => Above(s, u)
<1>1. DOMAIN s = 1..L /\ DOMAIN t = 1..L /\ DOMAIN u = 1..L
  OBVIOUS
<1>2. PICK i \in 1..L : s[i] > t[i] /\ \A j \in 1..(i - 1) : s[j] = t[j]
  BY <1>1 DEF Above
<1>3. \A j \in 1..L : s[j] \in Int /\ t[j] \in Int /\ u[j] \in Int
  OBVIOUS
<1>4. s # t
  BY <1>2, <1>3
<1>5. ASSUME NEW k \in 1..L, t[k] > s[k], \A j \in 1..(k - 1) : t[j] = s[j]
      PROVE  FALSE
  <2>1. CASE k < i
    <3>1. k \in 1..(i - 1)
      BY <2>1
    <3> QED
      BY <1>2, <1>3, <1>5, <3>1
  <2>2. CASE k = i
    BY <1>2, <1>3, <1>5, <2>2
  <2>3. CASE i < k
    <3>1. i \in 1..(k - 1)
      BY <2>3
    <3> QED
      BY <1>2, <1>3, <1>5, <3>1
  <2> QED
    BY <2>1, <2>2, <2>3
<1>6. ~Above(t, s)
  BY <1>1, <1>5 DEF Above
<1>7. ASSUME NEW k \in 1..L, t[k] > u[k], \A j \in 1..(k - 1) : t[j] = u[j]
      PROVE  Above(s, u)
  <2>1. CASE k < i
    <3>1. k \in 1..(i - 1) /\ \A j \in 1..(k - 1) : j \in 1..(i - 1)
      BY <2>1
    <3>2. s[k] > u[k] /\ \A j \in 1..(k - 1) : s[j] = u[j]
      BY <1>2, <1>3, <1>7, <3>1
    <3> QED
      BY <1>1, <3>2 DEF Above
  <2>2. CASE k = i
    <3>1. s[i] > u[i] /\ \A j \in 1..(i - 1) : s[j] = u[j]
      BY <1>2, <1>3, <1>7, <2>2
    <3> QED
      BY <1>1, <3>1 DEF Above
  <2>3. CASE i < k
    <3>1. i \in 1..(k - 1) /\ \A j \in 1..(i - 1) : j \in 1..(k - 1)
      BY <2>3
    <3>2. s[i] > u[i] /\ \A j \in 1..(i - 1) : s[j] = u[j]
      BY <1>2, <1>3, <1>7, <3>1
    <3> QED
      BY <1>1, <3>2 DEF Above
  <2> QED
    BY <2>1, <2>2, <2>3
<1>8. Above(t, u) => Above(s, u)
  BY <1>1, <1>7 DEF Above
<1> QED
  BY <1>4, <1>6, <1>8

Beats(K, n, o) == Above(K[n], K[o]) \/ (K[n] = K[o] /\ n < o)

(* Of finitely many numbered keys one is the highest.                       *)
LEMMA HighestExists ==
  ASSUME NEW L \in Nat, NEW k \in Nat, NEW ns \in SUBSET (1..k), ns # {},
         NEW K \in [ns -> [1..L -> Int]]
  PROVE  \E n \in ns : \A o \in ns \ {n} : Beats(K, n, o)
<1> DEFINE Has(T) == \E n \in T : \A o \in T \ {n} : Beats(K, n, o)
           good == {j \in Nat : \A T \in SUBSET (ns \cap 1..j) : T # {} => Has(T)}
<1>1. 0 \in good
  <2>1. \A T \in SUBSET (ns \cap 1..0) : T = {}
    OBVIOUS
  <2> HIDE DEF Has
  <2> QED
    BY <2>1
<1>2. ASSUME NEW j \in Nat, j \in good
      PROVE  j + 1 \in good
  <2>1. SUFFICES ASSUME NEW T \in SUBSET (ns \cap 1..(j + 1)), T # {}
                 PROVE  Has(T)
    OBVIOUS
  <2>2. CASE j + 1 \notin T
    <3>1. T \in SUBSET (ns \cap 1..j)
      BY <2>2
    <3> QED
      BY <1>2, <2>1, <3>1
  <2>3. CASE j + 1 \in T /\ T \ {j + 1} = {}
    BY <2>3
  <2>4. CASE j + 1 \in T /\ T \ {j + 1} # {}
    <3> DEFINE R == T \ {j + 1}
               new == j + 1
    <3>1. R \in SUBSET (ns \cap 1..j) /\ R # {}
      BY <2>4
    <3>2. PICK m \in R : \A o \in R \ {m} : Beats(K, m, o)
      BY <1>2, <3>1
    <3>3. /\ m \in ns /\ new \in ns /\ m < new /\ m \in T /\ new \in T
          /\ \A o \in T : o = new \/ o \in R
          /\ \A o \in R : o \in ns
      BY <2>4, <3>1
    <3>4. \A o \in ns : K[o] \in [1..L -> Int]
      OBVIOUS
    <3> HIDE DEF R, new, Has, good
    <3>5. CASE K[m] = K[new] \/ Above(K[m], K[new])
      <4>1. Beats(K, m, new)
        BY <3>3, <3>5 DEF Beats
      <4>2. \A o \in T \ {m} : Beats(K, m, o)
        BY <3>2, <3>3, <4>1
      <4> QED
        BY <3>3, <4>2 DEF Has
    <3>6. CASE Above(K[new], K[m])
      <4>1. ASSUME NEW o \in T \ {new} PROVE Above(K[new], K[o])
        <5>1. o \in R /\ o \in ns
          BY <3>3, <4>1
        <5>2. CASE o = m
          BY <3>6, <5>2
        <5>3. CASE o # m
          <6>1. Above(K[m], K[o]) \/ K[m] = K[o]
            BY <3>2, <5>1, <5>3 DEF Beats
          <6>2. K[new] \in [1..L -> Int] /\ K[m] \in [1..L -> Int] /\ K[o] \in [1..L -> Int]
            BY <3>3, <3>4, <5>1
          <6> DEFINE a == K[new]
                     b == K[m]
                     c == K[o]
          <6>3. a \in [1..L -> Int] /\ b \in [1..L -> Int] /\ c \in [1..L -> Int] /\ Above(a, b)
            BY <3>6, <6>2
          <6>4. Above(b, c) \/ b = c
            BY <6>1
          <6> HIDE DEF a, b, c
          <6>5. Above(a, c)
            BY <6>3, <6>4, AboveOrders
          <6> QED
            BY <6>5 DEF a, c
        <5> QED
          BY <5>2, <5>3
      <4> QED
        BY <3>3, <4>1 DEF Has, Beats
    <3>7. K[m] = K[new] \/ Above(K[m], K[new]) \/ Above(K[new], K[m])
      <4> DEFINE a == K[m]
                 b == K[new]
      <4>1. a \in [1..L -> Int] /\ b \in [1..L -> Int]
        BY <3>3, <3>4
      <4> HIDE DEF a, b
      <4>2. a = b \/ Above(a, b) \/ Above(b, a)
        BY <4>1, AboveTotal
      <4> QED
        BY <4>2 DEF a, b
    <3> QED
      BY <3>5, <3>6, <3>7
  <2> QED
    BY <2>2, <2>3, <2>4
<1> HIDE DEF good, Has
<1>3. k \in good
  BY <1>1, <1>2, NatSetInduction
<1>4. ns \in SUBSET (ns \cap 1..k)
  OBVIOUS
<1>5. Has(ns)
  BY <1>3, <1>4 DEF good
<1> QED
  BY <1>5 DEF Has

(* Every model that is not excluded has a key.                              *)
LEMMA HeadroomType ==
  ASSUME NEW e \in Entries, NEW p, IsProfile(p), Assess(e, p).status # "NOFIT"
  PROVE  Headroom(e, p) \in Nat
<1> DEFINE place == Assess(e, p).place
           Ratio(have, need) == (100 * have) \div need
           ram == {Ratio(PlanningRam(p), place.ram)}
           gpus == {Ratio(p.free[i], place.vram[i]) : i \in {j \in DOMAIN place.vram : place.vram[j] > 0}}
           disk == {Ratio(p.disk, d) : d \in {e.disk} \ {0}}
<1>1. IsPlace(place, p)
  BY AssessIs
<1> HIDE DEF place
<1>2. /\ place.ram \in Nat \ {0} /\ PlanningRam(p) \in Nat /\ p.disk \in Nat /\ e.disk \in Nat
      /\ DOMAIN place.vram = DOMAIN p.free
      /\ \A i \in DOMAIN p.free : place.vram[i] \in Nat /\ p.free[i] \in Nat
  BY <1>1, PoolNumbers, PlanningRamType, EntryNumbers DEF IsPlace, IsProfile
<1>3. ASSUME NEW have \in Nat, NEW need \in Nat, need # 0
      PROVE  Ratio(have, need) \in Nat
  BY <1>3, DivOf
<1> HIDE DEF Ratio
<1>4. ram \in SUBSET Nat
  BY <1>2, <1>3
<1>5. gpus \in SUBSET Nat
  BY <1>2, <1>3
<1>6. disk \in SUBSET Nat
  BY <1>2, <1>3
<1>7. PoolRatios(e, p) = ram \cup gpus \cup disk
  BY DEF PoolRatios, place, Ratio
<1>8. PoolRatios(e, p) \in SUBSET Nat /\ PoolRatios(e, p) # {}
  BY <1>4, <1>5, <1>6, <1>7
<1>9. Min(PoolRatios(e, p)) \in PoolRatios(e, p)
  BY <1>8, MinOfNaturals
<1> QED
  BY <1>8, <1>9 DEF Headroom

KeyLength(priority) == IF priority = "quality" THEN 7 ELSE 6

LEMMA TupleType ==
  ASSUME NEW n \in Nat, NEW s \in Seq(Int), Len(s) = n
  PROVE  s \in [1..n -> Int]
BY LenProperties

Join(s, t) == s \o t

LEMMA JoinLength ==
  ASSUME NEW s \in Seq(Int), NEW t \in Seq(Int)
  PROVE  Join(s, t) \in Seq(Int) /\ Len(Join(s, t)) = Len(s) + Len(t)
BY ConcatProperties, Zenon DEF Join

LEMMA KeyType ==
  ASSUME NEW e \in Entries, NEW p, IsProfile(p), NEW priority \in Presets,
         Assess(e, p).status # "NOFIT"
  PROVE  RankingKey(e, p, priority) \in [1..KeyLength(priority) -> Int]
<1> DEFINE speed == Speed(e, p)
           room == Headroom(e, p)
           key == RankingKey(e, p, priority)
<1>1. /\ room \in Int /\ e.params \in Int /\ e.precision \in Int /\ e.priority \in Int
      /\ e.maxContext \in Int /\ e.speed \in Int
  BY HeadroomType, EntryNumbers
<1>2. speed \in Seq(Int) /\ Len(speed) = 2
  <2>1. speed = <<1, e.speed>> \/ speed = <<0, 0>>
    BY DEF Speed
  <2> HIDE DEF speed
  <2>2. CASE speed = <<1, e.speed>>
    <3>1. <<1, e.speed>> \in Seq(Int) /\ Len(<<1, e.speed>>) = 2
      BY <1>1
    <3> QED
      BY <2>2, <3>1
  <2>3. CASE speed = <<0, 0>>
    <3>1. <<0, 0>> \in Seq(Int) /\ Len(<<0, 0>>) = 2
      OBVIOUS
    <3> QED
      BY <2>3, <3>1
  <2> QED
    BY <2>1, <2>2, <2>3
<1>6. key \in [1..KeyLength(priority) -> Int] => RankingKey(e, p, priority) \in [1..KeyLength(priority) -> Int]
  OBVIOUS
<1> HIDE DEF speed, room, key
<1>3. CASE priority = "speed"
  <2> DEFINE rest == <<room, e.priority, e.params, e.precision>>
  <2>1. rest \in Seq(Int) /\ Len(rest) = 4
    BY <1>1
  <2>2. key = Join(speed, rest)
    BY <1>3 DEF RankingKey, speed, room, key, Join
  <2> HIDE DEF rest
  <2>3. Join(speed, rest) \in Seq(Int) /\ Len(Join(speed, rest)) = 6
    <3>1. Join(speed, rest) \in Seq(Int) /\ Len(Join(speed, rest)) = Len(speed) + Len(rest)
      BY <1>2, <2>1, JoinLength, Zenon
    <3> QED
      BY <1>2, <2>1, <3>1
  <2>4. key \in Seq(Int) /\ Len(key) = 6
    BY <2>2, <2>3
  <2>5. key \in [1..6 -> Int]
    BY <2>4, TupleType
  <2> QED
    BY <1>3, <1>6, <2>5 DEF KeyLength
<1>4. CASE priority = "quality"
  <2> DEFINE head == <<e.params, e.precision, e.maxContext, room>>
             tail == <<e.priority>>
             front == Join(head, speed)
  <2>1. head \in Seq(Int) /\ Len(head) = 4
    BY <1>1
  <2>6. tail \in Seq(Int) /\ Len(tail) = 1
    BY <1>1
  <2>2. key = Join(front, tail)
    BY <1>4 DEF RankingKey, speed, room, key, Join
  <2> HIDE DEF head, tail
  <2>3. front \in Seq(Int) /\ Len(front) = 6
    <3>1. Join(head, speed) \in Seq(Int) /\ Len(Join(head, speed)) = 6
      <4>1. Join(head, speed) \in Seq(Int) /\ Len(Join(head, speed)) = Len(head) + Len(speed)
        BY <1>2, <2>1, JoinLength, Zenon
      <4> QED
        BY <1>2, <2>1, <4>1
    <3> QED
      BY <3>1
  <2> HIDE DEF front
  <2>4. key \in Seq(Int) /\ Len(key) = 7
    <3>1. Join(front, tail) \in Seq(Int) /\ Len(Join(front, tail)) = 7
      <4>1. Join(front, tail) \in Seq(Int) /\ Len(Join(front, tail)) = Len(front) + Len(tail)
        BY <2>3, <2>6, JoinLength, Zenon
      <4> QED
        BY <2>3, <2>6, <4>1
    <3> QED
      BY <2>2, <3>1
  <2>5. key \in [1..7 -> Int]
    BY <2>4, TupleType
  <2> QED
    BY <1>4, <1>6, <2>5 DEF KeyLength
<1>5. CASE priority = "balanced"
  <2> DEFINE head == <<e.priority, room, e.params, e.precision>>
  <2>1. head \in Seq(Int) /\ Len(head) = 4
    BY <1>1
  <2>2. key = Join(head, speed)
    BY <1>5 DEF RankingKey, speed, room, key, Join
  <2> HIDE DEF head
  <2>3. Join(head, speed) \in Seq(Int) /\ Len(Join(head, speed)) = 6
    <3>1. Join(head, speed) \in Seq(Int) /\ Len(Join(head, speed)) = Len(head) + Len(speed)
      BY <1>2, <2>1, JoinLength, Zenon
    <3> QED
      BY <1>2, <2>1, <3>1
  <2>4. key \in Seq(Int) /\ Len(key) = 6
    BY <2>2, <2>3
  <2>5. key \in [1..6 -> Int]
    BY <2>4, TupleType
  <2> QED
    BY <1>5, <1>6, <2>5 DEF KeyLength
<1> QED
  BY <1>3, <1>4, <1>5 DEF Presets

-----------------------------------------------------------------------------
(* Planning: the calibration.                                               *)

LEMMA PolicyIs ==
  ASSUME NEW priority \in Presets
  PROVE  LET policy == Policy(priority)
         IN  policy.ttft \in Nat /\ policy.total \in Nat /\ policy.gain \in Nat \ {0}
BY DEF Presets, Policy

(* A step that is accepted after another is really faster: a measured rate  *)
(* is positive, and the asked gain too.                                     *)
LEMMA AcceptedIsFaster ==
  ASSUME NEW ms \in Seq(Measures), NEW i \in 2..Len(ms), NEW priority \in Presets,
         Accepted(ms, i, Policy(priority))
  PROVE  ms[i].rate > ms[i - 1].rate
<1> DEFINE now == ms[i].rate
           before == ms[i - 1].rate
           gain == Policy(priority).gain
<1>1. Len(ms) \in Nat /\ i \in 1..Len(ms) /\ i - 1 \in 1..Len(ms) /\ i > 1
  BY LenProperties
<1>2. ms[i] \in Measures /\ ms[i - 1] \in Measures
  BY <1>1, ElementOfSeq
<1>3. now \in Nat \ {0} /\ before \in Nat \ {0}
  BY <1>2, PlanningAssumption
<1>4. gain \in Nat \ {0}
  BY PolicyIs
<1>5. 100 * now >= (100 + gain) * before
  BY <1>1 DEF Accepted
<1> HIDE DEF now, before, gain
<1>6. (100 + gain) * before >= 101 * before
  <2>1. 101 * before <= (100 + gain) * before
    BY <1>3, <1>4, TimesMonotone
  <2> QED
    BY <2>1, <1>3, <1>4
<1>7. (100 + gain) * before \in Nat
  BY <1>3, <1>4
<1>8. now > before
  BY <1>3, <1>5, <1>6, <1>7
<1> QED
  BY <1>8 DEF now, before

Budgeted(c) ==
  /\ c.serving <= c.ceiling
  /\ c.serving > 1 => c.serving <= Len(c.measured)
  /\ LET policy == Policy(c.preset)
         ms     == c.measured
     IN \A i \in 2..c.serving :
          /\ StepComplete(ms[i]) /\ 100 * ms[i].ttft <= policy.ttft * ms[1].ttft
          /\ 100 * ms[i].total <= policy.total * ms[1].total
          /\ ms[i].rate > ms[i - 1].rate

LEMMA ServingIs ==
  ASSUME NEW ms \in Seq(Measures), NEW priority \in Presets, NEW n \in 1..4, Len(ms) <= n
  PROVE  LET c == SelectServingConcurrency(ms, Policy(priority))
         IN  /\ c \in 1..n /\ (c > 1 => c <= Len(ms))
             /\ \A i \in 2..c : Accepted(ms, i, Policy(priority)) /\ ms[i].rate > ms[i - 1].rate
<1> DEFINE policy == Policy(priority)
           reached == {1} \cup {i \in DOMAIN ms : \A j \in 1..i : Accepted(ms, j, policy)}
           c == Max(reached)
<1>1. Len(ms) \in Nat /\ DOMAIN ms = 1..Len(ms)
  BY LenProperties
<1>2. reached \in SUBSET (0..n) /\ reached # {} /\ 1 \in reached
  BY <1>1
<1>3. \A i \in reached : i = 1 \/ (i \in 1..Len(ms) /\ \A j \in 1..i : Accepted(ms, j, policy))
  BY <1>1
<1> HIDE DEF reached
<1>4. c \in reached /\ \A y \in reached : y <= c
  BY <1>2, MaxOfBounded
<1>5. SelectServingConcurrency(ms, policy) = c
  BY DEF SelectServingConcurrency, reached
<1> HIDE DEF c
<1>6. c \in 1..n /\ (c > 1 => c <= Len(ms))
  BY <1>1, <1>2, <1>3, <1>4
<1>7. ASSUME NEW i \in 2..c
      PROVE  Accepted(ms, i, policy) /\ ms[i].rate > ms[i - 1].rate
  <2>1. c # 1 /\ i \in 1..c /\ c \in 1..Len(ms)
    BY <1>3, <1>4, <1>6
  <2>2. Accepted(ms, i, policy)
    BY <1>3, <1>4, <2>1
  <2>3. i \in 2..Len(ms)
    BY <1>1, <2>1
  <2> QED
    BY <2>2, <2>3, AcceptedIsFaster
<1> QED
  BY <1>5, <1>6, <1>7

-----------------------------------------------------------------------------
(* Planning: the invariant.  Until the configuration is written, what is   *)
(* chosen was selected by the rules, consented to where it is risky, and   *)
(* planned as it was listed.                                                *)

ChosenWell ==
  /\ chosen \in DOMAIN catalog
  /\ Selectable(chosen)
  /\ mode # "manual" =>
       /\ Listed(chosen).status = "RISKY" => Eligible("FIT") = {}
       /\ \A n \in Eligible(Listed(chosen).status) : ~Above(Key(n), Key(chosen))

Consented == Listed(chosen).status = "RISKY" => confirmed /\ mode # "headless"

WizardInv ==
  /\ stage \in {"detected", "selecting", "confirming", "selected", "planned", "checked", "ended"} =>
       IsProfile(profile)
  /\ stage \in {"selecting", "confirming", "selected", "planned", "checked", "ended"} =>
       preset \in Presets /\ mode \in Modes
  /\ stage \in {"start", "detected", "selecting"} => chosen = 0
  /\ stage \in {"start", "detected", "selecting", "confirming", "selected"} => plan = Nothing
  /\ stage \in {"start", "detected", "selecting", "confirming"} => ~confirmed
  /\ stage = "confirming" => Listed(chosen).status = "RISKY"
  /\ stage \in {"confirming", "selected", "planned", "checked"} => ChosenWell
  /\ stage \in {"selected", "planned", "checked"} => Consented
  /\ stage \in {"planned", "checked"} => Keeps(plan, catalog[chosen], profile)
  /\ stage = "ended" =>
       \/ chosen = 0 \/ plan # Nothing \/ (Listed(chosen).status = "RISKY" /\ ~confirmed)
       \/ Listed(chosen).backend = "vllm-cuda"
  /\ plan # Nothing => plan.parallel \in 1..4 /\ plan.context \in 1..ContextCap

Configs == [preset : Presets, ceiling : 1..4, serving : 1..4, measured : Seq(Measures)]

(* From then on, what is served was measured, one step at a time, below    *)
(* the ceiling of the plan.                                                 *)
CalibrationInv ==
  /\ config # Nothing => config \in Configs /\ Budgeted(config)
  /\ stage \in {"installed", "measuring", "rejected"} => config \in Configs /\ Budgeted(config)
  /\ steps \in Seq(Measures)
  /\ stage \in {"measuring", "rejected"} => Len(steps) <= config.ceiling

PlanningInv ==
  /\ catalog \in Catalogs
  /\ stage \in Stages
  /\ preset \in Presets \cup {Nothing} /\ mode \in Modes \cup {Nothing}
  /\ chosen \in 0..Len(catalog)
  /\ confirmed \in BOOLEAN
  /\ WizardInv
  /\ CalibrationInv

LEMMA ListedIs ==
  ASSUME catalog \in Catalogs, IsProfile(profile), NEW n \in DOMAIN catalog
  PROVE  /\ catalog[n] \in Entries
         /\ Listed(n) = Assess(catalog[n], profile)
         /\ Listed(n).status \in Verdicts
<1>1. catalog \in Seq(Entries)
  BY PlanningAssumption
<1>2. catalog[n] \in Entries
  BY <1>1, ElementOfSeq, LenProperties
<1> QED
  BY <1>2, AssessIs DEF Listed

(* The best of those of one verdict is one of them, and none outranks it.   *)
LEMMA BestIs ==
  ASSUME catalog \in Catalogs, IsProfile(profile), preset \in Presets,
         NEW status \in {"FIT", "RISKY"}, Eligible(status) # {}
  PROVE  LET b == Best(Eligible(status))
         IN  /\ b \in Eligible(status)
             /\ \A n \in Eligible(status) : ~Above(Key(n), Key(b))
<1> DEFINE ns == Eligible(status)
           L == KeyLength(preset)
           K == [n \in ns |-> Key(n)]
           k == Len(catalog)
           b == Best(ns)
<1>1. k \in Nat /\ DOMAIN catalog = 1..k
  <2>1. catalog \in Seq(Entries)
    BY PlanningAssumption
  <2> QED
    BY <2>1, LenProperties
<1>2. ns \in SUBSET (1..k)
  BY <1>1 DEF Eligible
<1>3. ASSUME NEW n \in ns PROVE Key(n) \in [1..L -> Int]
  <2>1. n \in DOMAIN catalog /\ Listed(n).status = status
    BY DEF Eligible
  <2>2. catalog[n] \in Entries /\ Assess(catalog[n], profile).status # "NOFIT"
    BY <2>1, ListedIs
  <2>3. RankingKey(catalog[n], profile, preset) \in [1..KeyLength(preset) -> Int]
    BY <2>2, KeyType
  <2> QED
    BY <2>3 DEF Key
<1>4. L \in Nat
  BY DEF KeyLength
<1>5. K \in [ns -> [1..L -> Int]] /\ \A n \in ns : K[n] = Key(n)
  <2> HIDE DEF ns, L
  <2> QED
    BY <1>3
<1> HIDE DEF K, L, k
<1>6. ns # {}
  OBVIOUS
<1> HIDE DEF ns
<1>7. \E n \in ns : \A o \in ns \ {n} : Beats(K, n, o)
  BY <1>1, <1>2, <1>4, <1>5, <1>6, HighestExists
<1>8. \E n \in ns : \A o \in ns \ {n} : Above(Key(n), Key(o)) \/ (Key(n) = Key(o) /\ n < o)
  BY <1>5, <1>7 DEF Beats
<1>9. b \in ns /\ \A o \in ns \ {b} : Above(Key(b), Key(o)) \/ (Key(b) = Key(o) /\ b < o)
  BY <1>8 DEF Best
<1> HIDE DEF b
<1>10. ASSUME NEW n \in ns PROVE ~Above(Key(n), Key(b))
  <2> DEFINE s == Key(b)
             t == Key(n)
  <2>1. s \in [1..L -> Int] /\ t \in [1..L -> Int]
    BY <1>3, <1>9
  <2>2. s = t \/ Above(s, t)
    BY <1>9
  <2> HIDE DEF s, t
  <2>3. ~Above(t, s)
    BY <1>4, <2>1, <2>2, AboveOrders
  <2> QED
    BY <2>3 DEF s, t
<1> QED
  BY <1>9, <1>10 DEF b, ns

LEMMA ChosenStays ==
  ASSUME UNCHANGED <<catalog, profile, preset, mode, chosen>>
  PROVE  /\ ChosenWell => ChosenWell'
         /\ Listed(chosen)' = Listed(chosen)
BY DEF ChosenWell, Selectable, Listed, Eligible, Key

-----------------------------------------------------------------------------
(* Planning: every step keeps it.                                           *)

LEMMA PlanningInitOK ==
  ASSUME PlanningInit
  PROVE  PlanningInv
<1>1. catalog \in Seq(Entries)
  BY PlanningAssumption DEF PlanningInit
<1>2. Len(catalog) \in Nat
  BY <1>1, LenProperties
<1>3. steps = <<>> /\ steps \in Seq(Measures)
  BY DEF PlanningInit
<1>4. WizardInv
  BY DEF PlanningInit, WizardInv
<1>5. CalibrationInv
  BY <1>3 DEF PlanningInit, CalibrationInv
<1>6. chosen \in 0..Len(catalog)
  BY <1>2 DEF PlanningInit
<1>7. catalog \in Catalogs /\ stage \in Stages /\ confirmed \in BOOLEAN
  BY DEF PlanningInit, Stages
<1>8. preset \in Presets \cup {Nothing} /\ mode \in Modes \cup {Nothing}
  BY DEF PlanningInit
<1> QED
  BY <1>4, <1>5, <1>6, <1>7, <1>8 DEF PlanningInv

LEMMA DetectKeeps ==
  ASSUME PlanningInv, Detect
  PROVE  PlanningInv'
<1>1. IsProfile(profile')
  BY ProbeTypes DEF Detect
<1>2. WizardInv'
  BY <1>1 DEF PlanningInv, WizardInv, Detect
<1>3. CalibrationInv'
  BY DEF PlanningInv, CalibrationInv, Detect, Budgeted
<1> QED
  BY <1>2, <1>3 DEF PlanningInv, Detect, Stages

LEMMA AskKeeps ==
  ASSUME PlanningInv, Ask
  PROVE  PlanningInv'
<1>1. IsProfile(profile')
  BY DEF PlanningInv, WizardInv, Ask
<1>2. WizardInv'
  BY <1>1 DEF PlanningInv, WizardInv, Ask
<1>3. CalibrationInv'
  BY DEF PlanningInv, CalibrationInv, Ask, Budgeted
<1> QED
  BY <1>2, <1>3 DEF PlanningInv, Ask, Stages

LEMMA SelectAutomaticKeeps ==
  ASSUME PlanningInv, SelectAutomatic
  PROVE  PlanningInv'
<1> DEFINE fit == Eligible("FIT")
           risky == Eligible("RISKY")
<1>1. /\ catalog \in Catalogs /\ IsProfile(profile) /\ preset \in Presets /\ mode \in Modes
      /\ plan = Nothing /\ ~confirmed
      /\ UNCHANGED <<catalog, profile, preset, mode, confirmed, plan, config, steps>>
  BY DEF PlanningInv, WizardInv, SelectAutomatic
<1>2. /\ chosen' \in DOMAIN catalog /\ Selectable(chosen')
      /\ Listed(chosen').status = "RISKY" => fit = {}
      /\ \A n \in Eligible(Listed(chosen').status) : ~Above(Key(n), Key(chosen'))
      /\ \/ stage' = "selected" /\ Listed(chosen').status = "FIT"
         \/ stage' = "confirming" /\ Listed(chosen').status = "RISKY"
  <2>1. CASE fit # {} /\ chosen' = Best(fit) /\ stage' = "selected"
    <3>1. chosen' \in fit /\ \A n \in fit : ~Above(Key(n), Key(chosen'))
      BY <1>1, <2>1, BestIs
    <3> QED
      BY <2>1, <3>1 DEF Eligible
  <2>2. CASE fit = {} /\ risky # {} /\ chosen' = Best(risky) /\ stage' = "confirming"
    <3>1. chosen' \in risky /\ \A n \in risky : ~Above(Key(n), Key(chosen'))
      BY <1>1, <2>2, BestIs
    <3> QED
      BY <2>2, <3>1 DEF Eligible
  <2> QED
    BY <2>1, <2>2 DEF SelectAutomatic
<1>3. ChosenWell'
  BY <1>1, <1>2 DEF ChosenWell, Selectable, Listed, Eligible, Key
<1>4. Listed(chosen)' = Listed(chosen')
  BY <1>1 DEF Listed
<1>5. WizardInv'
  BY <1>1, <1>2, <1>3, <1>4 DEF WizardInv, Consented
<1>6. CalibrationInv'
  BY <1>1, <1>2 DEF PlanningInv, CalibrationInv, Budgeted
<1>7. chosen' \in 0..Len(catalog)
  <2>1. catalog \in Seq(Entries)
    BY <1>1, PlanningAssumption
  <2> QED
    BY <1>2, <2>1, LenProperties
<1> QED
  BY <1>1, <1>2, <1>5, <1>6, <1>7 DEF PlanningInv, Stages

LEMMA SelectManualKeeps ==
  ASSUME PlanningInv, SelectManual
  PROVE  PlanningInv'
<1>1. /\ catalog \in Catalogs /\ IsProfile(profile) /\ preset \in Presets /\ mode = "manual" /\ mode \in Modes
      /\ plan = Nothing /\ ~confirmed
      /\ UNCHANGED <<catalog, profile, preset, mode, confirmed, plan, config, steps>>
  BY DEF PlanningInv, WizardInv, SelectManual, Modes
<1>2. /\ chosen' \in DOMAIN catalog /\ Selectable(chosen')
      /\ stage' = IF Listed(chosen').status = "RISKY" THEN "confirming" ELSE "selected"
  BY DEF SelectManual, Eligible
<1>3. ChosenWell'
  BY <1>1, <1>2 DEF ChosenWell, Selectable, Listed
<1>4. Listed(chosen)' = Listed(chosen')
  BY <1>1 DEF Listed
<1>5. WizardInv'
  BY <1>1, <1>2, <1>3, <1>4 DEF WizardInv, Consented
<1>6. CalibrationInv'
  BY <1>1, <1>2 DEF PlanningInv, CalibrationInv, Budgeted
<1>7. chosen' \in 0..Len(catalog)
  <2>1. catalog \in Seq(Entries)
    BY <1>1, PlanningAssumption
  <2> QED
    BY <1>2, <2>1, LenProperties
<1> QED
  BY <1>1, <1>2, <1>5, <1>6, <1>7 DEF PlanningInv, Stages

LEMMA RefuseKeeps ==
  ASSUME PlanningInv, Refuse \/ Decline
  PROVE  PlanningInv'
<1>1. /\ IsProfile(profile) /\ preset \in Presets /\ mode \in Modes /\ stage' = "ended"
      /\ UNCHANGED <<catalog, wizardVars, config, steps>>
      /\ chosen = 0 \/ (Listed(chosen).status = "RISKY" /\ ~confirmed)
  BY DEF PlanningInv, WizardInv, Refuse, Decline
<1>2. Listed(chosen)' = Listed(chosen)
  BY <1>1 DEF Listed, wizardVars
<1>3. WizardInv'
  BY <1>1, <1>2 DEF PlanningInv, WizardInv, wizardVars
<1>4. CalibrationInv'
  BY <1>1 DEF PlanningInv, CalibrationInv, Budgeted
<1> QED
  BY <1>1, <1>3, <1>4 DEF PlanningInv, Stages, wizardVars

LEMMA ConfirmKeeps ==
  ASSUME PlanningInv, Confirm
  PROVE  PlanningInv'
<1>1. /\ IsProfile(profile) /\ preset \in Presets /\ mode \in Modes /\ stage' = "selected"
      /\ ChosenWell /\ confirmed' = TRUE /\ plan = Nothing /\ mode # "headless"
      /\ UNCHANGED <<catalog, profile, preset, mode, chosen, plan, config, steps>>
  BY DEF PlanningInv, WizardInv, Confirm
<1>2. ChosenWell' /\ Listed(chosen)' = Listed(chosen)
  BY <1>1, ChosenStays
<1>3. WizardInv'
  BY <1>1, <1>2 DEF WizardInv, Consented
<1>4. CalibrationInv'
  BY <1>1 DEF PlanningInv, CalibrationInv, Budgeted
<1> QED
  BY <1>1, <1>3, <1>4 DEF PlanningInv, Stages

LEMMA HandoffKeeps ==
  ASSUME PlanningInv, Handoff
  PROVE  PlanningInv'
<1> DEFINE e == catalog[chosen]
           built == BuildServingPlan(e, profile, preset, Listed(chosen))
<1>1. /\ catalog \in Catalogs /\ IsProfile(profile) /\ preset \in Presets /\ mode \in Modes
      /\ ChosenWell /\ Consented
      /\ plan' = built /\ stage' = IF built = Nothing THEN "ended" ELSE "planned"
      /\ UNCHANGED <<catalog, profile, preset, mode, chosen, confirmed, config, steps>>
  BY DEF PlanningInv, WizardInv, Handoff
<1>2. e \in Entries /\ Listed(chosen) = Assess(e, profile) /\ Assess(e, profile).status # "NOFIT"
  BY <1>1, ListedIs DEF ChosenWell, Selectable
<1> HIDE DEF e
<1>3. \/ built = Nothing /\ Assess(e, profile).backend = "vllm-cuda"
      \/ Keeps(built, e, profile)
  BY <1>1, <1>2, BuiltKeeps
<1> HIDE DEF built
<1>4. ChosenWell' /\ Listed(chosen)' = Listed(chosen)
  BY <1>1, ChosenStays
<1>5. Consented'
  BY <1>1, <1>4 DEF Consented
<1>6. catalog[chosen]' = e
  BY <1>1 DEF e
<1>7. CASE built = Nothing
  <2>1. Listed(chosen).backend = "vllm-cuda"
    BY <1>2, <1>3, <1>7 DEF Keeps
  <2>2. WizardInv'
    BY <1>1, <1>4, <1>7, <2>1 DEF WizardInv
  <2>3. CalibrationInv'
    BY <1>1, <1>7 DEF PlanningInv, CalibrationInv, Budgeted
  <2> QED
    BY <1>1, <1>7, <2>2, <2>3 DEF PlanningInv, Stages
<1>8. CASE built # Nothing
  <2>1. Keeps(built, e, profile)
    BY <1>3, <1>8
  <2>2. plan'.parallel \in 1..4 /\ plan'.context \in 1..ContextCap
    BY <1>1, <2>1 DEF Keeps
  <2>3. Keeps(plan, catalog[chosen], profile)'
    BY <1>1, <1>6, <2>1 DEF Keeps, e, Within, Headed
  <2>4. stage' = "planned"
    BY <1>1, <1>8
  <2>5. WizardInv'
    BY <1>1, <1>4, <1>5, <2>2, <2>3, <2>4 DEF WizardInv
  <2>6. CalibrationInv'
    BY <1>1, <2>4 DEF PlanningInv, CalibrationInv, Budgeted
  <2> QED
    BY <1>1, <2>4, <2>5, <2>6 DEF PlanningInv, Stages
<1> QED
  BY <1>7, <1>8

LEMMA CheckEndpointKeeps ==
  ASSUME PlanningInv, CheckEndpoint
  PROVE  PlanningInv'
<1>1. /\ IsProfile(profile) /\ preset \in Presets /\ mode \in Modes
      /\ ChosenWell /\ Consented /\ Keeps(plan, catalog[chosen], profile) /\ stage' \in {"checked", "ended"}
      /\ UNCHANGED <<catalog, wizardVars, config, steps>>
  BY DEF PlanningInv, WizardInv, CheckEndpoint
<1>2. ChosenWell' /\ Listed(chosen)' = Listed(chosen)
  BY <1>1, ChosenStays DEF wizardVars
<1>3. plan # Nothing /\ plan.parallel \in 1..4 /\ plan.context \in 1..ContextCap
  BY <1>1 DEF Keeps
<1>4. Keeps(plan, catalog[chosen], profile)'
  BY <1>1 DEF Keeps, Within, Headed, wizardVars
<1>5. WizardInv'
  BY <1>1, <1>2, <1>3, <1>4 DEF WizardInv, Consented, wizardVars
<1>6. CalibrationInv'
  BY <1>1 DEF PlanningInv, CalibrationInv, Budgeted
<1> QED
  BY <1>1, <1>5, <1>6 DEF PlanningInv, Stages, wizardVars

LEMMA InstallKeeps ==
  ASSUME PlanningInv, WriteConfig
  PROVE  PlanningInv'
<1>1. preset \in Presets /\ plan.parallel \in 1..4
  BY DEF PlanningInv, WizardInv, WriteConfig, Keeps
<1>2. config' = [preset |-> preset, ceiling |-> plan.parallel, serving |-> 1, measured |-> <<>>]
  BY DEF WriteConfig, Normalized
<1>3. config' \in Configs /\ Budgeted(config')
  BY <1>1, <1>2 DEF Configs, Budgeted
<1>4. WizardInv'
  BY DEF WizardInv, WriteConfig
<1>5. CalibrationInv'
  BY <1>3 DEF PlanningInv, CalibrationInv, WriteConfig
<1>6. 0 \in 0..Len(catalog)
  BY PlanningAssumption, LenProperties DEF PlanningInv
<1> QED
  BY <1>4, <1>5, <1>6 DEF PlanningInv, WriteConfig, Stages

LEMMA CalibrationStart ==
  ASSUME PlanningInv, stage \in {"installed", "measuring", "rejected"},
         stage' \in {"measuring", "rejected", "settled"},
         UNCHANGED <<catalog, wizardVars>>
  PROVE  CalibrationInv' => PlanningInv'
<1>1. WizardInv'
  BY DEF PlanningInv, WizardInv, wizardVars
<1> QED
  BY <1>1 DEF PlanningInv, Stages, wizardVars

LEMMA StartCalibrationKeeps ==
  ASSUME PlanningInv, StartCalibration
  PROVE  PlanningInv'
<1>1. config \in Configs /\ Budgeted(config)
  BY DEF PlanningInv, CalibrationInv, StartCalibration
<1>2. Len(steps') <= config.ceiling /\ steps' \in Seq(Measures)
  BY <1>1 DEF StartCalibration, Configs
<1>3. CalibrationInv'
  BY <1>1, <1>2 DEF CalibrationInv, StartCalibration, Budgeted
<1> QED
  BY <1>3, CalibrationStart DEF StartCalibration

LEMMA MeasureKeeps ==
  ASSUME PlanningInv, MeasureStep \/ StepFails
  PROVE  PlanningInv'
<1>1. /\ config \in Configs /\ Budgeted(config) /\ steps \in Seq(Measures) /\ Len(steps) < config.ceiling
      /\ stage = "measuring" /\ stage' \in {"measuring", "rejected"}
      /\ UNCHANGED <<catalog, wizardVars, config>>
  BY DEF PlanningInv, CalibrationInv, MeasureStep, StepFails
<1>2. config.ceiling \in Nat /\ Len(steps) \in Nat
  BY <1>1, LenProperties DEF Configs
<1>3. steps' \in Seq(Measures) /\ Len(steps') <= config.ceiling
  <2>1. CASE steps' = steps
    BY <1>1, <1>2, <2>1
  <2>2. CASE \E m \in Measures : steps' = Append(steps, m)
    BY <1>1, <1>2, <2>2, AppendProperties
  <2> QED
    BY <2>1, <2>2 DEF MeasureStep, StepFails
<1>4. CalibrationInv'
  BY <1>1, <1>3 DEF CalibrationInv, Budgeted
<1> QED
  BY <1>1, <1>4, CalibrationStart

LEMMA EndCalibrationKeeps ==
  ASSUME PlanningInv, EndCalibration
  PROVE  PlanningInv'
<1>1. /\ config \in Configs /\ Budgeted(config) /\ steps \in Seq(Measures) /\ Len(steps) <= config.ceiling
      /\ stage \in {"measuring", "rejected"} /\ stage' = "settled" /\ steps' = <<>>
      /\ UNCHANGED <<catalog, wizardVars>>
  BY DEF PlanningInv, CalibrationInv, EndCalibration
<1>2. config' \in Configs /\ Budgeted(config')
  <2>1. CASE UNCHANGED config
    BY <1>1, <2>1 DEF Budgeted
  <2>2. CASE ~UNCHANGED config
    <3> DEFINE c == SelectServingConcurrency(steps, Policy(config.preset))
    <3>1. config' = [config EXCEPT !.serving = c, !.measured = steps]
      BY <2>2 DEF EndCalibration
    <3>2. config.preset \in Presets /\ config.ceiling \in 1..4
      BY <1>1 DEF Configs
    <3>3. /\ c \in 1..config.ceiling /\ (c > 1 => c <= Len(steps))
          /\ \A i \in 2..c : Accepted(steps, i, Policy(config.preset)) /\ steps[i].rate > steps[i - 1].rate
      BY <1>1, <3>2, ServingIs
    <3> HIDE DEF c
    <3>4. /\ config'.preset = config.preset /\ config'.ceiling = config.ceiling
          /\ config'.serving = c /\ config'.measured = steps
      BY <1>1, <3>1 DEF Configs
    <3>5. c \in 1..4 /\ c <= config.ceiling
      BY <3>2, <3>3
    <3>6. config' \in Configs
      BY <1>1, <3>1, <3>5 DEF Configs
    <3>7. \A i \in 2..c : i > 1
      OBVIOUS
    <3> QED
      BY <3>3, <3>4, <3>5, <3>6, <3>7 DEF Budgeted, Accepted
  <2> QED
    BY <2>1, <2>2
<1>3. <<>> \in Seq(Measures)
  OBVIOUS
<1>4. CalibrationInv'
  BY <1>1, <1>2, <1>3 DEF CalibrationInv
<1> QED
  BY <1>1, <1>4, CalibrationStart

(* The invariant holds for any hosts, catalogs and measurements.            *)
THEOREM PlanningInvariant == PlanningSpec => []PlanningInv
<1>1. PlanningInit => PlanningInv
  BY PlanningInitOK
<1>2. PlanningInv /\ [PlanningNext]_planningVars => PlanningInv'
  <2> SUFFICES ASSUME PlanningInv, [PlanningNext]_planningVars PROVE PlanningInv'
    OBVIOUS
  <2>1. CASE UNCHANGED planningVars
    <3>1. UNCHANGED <<stage, catalog, profile, preset, mode, chosen, confirmed, plan, config, steps>>
      BY <2>1 DEF planningVars, wizardVars
    <3>2. (ChosenWell => ChosenWell') /\ Listed(chosen)' = Listed(chosen)
      BY <3>1, ChosenStays
    <3>3. Keeps(plan, catalog[chosen], profile)' <=> Keeps(plan, catalog[chosen], profile)
      BY <3>1 DEF Keeps, Within, Headed
    <3>4. WizardInv'
      BY <3>1, <3>2, <3>3 DEF PlanningInv, WizardInv, Consented
    <3>5. CalibrationInv'
      BY <3>1 DEF PlanningInv, CalibrationInv, Budgeted
    <3> QED
      BY <3>1, <3>4, <3>5 DEF PlanningInv
  <2> QED
    BY <2>1, DetectKeeps, AskKeeps, SelectAutomaticKeeps, RefuseKeeps, SelectManualKeeps,
       ConfirmKeeps, HandoffKeeps, CheckEndpointKeeps, InstallKeeps, StartCalibrationKeeps,
       MeasureKeeps, EndCalibrationKeeps DEF PlanningNext
<1> QED
  BY <1>1, <1>2, PTL DEF PlanningSpec

(* The wizard, the plan and the calibration keep their types.               *)
THEOREM PlanningTypeCorrect == PlanningSpec => []PlanningTypeOK
<1>1. PlanningInv => PlanningTypeOK
  <2> SUFFICES ASSUME PlanningInv PROVE PlanningTypeOK
    OBVIOUS
  <2>1. plan # Nothing => plan.parallel \in 1..4 /\ plan.context \in 1..ContextCap
    BY DEF PlanningInv, WizardInv
  <2>2. config # Nothing => config.ceiling \in 1..4 /\ config.serving \in 1..4
    BY DEF PlanningInv, CalibrationInv, Configs
  <2>3. \A i \in DOMAIN steps : steps[i] \in Measures
    BY ElementOfSeq, LenProperties DEF PlanningInv, CalibrationInv
  <2> QED
    BY <2>1, <2>2, <2>3 DEF PlanningInv, PlanningTypeOK
<1> QED
  BY <1>1, PlanningInvariant, PTL

(* Whatever is probed, listed, asked and measured: the plan keeps the      *)
(* verdict the operator was shown and really fits, nothing risky is        *)
(* installed without consent, the program's choice is not outranked, and   *)
(* what is served was measured within its budgets.                         *)
THEOREM PlanningAlwaysSound == PlanningSpec => []PlanningSound
<1>1. PlanningInv => PlanningSound
  <2> SUFFICES ASSUME PlanningInv PROVE PlanningSound
    OBVIOUS
  <2>1. PlanKeepsVerdict
    <3>1. ASSUME stage \in {"planned", "checked"}
          PROVE  /\ plan.status = Listed(chosen).status
                 /\ Within(plan.place, profile)
                 /\ plan.context <= Max({1, catalog[chosen].maxContext})
                 /\ plan.status = "FIT" => Headed(plan.place, profile)
      <4>1. Keeps(plan, catalog[chosen], profile) /\ ChosenWell /\ IsProfile(profile) /\ catalog \in Catalogs
        BY <3>1 DEF PlanningInv, WizardInv
      <4>2. catalog[chosen] \in Entries /\ Listed(chosen) = Assess(catalog[chosen], profile)
        BY <4>1, ListedIs DEF ChosenWell
      <4> DEFINE most == catalog[chosen].maxContext
      <4>3. plan.context \in 1..ContextCap /\ plan.context <= most /\ most \in Nat \ {0}
        BY <4>1, <4>2, EntryNumbers DEF Keeps
      <4> HIDE DEF most
      <4>4. plan.context <= Max({1, most})
        BY <4>3, MaxOfTwo DEF ContextCap
      <4> QED
        BY <4>1, <4>2, <4>4 DEF Keeps, most
    <3>2. stage = "ended" /\ chosen # 0 /\ plan = Nothing /\ ~(Listed(chosen).status = "RISKY" /\ ~confirmed) =>
            Listed(chosen).backend = "vllm-cuda"
      BY DEF PlanningInv, WizardInv
    <3> QED
      BY <3>1, <3>2 DEF PlanKeepsVerdict, Within, Headed
  <2>2. SelectionSound
    <3> SUFFICES ASSUME stage \in {"selected", "planned"}
                 PROVE  /\ Selectable(chosen)
                        /\ Listed(chosen).status = "RISKY" => confirmed
                        /\ mode # "manual" =>
                              /\ Listed(chosen).status = "RISKY" => Eligible("FIT") = {} /\ mode = "automatic"
                              /\ \A n \in Eligible(Listed(chosen).status) : ~Above(Key(n), Key(chosen))
      BY DEF SelectionSound
    <3>1. ChosenWell /\ Consented /\ mode \in Modes
      BY DEF PlanningInv, WizardInv
    <3> QED
      BY <3>1 DEF ChosenWell, Consented, Modes
  <2>3. CalibratedAsMeasured
    BY DEF PlanningInv, CalibrationInv, CalibratedAsMeasured, Budgeted
  <2> QED
    BY <2>1, <2>2, <2>3 DEF PlanningSound
<1> QED
  BY <1>1, PlanningInvariant, PTL

-----------------------------------------------------------------------------
(* The parts side by side.                                                  *)

(* Every behaviour of the parts side by side is one of each part: the parts *)
(* share no state, so that whatever acts leaves the others as they are.     *)
THEOREM ApplicationRunsParts == ApplicationSpec => Spec /\ PlanningSpec /\ CliSpec /\ SearchSpec
<1>1. ApplicationInit => Init /\ PlanningInit /\ CliInit /\ SearchInit
  BY DEF ApplicationInit
<1>2. [ApplicationNext]_applicationVars =>
        [Next]_vars /\ [PlanningNext]_planningVars /\ [CliNext]_cliVars /\ [SearchNext]_searchVars
  BY DEF ApplicationNext, applicationVars
<1> QED
  BY <1>1, <1>2, PTL DEF ApplicationSpec, Spec, PlanningSpec, CliSpec, SearchSpec

(* Every variable of every part keeps its type while the parts run side by  *)
(* side.                                                                    *)
THEOREM ApplicationTypeCorrect == ApplicationSpec => []ApplicationTypeOK
<1>1. TypeOK /\ PlanningTypeOK /\ CliTypeOK /\ SearchTypeOK => ApplicationTypeOK
  BY DEF ApplicationTypeOK
<1> QED
  BY <1>1, ApplicationRunsParts, MembershipTypes, PlanningTypeCorrect, CliTypeCorrect, SearchTypeCorrect, PTL

=============================================================================
