---------------------------- MODULE AccountAccess ----------------------------
(***************************************************************************)
(* accounts: the rows of the users, the sessions of their browsers and      *)
(* their access tokens.  A request reads the row of its user once, when it  *)
(* is authenticated, and works with that copy; other requests may write in  *)
(* between.  Django writes the whole row or the named fields: a whole row   *)
(* is updated, or inserted when it is no longer there; named fields of a    *)
(* row that is gone are an error, and the answer is a 500.                  *)
(*                                                                         *)
(* is_active and email_verified are set together everywhere and are one     *)
(* field.  A password stands for its hash, which has a salt of its own:     *)
(* the n-th password set is n, whatever its words, and 0 is unusable.       *)
(* Refused requests (a wrong password, a form with errors) write nothing.   *)
(* The row of the local profile and its unusable password, two writes of   *)
(* one request, are one step.                                               *)
(***************************************************************************)
EXTENDS Naturals, FiniteSets

CONSTANTS
  Browsers,     \* each with its session, and one request at a time
  Addresses,    \* email addresses
  LocalAdmin,   \* the address of the profile of the local mode
  Keys,         \* access tokens
  Gone,         \* no row, no session, no request
  MaxAccounts,  \* bound: accounts created
  MaxAsked      \* bound: requests, and the passwords they set

ASSUME AccessAssumption ==
  LocalAdmin \in Addresses /\ MaxAccounts \in Nat \ {0} /\ MaxAsked \in Nat

VARIABLES
  loginRequired, \* LOGIN_REQUIRED
  rows,          \* [Ids -> the row of an account, or Gone]
  sessions,      \* [Browsers -> the account and the hash it was opened with]
  requests,      \* [Browsers -> what the request does, and the copies it read]
  keys,          \* [Keys -> the row of a token, or Gone]
  told,          \* ghost: the rows as the answers so far told of them
  stale,         \* ghost: accounts written as a whole from an old copy
  tally          \* [accounts, passwords, requests, restarts] so far

accessVars == <<loginRequired, rows, sessions, requests, keys, told, stale, tally>>

Ids == 1..MaxAccounts
AccountRows == [email : Addresses, name : {"old", "new"}, password : Nat, verified : BOOLEAN]
Sessions == [of : Ids, hash : Nat, replaced : BOOLEAN]
KeyRows == [kind : {"cli", "sync"}, of : Ids, active : BOOLEAN]
Works == {"name", "email", "password", "delete", "issue", "revoke", "discard", "toggle", "verify"}

(* replaced (a ghost) of a session: the password was replaced elsewhere;    *)
(* of a request: its session was such a one when it was authenticated.      *)
RequestsOf == [work : Works, of : Ids, copy : AccountRows, key : Keys \cup {Gone},
               read : {"no", "on", "off"}, replaced : BOOLEAN]

ASSUME GoneIsNone == Gone \notin AccountRows \cup Sessions \cup RequestsOf \cup KeyRows \cup Keys

AccessTypeOK ==
  /\ loginRequired \in BOOLEAN
  /\ rows \in [Ids -> AccountRows \cup {Gone}]
  /\ sessions \in [Browsers -> Sessions \cup {Gone}]
  /\ requests \in [Browsers -> RequestsOf \cup {Gone}]
  /\ keys \in [Keys -> KeyRows \cup {Gone}]
  /\ told \in [Ids -> AccountRows \cup {Gone}]
  /\ stale \subseteq Ids
  /\ tally \in [accounts : 0..MaxAccounts, passwords : Nat, asked : 0..MaxAsked,
                restarts : 0..1]

(* Nobody is there yet, or one account waits for its activation.            *)
AccessInit ==
  /\ loginRequired \in BOOLEAN
  /\ \/ /\ rows = [i \in Ids |-> Gone]
        /\ tally = [accounts |-> 0, passwords |-> 0, asked |-> 0, restarts |-> 0]
     \/ /\ rows \in {[[i \in Ids |-> Gone] EXCEPT ![1] =
              [email |-> e, name |-> "old", password |-> 1, verified |-> FALSE]] :
              e \in Addresses \ {LocalAdmin}}
        /\ tally = [accounts |-> 1, passwords |-> 1, asked |-> 0, restarts |-> 0]
  /\ sessions = [b \in Browsers |-> Gone]
  /\ requests = [b \in Browsers |-> Gone]
  /\ keys = [k \in Keys |-> Gone]
  /\ told = rows /\ stale = {}

Taken(email) == \E i \in Ids : rows[i] # Gone /\ rows[i].email = email
Counted == [tally EXCEPT !.asked = @ + 1]
MayAsk(b) == requests[b] = Gone /\ tally.asked < MaxAsked

(* A new account, with the next number.  The answer tells of it.            *)
CreateAccount(email, password, verified) ==
  /\ tally.accounts < MaxAccounts /\ ~Taken(email)
  /\ LET row == [email |-> email, name |-> "old", password |-> password, verified |-> verified]
         i == tally.accounts + 1
     IN /\ rows' = [rows EXCEPT ![i] = row]
        /\ told' = [told EXCEPT ![i] = row]

(* signup_view: a row that waits for the activation link (verified is       *)
(* FALSE) when REQUIRE_EMAIL_VERIFICATION is set, and one that may sign in  *)
(* otherwise.                                                               *)
SignUp(b, email, verified) ==
  /\ MayAsk(b)
  /\ CreateAccount(email, tally.passwords + 1, verified)
  /\ tally' = [Counted EXCEPT !.accounts = @ + 1, !.passwords = @ + 1]
  /\ UNCHANGED <<loginRequired, sessions, requests, keys, stale>>

(* get_user: the account is there and active, and the session carries the   *)
(* hash of its password.                                                    *)
SessionValid(s) ==
  s # Gone /\ rows[s.of] # Gone /\ rows[s.of].verified /\ rows[s.of].password = s.hash

(* A session that is worked for.  The profile of the local mode is taken by *)
(* its address, active or not: while it waits for its activation, the local *)
(* mode signs it in again before every request.                             *)
Known(b) ==
  \/ SessionValid(sessions[b])
  \/ LET s == sessions[b]
     IN /\ ~loginRequired /\ s # Gone /\ rows[s.of] # Gone
        /\ rows[s.of].email = LocalAdmin /\ rows[s.of].password = s.hash

Opened(i, row) == [of |-> i, hash |-> row.password, replaced |-> FALSE]
AskFor(b, work, i, k) ==
  requests' = [requests EXCEPT ![b] = [work |-> work, of |-> i, copy |-> rows[i], key |-> k,
     read |-> "no", replaced |-> work # "verify" /\ sessions[b].replaced]]

(* A password signs in while login is required; the local mode redirects    *)
(* to its profile, or answers LOGIN_NOT_REQUIRED.                           *)
SignIn(b, i) ==
  /\ loginRequired /\ MayAsk(b)
  /\ rows[i] # Gone /\ rows[i].verified /\ rows[i].password # 0
  /\ sessions' = [sessions EXCEPT ![b] = Opened(i, rows[i])]
  /\ tally' = Counted
  /\ UNCHANGED <<loginRequired, rows, requests, keys, told, stale>>

(* An unauthenticated request of the local mode opens a session of the      *)
(* local administrator, whose account is created when there is none.  The   *)
(* profile chosen last is the account of the session that ended, so that    *)
(* it is gone or inactive as well, or was flushed with the session.         *)
OpenLocal(b) ==
  /\ ~loginRequired /\ MayAsk(b) /\ ~Known(b)
  /\ \/ \E i \in Ids :
          /\ rows[i] # Gone /\ rows[i].email = LocalAdmin
          /\ sessions' = [sessions EXCEPT ![b] = Opened(i, rows[i])]
          /\ tally' = Counted
          /\ UNCHANGED <<rows, told>>
     \/ /\ CreateAccount(LocalAdmin, 0, TRUE)
        /\ LET i == tally.accounts + 1
           IN sessions' = [sessions EXCEPT ![b] = Opened(i, rows'[i])]
        /\ tally' = [Counted EXCEPT !.accounts = @ + 1]
  /\ UNCHANGED <<loginRequired, requests, keys, stale>>

(* switch_account_view: the session of an active account, one's own among   *)
(* them, or of a new local profile, without a password.                     *)
SwitchAccount(b) ==
  /\ ~loginRequired /\ MayAsk(b) /\ Known(b)
  /\ \/ \E i \in Ids :
          /\ rows[i] # Gone /\ rows[i].verified
          /\ sessions' = [sessions EXCEPT ![b] = Opened(i, rows[i])]
          /\ tally' = Counted
          /\ UNCHANGED <<rows, told>>
     \/ /\ \E email \in Addresses \ {LocalAdmin} : CreateAccount(email, 0, TRUE)
        /\ LET i == tally.accounts + 1
           IN sessions' = [sessions EXCEPT ![b] = Opened(i, rows'[i])]
        /\ tally' = [Counted EXCEPT !.accounts = @ + 1]
  /\ UNCHANGED <<loginRequired, requests, keys, stale>>

(* SignoutView signs out in both modes; the API refuses to in the local one.*)
SignOut(b) ==
  /\ requests[b] = Gone /\ sessions[b] # Gone
  /\ sessions' = [sessions EXCEPT ![b] = Gone]
  /\ UNCHANGED <<loginRequired, rows, requests, keys, told, stale, tally>>

(* A session whose hash no longer fits is flushed by the next request; one  *)
(* whose account is gone or inactive is anonymous, and stays.               *)
Flush(b) ==
  /\ requests[b] = Gone /\ sessions[b] # Gone
  /\ rows[sessions[b].of] # Gone /\ rows[sessions[b].of].verified
  /\ rows[sessions[b].of].password # sessions[b].hash
  /\ sessions' = [sessions EXCEPT ![b] = Gone]
  /\ UNCHANGED <<loginRequired, rows, requests, keys, told, stale, tally>>

(* A request is authenticated: it has its copy of the row from here on.     *)
Authenticate(b, work, k) ==
  /\ MayAsk(b) /\ Known(b)
  /\ work # "verify"
  /\ (k = Gone) = (work \notin {"revoke", "discard", "toggle"})
  /\ AskFor(b, work, sessions[b].of, k)
  /\ tally' = Counted
  /\ UNCHANGED <<loginRequired, rows, sessions, keys, told, stale>>

(* verify_email: the link of a mail, first or sent again, is good as long   *)
(* as the row it reads waits for it.                                        *)
OpenLink(b, i) ==
  /\ MayAsk(b) /\ rows[i] # Gone /\ ~rows[i].verified
  /\ AskFor(b, "verify", i, Gone)
  /\ tally' = Counted
  /\ UNCHANGED <<loginRequired, rows, sessions, keys, told, stale>>

Working(b, work) == requests[b] # Gone /\ requests[b].work = work
Answered(b) == requests' = [requests EXCEPT ![b] = Gone]
Mine(b) == requests[b].of

(* A 500, or a form that is refused: nothing was written.                   *)
LeaveUnwritten(b) ==
  /\ Answered(b)
  /\ UNCHANGED <<loginRequired, rows, sessions, keys, told, stale, tally>>

TellRow(i, row) == told' = [told EXCEPT ![i] = IF @ = Gone THEN Gone ELSE row]

(* save(update_fields=...): the named fields of a row that is there.        *)
SaveFields(b, row) ==
  /\ rows[Mine(b)] # Gone
  /\ rows' = [rows EXCEPT ![Mine(b)] = row]
  /\ UNCHANGED stale

(* save(): the copy, with what the request changed in it.                   *)
SaveWhole(b, row) ==
  /\ \A i \in Ids \ {Mine(b)} : rows[i] # Gone => rows[i].email # row.email
  /\ rows' = [rows EXCEPT ![Mine(b)] = row]
  /\ stale' = IF rows[Mine(b)] = requests[b].copy THEN stale ELSE stale \cup {Mine(b)}

ChangeName(b) ==
  /\ Working(b, "name") /\ Answered(b)
  /\ SaveFields(b, [rows[Mine(b)] EXCEPT !.name = "new"])
  /\ TellRow(Mine(b), [told[Mine(b)] EXCEPT !.name = "new"])
  /\ UNCHANGED <<loginRequired, sessions, keys, tally>>

(* Wrong variant of ChangeEmail: the whole copy is saved.                   *)
ChangeEmailWhole(b, email) ==
  /\ Working(b, "email") /\ Answered(b)
  /\ \A i \in Ids \ {Mine(b)} : rows[i] # Gone => rows[i].email # email
  /\ rows[Mine(b)] # Gone
  /\ rows' = [rows EXCEPT ![Mine(b)] = [requests[b].copy EXCEPT !.email = email]]
  /\ TellRow(Mine(b), [told[Mine(b)] EXCEPT !.email = email])
  /\ UNCHANGED <<loginRequired, sessions, keys, stale, tally>>

(* update_account_email: an address nobody else has.                        *)
ChangeEmail(b, email) ==
  /\ Working(b, "email") /\ Answered(b)
  /\ \A i \in Ids \ {Mine(b)} : rows[i] # Gone => rows[i].email # email
  /\ SaveFields(b, [rows[Mine(b)] EXCEPT !.email = email])
  /\ TellRow(Mine(b), [told[Mine(b)] EXCEPT !.email = email])
  /\ UNCHANGED <<loginRequired, sessions, keys, tally>>

(* change_password: the whole row.  The session of this browser goes on,    *)
(* with the new hash; the others of the account were opened with an old one.*)
ChangePassword(b) ==
  LET n == tally.passwords + 1
  IN /\ Working(b, "password") /\ Answered(b)
     /\ n <= MaxAsked
     /\ SaveWhole(b, [requests[b].copy EXCEPT !.password = n])
     /\ TellRow(Mine(b), [told[Mine(b)] EXCEPT !.password = n])
     /\ sessions' = [c \in Browsers |->
          IF c = b THEN Opened(Mine(b), rows'[Mine(b)])
          ELSE IF sessions[c] # Gone /\ sessions[c].of = Mine(b) THEN [sessions[c] EXCEPT !.replaced = TRUE]
          ELSE sessions[c]]
     /\ tally' = [tally EXCEPT !.passwords = n]
     /\ UNCHANGED <<loginRequired, keys>>

Verified(b) ==
  /\ Working(b, "verify") /\ Answered(b)
  /\ SaveWhole(b, [requests[b].copy EXCEPT !.verified = TRUE])
  /\ TellRow(Mine(b), [told[Mine(b)] EXCEPT !.verified = TRUE])
  /\ UNCHANGED <<loginRequired, sessions, keys, tally>>

(* delete_account, for a profile with a password; it is refused where the   *)
(* account is the only admin of others (WorkspaceMembership).  The tokens   *)
(* go with the account.                                                     *)
DeleteAccount(b) ==
  /\ Working(b, "delete") /\ requests[b].copy.password # 0
  /\ Answered(b)
  /\ rows' = [rows EXCEPT ![Mine(b)] = Gone]
  /\ keys' = [k \in Keys |-> IF keys[k] # Gone /\ keys[k].of = Mine(b) THEN Gone ELSE keys[k]]
  /\ told' = [told EXCEPT ![Mine(b)] = Gone]
  /\ sessions' = [sessions EXCEPT ![b] = Gone]
  /\ UNCHANGED <<loginRequired, stale, tally>>

(* The settings page knows sync tokens only, and asks for no verified       *)
(* address; the API of both kinds does.                                     *)
KindFor(b, kind) == kind = "sync" \/ requests[b].copy.verified

(* A token refers to the row of its account.  Tokens are not used again: no *)
(* request is still about the one that is issued.                           *)
IssueKey(b, k, kind) ==
  /\ Working(b, "issue") /\ keys[k] = Gone /\ rows[Mine(b)] # Gone
  /\ KindFor(b, kind)
  /\ \A c \in Browsers : requests[c] # Gone => requests[c].key # k
  /\ Answered(b)
  /\ keys' = [keys EXCEPT ![k] = [kind |-> kind, of |-> Mine(b), active |-> TRUE]]
  /\ UNCHANGED <<loginRequired, rows, sessions, told, stale, tally>>

Owned(b) == keys[requests[b].key] # Gone /\ keys[requests[b].key].of = Mine(b)

(* A CLI token is switched off for good; a sync token is deleted.           *)
RevokeKey(b) ==
  /\ Working(b, "revoke") /\ Owned(b) /\ KindFor(b, keys[requests[b].key].kind)
  /\ LET k == requests[b].key
     IN keys' = [keys EXCEPT ![k] = IF @.kind = "sync" THEN Gone ELSE [@ EXCEPT !.active = FALSE]]
  /\ Answered(b)
  /\ UNCHANGED <<loginRequired, rows, sessions, told, stale, tally>>

(* delete_access_token, of the API: only what is switched off.              *)
DiscardKey(b) ==
  /\ Working(b, "discard") /\ Owned(b) /\ ~keys[requests[b].key].active
  /\ requests[b].copy.verified
  /\ keys' = [keys EXCEPT ![requests[b].key] = Gone]
  /\ Answered(b)
  /\ UNCHANGED <<loginRequired, rows, sessions, told, stale, tally>>

(* toggle_token reads a sync token, and writes the opposite of what it read.*)
ReadToggle(b) ==
  /\ Working(b, "toggle") /\ Owned(b) /\ requests[b].read = "no"
  /\ keys[requests[b].key].kind = "sync"
  /\ requests' = [requests EXCEPT ![b].read = IF keys[requests[b].key].active THEN "on" ELSE "off"]
  /\ UNCHANGED <<loginRequired, rows, sessions, keys, told, stale, tally>>

WriteToggle(b) ==
  /\ Working(b, "toggle") /\ requests[b].read # "no" /\ Owned(b)
  /\ keys' = [keys EXCEPT ![requests[b].key].active = requests[b].read = "off"]
  /\ Answered(b)
  /\ UNCHANGED <<loginRequired, rows, sessions, told, stale, tally>>

(* install.py --login on/off restarts the application: the requests end and *)
(* the sessions stay.                                                       *)
RestartWithLogin(on) ==
  /\ tally.restarts = 0 /\ on # loginRequired
  /\ loginRequired' = on
  /\ requests' = [b \in Browsers |-> Gone]
  /\ tally' = [tally EXCEPT !.restarts = 1]
  /\ UNCHANGED <<rows, sessions, keys, told, stale>>

AccessNext ==
  \/ \E b \in Browsers :
       \/ \E email \in Addresses, v \in BOOLEAN : SignUp(b, email, v)
       \/ \E i \in Ids : SignIn(b, i) \/ OpenLink(b, i)
       \/ OpenLocal(b) \/ SwitchAccount(b) \/ SignOut(b) \/ Flush(b)
       \/ \E work \in Works, k \in Keys \cup {Gone} : Authenticate(b, work, k)
       \/ requests[b] # Gone /\ LeaveUnwritten(b)
       \/ ChangeName(b) \/ (\E email \in Addresses : ChangeEmail(b, email))
       \/ ChangePassword(b) \/ Verified(b) \/ DeleteAccount(b)
       \/ \E k \in Keys, kind \in {"cli", "sync"} : IssueKey(b, k, kind)
       \/ RevokeKey(b) \/ DiscardKey(b) \/ ReadToggle(b) \/ WriteToggle(b)
  \/ \E on \in BOOLEAN : RestartWithLogin(on)

AccessSpec == AccessInit /\ [][AccessNext]_accessVars

(* What the answers told of an account is what its row holds, and a deleted *)
(* account stays deleted, unless a password change or an activation that    *)
(* had read the row before wrote it as a whole afterwards: these two save   *)
(* every field of their copy, and insert a row that is gone.                *)
LastAnswerStands == \A i \in Ids \ stale : rows[i] = told[i]

(* Once the password of an account was replaced, no request of a session    *)
(* opened with an earlier one is carried out, except where such a save      *)
(* brought the earlier hash back.                                           *)
NewPasswordEndsSessions ==
  \A b \in Browsers : requests[b] # Gone /\ requests[b].replaced => requests[b].of \in stale

(* A token that may be used belongs to an account that is there: deleting   *)
(* the account ended it, also when the account was inserted again.          *)
TokensHaveOwners ==
  \A k \in Keys : keys[k] # Gone => rows[keys[k].of] # Gone

(* What the accounts promise to those who use them, for TLC to check as one.*)
AccountsAsAnswered == LastAnswerStands /\ NewPasswordEndsSessions /\ TokensHaveOwners

=============================================================================
