----------------------------- MODULE ClientProofs -----------------------------
(***************************************************************************)
(* What the browsers and tools of the users rely on, for every value of    *)
(* the constants: the accounts and sessions the server keeps for them,     *)
(* then the chat and the documents of one tab of the web client.           *)
(*                                                                         *)
(* Each part has its own inductive invariant: AccessInv, ChatInv and       *)
(* PanelInv.  The parts share no state.                                    *)
(***************************************************************************)
EXTENDS MCReceiptsAndPanels, ReceiptsProofs, FiniteSetTheorems, SequenceTheorems, TLAPS

-----------------------------------------------------------------------------
(* Types.                                                                   *)

Tallies ==
  [accounts : 0..MaxAccounts, passwords : Nat, asked : 0..MaxAsked, restarts : 0..1]

LEMMA RowTypes ==
  ASSUME AccessTypeOK
  PROVE  /\ \A i \in Ids : rows[i] # Gone => rows[i] \in AccountRows
         /\ \A i \in Ids : told[i] # Gone => told[i] \in AccountRows
         /\ \A b \in Browsers : sessions[b] # Gone =>
              sessions[b] \in Sessions /\ sessions[b].of \in Ids /\ sessions[b].hash \in Nat
         /\ \A b \in Browsers : requests[b] # Gone =>
              /\ requests[b] \in RequestsOf /\ requests[b].of \in Ids
              /\ requests[b].copy \in AccountRows /\ requests[b].copy.password \in Nat
         /\ \A k \in Keys : keys[k] # Gone => keys[k] \in KeyRows /\ keys[k].of \in Ids
         /\ tally \in Tallies
  BY DEF AccessTypeOK, Sessions, RequestsOf, KeyRows, Tallies, AccountRows

LEMMA CountedType ==
  ASSUME AccessTypeOK, tally.asked < MaxAsked
  PROVE  /\ Counted \in Tallies
         /\ Counted.accounts = tally.accounts /\ Counted.passwords = tally.passwords
<1>1. tally.asked + 1 \in 0..MaxAsked
  BY AccessAssumption DEF AccessTypeOK
<1> QED
  BY <1>1, RowTypes DEF Counted, Tallies

(* Writing one field of a row, a session or a token.                        *)
LEMMA RowFields ==
  ASSUME NEW r \in AccountRows
  PROVE  /\ [r EXCEPT !.name = "new"] \in AccountRows
         /\ \A e \in Addresses : [r EXCEPT !.email = e] \in AccountRows
         /\ \A n \in Nat : [r EXCEPT !.password = n] \in AccountRows
         /\ [r EXCEPT !.verified = TRUE] \in AccountRows
         /\ [r EXCEPT !.name = "new"].password = r.password
         /\ \A e \in Addresses : [r EXCEPT !.email = e].password = r.password
         /\ \A n \in Nat : [r EXCEPT !.password = n].password = n
         /\ [r EXCEPT !.verified = TRUE].password = r.password
  BY DEF AccountRows

LEMMA OpenedType ==
  ASSUME NEW i \in Ids, NEW r \in AccountRows
  PROVE  /\ Opened(i, r) \in Sessions /\ Opened(i, r).of = i
         /\ Opened(i, r).hash = r.password /\ ~Opened(i, r).replaced
  BY DEF Opened, Sessions, AccountRows

LEMMA CreateType ==
  ASSUME AccessTypeOK, NEW email \in Addresses, NEW password \in Nat, NEW verified \in BOOLEAN,
         CreateAccount(email, password, verified)
  PROVE  \E r \in AccountRows, i \in Ids :
           /\ i = tally.accounts + 1 /\ i \in 0..MaxAccounts /\ r.password = password
           /\ rows' = [rows EXCEPT ![i] = r] /\ told' = [told EXCEPT ![i] = r]
<1> DEFINE r == [email |-> email, name |-> "old", password |-> password, verified |-> verified]
           i == tally.accounts + 1
<1>1. r \in AccountRows /\ r.password = password
  BY DEF AccountRows
<1>2. i \in Ids /\ i \in 0..MaxAccounts
  BY AccessAssumption DEF CreateAccount, AccessTypeOK, Ids
<1>3. rows' = [rows EXCEPT ![i] = r] /\ told' = [told EXCEPT ![i] = r]
  BY DEF CreateAccount
<1> QED
  BY <1>1, <1>2, <1>3

-----------------------------------------------------------------------------
(* The steps that write no row of an account: what they do to the sessions, *)
(* the requests and the tokens.                                             *)

SameSession(b) ==
  \/ sessions'[b] = sessions[b]
  \/ sessions'[b] = Gone
  \/ \E i \in Ids : rows[i] # Gone /\ sessions'[b] = Opened(i, rows[i])

SameRequest(b) ==
  \/ requests'[b] = requests[b]
  \/ requests'[b] = Gone
  \/ /\ requests[b] # Gone /\ requests'[b] # Gone
     /\ requests'[b].of = requests[b].of /\ requests'[b].copy = requests[b].copy
     /\ requests'[b].replaced = requests[b].replaced
  \/ /\ requests'[b] # Gone /\ requests'[b].of \in Ids
     /\ rows[requests'[b].of] # Gone /\ requests'[b].copy = rows[requests'[b].of]
     /\ requests'[b].replaced =>
          /\ Known(b) /\ sessions[b].replaced
          /\ sessions[b].of = requests'[b].of

SameKey(k) ==
  \/ keys'[k] = Gone
  \/ keys[k] # Gone /\ keys'[k].of = keys[k].of
  \/ keys'[k].of \in Ids /\ rows[keys'[k].of] # Gone

NoRowWritten ==
  /\ rows' = rows /\ told' = told /\ stale' = stale
  /\ tally'.accounts = tally.accounts /\ tally'.passwords = tally.passwords
  /\ \A b \in Browsers : SameSession(b) /\ SameRequest(b)
  /\ \A k \in Keys : SameKey(k)

LEMMA GoneIsNoRow ==
  /\ \A r \in AccountRows : r # Gone
  /\ \A s \in Sessions : s # Gone
  /\ \A q \in RequestsOf : q # Gone
  /\ \A k \in KeyRows : k # Gone
  /\ \A k \in Keys : k # Gone
  BY GoneIsNone

LEMMA AskForStep ==
  ASSUME AccessTypeOK, NEW b \in Browsers, NEW asking \in Works, NEW i \in Ids, rows[i] # Gone,
         NEW k \in Keys \cup {Gone}, AskFor(b, asking, i, k),
         asking # "verify" => Known(b) /\ sessions[b].of = i
  PROVE  /\ requests' \in [Browsers -> RequestsOf \cup {Gone}]
         /\ \A c \in Browsers : SameRequest(c)
<1> DEFINE q == [work |-> asking, of |-> i, copy |-> rows[i], key |-> k, read |-> "no",
                 replaced |-> asking # "verify" /\ sessions[b].replaced]
<1>1. (asking # "verify" /\ sessions[b].replaced) \in BOOLEAN
  OBVIOUS
<1>2. rows[i] \in AccountRows
  BY RowTypes
<1>3. q \in RequestsOf
  BY <1>1, <1>2 DEF RequestsOf
<1>4. q.of = i /\ q.copy = rows[i] /\ (q.replaced => asking # "verify" /\ sessions[b].replaced)
  OBVIOUS
<1>5. q # Gone
  BY <1>3, GoneIsNoRow
<1>6. requests' = [requests EXCEPT ![b] = q]
  BY DEF AskFor
<1> HIDE DEF q
<1>7. requests' \in [Browsers -> RequestsOf \cup {Gone}]
  BY <1>3, <1>6 DEF AccessTypeOK
<1>8. requests'[b] = q /\ \A c \in Browsers : c # b => requests'[c] = requests[c]
  BY <1>6 DEF AccessTypeOK
<1> QED
  BY <1>4, <1>5, <1>7, <1>8 DEF SameRequest

LEMMA AnsweredStep ==
  ASSUME AccessTypeOK, NEW b \in Browsers, Answered(b)
  PROVE  /\ requests' \in [Browsers -> RequestsOf \cup {Gone}]
         /\ \A c \in Browsers : SameRequest(c)
         /\ \A c \in Browsers : requests'[c] # Gone => requests'[c] = requests[c]
  BY DEF Answered, AccessTypeOK, SameRequest

LEMMA OpenedStep ==
  ASSUME AccessTypeOK, NEW b \in Browsers, NEW i \in Ids, rows[i] # Gone,
         sessions' = [sessions EXCEPT ![b] = Opened(i, rows[i])]
  PROVE  /\ sessions' \in [Browsers -> Sessions \cup {Gone}]
         /\ \A c \in Browsers : SameSession(c)
<1>1. rows[i] \in AccountRows
  BY RowTypes
<1>2. Opened(i, rows[i]) \in Sessions
  BY <1>1, OpenedType
<1> QED
  BY <1>2 DEF AccessTypeOK, SameSession

LEMMA ClosedStep ==
  ASSUME AccessTypeOK, NEW b \in Browsers, sessions' = [sessions EXCEPT ![b] = Gone]
  PROVE  /\ sessions' \in [Browsers -> Sessions \cup {Gone}]
         /\ \A c \in Browsers : SameSession(c)
  BY DEF AccessTypeOK, SameSession

LEMMA KeyStep ==
  ASSUME AccessTypeOK, NEW k \in Keys, NEW v \in KeyRows \cup {Gone},
         keys' = [keys EXCEPT ![k] = v],
         \/ v = Gone
         \/ keys[k] # Gone /\ v.of = keys[k].of
         \/ rows[v.of] # Gone /\ v.of \in Ids
  PROVE  keys' \in [Keys -> KeyRows \cup {Gone}] /\ \A j \in Keys : SameKey(j)
  BY DEF AccessTypeOK, SameKey

LEMMA NothingElse ==
  ASSUME AccessTypeOK
  PROVE  /\ sessions' = sessions => \A c \in Browsers : SameSession(c)
         /\ requests' = requests => \A c \in Browsers : SameRequest(c)
         /\ keys' = keys => \A k \in Keys : SameKey(k)
  BY DEF SameSession, SameRequest, SameKey

LEMMA QuietTypes ==
  ASSUME AccessTypeOK, UNCHANGED <<rows, told, stale>>, loginRequired' \in BOOLEAN,
         sessions' \in [Browsers -> Sessions \cup {Gone}],
         requests' \in [Browsers -> RequestsOf \cup {Gone}],
         keys' \in [Keys -> KeyRows \cup {Gone}], tally' \in Tallies,
         tally'.accounts = tally.accounts, tally'.passwords = tally.passwords,
         \A b \in Browsers : SameSession(b), \A b \in Browsers : SameRequest(b),
         \A k \in Keys : SameKey(k)
  PROVE  AccessTypeOK' /\ NoRowWritten
  BY DEF AccessTypeOK, NoRowWritten, Tallies

LEMMA QuietSignIn ==
  ASSUME AccessTypeOK, NEW b \in Browsers, NEW i \in Ids, SignIn(b, i)
  PROVE  AccessTypeOK' /\ NoRowWritten
<1>1. /\ sessions' = [sessions EXCEPT ![b] = Opened(i, rows[i])] /\ rows[i] # Gone
      /\ tally' = Counted /\ tally.asked < MaxAsked
      /\ UNCHANGED <<loginRequired, rows, requests, keys, told, stale>>
  BY DEF SignIn, MayAsk
<1> QED
  BY <1>1, OpenedStep, CountedType, NothingElse, QuietTypes DEF AccessTypeOK

LEMMA QuietLocal ==
  ASSUME AccessTypeOK, NEW b \in Browsers, MayAsk(b), NEW i \in Ids, rows[i] # Gone,
         sessions' = [sessions EXCEPT ![b] = Opened(i, rows[i])], tally' = Counted,
         UNCHANGED <<loginRequired, rows, requests, keys, told, stale>>
  PROVE  AccessTypeOK' /\ NoRowWritten
  BY OpenedStep, CountedType, NothingElse, QuietTypes DEF AccessTypeOK, MayAsk

LEMMA QuietSignOut ==
  ASSUME AccessTypeOK, NEW b \in Browsers, SignOut(b) \/ Flush(b)
  PROVE  AccessTypeOK' /\ NoRowWritten
<1>1. /\ sessions' = [sessions EXCEPT ![b] = Gone]
      /\ UNCHANGED <<loginRequired, rows, requests, keys, told, stale, tally>>
  BY DEF SignOut, Flush
<1> QED
  BY <1>1, ClosedStep, RowTypes, NothingElse, QuietTypes DEF AccessTypeOK

LEMMA QuietAuthenticate ==
  ASSUME AccessTypeOK, NEW b \in Browsers, NEW asking \in Works, NEW k \in Keys \cup {Gone},
         Authenticate(b, asking, k)
  PROVE  AccessTypeOK' /\ NoRowWritten
<1> DEFINE i == sessions[b].of
<1>1. /\ Known(b) /\ AskFor(b, asking, i, k) /\ tally.asked < MaxAsked
      /\ tally' = Counted /\ UNCHANGED <<loginRequired, rows, sessions, keys, told, stale>>
  BY DEF Authenticate, MayAsk
<1>2. i \in Ids /\ rows[i] # Gone
  BY <1>1, RowTypes DEF Known, SessionValid
<1>3. /\ requests' \in [Browsers -> RequestsOf \cup {Gone}]
      /\ \A c \in Browsers : SameRequest(c)
  BY <1>1, <1>2, AskForStep
<1> QED
  BY <1>1, <1>3, CountedType, NothingElse, QuietTypes DEF AccessTypeOK

LEMMA QuietOpenLink ==
  ASSUME AccessTypeOK, NEW b \in Browsers, NEW i \in Ids, OpenLink(b, i)
  PROVE  AccessTypeOK' /\ NoRowWritten
<1>1. /\ rows[i] # Gone /\ AskFor(b, "verify", i, Gone) /\ tally.asked < MaxAsked
      /\ tally' = Counted /\ UNCHANGED <<loginRequired, rows, sessions, keys, told, stale>>
  BY DEF OpenLink, MayAsk
<1>2. /\ requests' \in [Browsers -> RequestsOf \cup {Gone}]
      /\ \A c \in Browsers : SameRequest(c)
  BY <1>1, AskForStep DEF Works
<1> QED
  BY <1>1, <1>2, CountedType, NothingElse, QuietTypes DEF AccessTypeOK

LEMMA QuietLeave ==
  ASSUME AccessTypeOK, NEW b \in Browsers, LeaveUnwritten(b)
  PROVE  AccessTypeOK' /\ NoRowWritten
<1>1. Answered(b) /\ UNCHANGED <<loginRequired, rows, sessions, keys, told, stale, tally>>
  BY DEF LeaveUnwritten
<1> QED
  BY <1>1, AnsweredStep, RowTypes, NothingElse, QuietTypes DEF AccessTypeOK

LEMMA QuietIssueKey ==
  ASSUME AccessTypeOK, NEW b \in Browsers, NEW k \in Keys, NEW kind \in {"cli", "sync"},
         IssueKey(b, k, kind)
  PROVE  AccessTypeOK' /\ NoRowWritten
<1> DEFINE v == [kind |-> kind, of |-> Mine(b), active |-> TRUE]
<1>1. /\ requests[b] # Gone /\ rows[Mine(b)] # Gone /\ Answered(b)
      /\ keys' = [keys EXCEPT ![k] = v]
      /\ UNCHANGED <<loginRequired, rows, sessions, told, stale, tally>>
  BY DEF IssueKey, Working
<1>2. Mine(b) \in Ids
  BY <1>1, RowTypes DEF Mine
<1>3. v \in KeyRows /\ v.of = Mine(b)
  BY <1>2 DEF KeyRows
<1> HIDE DEF v
<1>4. keys' \in [Keys -> KeyRows \cup {Gone}] /\ \A j \in Keys : SameKey(j)
  BY <1>1, <1>2, <1>3, KeyStep
<1> QED
  BY <1>1, <1>4, AnsweredStep, RowTypes, NothingElse, QuietTypes DEF AccessTypeOK

(* A request about a token of its account; keys are not otherwise written.  *)
LEMMA OwnedKeyStep ==
  ASSUME AccessTypeOK, NEW b \in Browsers, requests[b] # Gone, Owned(b), NEW v,
         keys' = [keys EXCEPT ![requests[b].key] = v],
         requests[b].key \in Keys =>
           \/ v = Gone
           \/ v \in KeyRows /\ v.of = keys[requests[b].key].of
  PROVE  keys' \in [Keys -> KeyRows \cup {Gone}] /\ \A j \in Keys : SameKey(j)
<1>1. CASE requests[b].key \in Keys
  BY <1>1, KeyStep DEF Owned
<1>2. CASE requests[b].key \notin Keys
  <2>1. keys' = keys
    BY <1>2 DEF AccessTypeOK
  <2> QED
    BY <2>1, NothingElse DEF AccessTypeOK
<1> QED
  BY <1>1, <1>2

LEMMA QuietKeyWork ==
  ASSUME AccessTypeOK, NEW b \in Browsers, RevokeKey(b) \/ DiscardKey(b) \/ WriteToggle(b)
  PROVE  AccessTypeOK' /\ NoRowWritten
<1> DEFINE k == requests[b].key
<1>1. /\ requests[b] # Gone /\ Owned(b) /\ Answered(b)
      /\ UNCHANGED <<loginRequired, rows, sessions, told, stale, tally>>
  BY DEF RevokeKey, DiscardKey, WriteToggle, Working
<1>2. k \in Keys => keys[k] \in KeyRows
  BY <1>1, RowTypes DEF Owned
<1>3. \A r \in KeyRows, a \in BOOLEAN :
        [r EXCEPT !.active = a] \in KeyRows /\ [r EXCEPT !.active = a].of = r.of
  BY DEF KeyRows
<1>4. \A a \in BOOLEAN : k \in Keys =>
        [keys[k] EXCEPT !.active = a] \in KeyRows /\ [keys[k] EXCEPT !.active = a].of = keys[k].of
  BY <1>2, <1>3
<1>5. keys' \in [Keys -> KeyRows \cup {Gone}] /\ \A j \in Keys : SameKey(j)
  <2>1. CASE RevokeKey(b)
    <3>1. keys' = [keys EXCEPT ![k] = IF keys[k].kind = "sync" THEN Gone
                                      ELSE [keys[k] EXCEPT !.active = FALSE]]
      BY <2>1 DEF RevokeKey, AccessTypeOK
    <3> QED
      BY <1>1, <1>4, <3>1, OwnedKeyStep
  <2>2. CASE DiscardKey(b)
    BY <1>1, <2>2, OwnedKeyStep DEF DiscardKey
  <2>3. CASE WriteToggle(b)
    <3>1. keys' = [keys EXCEPT ![k] = [keys[k] EXCEPT !.active = requests[b].read = "off"]]
      BY <2>3 DEF WriteToggle, AccessTypeOK
    <3>2. (requests[b].read = "off") \in BOOLEAN
      OBVIOUS
    <3> QED
      BY <1>1, <1>4, <3>1, <3>2, OwnedKeyStep
  <2> QED
    BY <2>1, <2>2, <2>3
<1> QED
  BY <1>1, <1>5, AnsweredStep, RowTypes, NothingElse, QuietTypes DEF AccessTypeOK

LEMMA QuietReadToggle ==
  ASSUME AccessTypeOK, NEW b \in Browsers, ReadToggle(b)
  PROVE  AccessTypeOK' /\ NoRowWritten
<1> DEFINE x == IF keys[requests[b].key].active THEN "on" ELSE "off"
           q == [requests[b] EXCEPT !.read = x]
<1>1. /\ requests[b] # Gone /\ requests' = [requests EXCEPT ![b] = q]
      /\ UNCHANGED <<loginRequired, rows, sessions, keys, told, stale, tally>>
  BY DEF ReadToggle, Working, AccessTypeOK
<1>2. requests[b] \in RequestsOf /\ x \in {"no", "on", "off"}
  BY <1>1, RowTypes
<1>3. /\ q \in RequestsOf /\ q.of = requests[b].of /\ q.copy = requests[b].copy
      /\ q.replaced = requests[b].replaced
  BY <1>2 DEF RequestsOf
<1>4. q # Gone
  BY <1>3, GoneIsNoRow
<1> HIDE DEF q
<1>5. /\ requests' \in [Browsers -> RequestsOf \cup {Gone}]
      /\ \A c \in Browsers : SameRequest(c)
  BY <1>1, <1>3, <1>4 DEF AccessTypeOK, SameRequest
<1> QED
  BY <1>1, <1>5, RowTypes, NothingElse, QuietTypes DEF AccessTypeOK

LEMMA QuietRestart ==
  ASSUME AccessTypeOK, NEW on \in BOOLEAN, RestartWithLogin(on)
  PROVE  AccessTypeOK' /\ NoRowWritten
<1>1. /\ loginRequired' = on /\ requests' = [b \in Browsers |-> Gone]
      /\ tally' = [tally EXCEPT !.restarts = 1]
      /\ UNCHANGED <<rows, sessions, keys, told, stale>>
  BY DEF RestartWithLogin
<1>2. requests' \in [Browsers -> RequestsOf \cup {Gone}] /\ \A c \in Browsers : SameRequest(c)
  BY <1>1 DEF SameRequest
<1>3. /\ tally' \in Tallies
      /\ tally'.accounts = tally.accounts /\ tally'.passwords = tally.passwords
  BY <1>1, RowTypes DEF Tallies
<1> QED
  BY <1>1, <1>2, <1>3, NothingElse, QuietTypes DEF AccessTypeOK

-----------------------------------------------------------------------------
(* The steps that write a row.  Each is described once: which row it        *)
(* writes, what the answer tells of it, and what becomes of the sessions.   *)

(* A new account, with a number nobody refers to yet.                       *)
AccountCreated ==
  \E i \in Ids, r \in AccountRows :
    /\ i = tally.accounts + 1 /\ tally'.accounts = i
    /\ tally'.passwords \in Nat /\ tally.passwords <= tally'.passwords
    /\ r.password <= tally'.passwords
    /\ rows' = [rows EXCEPT ![i] = r] /\ told' = [told EXCEPT ![i] = r]
    /\ UNCHANGED <<requests, keys, stale>>
    /\ \A b \in Browsers : sessions'[b] = sessions[b] \/ sessions'[b] = Opened(i, r)

LEMMA CreateSignUp ==
  ASSUME AccessTypeOK, NEW b \in Browsers, NEW email \in Addresses, NEW v \in BOOLEAN,
         SignUp(b, email, v)
  PROVE  AccessTypeOK' /\ AccountCreated
<1> DEFINE n == tally.passwords + 1
<1>1. tally \in Tallies /\ n \in Nat /\ tally.asked < MaxAsked
  BY RowTypes DEF SignUp, MayAsk, Tallies
<1>2. PICK r \in AccountRows, i \in Ids :
        /\ i = tally.accounts + 1 /\ i \in 0..MaxAccounts /\ r.password = n
        /\ rows' = [rows EXCEPT ![i] = r] /\ told' = [told EXCEPT ![i] = r]
  BY <1>1, CreateType DEF SignUp
<1>3. tally' = [Counted EXCEPT !.accounts = tally.accounts + 1, !.passwords = n]
  BY CountedType, <1>1 DEF SignUp, Tallies
<1>4. tally' \in Tallies /\ tally'.accounts = i /\ tally'.passwords = n
  BY <1>1, <1>2, <1>3, CountedType DEF Tallies
<1>5. tally.passwords <= n /\ n <= n
  BY <1>1 DEF Tallies
<1>6. AccessTypeOK'
  BY <1>2, <1>4 DEF SignUp, AccessTypeOK, Tallies
<1>7. UNCHANGED <<requests, keys, stale, sessions>>
  BY DEF SignUp
<1> HIDE DEF n
<1> QED
  BY <1>1, <1>2, <1>4, <1>5, <1>6, <1>7 DEF AccountCreated

(* The profile of the local mode, with the session of who asked.            *)
LEMMA CreateProfile ==
  ASSUME AccessTypeOK, NEW b \in Browsers, NEW email \in Addresses, MayAsk(b),
         CreateAccount(email, 0, TRUE),
         sessions' = [sessions EXCEPT ![b] = Opened(tally.accounts + 1, rows'[tally.accounts + 1])],
         tally' = [Counted EXCEPT !.accounts = @ + 1],
         UNCHANGED <<loginRequired, requests, keys, stale>>
  PROVE  AccessTypeOK' /\ AccountCreated
<1>1. tally \in Tallies /\ tally.asked < MaxAsked
  BY RowTypes DEF MayAsk
<1>2. PICK r \in AccountRows, i \in Ids :
        /\ i = tally.accounts + 1 /\ i \in 0..MaxAccounts /\ r.password = 0
        /\ rows' = [rows EXCEPT ![i] = r] /\ told' = [told EXCEPT ![i] = r]
  BY CreateType
<1>3. tally' = [Counted EXCEPT !.accounts = tally.accounts + 1]
  BY CountedType, <1>1 DEF Tallies
<1>4. tally' \in Tallies /\ tally'.accounts = i /\ tally'.passwords = tally.passwords
  BY <1>1, <1>2, <1>3, CountedType DEF Tallies
<1>5. tally.passwords \in Nat /\ tally.passwords <= tally.passwords /\ 0 <= tally.passwords
  BY <1>1 DEF Tallies
<1>6. rows'[i] = r
  BY <1>2 DEF AccessTypeOK
<1>7. Opened(i, r) \in Sessions
  BY OpenedType
<1>8. sessions' = [sessions EXCEPT ![b] = Opened(i, r)]
  BY <1>2, <1>6
<1>9. AccessTypeOK'
  BY <1>2, <1>4, <1>7, <1>8 DEF AccessTypeOK, Tallies
<1>10. \A c \in Browsers : sessions'[c] = sessions[c] \/ sessions'[c] = Opened(i, r)
  BY <1>8 DEF AccessTypeOK
<1> QED
  BY <1>2, <1>4, <1>5, <1>9, <1>10 DEF AccountCreated

LEMMA LocalSteps ==
  ASSUME AccessTypeOK, NEW b \in Browsers, OpenLocal(b) \/ SwitchAccount(b)
  PROVE  AccessTypeOK' /\ (NoRowWritten \/ AccountCreated)
<1>1. MayAsk(b) /\ UNCHANGED <<loginRequired, requests, keys, stale>>
  BY DEF OpenLocal, SwitchAccount
<1>2. \/ \E i \in Ids : /\ rows[i] # Gone
                        /\ sessions' = [sessions EXCEPT ![b] = Opened(i, rows[i])]
                        /\ tally' = Counted /\ UNCHANGED <<rows, told>>
      \/ /\ \E email \in Addresses : CreateAccount(email, 0, TRUE)
         /\ sessions' = [sessions EXCEPT ![b] =
              Opened(tally.accounts + 1, rows'[tally.accounts + 1])]
         /\ tally' = [Counted EXCEPT !.accounts = @ + 1]
  BY AccessAssumption DEF OpenLocal, SwitchAccount
<1> QED
  BY <1>1, <1>2, QuietLocal, CreateProfile

(* A row written by a request that has read it before.  Where the row was   *)
(* not written as a whole from an old copy, the answer tells what it holds; *)
(* its password is the one it had, or a new one.                            *)
RowSaved ==
  \E i \in Ids, r \in AccountRows :
    /\ \E b \in Browsers : requests[b] # Gone /\ requests[b].of = i
    /\ rows' = [rows EXCEPT ![i] = r]
    /\ \A j \in Ids \ {i} : told'[j] = told[j]
    /\ stale \subseteq stale' /\ stale' \subseteq stale \cup {i} /\ keys' = keys
    /\ i \notin stale' =>
         /\ rows[i] # Gone
         /\ r.password = rows[i].password \/ r.password > tally.passwords
         /\ told[i] = rows[i] => told'[i] = r
    /\ tally'.accounts = tally.accounts
    /\ tally'.passwords \in Nat /\ tally.passwords <= tally'.passwords
    /\ \/ r.password <= tally'.passwords
       \/ \E b \in Browsers : requests[b] # Gone /\ r.password = requests[b].copy.password
       \/ rows[i] # Gone /\ r.password = rows[i].password
    /\ \A b \in Browsers : requests'[b] # Gone => requests'[b] = requests[b]
    /\ \A b \in Browsers :
         \/ sessions'[b] = sessions[b]
         \/ sessions'[b] = Opened(i, r) /\ r.password <= tally'.passwords
         \/ /\ sessions[b] # Gone /\ sessions[b].of = i /\ r.password > tally.passwords
            /\ sessions'[b] # Gone /\ sessions'[b].of = i
            /\ sessions'[b].hash = sessions[b].hash

LEMMA TellRowStep ==
  ASSUME AccessTypeOK, NEW i \in Ids, NEW t, TellRow(i, t), told[i] # Gone => t \in AccountRows
  PROVE  /\ told' \in [Ids -> AccountRows \cup {Gone}]
         /\ \A j \in Ids \ {i} : told'[j] = told[j]
         /\ told[i] # Gone => told'[i] = t
<1>1. told' = [told EXCEPT ![i] = IF told[i] = Gone THEN Gone ELSE t]
  BY DEF TellRow, AccessTypeOK
<1> QED
  BY <1>1 DEF AccessTypeOK

LEMMA FieldsSaved ==
  ASSUME AccessTypeOK, NEW b \in Browsers, requests[b] # Gone, Answered(b),
         NEW r, NEW t, SaveFields(b, r), TellRow(Mine(b), t),
         rows[Mine(b)] # Gone => r \in AccountRows /\ r.password = rows[Mine(b)].password,
         told[Mine(b)] # Gone => t \in AccountRows,
         told[Mine(b)] = rows[Mine(b)] => t = r,
         UNCHANGED <<loginRequired, sessions, keys, tally>>
  PROVE  AccessTypeOK' /\ RowSaved
<1> DEFINE i == Mine(b)
<1>1. i \in Ids /\ requests[b].of = i /\ tally \in Tallies
  BY RowTypes DEF Mine
<1>2. rows[i] # Gone /\ rows' = [rows EXCEPT ![i] = r] /\ stale' = stale
  BY DEF SaveFields
<1>3. /\ told' \in [Ids -> AccountRows \cup {Gone}]
      /\ \A j \in Ids \ {i} : told'[j] = told[j]
      /\ told[i] # Gone => told'[i] = t
  BY <1>1, TellRowStep
<1>4. /\ requests' \in [Browsers -> RequestsOf \cup {Gone}]
      /\ \A c \in Browsers : requests'[c] # Gone => requests'[c] = requests[c]
  BY AnsweredStep
<1>5. AccessTypeOK'
  BY <1>1, <1>2, <1>3, <1>4 DEF AccessTypeOK
<1>6. tally.passwords \in Nat /\ tally.passwords <= tally.passwords
  BY <1>1 DEF Tallies
<1>7. told[i] = rows[i] => told'[i] = r
  BY <1>2, <1>3
<1> HIDE DEF i
<1> QED
  BY <1>1, <1>2, <1>3, <1>4, <1>5, <1>6, <1>7 DEF RowSaved, SaveFields, i

LEMMA SavedName ==
  ASSUME AccessTypeOK, NEW b \in Browsers, ChangeName(b)
  PROVE  AccessTypeOK' /\ RowSaved
<1> DEFINE i == Mine(b)
           r == [rows[i] EXCEPT !.name = "new"]
           t == [told[i] EXCEPT !.name = "new"]
<1>1. requests[b] # Gone /\ i \in Ids
  BY RowTypes DEF ChangeName, Working, Mine
<1>2. rows[i] # Gone => r \in AccountRows /\ r.password = rows[i].password
  BY <1>1, RowTypes, RowFields
<1>3. told[i] # Gone => t \in AccountRows
  BY <1>1, RowTypes, RowFields
<1>4. told[i] = rows[i] => t = r
  OBVIOUS
<1>5. /\ Answered(b) /\ SaveFields(b, r) /\ TellRow(i, t)
      /\ UNCHANGED <<loginRequired, sessions, keys, tally>>
  BY DEF ChangeName
<1> HIDE DEF r, t
<1> QED
  BY <1>1, <1>2, <1>3, <1>4, <1>5, FieldsSaved

LEMMA SavedEmail ==
  ASSUME AccessTypeOK, NEW b \in Browsers, NEW email \in Addresses, ChangeEmail(b, email)
  PROVE  AccessTypeOK' /\ RowSaved
<1> DEFINE i == Mine(b)
           r == [rows[i] EXCEPT !.email = email]
           t == [told[i] EXCEPT !.email = email]
<1>1. requests[b] # Gone /\ i \in Ids
  BY RowTypes DEF ChangeEmail, Working, Mine
<1>2. rows[i] # Gone => r \in AccountRows /\ r.password = rows[i].password
  BY <1>1, RowTypes, RowFields
<1>3. told[i] # Gone => t \in AccountRows
  BY <1>1, RowTypes, RowFields
<1>4. told[i] = rows[i] => t = r
  OBVIOUS
<1>5. /\ Answered(b) /\ SaveFields(b, r) /\ TellRow(i, t)
      /\ UNCHANGED <<loginRequired, sessions, keys, tally>>
  BY DEF ChangeEmail
<1> HIDE DEF r, t
<1> QED
  BY <1>1, <1>2, <1>3, <1>4, <1>5, FieldsSaved

(* save(): where the row is still the copy, nobody wrote it in between.     *)
LEMMA WholeStep ==
  ASSUME AccessTypeOK, NEW b \in Browsers, requests[b] # Gone, NEW r, SaveWhole(b, r)
  PROVE  /\ Mine(b) \in Ids /\ requests[b].of = Mine(b)
         /\ requests[b].copy \in AccountRows /\ requests[b].copy # Gone
         /\ rows' = [rows EXCEPT ![Mine(b)] = r]
         /\ stale \subseteq stale' /\ stale' \subseteq stale \cup {Mine(b)}
         /\ stale' \subseteq Ids
         /\ Mine(b) \notin stale' => rows[Mine(b)] = requests[b].copy
<1>1. Mine(b) \in Ids /\ requests[b].of = Mine(b) /\ requests[b].copy \in AccountRows
  BY RowTypes DEF Mine
<1>2. requests[b].copy # Gone
  BY <1>1, GoneIsNoRow
<1> QED
  BY <1>1, <1>2 DEF SaveWhole, AccessTypeOK

LEMMA SavedVerified ==
  ASSUME AccessTypeOK, NEW b \in Browsers, Verified(b)
  PROVE  AccessTypeOK' /\ RowSaved
<1> DEFINE i == Mine(b)
           r == [requests[b].copy EXCEPT !.verified = TRUE]
           t == [told[i] EXCEPT !.verified = TRUE]
<1>1. /\ requests[b] # Gone /\ SaveWhole(b, r) /\ Answered(b) /\ TellRow(i, t)
      /\ UNCHANGED <<loginRequired, sessions, keys, tally>>
  BY DEF Verified, Working
<1>2. /\ i \in Ids /\ requests[b].of = i
      /\ requests[b].copy \in AccountRows /\ requests[b].copy # Gone
      /\ rows' = [rows EXCEPT ![i] = r]
      /\ stale \subseteq stale' /\ stale' \subseteq stale \cup {i} /\ stale' \subseteq Ids
      /\ i \notin stale' => rows[i] = requests[b].copy
  BY <1>1, WholeStep
<1>3. r \in AccountRows /\ r.password = requests[b].copy.password
  BY <1>2, RowFields
<1>4. told[i] # Gone => t \in AccountRows
  BY <1>2, RowTypes, RowFields
<1>5. /\ told' \in [Ids -> AccountRows \cup {Gone}]
      /\ \A j \in Ids \ {i} : told'[j] = told[j]
      /\ told[i] # Gone => told'[i] = t
  BY <1>1, <1>2, <1>4, TellRowStep
<1>6. told[i] = requests[b].copy => t = r
  OBVIOUS
<1>7. tally \in Tallies /\ tally.passwords \in Nat /\ tally.passwords <= tally.passwords
  BY RowTypes DEF Tallies
<1>8. /\ requests' \in [Browsers -> RequestsOf \cup {Gone}]
      /\ \A c \in Browsers : requests'[c] # Gone => requests'[c] = requests[c]
  BY <1>1, AnsweredStep
<1> HIDE DEF r, t, i
<1>9. AccessTypeOK'
  BY <1>1, <1>2, <1>3, <1>5, <1>8 DEF AccessTypeOK
<1>10. i \notin stale' =>
         /\ rows[i] # Gone
         /\ r.password = rows[i].password \/ r.password > tally.passwords
         /\ told[i] = rows[i] => told'[i] = r
  BY <1>2, <1>3, <1>5, <1>6
<1> QED
  BY <1>1, <1>2, <1>3, <1>5, <1>7, <1>8, <1>9, <1>10 DEF RowSaved

LEMMA SavedPassword ==
  ASSUME AccessTypeOK, NEW b \in Browsers, ChangePassword(b)
  PROVE  AccessTypeOK' /\ RowSaved
<1> DEFINE i == Mine(b)
           n == tally.passwords + 1
           r == [requests[b].copy EXCEPT !.password = n]
           t == [told[i] EXCEPT !.password = n]
<1>1. /\ requests[b] # Gone /\ SaveWhole(b, r) /\ Answered(b) /\ TellRow(i, t)
      /\ sessions' = [c \in Browsers |->
           IF c = b THEN Opened(i, rows'[i])
           ELSE IF sessions[c] # Gone /\ sessions[c].of = i
           THEN [sessions[c] EXCEPT !.replaced = TRUE] ELSE sessions[c]]
      /\ tally' = [tally EXCEPT !.passwords = n]
      /\ UNCHANGED <<loginRequired, keys>>
  BY DEF ChangePassword, Working
<1>2. /\ i \in Ids /\ requests[b].of = i
      /\ requests[b].copy \in AccountRows /\ requests[b].copy # Gone
      /\ rows' = [rows EXCEPT ![i] = r]
      /\ stale \subseteq stale' /\ stale' \subseteq stale \cup {i} /\ stale' \subseteq Ids
      /\ i \notin stale' => rows[i] = requests[b].copy
  BY <1>1, WholeStep
<1>3. tally \in Tallies /\ tally.passwords \in Nat /\ n \in Nat /\ n > tally.passwords
      /\ tally.passwords <= n /\ n <= n
  BY RowTypes DEF Tallies
<1>4. r \in AccountRows /\ r.password = n
  BY <1>2, <1>3, RowFields
<1>5. told[i] # Gone => t \in AccountRows
  BY <1>2, <1>3, RowTypes, RowFields
<1>6. /\ told' \in [Ids -> AccountRows \cup {Gone}]
      /\ \A j \in Ids \ {i} : told'[j] = told[j]
      /\ told[i] # Gone => told'[i] = t
  BY <1>1, <1>2, <1>5, TellRowStep
<1>7. told[i] = requests[b].copy => t = r
  OBVIOUS
<1>8. /\ tally' \in Tallies /\ tally'.accounts = tally.accounts /\ tally'.passwords = n
  BY <1>1, <1>3 DEF Tallies
<1>9. /\ requests' \in [Browsers -> RequestsOf \cup {Gone}]
      /\ \A c \in Browsers : requests'[c] # Gone => requests'[c] = requests[c]
  BY <1>1, AnsweredStep
<1>10. rows'[i] = r
  BY <1>2 DEF AccessTypeOK
<1> HIDE DEF r, t, i, n
<1>11. Opened(i, r) \in Sessions
  BY <1>2, <1>4, OpenedType
<1>12. \A c \in Browsers : sessions[c] # Gone =>
         /\ [sessions[c] EXCEPT !.replaced = TRUE] \in Sessions
         /\ [sessions[c] EXCEPT !.replaced = TRUE].of = sessions[c].of
         /\ [sessions[c] EXCEPT !.replaced = TRUE].hash = sessions[c].hash
  BY RowTypes DEF Sessions
<1>13. sessions' \in [Browsers -> Sessions \cup {Gone}]
  BY <1>1, <1>10, <1>11, <1>12 DEF AccessTypeOK
<1>14. \A c \in Browsers :
         \/ sessions'[c] = sessions[c]
         \/ sessions'[c] = Opened(i, r)
         \/ /\ sessions[c] # Gone /\ sessions[c].of = i
            /\ sessions'[c] # Gone /\ sessions'[c].of = i
            /\ sessions'[c].hash = sessions[c].hash
  BY <1>1, <1>10, <1>12, GoneIsNoRow
<1>15. AccessTypeOK'
  BY <1>1, <1>2, <1>4, <1>6, <1>8, <1>9, <1>13 DEF AccessTypeOK, Tallies
<1>16. i \notin stale' =>
         /\ rows[i] # Gone
         /\ r.password = rows[i].password \/ r.password > tally.passwords
         /\ told[i] = rows[i] => told'[i] = r
  BY <1>2, <1>3, <1>4, <1>6, <1>7
<1> QED
  BY <1>1, <1>2, <1>3, <1>4, <1>6, <1>8, <1>9, <1>14, <1>15, <1>16, ZenonT(60) DEF RowSaved

(* The row of an account, what is told of it and its tokens go together.    *)
AccountDeleted ==
  \E i \in Ids :
    /\ rows' = [rows EXCEPT ![i] = Gone] /\ told' = [told EXCEPT ![i] = Gone]
    /\ UNCHANGED <<stale, tally>>
    /\ \A b \in Browsers : sessions'[b] # Gone => sessions'[b] = sessions[b]
    /\ \A b \in Browsers : requests'[b] # Gone => requests'[b] = requests[b]
    /\ \A k \in Keys : keys'[k] # Gone => keys'[k] = keys[k] /\ keys[k].of # i

LEMMA DeleteStep ==
  ASSUME AccessTypeOK, NEW b \in Browsers, DeleteAccount(b)
  PROVE  AccessTypeOK' /\ AccountDeleted
<1> DEFINE i == Mine(b)
<1>1. /\ requests[b] # Gone /\ Answered(b)
      /\ rows' = [rows EXCEPT ![i] = Gone] /\ told' = [told EXCEPT ![i] = Gone]
      /\ keys' = [k \in Keys |-> IF keys[k] # Gone /\ keys[k].of = i THEN Gone ELSE keys[k]]
      /\ sessions' = [sessions EXCEPT ![b] = Gone]
      /\ UNCHANGED <<loginRequired, stale, tally>>
  BY DEF DeleteAccount, Working
<1>2. i \in Ids
  BY <1>1, RowTypes DEF Mine
<1>3. /\ requests' \in [Browsers -> RequestsOf \cup {Gone}]
      /\ \A c \in Browsers : requests'[c] # Gone => requests'[c] = requests[c]
  BY <1>1, AnsweredStep
<1>4. keys' \in [Keys -> KeyRows \cup {Gone}]
  BY <1>1 DEF AccessTypeOK
<1>5. sessions' \in [Browsers -> Sessions \cup {Gone}]
  BY <1>1, ClosedStep
<1>6. AccessTypeOK'
  BY <1>1, <1>2, <1>3, <1>4, <1>5 DEF AccessTypeOK
<1>7. \A c \in Browsers : sessions'[c] # Gone => sessions'[c] = sessions[c]
  BY <1>1 DEF AccessTypeOK
<1>8. \A k \in Keys : keys'[k] # Gone => keys'[k] = keys[k] /\ keys[k].of # i
  BY <1>1
<1> HIDE DEF i
<1> QED
  BY <1>1, <1>2, <1>3, <1>6, <1>7, <1>8 DEF AccountDeleted

-----------------------------------------------------------------------------
(* Every step is one of the four.                                           *)

LEMMA AccessStepKinds ==
  ASSUME AccessTypeOK, AccessNext
  PROVE  /\ AccessTypeOK'
         /\ NoRowWritten \/ AccountCreated \/ RowSaved \/ AccountDeleted
<1>1. CASE \E on \in BOOLEAN : RestartWithLogin(on)
  BY <1>1, QuietRestart
<1>2. ASSUME NEW b \in Browsers,
             \/ \E email \in Addresses, v \in BOOLEAN : SignUp(b, email, v)
             \/ \E i \in Ids : SignIn(b, i) \/ OpenLink(b, i)
             \/ OpenLocal(b) \/ SwitchAccount(b) \/ SignOut(b) \/ Flush(b)
      PROVE  AccessTypeOK' /\ (NoRowWritten \/ AccountCreated)
  BY <1>2, CreateSignUp, QuietSignIn, QuietOpenLink, LocalSteps, QuietSignOut
<1>3. ASSUME NEW b \in Browsers,
             \/ \E asking \in Works, k \in Keys \cup {Gone} : Authenticate(b, asking, k)
             \/ requests[b] # Gone /\ LeaveUnwritten(b)
             \/ \E k \in Keys, kind \in {"cli", "sync"} : IssueKey(b, k, kind)
             \/ RevokeKey(b) \/ DiscardKey(b) \/ ReadToggle(b) \/ WriteToggle(b)
      PROVE  AccessTypeOK' /\ NoRowWritten
  BY <1>3, QuietAuthenticate, QuietLeave, QuietIssueKey, QuietKeyWork, QuietReadToggle
<1>4. ASSUME NEW b \in Browsers,
             \/ ChangeName(b) \/ \E email \in Addresses : ChangeEmail(b, email)
             \/ ChangePassword(b) \/ Verified(b) \/ DeleteAccount(b)
      PROVE  AccessTypeOK' /\ (RowSaved \/ AccountDeleted)
  BY <1>4, SavedName, SavedEmail, SavedPassword, SavedVerified, DeleteStep
<1> QED
  BY <1>1, <1>2, <1>3, <1>4 DEF AccessNext

LEMMA AccessStart == AccessInit => AccessTypeOK
<1> SUFFICES ASSUME AccessInit PROVE AccessTypeOK
  OBVIOUS
<1>1. 1 \in Ids /\ 1 \in 0..MaxAccounts /\ 0 \in 0..MaxAccounts /\ 0 \in 0..MaxAsked
  BY AccessAssumption DEF Ids
<1>2. rows \in [Ids -> AccountRows \cup {Gone}]
  <2>1. CASE rows = [i \in Ids |-> Gone]
    BY <2>1
  <2>2. CASE rows \in {[[i \in Ids |-> Gone] EXCEPT ![1] =
               [email |-> e, name |-> "old", password |-> 1, verified |-> FALSE]] :
               e \in Addresses \ {LocalAdmin}}
    <3>1. PICK e \in Addresses : rows = [[i \in Ids |-> Gone] EXCEPT ![1] =
            [email |-> e, name |-> "old", password |-> 1, verified |-> FALSE]]
      BY <2>2
    <3>2. [email |-> e, name |-> "old", password |-> 1, verified |-> FALSE] \in AccountRows
      BY DEF AccountRows
    <3> QED
      BY <1>1, <3>1, <3>2
  <2> QED
    BY <2>1, <2>2 DEF AccessInit
<1>3. tally \in Tallies
  BY <1>1 DEF AccessInit, Tallies
<1> QED
  BY <1>2, <1>3 DEF AccessInit, AccessTypeOK, Tallies

(* The rows, the sessions, the requests and the tokens keep their shape, in *)
(* every behaviour of the accounts.                                         *)
THEOREM AccessTypeCorrect == AccessSpec => []AccessTypeOK
<1>1. AccessTypeOK /\ [AccessNext]_accessVars => AccessTypeOK'
  <2>1. CASE UNCHANGED accessVars
    BY <2>1 DEF accessVars, AccessTypeOK
  <2> QED
    BY <2>1, AccessStepKinds
<1> QED
  BY <1>1, AccessStart, PTL DEF AccessSpec

-----------------------------------------------------------------------------
(* The inductive invariant.  The numbers of accounts and of passwords in    *)
(* use are numbers that were given out, so that a new one is new; and a     *)
(* session whose password was replaced does not fit the row any more,       *)
(* unless an old copy was written over it.                                  *)

Numbered ==
  /\ \A i \in Ids : rows[i] # Gone =>
       i <= tally.accounts /\ rows[i].password <= tally.passwords
  /\ \A b \in Browsers : sessions[b] # Gone =>
       sessions[b].of <= tally.accounts /\ sessions[b].hash <= tally.passwords
  /\ \A b \in Browsers : requests[b] # Gone =>
       requests[b].of <= tally.accounts /\ requests[b].copy.password <= tally.passwords

ReplacedIsOut ==
  \A b \in Browsers :
    sessions[b] # Gone /\ sessions[b].replaced /\ sessions[b].of \notin stale =>
      rows[sessions[b].of] = Gone \/ rows[sessions[b].of].password # sessions[b].hash

AccessInv == AccessTypeOK /\ Numbered /\ ReplacedIsOut /\ AccountsAsAnswered

LEMMA NoRowWrittenKeeps ==
  ASSUME AccessInv, AccessTypeOK', NoRowWritten
  PROVE  AccessInv'
<1>1. /\ rows' = rows /\ told' = told /\ stale' = stale
      /\ tally'.accounts = tally.accounts /\ tally'.passwords = tally.passwords
  BY DEF NoRowWritten
<1>2. \A i \in Ids : rows[i] # Gone => rows[i] \in AccountRows
  BY RowTypes DEF AccessInv
<1>3. ASSUME NEW b \in Browsers, sessions'[b] # Gone
      PROVE  /\ sessions'[b].of <= tally.accounts /\ sessions'[b].hash <= tally.passwords
             /\ sessions'[b].replaced /\ sessions'[b].of \notin stale =>
                  rows[sessions'[b].of] = Gone \/ rows[sessions'[b].of].password # sessions'[b].hash
  <2>1. SameSession(b)
    BY DEF NoRowWritten
  <2>2. CASE sessions'[b] = sessions[b]
    BY <1>3, <2>2 DEF AccessInv, Numbered, ReplacedIsOut
  <2>3. ASSUME NEW i \in Ids, rows[i] # Gone, sessions'[b] = Opened(i, rows[i])
        PROVE  /\ sessions'[b].of <= tally.accounts /\ sessions'[b].hash <= tally.passwords
               /\ ~sessions'[b].replaced
    BY <1>2, <2>3, OpenedType DEF AccessInv, Numbered
  <2> QED
    BY <1>3, <2>1, <2>2, <2>3 DEF SameSession
<1>4. ASSUME NEW b \in Browsers, requests'[b] # Gone
      PROVE  /\ requests'[b].of <= tally.accounts /\ requests'[b].copy.password <= tally.passwords
             /\ requests'[b].replaced => requests'[b].of \in stale
  <2>1. SameRequest(b)
    BY DEF NoRowWritten
  <2>2. CASE /\ requests[b] # Gone /\ requests'[b].of = requests[b].of
             /\ requests'[b].copy = requests[b].copy
             /\ requests'[b].replaced = requests[b].replaced
    BY <2>2 DEF AccessInv, Numbered, AccountsAsAnswered, NewPasswordEndsSessions
  <2>3. CASE /\ requests'[b].of \in Ids
             /\ rows[requests'[b].of] # Gone /\ requests'[b].copy = rows[requests'[b].of]
             /\ requests'[b].replaced =>
                  /\ Known(b) /\ sessions[b].replaced
                  /\ sessions[b].of = requests'[b].of
    <3>1. requests'[b].replaced => requests'[b].of \in stale
      BY <2>3 DEF AccessInv, ReplacedIsOut, Known, SessionValid
    <3> QED
      BY <2>3, <3>1 DEF AccessInv, Numbered
  <2> QED
    BY <1>4, <2>1, <2>2, <2>3 DEF SameRequest
<1>5. ASSUME NEW k \in Keys, keys'[k] # Gone
      PROVE  rows[keys'[k].of] # Gone
  BY <1>5 DEF NoRowWritten, SameKey, AccessInv, AccountsAsAnswered, TokensHaveOwners
<1>6. Numbered'
  BY <1>1, <1>3, <1>4 DEF Numbered, AccessInv
<1>7. ReplacedIsOut'
  BY <1>1, <1>3 DEF ReplacedIsOut
<1>8. LastAnswerStands'
  BY <1>1 DEF LastAnswerStands, AccessInv, AccountsAsAnswered
<1>9. NewPasswordEndsSessions'
  BY <1>1, <1>4 DEF NewPasswordEndsSessions
<1>10. TokensHaveOwners'
  BY <1>1, <1>5 DEF TokensHaveOwners
<1> QED
  BY <1>6, <1>7, <1>8, <1>9, <1>10 DEF AccessInv, AccountsAsAnswered

LEMMA AccountCreatedKeeps ==
  ASSUME AccessInv, AccessTypeOK', AccountCreated
  PROVE  AccessInv'
<1>1. PICK i \in Ids, r \in AccountRows :
        /\ i = tally.accounts + 1 /\ tally'.accounts = i
        /\ tally'.passwords \in Nat /\ tally.passwords <= tally'.passwords
        /\ r.password <= tally'.passwords
        /\ rows' = [rows EXCEPT ![i] = r] /\ told' = [told EXCEPT ![i] = r]
        /\ UNCHANGED <<requests, keys, stale>>
        /\ \A b \in Browsers : sessions'[b] = sessions[b] \/ sessions'[b] = Opened(i, r)
  BY DEF AccountCreated
<1>2. /\ tally.accounts \in Nat /\ tally.passwords \in Nat
      /\ tally.accounts < i /\ tally.accounts <= tally'.accounts
  BY <1>1, RowTypes DEF AccessInv, Tallies
<1>3. rows'[i] = r /\ r # Gone /\ r.password \in Nat /\ \A j \in Ids \ {i} : rows'[j] = rows[j]
  BY <1>1, GoneIsNoRow DEF AccessInv, AccessTypeOK, AccountRows
<1>4. /\ \A j \in Ids : rows[j] # Gone => rows[j].password \in Nat
      /\ \A b \in Browsers : sessions[b] # Gone => sessions[b].of \in Ids /\ sessions[b].hash \in Nat
      /\ \A b \in Browsers : requests[b] # Gone =>
           requests[b].of \in Ids /\ requests[b].copy.password \in Nat
      /\ \A k \in Keys : keys[k] # Gone => keys[k].of \in Ids
  BY RowTypes DEF AccessInv, AccountRows
<1>5. Ids \subseteq Nat
  BY DEF Ids
<1>6. \A b \in Browsers : sessions[b] # Gone => sessions[b].of \in Ids \ {i}
  BY <1>2, <1>4, <1>5 DEF AccessInv, Numbered
<1>7. /\ Opened(i, r).of = i /\ Opened(i, r).hash = r.password /\ ~Opened(i, r).replaced
  BY OpenedType
<1>8. Numbered'
  <2>1. ASSUME NEW j \in Ids, rows'[j] # Gone
        PROVE  j <= tally'.accounts /\ rows'[j].password <= tally'.passwords
    <3>1. CASE j = i
      BY <1>1, <1>3, <1>5, <3>1
    <3>2. CASE j # i
      <4>1. j <= tally.accounts /\ rows[j].password <= tally.passwords /\ rows'[j] = rows[j]
        BY <1>3, <2>1, <3>2 DEF AccessInv, Numbered
      <4>2. j \in Nat /\ rows[j].password \in Nat
        BY <1>3, <1>4, <1>5, <2>1, <3>2
      <4> QED
        BY <1>1, <1>2, <1>5, <4>1, <4>2
    <3> QED
      BY <3>1, <3>2
  <2>2. ASSUME NEW b \in Browsers, sessions'[b] # Gone
        PROVE  sessions'[b].of <= tally'.accounts /\ sessions'[b].hash <= tally'.passwords
    <3>1. CASE sessions'[b] = Opened(i, r)
      BY <1>1, <1>5, <1>7, <3>1
    <3>2. CASE sessions'[b] = sessions[b]
      <4>1. sessions[b].of <= tally.accounts /\ sessions[b].hash <= tally.passwords
        BY <2>2, <3>2 DEF AccessInv, Numbered
      <4>2. sessions[b].of \in Nat /\ sessions[b].hash \in Nat
        BY <1>4, <1>5, <2>2, <3>2
      <4> QED
        BY <1>1, <1>2, <1>5, <3>2, <4>1, <4>2
    <3> QED
      BY <1>1, <3>1, <3>2
  <2>3. ASSUME NEW b \in Browsers, requests'[b] # Gone
        PROVE  /\ requests'[b].of <= tally'.accounts
               /\ requests'[b].copy.password <= tally'.passwords
    <3>1. requests[b].of <= tally.accounts /\ requests[b].copy.password <= tally.passwords
      BY <1>1, <2>3 DEF AccessInv, Numbered
    <3>2. requests[b].of \in Nat /\ requests[b].copy.password \in Nat
      BY <1>1, <1>4, <1>5, <2>3
    <3> QED
      BY <1>1, <1>2, <1>5, <3>1, <3>2
  <2> QED
    BY <2>1, <2>2, <2>3 DEF Numbered
<1>9. ReplacedIsOut'
  BY <1>1, <1>3, <1>6, <1>7 DEF ReplacedIsOut, AccessInv
<1>10. LastAnswerStands'
  BY <1>1 DEF LastAnswerStands, AccessInv, AccountsAsAnswered, AccessTypeOK
<1>11. NewPasswordEndsSessions'
  BY <1>1 DEF NewPasswordEndsSessions, AccessInv, AccountsAsAnswered
<1>12. TokensHaveOwners'
  BY <1>1, <1>3, <1>4 DEF TokensHaveOwners, AccessInv, AccountsAsAnswered
<1> QED
  BY <1>8, <1>9, <1>10, <1>11, <1>12 DEF AccessInv, AccountsAsAnswered

LEMMA RowSavedKeeps ==
  ASSUME AccessInv, AccessTypeOK', RowSaved
  PROVE  AccessInv'
<1>1. PICK i \in Ids, r \in AccountRows :
        /\ \E b \in Browsers : requests[b] # Gone /\ requests[b].of = i
        /\ rows' = [rows EXCEPT ![i] = r]
        /\ \A j \in Ids \ {i} : told'[j] = told[j]
        /\ stale \subseteq stale' /\ stale' \subseteq stale \cup {i} /\ keys' = keys
        /\ i \notin stale' =>
             /\ rows[i] # Gone
             /\ r.password = rows[i].password \/ r.password > tally.passwords
             /\ told[i] = rows[i] => told'[i] = r
        /\ tally'.accounts = tally.accounts
        /\ tally'.passwords \in Nat /\ tally.passwords <= tally'.passwords
        /\ \/ r.password <= tally'.passwords
           \/ \E b \in Browsers : requests[b] # Gone /\ r.password = requests[b].copy.password
           \/ rows[i] # Gone /\ r.password = rows[i].password
        /\ \A b \in Browsers : requests'[b] # Gone => requests'[b] = requests[b]
        /\ \A b \in Browsers :
             \/ sessions'[b] = sessions[b]
             \/ sessions'[b] = Opened(i, r) /\ r.password <= tally'.passwords
             \/ /\ sessions[b] # Gone /\ sessions[b].of = i /\ r.password > tally.passwords
                /\ sessions'[b] # Gone /\ sessions'[b].of = i
                /\ sessions'[b].hash = sessions[b].hash
  BY DEF RowSaved
<1>2. tally.accounts \in Nat /\ tally.passwords \in Nat
  BY RowTypes DEF AccessInv, Tallies
<1>3. rows'[i] = r /\ r # Gone /\ r.password \in Nat /\ \A j \in Ids \ {i} : rows'[j] = rows[j]
  BY <1>1, GoneIsNoRow DEF AccessInv, AccessTypeOK, AccountRows
<1>4. /\ \A j \in Ids : rows[j] # Gone => rows[j].password \in Nat
      /\ \A b \in Browsers : sessions[b] # Gone => sessions[b].of \in Ids /\ sessions[b].hash \in Nat
      /\ \A b \in Browsers : requests[b] # Gone =>
           requests[b].of \in Ids /\ requests[b].copy.password \in Nat
      /\ \A k \in Keys : keys[k] # Gone => keys[k].of \in Ids
  BY RowTypes DEF AccessInv, AccountRows
<1>5. /\ \A j \in Ids : rows[j] # Gone => j <= tally.accounts /\ rows[j].password <= tally.passwords
      /\ \A b \in Browsers : sessions[b] # Gone =>
           sessions[b].of <= tally.accounts /\ sessions[b].hash <= tally.passwords
      /\ \A b \in Browsers : requests[b] # Gone =>
           requests[b].of <= tally.accounts /\ requests[b].copy.password <= tally.passwords
  BY DEF AccessInv, Numbered
<1>6. i <= tally.accounts
  BY <1>1, <1>5
<1>7. \A n \in Nat : n <= tally.passwords => n <= tally'.passwords
  BY <1>1, <1>2
<1>8. r.password <= tally'.passwords
  BY <1>1, <1>3, <1>4, <1>5, <1>7
<1>9. /\ Opened(i, r).of = i /\ Opened(i, r).hash = r.password /\ ~Opened(i, r).replaced
  BY OpenedType
<1>10. Numbered'
  <2>1. ASSUME NEW j \in Ids, rows'[j] # Gone
        PROVE  j <= tally'.accounts /\ rows'[j].password <= tally'.passwords
    BY <1>1, <1>3, <1>4, <1>5, <1>6, <1>7, <1>8, <2>1
  <2>2. ASSUME NEW b \in Browsers, sessions'[b] # Gone
        PROVE  sessions'[b].of <= tally'.accounts /\ sessions'[b].hash <= tally'.passwords
    BY <1>1, <1>4, <1>5, <1>6, <1>7, <1>9, <2>2
  <2>3. ASSUME NEW b \in Browsers, requests'[b] # Gone
        PROVE  /\ requests'[b].of <= tally'.accounts
               /\ requests'[b].copy.password <= tally'.passwords
    BY <1>1, <1>4, <1>5, <1>7, <2>3
  <2> QED
    BY <2>1, <2>2, <2>3 DEF Numbered
<1>11. ReplacedIsOut'
  <2> SUFFICES ASSUME NEW b \in Browsers, sessions'[b] # Gone, sessions'[b].replaced,
                      sessions'[b].of \notin stale', rows'[sessions'[b].of] # Gone
               PROVE  rows'[sessions'[b].of].password # sessions'[b].hash
    BY DEF ReplacedIsOut
  <2>1. CASE sessions'[b] = sessions[b]
    <3>1. sessions[b].of \in Ids /\ sessions[b].of \notin stale
      BY <1>1, <1>4, <2>1
    <3>2. CASE sessions[b].of # i
      BY <1>3, <2>1, <3>1, <3>2 DEF AccessInv, ReplacedIsOut
    <3>3. CASE sessions[b].of = i
      <4>1. i \notin stale' /\ rows[i] # Gone /\ rows[i].password # sessions[b].hash
        BY <1>1, <2>1, <3>1, <3>3 DEF AccessInv, ReplacedIsOut
      <4>2. CASE r.password = rows[i].password
        BY <1>3, <2>1, <3>3, <4>1, <4>2
      <4>3. CASE r.password > tally.passwords
        <5>1. sessions[b].hash <= tally.passwords /\ sessions[b].hash \in Nat
          BY <1>4, <1>5, <2>1
        <5> QED
          BY <1>2, <1>3, <2>1, <3>3, <4>3, <5>1
      <4> QED
        BY <1>1, <4>1, <4>2, <4>3
    <3> QED
      BY <3>2, <3>3
  <2>2. CASE sessions'[b] = Opened(i, r)
    BY <1>9, <2>2
  <2>3. CASE /\ sessions[b] # Gone /\ sessions[b].of = i /\ r.password > tally.passwords
             /\ sessions'[b] # Gone /\ sessions'[b].of = i
             /\ sessions'[b].hash = sessions[b].hash
    <3>1. sessions[b].hash <= tally.passwords /\ sessions[b].hash \in Nat
      BY <1>4, <1>5, <2>3
    <3> QED
      BY <1>2, <1>3, <2>3, <3>1
  <2> QED
    BY <1>1, <2>1, <2>2, <2>3
<1>12. LastAnswerStands'
  <2> SUFFICES ASSUME NEW j \in Ids, j \notin stale'
               PROVE  rows'[j] = told'[j]
    BY DEF LastAnswerStands
  <2>1. rows[j] = told[j]
    BY <1>1 DEF AccessInv, AccountsAsAnswered, LastAnswerStands
  <2> QED
    BY <1>1, <1>3, <2>1
<1>13. NewPasswordEndsSessions'
  BY <1>1 DEF NewPasswordEndsSessions, AccessInv, AccountsAsAnswered
<1>14. TokensHaveOwners'
  BY <1>1, <1>3, <1>4 DEF TokensHaveOwners, AccessInv, AccountsAsAnswered
<1> QED
  BY <1>10, <1>11, <1>12, <1>13, <1>14 DEF AccessInv, AccountsAsAnswered

LEMMA AccountDeletedKeeps ==
  ASSUME AccessInv, AccessTypeOK', AccountDeleted
  PROVE  AccessInv'
<1>1. PICK i \in Ids :
        /\ rows' = [rows EXCEPT ![i] = Gone] /\ told' = [told EXCEPT ![i] = Gone]
        /\ UNCHANGED <<stale, tally>>
        /\ \A b \in Browsers : sessions'[b] # Gone => sessions'[b] = sessions[b]
        /\ \A b \in Browsers : requests'[b] # Gone => requests'[b] = requests[b]
        /\ \A k \in Keys : keys'[k] # Gone => keys'[k] = keys[k] /\ keys[k].of # i
  BY DEF AccountDeleted
<1>2. \A k \in Keys : keys[k] # Gone => keys[k].of \in Ids
  BY RowTypes DEF AccessInv
<1>3. \A b \in Browsers : sessions[b] # Gone => sessions[b].of \in Ids
  BY RowTypes DEF AccessInv
<1>4. rows'[i] = Gone /\ told'[i] = Gone
      /\ \A j \in Ids \ {i} : rows'[j] = rows[j] /\ told'[j] = told[j]
  BY <1>1 DEF AccessInv, AccessTypeOK
<1>5. Numbered'
  BY <1>1, <1>4 DEF AccessInv, Numbered
<1>6. ReplacedIsOut'
  BY <1>1, <1>3, <1>4 DEF AccessInv, ReplacedIsOut
<1>7. LastAnswerStands' /\ NewPasswordEndsSessions'
  BY <1>1, <1>4 DEF AccessInv, AccountsAsAnswered, LastAnswerStands, NewPasswordEndsSessions
<1>8. TokensHaveOwners'
  BY <1>1, <1>2, <1>4 DEF AccessInv, AccountsAsAnswered, TokensHaveOwners
<1> QED
  BY <1>5, <1>6, <1>7, <1>8 DEF AccessInv, AccountsAsAnswered

LEMMA AccessInvStart == AccessInit => AccessInv
<1> SUFFICES ASSUME AccessInit PROVE AccessInv
  OBVIOUS
<1>1. AccessTypeOK
  BY AccessStart
<1>2. \A i \in Ids : rows[i] # Gone =>
        i = 1 /\ rows[i].password = 1 /\ tally.accounts = 1 /\ tally.passwords = 1
  BY DEF AccessInit
<1>3. /\ \A b \in Browsers : sessions[b] = Gone /\ requests[b] = Gone
      /\ \A k \in Keys : keys[k] = Gone
      /\ told = rows
  BY DEF AccessInit
<1> QED
  BY <1>1, <1>2, <1>3
  DEF AccessInv, Numbered, ReplacedIsOut, AccountsAsAnswered, LastAnswerStands,
      NewPasswordEndsSessions, TokensHaveOwners

LEMMA AccessInvKept == AccessInv /\ [AccessNext]_accessVars => AccessInv'
<1> SUFFICES ASSUME AccessInv, [AccessNext]_accessVars PROVE AccessInv'
  OBVIOUS
<1>1. CASE AccessNext
  BY <1>1, AccessStepKinds, NoRowWrittenKeeps, AccountCreatedKeeps, RowSavedKeeps,
     AccountDeletedKeeps DEF AccessInv
<1>2. CASE UNCHANGED accessVars
  <2>1. AccessTypeOK'
    BY <1>2 DEF accessVars, AccessInv, AccessTypeOK
  <2>2. NoRowWritten
    BY <1>2, NothingElse DEF accessVars, AccessInv, NoRowWritten
  <2> QED
    BY <2>1, <2>2, NoRowWrittenKeeps
<1> QED
  BY <1>1, <1>2

(* What the answers told of an account is what its row holds and a deleted  *)
(* account stays deleted, no request of a session opened with a replaced    *)
(* password is carried out, both unless an old copy was written as a whole  *)
(* over the row, and every token has an account that is there: in every     *)
(* behaviour of the accounts, whatever the requests and their number.       *)
THEOREM AccountsAlwaysAsAnswered == AccessSpec => []AccountsAsAnswered
<1>1. AccessInv => AccountsAsAnswered
  BY DEF AccessInv
<1> QED
  BY <1>1, AccessInvStart, AccessInvKept, PTL DEF AccessSpec

-----------------------------------------------------------------------------
(* The chat.                                                                *)

Requests == [panel : Panels, conv : Old \cup New]
StreamRecords == [panel : Panels, conv : Old \cup New, told : BOOLEAN,
                  state : {"open", "aborted", "ended"}, orphan : BOOLEAN]
ChatPhases == {"idle", "searching", "preparing", "streaming", "done", "canceled", "error"}

(* The types, with streams numbered as they are started; another panel may  *)
(* be mounted as long as none is.                                           *)
ChatShape ==
  /\ chatOpen \in BOOLEAN /\ failure \in BOOLEAN /\ panel \in Panels
  /\ ~chatOpen => panel < MaxPanels
  /\ chatPhase \in ChatPhases
  /\ \E n \in Nat : streams \in [1..n -> StreamRecords] /\ cancels \in [Panels -> 0..n]
  /\ creations \subseteq Requests /\ histories \subseteq Requests /\ reloads \subseteq Requests
  /\ excused \subseteq {"shown", "asked", "cleared"}
  /\ shown \in ConvOrNone /\ asked \in ConvOrNone /\ skip \in ConvOrNone

(* Nothing comes from a panel that has not been mounted yet, and a panel    *)
(* stops streams of its own only.                                           *)
PanelsPast ==
  /\ \A r \in creations \cup reloads : r.panel <= panel
  /\ \A s \in StreamIds : streams[s].panel <= panel
  /\ \A p \in Panels : cancels[p] # 0 => streams[cancels[p]].panel = p

(* A conversation about to be created is not on the screen, and no two      *)
(* requests create the same.                                                *)
CreatedApart ==
  /\ conversation \in Existing \cup {NoConv} /\ rendered \in Existing \cup {NoConv}
  /\ \A r \in creations : r.conv \in New \ Existing
  /\ \A r, q \in creations : r.conv = q.conv => r = q

(* What loads is the conversation the panel is rendered with.               *)
LoadsRendered ==
  \A h \in histories : chatOpen /\ h.panel = panel /\ h.conv = rendered

Stoppable ==
  \A s \in StreamIds :
    streams[s].state = "open" =>
      cancels[streams[s].panel] = s /\ (Here(streams[s]) \/ streams[s].orphan)

(* While the panel works, and also after an error of something else, the    *)
(* question of the answer that runs is shown, or was cleared.               *)
WorkIsShown ==
  chatOpen =>
    /\ Busy => AnswerRuns
    /\ AnswerRuns => asked = streams[cancels[panel]].conv \/ "cleared" \in excused

(* The question belongs to the conversation also while its messages load.   *)
ScreenBelongs ==
  chatOpen /\ rendered = conversation =>
    /\ asked \in {NoConv, rendered} \/ "asked" \in excused
    /\ histories = {} => shown \in {NoConv, rendered} \/ "shown" \in excused

ChatInv ==
  /\ ChatShape /\ PanelsPast /\ CreatedApart /\ LoadsRendered /\ Stoppable /\ WorkIsShown
  /\ ScreenBelongs

-----------------------------------------------------------------------------
(* What the helpers of the actions do to the streams.                       *)

LEMMA ShapeAs ==
  ASSUME ChatShape
  PROVE  \E n \in Nat : /\ StreamIds = 1..n /\ Cardinality(StreamIds) = n
                        /\ streams \in [1..n -> StreamRecords] /\ cancels \in [Panels -> 0..n]
<1>1. PICK n \in Nat : streams \in [1..n -> StreamRecords] /\ cancels \in [Panels -> 0..n]
  BY DEF ChatShape
<1>2. StreamIds = 1..n
  BY <1>1 DEF StreamIds
<1>3. Cardinality(1..n) = n
  BY FS_Interval
<1> QED
  BY <1>1, <1>2, <1>3

LEMMA AbortIs ==
  ASSUME NEW n \in Nat, streams \in [1..n -> StreamRecords], NEW s
  PROVE  /\ Abort(streams, s) \in [1..n -> StreamRecords]
         /\ \A t \in 1..n :
              /\ Abort(streams, s)[t].panel = streams[t].panel
              /\ Abort(streams, s)[t].conv = streams[t].conv
              /\ Abort(streams, s)[t].told = streams[t].told
              /\ Abort(streams, s)[t].orphan = streams[t].orphan
              /\ t # s => Abort(streams, s)[t] = streams[t]
              /\ Abort(streams, s)[t].state = "open" => t # s /\ streams[t].state = "open"
<1>1. ASSUME NEW r \in StreamRecords
      PROVE  LET k == [r EXCEPT !.state = "aborted"] IN
             /\ k \in StreamRecords /\ k.panel = r.panel /\ k.conv = r.conv /\ k.told = r.told
             /\ k.orphan = r.orphan /\ k.state = "aborted"
  BY DEF StreamRecords
<1>2. DOMAIN streams = 1..n /\ \A t \in 1..n : streams[t] \in StreamRecords
  OBVIOUS
<1>3. Abort(streams, s) =
        [t \in 1..n |-> IF t = s /\ streams[t].state = "open"
                        THEN [streams[t] EXCEPT !.state = "aborted"] ELSE streams[t]]
  BY <1>2 DEF Abort
<1> QED
  BY <1>1, <1>2, <1>3

(* The streams of a panel stop; those of others run on.                     *)
Stopped ==
  /\ \E n \in Nat : StreamIds = 1..n /\ streams' \in [1..n -> StreamRecords]
  /\ \A t \in StreamIds :
       /\ streams'[t].panel = streams[t].panel /\ streams'[t].conv = streams[t].conv
       /\ streams'[t].told = streams[t].told /\ streams'[t].orphan = streams[t].orphan
       /\ streams'[t].state = "open" => t # cancels[panel] /\ streams[t].state = "open"
  /\ StreamIds' = StreamIds /\ Existing' = Existing

LEMMA AbortStops ==
  ASSUME ChatShape, streams' = Abort(streams, cancels[panel])
  PROVE  Stopped
<1>1. PICK n \in Nat : StreamIds = 1..n /\ streams \in [1..n -> StreamRecords]
  BY ShapeAs
<1>2. /\ streams' \in [1..n -> StreamRecords]
      /\ \A t \in 1..n :
           /\ streams'[t].panel = streams[t].panel /\ streams'[t].conv = streams[t].conv
           /\ streams'[t].told = streams[t].told /\ streams'[t].orphan = streams[t].orphan
           /\ streams'[t].state = "open" => t # cancels[panel] /\ streams[t].state = "open"
  BY <1>1, AbortIs
<1>3. StreamIds' = StreamIds
  BY <1>1, <1>2 DEF StreamIds
<1>4. {streams'[s].conv : s \in StreamIds} = {streams[s].conv : s \in StreamIds}
  BY <1>1, <1>2
<1> QED
  BY <1>1, <1>2, <1>3, <1>4 DEF Stopped, Existing

(* One more stream runs, the one its panel can stop.                        *)
StreamStarted(p, c) ==
  \E n \in Nat :
    /\ StreamIds = 1..n /\ StreamIds' = 1..(n + 1)
    /\ streams' \in [1..(n + 1) -> StreamRecords] /\ cancels' \in [Panels -> 0..(n + 1)]
    /\ cancels'[p] = n + 1 /\ \A q \in Panels \ {p} : cancels'[q] = cancels[q]
    /\ streams'[n + 1] = [panel |-> p, conv |-> c, state |-> "open", told |-> FALSE,
                          orphan |-> ~(chatOpen /\ panel = p)]
    /\ \A t \in 1..n :
         /\ streams'[t].panel = streams[t].panel /\ streams'[t].conv = streams[t].conv
         /\ streams'[t].told = streams[t].told /\ streams'[t].orphan = streams[t].orphan
         /\ t # cancels[p] => streams'[t] = streams[t]
         /\ streams'[t].state = "open" => t # cancels[p] /\ streams[t].state = "open"

LEMMA StreamStartsOne ==
  ASSUME ChatShape, NEW p \in Panels, NEW c \in Old \cup New, Stream(p, c)
  PROVE  StreamStarted(p, c) /\ Existing' = Existing \cup {c}
<1>1. PICK n \in Nat : /\ StreamIds = 1..n /\ Cardinality(StreamIds) = n
                       /\ streams \in [1..n -> StreamRecords] /\ cancels \in [Panels -> 0..n]
  BY ShapeAs
<1> DEFINE new == [panel |-> p, conv |-> c, state |-> "open", told |-> FALSE,
                   orphan |-> ~(chatOpen /\ panel = p)]
           before == Abort(streams, cancels[p])
<1>2. /\ streams' = [t \in 1..(n + 1) |-> IF t = n + 1 THEN new ELSE before[t]]
      /\ cancels' = [cancels EXCEPT ![p] = n + 1]
  BY <1>1 DEF Stream
<1>3. new \in StreamRecords /\ new.conv = c
  BY DEF StreamRecords
<1>4. /\ before \in [1..n -> StreamRecords]
      /\ \A t \in 1..n :
           /\ before[t].panel = streams[t].panel /\ before[t].conv = streams[t].conv
           /\ before[t].told = streams[t].told /\ before[t].orphan = streams[t].orphan
           /\ t # cancels[p] => before[t] = streams[t]
           /\ before[t].state = "open" => t # cancels[p] /\ streams[t].state = "open"
  BY <1>1, AbortIs
<1> HIDE DEF new, before
<1>5. /\ 1..(n + 1) = (1..n) \cup {n + 1} /\ n + 1 \notin 1..n
      /\ \A q : q \in 0..n => q \in 0..(n + 1)
  BY <1>1
<1>6. /\ streams' \in [1..(n + 1) -> StreamRecords] /\ cancels' \in [Panels -> 0..(n + 1)]
      /\ streams'[n + 1] = new /\ \A t \in 1..n : streams'[t] = before[t]
      /\ cancels'[p] = n + 1 /\ \A q \in Panels \ {p} : cancels'[q] = cancels[q]
  BY <1>1, <1>2, <1>3, <1>4, <1>5
<1>7. StreamIds' = 1..(n + 1)
  BY <1>6 DEF StreamIds
<1>8. StreamStarted(p, c)
  <2>1. streams'[n + 1] = [panel |-> p, conv |-> c, state |-> "open", told |-> FALSE,
                           orphan |-> ~(chatOpen /\ panel = p)]
    BY <1>6 DEF new
  <2>2. \A t \in 1..n :
          /\ streams'[t].panel = streams[t].panel /\ streams'[t].conv = streams[t].conv
          /\ streams'[t].told = streams[t].told /\ streams'[t].orphan = streams[t].orphan
          /\ t # cancels[p] => streams'[t] = streams[t]
          /\ streams'[t].state = "open" => t # cancels[p] /\ streams[t].state = "open"
    BY <1>4, <1>6
  <2> QED
    BY <1>1, <1>6, <1>7, <2>1, <2>2 DEF StreamStarted
<1>9. Existing' = Existing \cup {c}
  <2> DEFINE now == {streams'[t].conv : t \in StreamIds'}
             old == {streams[t].conv : t \in StreamIds}
  <2>1. streams'[n + 1].conv = c /\ \A t \in 1..n : streams'[t].conv = streams[t].conv
    BY <1>3, <1>4, <1>6
  <2>2. now \subseteq old \cup {c}
    BY <2>1, <1>1, <1>5, <1>7
  <2>3. old \subseteq now
    BY <2>1, <1>1, <1>5, <1>7
  <2>4. c \in now
    BY <2>1, <1>5, <1>7
  <2>5. now = old \cup {c}
    BY <2>2, <2>3, <2>4
  <2> QED
    BY <2>5 DEF Existing
<1> QED
  BY <1>8, <1>9

LEMMA ExistingIsConv ==
  ASSUME ChatShape
  PROVE  Existing \subseteq Old \cup New
<1>1. PICK n \in Nat : StreamIds = 1..n /\ streams \in [1..n -> StreamRecords]
  BY ShapeAs
<1>2. \A t \in StreamIds : streams[t].conv \in Old \cup New
  BY <1>1 DEF StreamRecords
<1> QED
  BY <1>2 DEF Existing

LEMMA InitEstablishes ==
  ASSUME ChatInit
  PROVE  ChatInv
<1>1. StreamIds = {} /\ Existing = Old
  BY DEF ChatInit, StreamIds, Existing
<1>2. 1 \in Panels
  BY ChatAssumption DEF Panels
<1>3. streams \in [1..0 -> StreamRecords] /\ cancels \in [Panels -> 0..0]
  BY DEF ChatInit
<1>4. ChatShape
  BY <1>2, <1>3 DEF ChatInit, ChatShape, ChatPhases, ConvOrNone
<1>5. PanelsPast /\ CreatedApart /\ LoadsRendered /\ Stoppable
  BY <1>1 DEF ChatInit, PanelsPast, CreatedApart, LoadsRendered, Stoppable
<1>6. WorkIsShown /\ ScreenBelongs
  BY <1>2 DEF ChatInit, WorkIsShown, ScreenBelongs, Busy, AnswerRuns
<1> QED
  BY <1>4, <1>5, <1>6 DEF ChatInv

-----------------------------------------------------------------------------
(* One lemma for each action, or for what several have in common.           *)

(* Of the answers, only those asked for by a panel after it was gone run    *)
(* on once the panel that is there has stopped its own.                     *)
LEMMA StoppedIsStoppable ==
  ASSUME ChatInv, Stopped, \A p \in Panels \ {panel} : cancels'[p] = cancels[p]
  PROVE  Stoppable'
<1>1. PICK n \in Nat : StreamIds = 1..n /\ streams' \in [1..n -> StreamRecords]
  BY DEF Stopped
<1> SUFFICES ASSUME NEW s \in StreamIds, streams'[s].state = "open"
             PROVE  /\ cancels'[streams'[s].panel] = s
                    /\ Here(streams[s])' \/ streams'[s].orphan
  BY DEF Stopped, Stoppable, Here
<1>2. /\ streams'[s].panel = streams[s].panel /\ streams'[s].orphan = streams[s].orphan
      /\ s # cancels[panel] /\ streams[s].state = "open"
  BY DEF Stopped
<1>3. streams'[s].panel \in Panels
  BY <1>1 DEF StreamRecords
<1>4. cancels[streams[s].panel] = s /\ (Here(streams[s]) \/ streams[s].orphan)
  BY <1>2 DEF ChatInv, Stoppable
<1>5. streams[s].panel # panel
  BY <1>2, <1>4
<1> QED
  BY <1>2, <1>3, <1>4, <1>5 DEF Here

(* The effect, after a panel was rendered with another conversation.        *)
LEMMA ShowKeeps ==
  ASSUME ChatInv, chatOpen, NEW c \in Existing \cup {NoConv}, ShowConversation(c),
         rendered' = c, conversation' = c, UNCHANGED <<chatOpen, panel, creations, reloads>>
  PROVE  ChatInv'
<1>1. ChatShape /\ c \in ConvOrNone /\ Superseded = histories
  BY ExistingIsConv DEF ChatInv, LoadsRendered, ConvOrNone, Superseded
<1>2. CASE /\ c # NoConv /\ skip = c /\ skip' = NoConv
           /\ histories' = histories \ Superseded /\ excused' = excused \cup OthersShown(c)
           /\ UNCHANGED <<cancels, streams, chatPhase, failure, shown, asked>>
  <2>1. histories' = {} /\ StreamIds' = StreamIds /\ Existing' = Existing
    BY <1>1, <1>2 DEF StreamIds, Existing
  <2>2. ChatShape'
    BY <1>1, <1>2, <2>1 DEF ChatShape, OthersShown, ConvOrNone
  <2>3. PanelsPast' /\ CreatedApart' /\ LoadsRendered'
    BY <1>2, <2>1 DEF ChatInv, PanelsPast, CreatedApart, LoadsRendered
  <2>4. Stoppable' /\ WorkIsShown'
    BY <1>2, <2>1 DEF ChatInv, Stoppable, WorkIsShown, Busy, AnswerRuns, Here
  <2>5. ScreenBelongs'
    BY <1>2 DEF ScreenBelongs, OthersShown
  <2> QED
    BY <2>2, <2>3, <2>4, <2>5 DEF ChatInv
<1>3. CASE /\ c = NoConv \/ skip # c
           /\ streams' = Abort(streams, cancels[panel])
           /\ cancels' = [cancels EXCEPT ![panel] = 0]
           /\ chatPhase' = "idle" /\ failure' = FALSE /\ asked' = NoConv
           /\ shown' = IF c = NoConv THEN NoConv ELSE shown
           /\ histories' = (histories \ Superseded)
                           \cup {[panel |-> panel, conv |-> d] : d \in {c} \ {NoConv}}
           /\ excused' = {}
           /\ UNCHANGED skip
  <2>1. Stopped
    BY <1>1, <1>3, AbortStops
  <2>2. histories' = {[panel |-> panel, conv |-> d] : d \in {c} \ {NoConv}}
    BY <1>1, <1>3
  <2>3. PICK n \in Nat : StreamIds = 1..n /\ cancels \in [Panels -> 0..n]
    BY <1>1, ShapeAs
  <2>4. streams' \in [1..n -> StreamRecords]
    BY <2>1, <2>3 DEF Stopped
  <2>5. /\ cancels' \in [Panels -> 0..n] /\ cancels'[panel] = 0
        /\ \A p \in Panels \ {panel} : cancels'[p] = cancels[p]
    BY <1>1, <1>3, <2>3 DEF ChatShape
  <2>6. ChatShape'
    <3>1. \A d \in {c} \ {NoConv} : [panel |-> panel, conv |-> d] \in Requests
      BY <1>1 DEF Requests, ConvOrNone, ChatShape
    <3>2. histories' \subseteq Requests
      BY <2>2, <3>1
    <3> QED
      BY <1>1, <1>3, <2>4, <2>5, <3>2 DEF ChatShape, ChatPhases, ConvOrNone
  <2>7. PanelsPast'
    <3>1. \A s \in StreamIds : streams'[s].panel = streams[s].panel
      BY <2>1 DEF Stopped
    <3>2. \A p \in Panels : cancels'[p] # 0 => cancels'[p] = cancels[p] /\ cancels[p] \in StreamIds
      BY <2>3, <2>5
    <3>3. \A p \in Panels : cancels'[p] # 0 => streams'[cancels'[p]].panel = p
      BY <3>1, <3>2 DEF ChatInv, PanelsPast
    <3>4. /\ \A s \in StreamIds' : streams'[s].panel <= panel'
          /\ \A r \in (creations \cup reloads)' : r.panel <= panel'
      BY <2>1, <3>1 DEF ChatInv, PanelsPast, Stopped
    <3> QED
      BY <3>3, <3>4 DEF PanelsPast
  <2>8. CreatedApart'
    BY <2>1 DEF ChatInv, CreatedApart, Stopped
  <2>9. LoadsRendered'
    BY <2>2 DEF LoadsRendered
  <2>10. Stoppable'
    BY <2>1, <2>5, StoppedIsStoppable
  <2>11. WorkIsShown'
    BY <1>3, <2>5 DEF WorkIsShown, Busy, AnswerRuns
  <2>12. ScreenBelongs'
    <3>1. c # NoConv => [panel |-> panel, conv |-> c] \in histories'
      BY <2>2
    <3> QED
      BY <1>3, <3>1 DEF ScreenBelongs
  <2> QED
    BY <2>6, <2>7, <2>8, <2>9, <2>10, <2>11, <2>12 DEF ChatInv
<1> QED
  BY <1>2, <1>3 DEF ShowConversation

LEMMA SelectKeeps ==
  ASSUME ChatInv, NEW c \in Existing \cup {NoConv}, Select(c)
  PROVE  ChatInv'
<1>1. CASE c # rendered /\ ShowConversation(c)
  BY <1>1, ShowKeeps DEF Select
<1>2. CASE /\ c = rendered /\ excused' = excused \cup OthersShown(c)
           /\ UNCHANGED <<skip, cancels, streams, chatPhase, failure, shown, asked, histories>>
  <2>1. StreamIds' = StreamIds /\ Existing' = Existing
    BY <1>2 DEF StreamIds, Existing
  <2>2. ChatShape'
    BY <1>2 DEF ChatInv, ChatShape, OthersShown, Select, ConvOrNone
  <2>3. PanelsPast' /\ CreatedApart' /\ LoadsRendered'
    BY <1>2, <2>1 DEF ChatInv, PanelsPast, CreatedApart, LoadsRendered, Select
  <2>4. Stoppable' /\ WorkIsShown'
    BY <1>2, <2>1 DEF ChatInv, Stoppable, WorkIsShown, Busy, AnswerRuns, Here, Select
  <2>5. ScreenBelongs'
    BY <1>2 DEF ScreenBelongs, OthersShown, Select
  <2> QED
    BY <2>2, <2>3, <2>4, <2>5 DEF ChatInv
<1> QED
  BY <1>1, <1>2 DEF Select

LEMMA RenderKeeps ==
  ASSUME ChatInv, Render
  PROVE  ChatInv'
  BY ShowKeeps DEF Render, ChatInv, CreatedApart

(* A panel that is mounted was none before, so nothing runs for it.         *)
LEMMA FreshPanel ==
  ASSUME ChatInv, ~chatOpen
  PROVE  /\ panel + 1 \in Panels /\ histories = {}
         /\ \A s \in StreamIds : streams[s].panel # panel + 1
         /\ cancels[panel + 1] = 0
<1>1. panel + 1 \in Panels /\ panel \in Nat
  BY ChatAssumption DEF ChatInv, ChatShape, Panels
<1>2. PICK n \in Nat : /\ StreamIds = 1..n /\ streams \in [1..n -> StreamRecords]
                       /\ cancels \in [Panels -> 0..n]
  BY ShapeAs DEF ChatInv
<1>3. \A s \in StreamIds : streams[s].panel \in Nat /\ streams[s].panel <= panel
  BY <1>2 DEF ChatInv, PanelsPast, StreamRecords, Panels
<1>4. \A s \in StreamIds : streams[s].panel # panel + 1
  BY <1>1, <1>3
<1>5. cancels[panel + 1] # 0 => cancels[panel + 1] \in StreamIds
  BY <1>1, <1>2
<1>6. cancels[panel + 1] = 0
  BY <1>1, <1>4, <1>5 DEF ChatInv, PanelsPast
<1> QED
  BY <1>1, <1>4, <1>6 DEF ChatInv, LoadsRendered

(* What a new panel loads is the conversation it is rendered with.          *)
LEMMA NewPanelLoads ==
  ASSUME ChatInv, NEW c \in ConvOrNone, NewPanel(c)
  PROVE  /\ LoadsRendered' /\ ScreenBelongs' /\ histories' \subseteq Requests
         /\ ~chatOpen /\ chatOpen' = TRUE /\ panel' = panel + 1 /\ panel' \in Panels
<1>1. panel + 1 \in Panels /\ histories = {} /\ ~chatOpen
  BY FreshPanel DEF NewPanel
<1>2. histories' = {[panel |-> panel + 1, conv |-> d] : d \in {c} \ {NoConv}}
  BY <1>1 DEF NewPanel
<1>3. LoadsRendered'
  BY <1>2 DEF LoadsRendered, NewPanel
<1>4. \A d \in {c} \ {NoConv} : [panel |-> panel + 1, conv |-> d] \in Requests
  BY <1>1 DEF Requests, ConvOrNone
<1>5. histories' \subseteq Requests
  BY <1>2, <1>4
<1>6. ScreenBelongs'
  BY DEF ScreenBelongs, NewPanel
<1> QED
  BY <1>1, <1>3, <1>5, <1>6 DEF NewPanel

LEMMA MountKeeps ==
  ASSUME ChatInv, NEW c \in Existing \cup {NoConv}, Mount(c)
  PROVE  ChatInv'
<1>1. c \in ConvOrNone /\ NewPanel(c) /\ UNCHANGED <<cancels, creations, reloads, streams>>
  BY ExistingIsConv DEF ChatInv, ConvOrNone, Mount
<1>2. /\ LoadsRendered' /\ ScreenBelongs' /\ histories' \subseteq Requests
      /\ ~chatOpen /\ chatOpen' = TRUE /\ panel' = panel + 1 /\ panel' \in Panels
  BY <1>1, NewPanelLoads
<1>3. cancels[panel + 1] = 0 /\ panel \in Nat
  BY <1>2, FreshPanel DEF ChatInv, ChatShape, Panels
<1>4. StreamIds' = StreamIds /\ Existing' = Existing
  BY <1>1 DEF StreamIds, Existing
<1>5. ChatShape'
  BY <1>1, <1>2 DEF ChatInv, ChatShape, NewPanel, ChatPhases, ConvOrNone
<1>6. PanelsPast'
  <2>1. \A r \in creations \cup reloads : r.panel \in Nat /\ r.panel <= panel
    BY DEF ChatInv, ChatShape, PanelsPast, Requests, Panels
  <2>2. \A s \in StreamIds : streams[s].panel \in Nat /\ streams[s].panel <= panel
    <3>1. PICK n \in Nat : StreamIds = 1..n /\ streams \in [1..n -> StreamRecords]
      BY ShapeAs DEF ChatInv
    <3> QED
      BY <3>1 DEF ChatInv, PanelsPast, StreamRecords, Panels
  <2> QED
    BY <1>1, <1>2, <1>3, <1>4, <2>1, <2>2 DEF ChatInv, PanelsPast
<1>7. CreatedApart'
  BY <1>1, <1>4 DEF ChatInv, CreatedApart, NewPanel
<1>8. Stoppable'
  BY <1>1, <1>2, <1>4 DEF ChatInv, Stoppable, Here
<1>9. WorkIsShown'
  BY <1>1, <1>2, <1>3 DEF WorkIsShown, Busy, AnswerRuns, NewPanel
<1> QED
  BY <1>2, <1>5, <1>6, <1>7, <1>8, <1>9 DEF ChatInv

LEMMA LeaveKeeps ==
  ASSUME ChatInv, Leave
  PROVE  ChatInv'
<1>1. ChatShape /\ histories' = {} /\ ~chatOpen'
  BY DEF ChatInv, LoadsRendered, Superseded, Leave
<1>2. Stopped
  BY <1>1, AbortStops DEF Leave
<1>3. ChatShape'
  <2>1. PICK n \in Nat : /\ StreamIds = 1..n /\ Cardinality(StreamIds) = n
                         /\ streams \in [1..n -> StreamRecords] /\ cancels \in [Panels -> 0..n]
    BY <1>1, ShapeAs
  <2>2. streams' \in [1..n -> StreamRecords]
    BY <1>2, <2>1 DEF Stopped
  <2> QED
    BY <1>1, <2>1, <2>2 DEF ChatShape, Leave, ConvOrNone
<1>4. PanelsPast'
  <2>1. PICK n \in Nat : StreamIds = 1..n /\ cancels \in [Panels -> 0..n]
    BY <1>1, ShapeAs
  <2>2. \A s \in StreamIds : streams'[s].panel = streams[s].panel
    BY <1>2 DEF Stopped
  <2>3. \A p \in Panels : cancels[p] # 0 => cancels[p] \in StreamIds
    BY <2>1
  <2> QED
    BY <1>2, <2>2, <2>3 DEF ChatInv, PanelsPast, Leave, Stopped
<1>5. CreatedApart'
  BY <1>2 DEF ChatInv, CreatedApart, Leave, Stopped
<1>6. LoadsRendered' /\ WorkIsShown' /\ ScreenBelongs'
  BY <1>1 DEF LoadsRendered, WorkIsShown, ScreenBelongs
<1>7. Stoppable'
  BY <1>2, StoppedIsStoppable DEF Leave
<1> QED
  BY <1>3, <1>4, <1>5, <1>6, <1>7 DEF ChatInv

LEMMA CancelKeeps ==
  ASSUME ChatInv, CancelAnswer
  PROVE  ChatInv'
<1>1. ChatShape
  BY DEF ChatInv
<1>2. Stopped
  BY <1>1, AbortStops DEF CancelAnswer
<1>3. PICK n \in Nat : StreamIds = 1..n /\ cancels \in [Panels -> 0..n]
  BY <1>1, ShapeAs
<1>4. /\ cancels' \in [Panels -> 0..n] /\ cancels'[panel] = 0
      /\ \A p \in Panels \ {panel} : cancels'[p] = cancels[p]
  BY <1>1, <1>3 DEF ChatShape, CancelAnswer
<1>5. ChatShape'
  <2>1. streams' \in [1..n -> StreamRecords]
    BY <1>2, <1>3 DEF Stopped
  <2> QED
    BY <1>1, <1>4, <2>1 DEF ChatShape, CancelAnswer, ConvOrNone, ChatPhases
<1>6. PanelsPast'
  <2>1. \A s \in StreamIds : streams'[s].panel = streams[s].panel
    BY <1>2 DEF Stopped
  <2>2. \A p \in Panels : cancels'[p] # 0 => cancels'[p] = cancels[p] /\ cancels[p] \in StreamIds
    BY <1>3, <1>4
  <2>3. \A p \in Panels : cancels'[p] # 0 => streams'[cancels'[p]].panel = p
    BY <2>1, <2>2 DEF ChatInv, PanelsPast
  <2> QED
    BY <1>2, <2>1, <2>3 DEF ChatInv, PanelsPast, CancelAnswer, Stopped
<1>7. CreatedApart'
  BY <1>2 DEF ChatInv, CreatedApart, CancelAnswer, Stopped
<1>8. LoadsRendered' /\ ScreenBelongs'
  BY DEF ChatInv, LoadsRendered, ScreenBelongs, CancelAnswer
<1>9. Stoppable'
  BY <1>2, <1>4, StoppedIsStoppable
<1>10. WorkIsShown'
  BY <1>4 DEF WorkIsShown, Busy, AnswerRuns, CancelAnswer
<1> QED
  BY <1>5, <1>6, <1>7, <1>8, <1>9, <1>10 DEF ChatInv

(* A panel that starts an answer has stopped the one before.                *)
LEMMA StartedIsStoppable ==
  ASSUME ChatInv, NEW p \in Panels, NEW c \in Old \cup New, StreamStarted(p, c), p <= panel,
         chatOpen => chatOpen' /\ panel' = panel,
         ~chatOpen => panel' = panel \/ panel' = panel + 1
  PROVE  /\ Stoppable'
         /\ \A s \in StreamIds' : streams'[s].panel <= panel'
         /\ \A q \in Panels : cancels'[q] # 0 => streams'[cancels'[q]].panel = q
<1>1. PICK n \in Nat :
        /\ StreamIds = 1..n /\ StreamIds' = 1..(n + 1)
        /\ streams' \in [1..(n + 1) -> StreamRecords] /\ cancels' \in [Panels -> 0..(n + 1)]
        /\ cancels'[p] = n + 1 /\ \A q \in Panels \ {p} : cancels'[q] = cancels[q]
        /\ streams'[n + 1] = [panel |-> p, conv |-> c, state |-> "open", told |-> FALSE,
                              orphan |-> ~(chatOpen /\ panel = p)]
        /\ \A t \in 1..n :
             /\ streams'[t].panel = streams[t].panel /\ streams'[t].conv = streams[t].conv
             /\ streams'[t].told = streams[t].told /\ streams'[t].orphan = streams[t].orphan
             /\ t # cancels[p] => streams'[t] = streams[t]
             /\ streams'[t].state = "open" => t # cancels[p] /\ streams[t].state = "open"
  BY DEF StreamStarted
<1>2. panel \in Nat /\ p \in Nat /\ p <= panel'
  BY DEF ChatInv, ChatShape, Panels
<1>3. \A t \in 1..n : t \in StreamIds /\ t \in 1..(n + 1)
  BY <1>1
<1>4. \A t \in StreamIds' : t = n + 1 \/ t \in StreamIds
  BY <1>1
<1>5. \A t \in 1..n : streams[t].panel \in Panels /\ streams[t].panel <= panel
  BY <1>1, <1>3 DEF ChatInv, PanelsPast, StreamRecords
<1>6. Stoppable'
  <2>1. streams'[n + 1].panel = p /\ streams'[n + 1].orphan = ~(chatOpen /\ panel = p)
    BY <1>1
  <2>2. cancels'[streams'[n + 1].panel] = n + 1 /\ (Here(streams[n + 1])' \/ streams'[n + 1].orphan)
    BY <1>1, <2>1 DEF Here
  <2>3. ASSUME NEW t \in StreamIds, streams'[t].state = "open"
        PROVE  cancels'[streams'[t].panel] = t /\ (Here(streams[t])' \/ streams'[t].orphan)
    <3>1. t \in 1..n
      BY <1>1
    <3>2. t # cancels[p] /\ streams[t].state = "open"
      BY <1>1, <2>3, <3>1
    <3>3. cancels[streams[t].panel] = t /\ (Here(streams[t]) \/ streams[t].orphan)
      BY <3>2 DEF ChatInv, Stoppable
    <3>4. streams[t].panel \in Panels \ {p}
      BY <1>5, <3>1, <3>2, <3>3
    <3>5. streams'[t].panel = streams[t].panel /\ streams'[t].orphan = streams[t].orphan
      BY <1>1, <3>1
    <3> QED
      BY <1>1, <3>3, <3>4, <3>5 DEF Here
  <2> QED
    BY <1>4, <2>2, <2>3 DEF Stoppable, Here
<1>7. \A s \in StreamIds' : streams'[s].panel <= panel'
  <2>1. streams'[n + 1].panel <= panel'
    BY <1>1, <1>2
  <2>2. \A t \in 1..n : streams'[t].panel <= panel'
    BY <1>1, <1>2, <1>5 DEF Panels
  <2> QED
    BY <1>1, <1>4, <2>1, <2>2
<1>8. ASSUME NEW q \in Panels, cancels'[q] # 0
      PROVE  streams'[cancels'[q]].panel = q
  <2>1. CASE q = p
    BY <1>1, <2>1
  <2>2. CASE q # p
    <3>1. cancels'[q] = cancels[q]
      BY <1>1, <2>2
    <3>2. PICK k \in Nat : StreamIds = 1..k /\ cancels \in [Panels -> 0..k]
      BY ShapeAs DEF ChatInv
    <3>3. cancels[q] \in StreamIds
      BY <1>8, <3>1, <3>2
    <3>4. streams[cancels[q]].panel = q
      BY <1>8, <3>1 DEF ChatInv, PanelsPast
    <3> QED
      BY <1>1, <3>1, <3>3, <3>4
  <2> QED
    BY <2>1, <2>2
<1> QED
  BY <1>6, <1>7, <1>8

(* The panel that is there asks: its question is the one of the answer.     *)
LEMMA AskShows ==
  ASSUME ChatInv, NEW c \in Old \cup New, AskHere(c), chatOpen, UNCHANGED <<chatOpen, panel>>
  PROVE  /\ Stoppable' /\ WorkIsShown' /\ Existing' = Existing \cup {c}
         /\ \A s \in StreamIds' : streams'[s].panel <= panel'
         /\ \A q \in Panels : cancels'[q] # 0 => streams'[cancels'[q]].panel = q
         /\ \E n \in Nat : streams' \in [1..n -> StreamRecords] /\ cancels' \in [Panels -> 0..n]
<1>1. panel \in Panels /\ panel <= panel
  BY DEF ChatInv, ChatShape, Panels
<1>2. StreamStarted(panel, c) /\ Existing' = Existing \cup {c}
  BY <1>1, StreamStartsOne DEF ChatInv, AskHere
<1>3. /\ Stoppable' /\ \A s \in StreamIds' : streams'[s].panel <= panel'
      /\ \A q \in Panels : cancels'[q] # 0 => streams'[cancels'[q]].panel = q
  BY <1>1, <1>2, StartedIsStoppable
<1>4. PICK n \in Nat :
        /\ streams' \in [1..(n + 1) -> StreamRecords] /\ cancels' \in [Panels -> 0..(n + 1)]
        /\ cancels'[panel] = n + 1
        /\ streams'[n + 1] = [panel |-> panel, conv |-> c, state |-> "open", told |-> FALSE,
                              orphan |-> ~(chatOpen /\ panel = panel)]
  BY <1>2 DEF StreamStarted
<1>5. /\ cancels'[panel] # 0 /\ streams'[cancels'[panel]].state = "open"
      /\ ~streams'[cancels'[panel]].told /\ streams'[cancels'[panel]].conv = c
  BY <1>4
<1>6. WorkIsShown'
  BY <1>5 DEF WorkIsShown, Busy, AnswerRuns, AskHere
<1>7. \E k \in Nat : streams' \in [1..k -> StreamRecords] /\ cancels' \in [Panels -> 0..k]
  BY <1>4
<1> QED
  BY <1>2, <1>3, <1>6, <1>7

LEMMA SubmitKeeps ==
  ASSUME ChatInv, SubmitInConversation
  PROVE  ChatInv'
<1>1. rendered \in Existing /\ rendered \in Old \cup New
  BY ExistingIsConv DEF ChatInv, CreatedApart, SubmitInConversation
<1>2. /\ Stoppable' /\ WorkIsShown' /\ Existing' = Existing
      /\ \A s \in StreamIds' : streams'[s].panel <= panel'
      /\ \A q \in Panels : cancels'[q] # 0 => streams'[cancels'[q]].panel = q
      /\ \E n \in Nat : streams' \in [1..n -> StreamRecords] /\ cancels' \in [Panels -> 0..n]
  BY <1>1, AskShows DEF SubmitInConversation
<1>3. ChatShape'
  BY <1>1, <1>2 DEF ChatInv, ChatShape, SubmitInConversation, AskHere, ChatPhases, ConvOrNone
<1>4. PanelsPast' /\ CreatedApart' /\ LoadsRendered'
  BY <1>2 DEF ChatInv, PanelsPast, CreatedApart, LoadsRendered, SubmitInConversation
<1>5. ScreenBelongs'
  BY DEF ChatInv, ScreenBelongs, SubmitInConversation, AskHere
<1> QED
  BY <1>2, <1>3, <1>4, <1>5 DEF ChatInv

LEMMA SubmitInNoneKeeps ==
  ASSUME ChatInv, SubmitInNone
  PROVE  ChatInv'
<1>1. PICK n \in Unused : creations' = creations \cup {[panel |-> panel, conv |-> n]}
  BY DEF SubmitInNone
<1>2. /\ n \in New \ Existing /\ \A r \in creations : r.conv # n
      /\ [panel |-> panel, conv |-> n] \in Requests
  BY DEF Unused, Requests, ChatInv, ChatShape
<1>3. UNCHANGED <<conversation, chatOpen, panel, rendered, skip, cancels, chatPhase, failure,
                  shown, asked, histories, reloads, streams, excused>>
  BY DEF SubmitInNone
<1>4. StreamIds' = StreamIds /\ Existing' = Existing
  BY <1>3 DEF StreamIds, Existing
<1>5. ChatShape'
  BY <1>1, <1>2, <1>3 DEF ChatInv, ChatShape, ConvOrNone
<1>6. PanelsPast'
  BY <1>1, <1>3, <1>4 DEF ChatInv, ChatShape, PanelsPast, Panels
<1>7. CreatedApart'
  BY <1>1, <1>2, <1>3, <1>4 DEF ChatInv, CreatedApart
<1>8. LoadsRendered' /\ Stoppable' /\ WorkIsShown' /\ ScreenBelongs'
  BY <1>3, <1>4 DEF ChatInv, LoadsRendered, Stoppable, WorkIsShown, ScreenBelongs, Busy,
     AnswerRuns, Here
<1> QED
  BY <1>5, <1>6, <1>7, <1>8 DEF ChatInv

(* A conversation that was created is on the screen for the first time.     *)
LEMMA CreatedHereKeeps ==
  ASSUME ChatInv, NEW r \in creations, Created(r), Here(r)
  PROVE  ChatInv'
<1>1. /\ creations' = creations \ {r} /\ conversation' = r.conv /\ skip' = r.conv
      /\ AskHere(r.conv) /\ chatOpen
      /\ UNCHANGED <<chatOpen, panel, rendered, shown, histories, reloads>>
  BY DEF Created, Here
<1>2. /\ r.conv \in Old \cup New /\ r.conv # NoConv /\ r.conv \notin Existing
      /\ \A q \in creations' : q.conv \in New \ (Existing \cup {r.conv})
  BY <1>1, ChatAssumption DEF ChatInv, CreatedApart
<1>3. /\ Stoppable' /\ WorkIsShown' /\ Existing' = Existing \cup {r.conv}
      /\ \A s \in StreamIds' : streams'[s].panel <= panel'
      /\ \A q \in Panels : cancels'[q] # 0 => streams'[cancels'[q]].panel = q
      /\ \E n \in Nat : streams' \in [1..n -> StreamRecords] /\ cancels' \in [Panels -> 0..n]
  BY <1>1, <1>2, AskShows
<1>4. ChatShape'
  BY <1>1, <1>2, <1>3 DEF ChatInv, ChatShape, AskHere, ChatPhases, ConvOrNone
<1>5. PanelsPast' /\ LoadsRendered'
  BY <1>1, <1>3 DEF ChatInv, PanelsPast, LoadsRendered
<1>6. CreatedApart'
  BY <1>1, <1>2, <1>3 DEF ChatInv, CreatedApart
<1>7. ScreenBelongs'
  BY <1>1, <1>2 DEF ChatInv, CreatedApart, ScreenBelongs
<1> QED
  BY <1>3, <1>4, <1>5, <1>6, <1>7 DEF ChatInv

(* Of what a panel that is gone starts, nothing is shown.                   *)
LEMMA StartedElsewhere ==
  ASSUME ChatInv, NEW p \in Panels, NEW c \in Old \cup New, Stream(p, c), p <= panel,
         ~(chatOpen /\ panel = p), chatOpen => chatOpen' /\ panel' = panel,
         ~chatOpen => panel' = panel \/ panel' = panel + 1
  PROVE  /\ Stoppable' /\ Existing' = Existing \cup {c}
         /\ \A s \in StreamIds' : streams'[s].panel <= panel'
         /\ \A q \in Panels : cancels'[q] # 0 => streams'[cancels'[q]].panel = q
         /\ \A q \in Panels \ {p} : cancels'[q] = cancels[q]
         /\ \A q \in Panels \ {p} : cancels[q] # 0 => streams'[cancels[q]] = streams[cancels[q]]
         /\ \E n \in Nat : streams' \in [1..n -> StreamRecords] /\ cancels' \in [Panels -> 0..n]
<1>1. StreamStarted(p, c) /\ Existing' = Existing \cup {c}
  BY StreamStartsOne DEF ChatInv
<1>2. /\ Stoppable' /\ \A s \in StreamIds' : streams'[s].panel <= panel'
      /\ \A q \in Panels : cancels'[q] # 0 => streams'[cancels'[q]].panel = q
  BY <1>1, StartedIsStoppable
<1>3. PICK n \in Nat :
        /\ StreamIds = 1..n
        /\ streams' \in [1..(n + 1) -> StreamRecords] /\ cancels' \in [Panels -> 0..(n + 1)]
        /\ \A q \in Panels \ {p} : cancels'[q] = cancels[q]
        /\ \A t \in 1..n : t # cancels[p] => streams'[t] = streams[t]
  BY <1>1 DEF StreamStarted
<1>4. ASSUME NEW q \in Panels \ {p}, cancels[q] # 0
      PROVE  streams'[cancels[q]] = streams[cancels[q]]
  <2>1. PICK k \in Nat : StreamIds = 1..k /\ cancels \in [Panels -> 0..k]
    BY ShapeAs DEF ChatInv
  <2>2. cancels[q] \in StreamIds
    BY <1>4, <2>1
  <2>3. streams[cancels[q]].panel = q
    BY <1>4 DEF ChatInv, PanelsPast
  <2>4. cancels[p] # cancels[q]
    BY <1>4, <2>3 DEF ChatInv, PanelsPast
  <2> QED
    BY <1>3, <2>2, <2>4
<1>5. \E k \in Nat : streams' \in [1..k -> StreamRecords] /\ cancels' \in [Panels -> 0..k]
  BY <1>3
<1> QED
  BY <1>1, <1>2, <1>3, <1>4, <1>5

LEMMA CreatedElsewhereKeeps ==
  ASSUME ChatInv, NEW r \in creations, Created(r), ~Here(r)
  PROVE  ChatInv'
<1>1. /\ r.conv \in Old \cup New /\ r.conv # NoConv /\ r.conv \notin Existing
      /\ \A q \in creations \ {r} : q.conv \in New \ (Existing \cup {r.conv})
      /\ r.panel \in Panels /\ r.panel <= panel /\ panel \in Panels /\ r.conv \in ConvOrNone
  BY ChatAssumption DEF ChatInv, CreatedApart, ChatShape, PanelsPast, Requests, ConvOrNone
<1>2. \A q \in creations \cup reloads : q.panel \in Nat /\ q.panel <= panel
  BY DEF ChatInv, ChatShape, PanelsPast, Requests, Panels
<1>3. CASE /\ chatOpen /\ conversation' = r.conv /\ Stream(r.panel, r.conv)
           /\ UNCHANGED <<chatOpen, panel, rendered, skip, chatPhase, failure, shown, asked,
                          histories, excused>>
  <2>1. creations' = creations \ {r} /\ UNCHANGED reloads /\ panel # r.panel
    BY <1>3 DEF Created, Here
  <2>2. /\ Stoppable' /\ Existing' = Existing \cup {r.conv}
        /\ \A s \in StreamIds' : streams'[s].panel <= panel'
        /\ \A q \in Panels : cancels'[q] # 0 => streams'[cancels'[q]].panel = q
        /\ \A q \in Panels \ {r.panel} : cancels'[q] = cancels[q]
        /\ \A q \in Panels \ {r.panel} :
             cancels[q] # 0 => streams'[cancels[q]] = streams[cancels[q]]
        /\ \E n \in Nat : streams' \in [1..n -> StreamRecords] /\ cancels' \in [Panels -> 0..n]
    BY <1>1, <1>3, <2>1, StartedElsewhere DEF Here
  <2>3. ChatShape'
    BY <1>1, <1>3, <2>1, <2>2 DEF ChatInv, ChatShape, ConvOrNone
  <2>4. PanelsPast' /\ LoadsRendered' /\ CreatedApart'
    BY <1>1, <1>3, <2>1, <2>2 DEF ChatInv, PanelsPast, LoadsRendered, CreatedApart
  <2>5. WorkIsShown'
    <3>1. cancels'[panel] = cancels[panel]
      BY <1>1, <2>1, <2>2
    <3>2. cancels[panel] # 0 => streams'[cancels'[panel]] = streams[cancels[panel]]
      BY <1>1, <2>1, <2>2, <3>1
    <3>3. AnswerRuns' <=> AnswerRuns
      BY <1>3, <3>1, <3>2 DEF AnswerRuns
    <3>4. AnswerRuns => streams'[cancels'[panel]] = streams[cancels[panel]]
      BY <3>2 DEF AnswerRuns
    <3>5. (Busy' <=> Busy) /\ WorkIsShown /\ chatOpen
      BY <1>3 DEF Busy, ChatInv
    <3> QED
      BY <1>3, <3>3, <3>4, <3>5 DEF WorkIsShown
  <2>6. ScreenBelongs'
    BY <1>1, <1>3 DEF ChatInv, CreatedApart, ScreenBelongs
  <2> QED
    BY <2>2, <2>3, <2>4, <2>5, <2>6 DEF ChatInv
<1>4. CASE ~chatOpen /\ NewPanel(r.conv) /\ Stream(r.panel, r.conv)
  <2>1. creations' = creations \ {r} /\ UNCHANGED reloads
    BY DEF Created
  <2>2. /\ LoadsRendered' /\ ScreenBelongs' /\ histories' \subseteq Requests
        /\ chatOpen' = TRUE /\ panel' = panel + 1 /\ panel' \in Panels
    BY <1>1, <1>4, NewPanelLoads
  <2>3. cancels[panel + 1] = 0 /\ panel \in Nat /\ r.panel # panel + 1
    BY <1>1, <1>4, FreshPanel DEF Panels
  <2>4. /\ Stoppable' /\ Existing' = Existing \cup {r.conv}
        /\ \A s \in StreamIds' : streams'[s].panel <= panel'
        /\ \A q \in Panels : cancels'[q] # 0 => streams'[cancels'[q]].panel = q
        /\ \A q \in Panels \ {r.panel} : cancels'[q] = cancels[q]
        /\ \E n \in Nat : streams' \in [1..n -> StreamRecords] /\ cancels' \in [Panels -> 0..n]
    BY <1>1, <1>4, <2>2, StartedElsewhere
  <2>5. ChatShape'
    BY <1>1, <1>4, <2>1, <2>2, <2>4 DEF ChatInv, ChatShape, NewPanel, ChatPhases, ConvOrNone
  <2>6. PanelsPast'
    BY <1>2, <2>1, <2>2, <2>3, <2>4 DEF PanelsPast
  <2>7. CreatedApart'
    BY <1>1, <1>4, <2>1, <2>4 DEF ChatInv, CreatedApart, NewPanel
  <2>8. cancels'[panel'] = 0
    BY <2>2, <2>3, <2>4
  <2>9. WorkIsShown'
    BY <1>4, <2>8 DEF WorkIsShown, Busy, AnswerRuns, NewPanel
  <2> QED
    BY <2>2, <2>4, <2>5, <2>6, <2>7, <2>9 DEF ChatInv
<1> QED
  BY <1>3, <1>4 DEF Created

LEMMA CreationFailsKeeps ==
  ASSUME ChatInv, NEW r \in creations, CreationFails(r)
  PROVE  ChatInv'
<1>1. /\ creations' = creations \ {r}
      /\ UNCHANGED <<conversation, chatOpen, panel, rendered, skip, cancels, shown, asked,
                     histories, reloads, streams, excused>>
      /\ \/ chatPhase' = "error" /\ failure' = TRUE
         \/ UNCHANGED <<chatPhase, failure>>
  BY DEF CreationFails
<1>2. StreamIds' = StreamIds /\ Existing' = Existing
  BY <1>1 DEF StreamIds, Existing
<1>3. ChatShape'
  BY <1>1 DEF ChatInv, ChatShape, ChatPhases, ConvOrNone
<1>4. PanelsPast' /\ CreatedApart' /\ LoadsRendered'
  BY <1>1, <1>2 DEF ChatInv, PanelsPast, CreatedApart, LoadsRendered
<1>5. Stoppable' /\ ScreenBelongs'
  BY <1>1, <1>2 DEF ChatInv, Stoppable, ScreenBelongs, Here
<1>6. WorkIsShown'
  BY <1>1 DEF ChatInv, WorkIsShown, Busy, AnswerRuns
<1> QED
  BY <1>3, <1>4, <1>5, <1>6 DEF ChatInv

LEMMA HistoryLandsKeeps ==
  ASSUME ChatInv, NEW r \in histories, HistoryLands(r)
  PROVE  ChatInv'
<1>1. /\ histories' = histories \ {r} /\ chatOpen /\ r.conv = rendered
      /\ UNCHANGED <<conversation, chatOpen, panel, rendered, skip, cancels, chatPhase, asked,
                     creations, reloads, streams>>
      /\ \/ shown' = rendered /\ excused' = excused \ {"shown"} /\ UNCHANGED failure
         \/ failure' = TRUE /\ excused' = excused \cup OthersShown(rendered) /\ UNCHANGED shown
  BY DEF HistoryLands, ChatInv, LoadsRendered
<1>2. StreamIds' = StreamIds /\ Existing' = Existing
  BY <1>1 DEF StreamIds, Existing
<1>3. ChatShape'
  <2>1. rendered \in ConvOrNone
    BY ExistingIsConv DEF ChatInv, CreatedApart, ConvOrNone
  <2> QED
    BY <1>1, <2>1 DEF ChatInv, ChatShape, OthersShown, ConvOrNone
<1>4. PanelsPast' /\ CreatedApart' /\ LoadsRendered'
  BY <1>1, <1>2 DEF ChatInv, PanelsPast, CreatedApart, LoadsRendered
<1>5. Stoppable' /\ WorkIsShown'
  BY <1>1, <1>2 DEF ChatInv, Stoppable, WorkIsShown, Busy, AnswerRuns, Here
<1>6. ScreenBelongs'
  BY <1>1 DEF ChatInv, ScreenBelongs, OthersShown
<1> QED
  BY <1>3, <1>4, <1>5, <1>6 DEF ChatInv

LEMMA ReloadLandsKeeps ==
  ASSUME ChatInv, NEW r \in reloads, ReloadLands(r)
  PROVE  ChatInv'
<1>1. /\ reloads' = reloads \ {r} /\ r.conv \in ConvOrNone
      /\ UNCHANGED <<conversation, chatOpen, panel, rendered, skip, cancels, chatPhase, failure,
                     creations, histories, streams>>
  BY DEF ReloadLands, ChatInv, ChatShape, Requests, ConvOrNone
<1>2. \/ /\ shown' = r.conv /\ asked' = NoConv
         /\ excused' = (IF r.conv # rendered THEN {"shown"} ELSE {})
                       \cup (IF AnswerRuns THEN {"cleared"} ELSE {})
      \/ UNCHANGED <<shown, asked, excused>>
  BY DEF ReloadLands
<1>3. StreamIds' = StreamIds /\ Existing' = Existing
  BY <1>1 DEF StreamIds, Existing
<1>4. ChatShape'
  BY <1>1, <1>2 DEF ChatInv, ChatShape, ConvOrNone
<1>5. PanelsPast' /\ CreatedApart' /\ LoadsRendered'
  BY <1>1, <1>3 DEF ChatInv, PanelsPast, CreatedApart, LoadsRendered
<1>6. Stoppable' /\ WorkIsShown'
  BY <1>1, <1>2, <1>3 DEF ChatInv, Stoppable, WorkIsShown, Busy, AnswerRuns, Here
<1>7. ScreenBelongs'
  BY <1>1, <1>2 DEF ChatInv, ScreenBelongs
<1> QED
  BY <1>4, <1>5, <1>6, <1>7 DEF ChatInv

(* An event changes the state and the told of its stream, and the phase of  *)
(* its panel when that is there.                                            *)
LEMMA TellIs ==
  ASSUME ChatInv, NEW s \in StreamIds, NEW next, NEW how, Tell(s, next, how)
  PROVE  /\ \E n \in Nat : StreamIds = 1..n /\ streams' \in [1..n -> StreamRecords]
                           /\ cancels \in [Panels -> 0..n]
         /\ StreamIds' = StreamIds /\ Existing' = Existing
         /\ \A t \in StreamIds :
              /\ streams'[t].panel = streams[t].panel /\ streams'[t].conv = streams[t].conv
              /\ streams'[t].orphan = streams[t].orphan
              /\ t # s => streams'[t] = streams[t]
         /\ streams'[s].state = IF how = "end" THEN "ended" ELSE streams[s].state
         /\ (streams'[s].told <=> streams[s].told \/ how = "last")
<1>1. PICK n \in Nat : /\ StreamIds = 1..n /\ streams \in [1..n -> StreamRecords]
                       /\ cancels \in [Panels -> 0..n]
  BY ShapeAs DEF ChatInv
<1> DEFINE r == streams[s]
           new == [r EXCEPT !.state = IF how = "end" THEN "ended" ELSE r.state,
                            !.told = r.told \/ how = "last"]
<1>2. streams' = [streams EXCEPT ![s].state = IF how = "end" THEN "ended" ELSE @,
                                 ![s].told = @ \/ how = "last"]
  BY DEF Tell
<1>3. r \in StreamRecords
  BY <1>1
<1>4. /\ new \in StreamRecords /\ new.panel = r.panel /\ new.conv = r.conv
      /\ new.orphan = r.orphan /\ new.state = (IF how = "end" THEN "ended" ELSE r.state)
      /\ new.told = (r.told \/ how = "last")
  BY <1>3 DEF StreamRecords
<1>5. streams' \in [1..n -> StreamRecords] /\ streams'[s] = new
  <2>1. streams'[s] = new
    BY <1>1, <1>2
  <2>2. \A t \in 1..n : t # s => streams'[t] = streams[t]
    BY <1>1, <1>2
  <2>3. streams' = [t \in 1..n |-> streams'[t]]
    BY <1>1, <1>2
  <2> HIDE DEF new
  <2>4. \A t \in 1..n : streams'[t] \in StreamRecords
    BY <1>1, <1>4, <2>1, <2>2
  <2> QED
    BY <2>1, <2>3, <2>4
<1> HIDE DEF new
<1>6. \A t \in StreamIds : t # s => streams'[t] = streams[t]
  BY <1>1, <1>2
<1>7. StreamIds' = StreamIds
  BY <1>1, <1>5 DEF StreamIds
<1>8. \A t \in StreamIds : /\ streams'[t].panel = streams[t].panel
                           /\ streams'[t].conv = streams[t].conv
                           /\ streams'[t].orphan = streams[t].orphan
  BY <1>4, <1>5, <1>6
<1>9. {streams'[t].conv : t \in StreamIds} = {streams[t].conv : t \in StreamIds}
  BY <1>8
<1>10. Existing' = Existing
  BY <1>7, <1>9 DEF Existing
<1> QED
  BY <1>1, <1>4, <1>5, <1>6, <1>7, <1>8, <1>10

(* What an event keeps whichever it is; the phase is left to each.          *)
LEMMA TellKeeps ==
  ASSUME ChatInv, NEW s \in StreamIds, NEW next \in ChatPhases, NEW how, Tell(s, next, how),
         failure' \in BOOLEAN, reloads' \subseteq Requests, \A r \in reloads' : r.panel <= panel,
         WorkIsShown'
  PROVE  ChatInv'
<1>1. PICK n \in Nat : StreamIds = 1..n /\ streams' \in [1..n -> StreamRecords]
                       /\ cancels \in [Panels -> 0..n]
  BY TellIs
<1>2. /\ StreamIds' = StreamIds /\ Existing' = Existing
      /\ \A t \in StreamIds :
           /\ streams'[t].panel = streams[t].panel /\ streams'[t].conv = streams[t].conv
           /\ streams'[t].orphan = streams[t].orphan
           /\ t # s => streams'[t] = streams[t]
      /\ streams'[s].state = IF how = "end" THEN "ended" ELSE streams[s].state
  BY TellIs
<1>3. /\ chatPhase' \in ChatPhases
      /\ UNCHANGED <<conversation, chatOpen, panel, rendered, skip, cancels, shown, asked,
                     creations, histories, excused>>
  BY DEF Tell, ChatInv, ChatShape
<1>4. ChatShape'
  BY <1>1, <1>3 DEF ChatInv, ChatShape, ConvOrNone
<1>5. PanelsPast'
  <2>1. \A p \in Panels : cancels[p] # 0 => cancels[p] \in StreamIds
    BY <1>1
  <2> QED
    BY <1>2, <1>3, <2>1 DEF ChatInv, PanelsPast
<1>6. CreatedApart' /\ LoadsRendered' /\ ScreenBelongs'
  BY <1>2, <1>3 DEF ChatInv, CreatedApart, LoadsRendered, ScreenBelongs
<1>7. Stoppable'
  <2>1. \A t \in StreamIds : streams'[t].state = "open" => streams[t].state = "open"
    BY <1>2
  <2> QED
    BY <1>2, <1>3, <2>1 DEF ChatInv, Stoppable, Here
<1> QED
  BY <1>4, <1>5, <1>6, <1>7 DEF ChatInv

(* While the answer goes on, its panel works; the last event and the error  *)
(* end the work of that panel and of no other.                              *)
LEMMA TellShows ==
  ASSUME ChatInv, NEW s \in StreamIds, NEW next, NEW how, Tell(s, next, how),
         streams[s].state = "open",
         \/ how = "more" /\ ~streams[s].told
         \/ next \notin {"searching", "preparing", "streaming"}
         \/ how = "end" /\ next = chatPhase /\ streams[s].told
  PROVE  WorkIsShown'
<1>1. /\ UNCHANGED <<chatOpen, panel, cancels, asked, excused>>
      /\ chatPhase' = IF Here(streams[s]) THEN next ELSE chatPhase
  BY DEF Tell
<1>2. /\ \A t \in StreamIds :
           streams'[t].conv = streams[t].conv /\ (t # s => streams'[t] = streams[t])
      /\ streams'[s].state = IF how = "end" THEN "ended" ELSE streams[s].state
      /\ (streams'[s].told <=> streams[s].told \/ how = "last")
  BY TellIs
<1>3. PICK n \in Nat : StreamIds = 1..n /\ cancels \in [Panels -> 0..n]
  BY TellIs
<1>4. panel \in Panels /\ (cancels[panel] # 0 => cancels[panel] \in StreamIds)
  BY <1>3 DEF ChatInv, ChatShape
<1>5. cancels[streams[s].panel] = s
  BY DEF ChatInv, Stoppable
<1> SUFFICES ASSUME chatOpen
             PROVE  /\ Busy' => AnswerRuns'
                    /\ AnswerRuns' => asked = streams'[cancels[panel]].conv
                                      \/ "cleared" \in excused
  BY <1>1 DEF WorkIsShown
<1>6. (Busy => AnswerRuns)
      /\ (AnswerRuns => asked = streams[cancels[panel]].conv \/ "cleared" \in excused)
  BY DEF ChatInv, WorkIsShown
<1>7. CASE cancels[panel] = s
  <2>1. Here(streams[s])
    BY <1>3, <1>4, <1>7 DEF ChatInv, PanelsPast, Here
  <2>2. chatPhase' = next
    BY <1>1, <2>1
  <2>3. AnswerRuns' => AnswerRuns /\ streams'[cancels[panel]].conv = streams[cancels[panel]].conv
    BY <1>1, <1>2, <1>4, <1>7 DEF AnswerRuns
  <2>4. CASE how = "more" /\ ~streams[s].told
    <3>1. /\ streams'[s].state = "open" /\ ~streams'[s].told /\ s # 0
          /\ streams[s].state = "open" /\ ~streams[s].told
      BY <1>2, <1>3, <2>4
    <3>2. AnswerRuns /\ AnswerRuns'
      BY <1>1, <1>7, <3>1 DEF AnswerRuns
    <3> QED
      BY <1>6, <2>3, <3>2
  <2>5. CASE next \notin {"searching", "preparing", "streaming"}
    BY <1>6, <2>2, <2>3, <2>5 DEF Busy
  <2>6. CASE how = "end" /\ next = chatPhase /\ streams[s].told
    BY <1>6, <1>7, <2>2, <2>3, <2>6 DEF Busy, AnswerRuns
  <2> QED
    BY <2>4, <2>5, <2>6
<1>8. CASE cancels[panel] # s
  <2>1. ~Here(streams[s])
    BY <1>5, <1>8 DEF Here
  <2>2. Busy' <=> Busy
    BY <1>1, <2>1 DEF Busy
  <2>3. cancels[panel] # 0 => streams'[cancels[panel]] = streams[cancels[panel]]
    BY <1>2, <1>4, <1>8
  <2>4. AnswerRuns' <=> AnswerRuns
    BY <1>1, <2>3 DEF AnswerRuns
  <2> QED
    BY <1>6, <2>2, <2>3, <2>4 DEF AnswerRuns
<1> QED
  BY <1>7, <1>8

LEMMA EventKeeps ==
  ASSUME ChatInv, NEW s \in StreamIds, streams[s].state = "open",
         \/ StreamStarts(s) \/ StreamToken(s) \/ StreamCompletes(s) \/ StreamCanceled(s)
         \/ StreamEnds(s) \/ StreamFails(s)
  PROVE  ChatInv'
<1>1. /\ {"preparing", "streaming", "done", "canceled", "error"} \subseteq ChatPhases
      /\ chatPhase \in ChatPhases /\ failure \in BOOLEAN /\ reloads \subseteq Requests
      /\ \A r \in reloads : r.panel <= panel
  BY DEF ChatInv, ChatShape, PanelsPast, ChatPhases
<1>2. CASE StreamStarts(s)
  <2>1. Tell(s, "preparing", "more") /\ ~streams[s].told /\ UNCHANGED <<failure, reloads>>
    BY <1>2 DEF StreamStarts
  <2>2. WorkIsShown'
    BY <2>1, TellShows
  <2> QED
    BY <1>1, <2>1, <2>2, TellKeeps
<1>3. CASE StreamToken(s)
  <2>1. Tell(s, "streaming", "more") /\ ~streams[s].told /\ UNCHANGED <<failure, reloads>>
    BY <1>3 DEF StreamToken
  <2>2. WorkIsShown'
    BY <2>1, TellShows
  <2> QED
    BY <1>1, <2>1, <2>2, TellKeeps
<1>4. CASE StreamCompletes(s)
  <2>1. /\ Tell(s, "done", "last") /\ UNCHANGED failure
        /\ reloads' = reloads \cup {[panel |-> streams[s].panel, conv |-> streams[s].conv]}
    BY <1>4 DEF StreamCompletes
  <2>2. WorkIsShown'
    BY <2>1, TellShows
  <2>3. streams[s].panel \in Panels /\ streams[s].conv \in Old \cup New
    BY ShapeAs DEF ChatInv, StreamRecords
  <2>4. streams[s].panel <= panel
    BY DEF ChatInv, PanelsPast
  <2>5. reloads' \subseteq Requests /\ \A r \in reloads' : r.panel <= panel
    BY <1>1, <2>1, <2>3, <2>4 DEF Requests
  <2> QED
    BY <1>1, <2>1, <2>2, <2>5, TellKeeps
<1>5. CASE StreamCanceled(s)
  <2>1. Tell(s, "canceled", "last") /\ UNCHANGED <<failure, reloads>>
    BY <1>5 DEF StreamCanceled
  <2>2. WorkIsShown'
    BY <2>1, TellShows
  <2> QED
    BY <1>1, <2>1, <2>2, TellKeeps
<1>6. CASE StreamEnds(s)
  <2>1. Tell(s, chatPhase, "end") /\ streams[s].told /\ UNCHANGED <<failure, reloads>>
    BY <1>6 DEF StreamEnds
  <2>2. WorkIsShown'
    BY <2>1, TellShows
  <2> QED
    BY <1>1, <2>1, <2>2, TellKeeps
<1>7. CASE StreamFails(s)
  <2>1. /\ Tell(s, "error", "end") /\ failure' = (failure \/ Here(streams[s]))
        /\ UNCHANGED reloads
    BY <1>7 DEF StreamFails
  <2>2. WorkIsShown'
    BY <2>1, TellShows
  <2>3. failure' \in BOOLEAN
    BY <2>1
  <2> QED
    BY <1>1, <2>1, <2>2, <2>3, TellKeeps
<1> QED
  BY <1>2, <1>3, <1>4, <1>5, <1>6, <1>7

LEMMA StutterKeeps ==
  ASSUME ChatInv, UNCHANGED chatVars
  PROVE  ChatInv'
<1>1. StreamIds' = StreamIds /\ Existing' = Existing
  BY DEF chatVars, StreamIds, Existing
<1>2. ChatShape' /\ PanelsPast' /\ CreatedApart' /\ LoadsRendered'
  BY <1>1 DEF chatVars, ChatInv, ChatShape, PanelsPast, CreatedApart, LoadsRendered
<1>3. Stoppable' /\ WorkIsShown' /\ ScreenBelongs'
  BY <1>1 DEF chatVars, ChatInv, Stoppable, WorkIsShown, ScreenBelongs, Busy, AnswerRuns, Here
<1> QED
  BY <1>2, <1>3 DEF ChatInv

LEMMA ChatInvAlways == ChatSpec => []ChatInv
<1>1. ChatInit => ChatInv
  BY InitEstablishes
<1>2. ChatInv /\ [ChatNext]_chatVars => ChatInv'
  <2> SUFFICES ASSUME ChatInv, [ChatNext]_chatVars
               PROVE  ChatInv'
    OBVIOUS
  <2>1. ASSUME NEW c \in Existing \cup {NoConv}, Select(c) \/ Mount(c)
        PROVE  ChatInv'
    BY <2>1, SelectKeeps, MountKeeps
  <2>2. CASE Render \/ Leave \/ SubmitInConversation \/ SubmitInNone \/ CancelAnswer
    BY <2>2, RenderKeeps, LeaveKeeps, SubmitKeeps, SubmitInNoneKeeps, CancelKeeps
  <2>3. ASSUME NEW r \in creations, Created(r) \/ CreationFails(r)
        PROVE  ChatInv'
    BY <2>3, CreatedHereKeeps, CreatedElsewhereKeeps, CreationFailsKeeps
  <2>4. ASSUME NEW r \in histories, HistoryLands(r)
        PROVE  ChatInv'
    BY <2>4, HistoryLandsKeeps
  <2>5. ASSUME NEW r \in reloads, ReloadLands(r)
        PROVE  ChatInv'
    BY <2>5, ReloadLandsKeeps
  <2>6. ASSUME NEW s \in {t \in StreamIds : streams[t].state = "open"},
               \/ StreamStarts(s) \/ StreamToken(s) \/ StreamCompletes(s) \/ StreamCanceled(s)
               \/ StreamEnds(s) \/ StreamFails(s)
        PROVE  ChatInv'
    BY <2>6, EventKeeps
  <2>7. CASE UNCHANGED chatVars
    BY <2>7, StutterKeeps
  <2> QED
    BY <2>1, <2>2, <2>3, <2>4, <2>5, <2>6, <2>7 DEF ChatNext
<1> QED
  BY <1>1, <1>2, PTL DEF ChatSpec

(* The state of the chat has its types.                                     *)
THEOREM ChatTypeCorrect == ChatSpec => []ChatTypeOK
<1>1. ChatInv => ChatTypeOK
  <2> SUFFICES ASSUME ChatInv
               PROVE  ChatTypeOK
    OBVIOUS
  <2>1. PICK n \in Nat : /\ StreamIds = 1..n /\ Cardinality(StreamIds) = n
                         /\ streams \in [1..n -> StreamRecords] /\ cancels \in [Panels -> 0..n]
    BY ShapeAs DEF ChatInv
  <2>2. /\ cancels \in [Panels -> 0..Cardinality(StreamIds)]
        /\ \A s \in StreamIds : streams[s] \in [panel : Panels, conv : Old \cup New,
             told : BOOLEAN, state : {"open", "aborted", "ended"}, orphan : BOOLEAN]
    BY <2>1 DEF StreamRecords
  <2>3. conversation \in ConvOrNone /\ rendered \in ConvOrNone
    BY ExistingIsConv DEF ChatInv, CreatedApart, ConvOrNone
  <2>4. creations \cup histories \cup reloads \subseteq [panel : Panels, conv : Old \cup New]
    BY DEF ChatInv, ChatShape, Requests
  <2> QED
    BY <2>2, <2>3, <2>4 DEF ChatInv, ChatShape, ChatTypeOK, ChatPhases
<1> QED
  BY <1>1, ChatInvAlways, PTL

(* However requests, panels and events interleave, an answer that runs is   *)
(* the one its panel can stop, a panel that says it works has such an       *)
(* answer, and what is on the screen belongs to the selected conversation,  *)
(* but for the reasons the model names: from ChatInv, of which the cancel   *)
(* reference of each panel and the load in flight are the substance.        *)
THEOREM WhatRunsCanBeStopped == ChatSpec => []ChatAgrees
<1>1. ChatInv => ChatAgrees
  <2> SUFFICES ASSUME ChatInv
               PROVE  ChatAgrees
    OBVIOUS
  <2>1. AnswerCanBeStopped
    <3>1. chatOpen /\ Busy =>
            /\ cancels[panel] # 0 /\ streams[cancels[panel]].state = "open"
            /\ asked = streams[cancels[panel]].conv \/ "cleared" \in excused
      BY DEF ChatInv, WorkIsShown, AnswerRuns
    <3> QED
      BY <3>1 DEF ChatInv, Stoppable, AnswerCanBeStopped
  <2>2. Superseded = {} => histories = {}
    BY DEF ChatInv, LoadsRendered, Superseded
  <2>3. ShowsSelected
    BY <2>2 DEF ChatInv, ScreenBelongs, ShowsSelected
  <2> QED
    BY <2>1, <2>3 DEF ChatAgrees
<1> QED
  BY <1>1, ChatInvAlways, PTL

-----------------------------------------------------------------------------
(* The documents.                                                           *)

ListRecords ==
  [key : Places, saw : Nat, by : ChangeKinds \cup {"timer"}, behind : BOOLEAN, strayed : BOOLEAN]
ChangeRecords ==
  [kind : ChangeKinds, doc : Docs \cup {NoDoc}, key : Places, step : {"sent", "listing"}]

(* The types; the document another tab asked for is known while its load    *)
(* counts.                                                                  *)
PanelShape ==
  /\ place \in Places /\ changes \in Nat /\ left \in Nat
  /\ lists \in Seq(ListRecords)
  /\ listed = Nowhere \/ listed \in [key : Places, saw : Nat]
  /\ listState \in {"loading", "ready", "error"}
  /\ listState = "ready" => listed \in [key : Places, saw : Nat]
  /\ selection \subseteq Views
  /\ detail \in Docs \cup {NoDoc} /\ text \in Docs \cup {NoDoc}
  /\ opens \subseteq Docs /\ pendingOpen \in Docs \cup {NoDoc}
  /\ finding \subseteq {"live", "stale"} /\ ("live" \in finding => pendingOpen \in Docs)
  /\ work \subseteq ChangeRecords
  /\ amiss \subseteq {"list", "lost", "selection", "drawer"}

(* A list shows the changes of every list sent before it.                   *)
ListsInOrder ==
  /\ \A i \in DOMAIN lists : lists[i].saw <= changes
  /\ \A i, j \in DOMAIN lists : i <= j => lists[i].saw <= lists[j].saw

Browsing == mounted /\ searchMode = "normal" /\ ~timer

(* The list that was sent last is the one that is wanted, or known not to   *)
(* be, and no change is newer that is not known to be lost.                 *)
LastIsCurrent ==
  lists # <<>> =>
    LET l == lists[Len(lists)]
    IN /\ Browsing => l.key = place \/ l.strayed \/ l.behind
       /\ l.saw = changes \/ "lost" \in amiss \/ l.behind

(* So is the list on the screen, when none is on its way.                   *)
ListedIsCurrent ==
  lists = <<>> /\ listState = "ready" =>
    /\ Browsing => listed.key = place \/ "list" \in amiss
    /\ listed.saw = changes \/ amiss \cap {"list", "lost"} # {}

NamesAgree ==
  /\ mounted /\ ~naming => folderName = place.folder
  /\ ~mounted => ~naming /\ folderName = NoDoc /\ selection = {}

PanelInv ==
  /\ PanelShape /\ ListsInOrder /\ LastIsCurrent /\ ListedIsCurrent /\ NamesAgree /\ ScreenAgrees

-----------------------------------------------------------------------------
(* What sending a list and its coming do to those in flight.                *)

LEMMA SendIs ==
  ASSUME lists \in Seq(ListRecords), changes' \in Nat, NEW key \in Places,
         NEW by \in ChangeKinds \cup {"timer"}, Send(key, by)
  PROVE  /\ lists' \in Seq(ListRecords) /\ Len(lists') = Len(lists) + 1 /\ lists' # <<>>
         /\ LET l == lists'[Len(lists')]
            IN l.key = key /\ l.saw = changes' /\ l.strayed = (key # place)
         /\ \A i \in 1..Len(lists) : lists'[i] = lists[i]
         /\ listState' = "loading" /\ listed' = Nowhere
<1> DEFINE l == [key |-> key, saw |-> changes', by |-> by, behind |-> FALSE,
                 strayed |-> key # place]
<1>1. l \in ListRecords /\ l.key = key /\ l.saw = changes' /\ l.strayed = (key # place)
  BY DEF ListRecords
<1>2. lists' = Append(lists, l) /\ listState' = "loading" /\ listed' = Nowhere
  BY DEF Send
<1> HIDE DEF l
<1>3. /\ lists' \in Seq(ListRecords) /\ Len(lists') = Len(lists) + 1
      /\ lists'[Len(lists')] = l /\ \A i \in 1..Len(lists) : lists'[i] = lists[i]
  BY <1>1, <1>2
<1>4. lists' # <<>>
  BY <1>3
<1> QED
  BY <1>1, <1>2, <1>3, <1>4

LEMMA SendKeeps ==
  ASSUME PanelInv, changes' \in Nat, changes <= changes', NEW key \in Places,
         NEW by \in ChangeKinds \cup {"timer"}, Send(key, by), place' = place
  PROVE  /\ lists' \in Seq(ListRecords) /\ listState' = "loading" /\ listed' = Nowhere
         /\ ListsInOrder' /\ LastIsCurrent' /\ ListedIsCurrent'
<1>1. /\ lists' \in Seq(ListRecords) /\ Len(lists') = Len(lists) + 1 /\ lists' # <<>>
      /\ lists'[Len(lists')].key = key /\ lists'[Len(lists')].saw = changes'
      /\ lists'[Len(lists')].strayed = (key # place)
      /\ \A i \in 1..Len(lists) : lists'[i] = lists[i]
      /\ listState' = "loading" /\ listed' = Nowhere
  BY SendIs DEF PanelInv, PanelShape
<1>2. /\ DOMAIN lists = 1..Len(lists) /\ DOMAIN lists' = 1..(Len(lists) + 1) /\ Len(lists) \in Nat
      /\ \A i \in 1..Len(lists) : lists[i].saw \in Nat
  <2>1. lists \in Seq(ListRecords) /\ \A r \in ListRecords : r.saw \in Nat
    BY DEF PanelInv, PanelShape, ListRecords
  <2> QED
    BY <1>1, <2>1
<1>3. \A i \in 1..Len(lists) : lists[i].saw <= changes
  BY <1>2 DEF PanelInv, ListsInOrder
<1>4. \A i \in DOMAIN lists' : lists'[i].saw <= changes'
  <2> SUFFICES ASSUME NEW i \in 1..(Len(lists) + 1)
               PROVE  lists'[i].saw <= changes'
    BY <1>2
  <2>1. CASE i = Len(lists) + 1
    BY <1>1, <2>1
  <2>2. CASE i \in 1..Len(lists)
    BY <1>1, <1>2, <1>3, <2>2 DEF PanelInv, PanelShape
  <2> QED
    BY <1>2, <2>1, <2>2
<1>5. \A i, j \in DOMAIN lists' : i <= j => lists'[i].saw <= lists'[j].saw
  <2> SUFFICES ASSUME NEW i \in 1..(Len(lists) + 1), NEW j \in 1..(Len(lists) + 1), i <= j
               PROVE  lists'[i].saw <= lists'[j].saw
    BY <1>2
  <2>1. CASE j = Len(lists) + 1
    BY <1>1, <1>2, <1>4, <2>1
  <2>2. CASE j \in 1..Len(lists)
    <3>1. i \in 1..Len(lists)
      BY <1>2, <2>2
    <3>2. lists[i].saw <= lists[j].saw
      BY <1>2, <2>2, <3>1 DEF PanelInv, ListsInOrder
    <3> QED
      BY <1>1, <2>2, <3>1, <3>2
  <2> QED
    BY <1>2, <2>1, <2>2
<1>6. ListsInOrder'
  BY <1>4, <1>5 DEF ListsInOrder
<1>7. LastIsCurrent' /\ ListedIsCurrent'
  BY <1>1 DEF LastIsCurrent, ListedIsCurrent
<1> QED
  BY <1>1, <1>6, <1>7

(* Of the others those that were sent before stay, marked, and those sent   *)
(* after it stay as they are.                                               *)
LEMMA LandIs ==
  ASSUME lists \in Seq(ListRecords), NEW i \in DOMAIN lists,
         lists' = [j \in 1..(Len(lists) - 1) |->
                     IF j < i THEN [lists[j] EXCEPT !.behind = TRUE] ELSE lists[j + 1]]
  PROVE  /\ lists' \in Seq(ListRecords) /\ Len(lists') = Len(lists) - 1
         /\ \A j \in 1..(Len(lists) - 1) :
              /\ j < i => lists'[j].behind = TRUE /\ lists'[j].saw = lists[j].saw
              /\ ~(j < i) => lists'[j] = lists[j + 1]
<1> DEFINE n == Len(lists) - 1
<1>1. n \in Nat /\ i \in 1..(n + 1) /\ Len(lists) = n + 1
  BY DEF ListRecords
<1>2. \A j \in 1..n : j \in 1..(n + 1) /\ j + 1 \in 1..(n + 1)
  BY <1>1
<1>3. \A k \in 1..(n + 1) : lists[k] \in ListRecords
  BY <1>1
<1>4. ASSUME NEW r \in ListRecords
      PROVE  LET b == [r EXCEPT !.behind = TRUE]
             IN b \in ListRecords /\ b.behind = TRUE /\ b.saw = r.saw
  BY DEF ListRecords
<1>5. \A j \in 1..n : lists'[j] = IF j < i THEN [lists[j] EXCEPT !.behind = TRUE] ELSE lists[j + 1]
  OBVIOUS
<1>6. DOMAIN lists' = 1..n
  OBVIOUS
<1> HIDE DEF n
<1>7. \A j \in 1..n : lists'[j] \in ListRecords
  BY <1>2, <1>3, <1>4, <1>5, SMTT(30)
<1>8. lists' = [j \in 1..n |-> lists'[j]]
  BY <1>6 DEF n
<1>9. lists' \in [1..n -> ListRecords]
  BY <1>7, <1>8
<1>10. lists' \in Seq(ListRecords) /\ Len(lists') = n
  BY <1>1, <1>6, <1>9, SeqDef, LenProperties, SMTT(30)
<1> QED
  BY <1>1, <1>2, <1>3, <1>4, <1>5, <1>10 DEF n

-----------------------------------------------------------------------------
(* One lemma for each action, or for what several have in common.           *)

LEMMA PanelInitEstablishes ==
  ASSUME DocumentsInit
  PROVE  PanelInv
<1>1. lists = <<>> /\ <<>> \in Seq(ListRecords)
  BY DEF DocumentsInit
<1>2. PanelShape
  BY <1>1, PlacesAssumption DEF DocumentsInit, PanelShape
<1>3. ListsInOrder /\ LastIsCurrent /\ ListedIsCurrent
  BY DEF DocumentsInit, ListsInOrder, LastIsCurrent, ListedIsCurrent
<1>4. NamesAgree
  BY DEF DocumentsInit, NamesAgree, FirstPlace
<1>5. ScreenAgrees
  BY DEF DocumentsInit, ScreenAgrees
<1> QED
  BY <1>2, <1>3, <1>4, <1>5 DEF PanelInv

(* What an action that leaves the lists alone keeps of them.                *)
LEMMA ListsStay ==
  ASSUME PanelInv, UNCHANGED <<lists, listed, listState, changes>>,
         amiss \cap {"list", "lost"} \subseteq amiss',
         Browsing' => Browsing /\ place' = place
  PROVE  ListsInOrder' /\ LastIsCurrent' /\ ListedIsCurrent'
<1>1. ListsInOrder'
  BY DEF PanelInv, ListsInOrder
<1>2. LastIsCurrent'
  BY DEF PanelInv, LastIsCurrent
<1>3. ListedIsCurrent'
  BY DEF PanelInv, ListedIsCurrent
<1> QED
  BY <1>1, <1>2, <1>3

(* The place of the screen and how it is searched change.                   *)
LEMMA MoveKeeps ==
  ASSUME PanelInv, mounted, NEW p, NEW m, GoTo(p, m),
         UNCHANGED <<mounted, lists, listed, listState, drawerVars, findVars, work, left, changes>>,
         \/ selection' = {} /\ amiss' = amiss \ {"selection"}
         \/ selection' = selection /\ amiss' = amiss /\ p.view = place.view
         \/ /\ selection' = selection
            /\ amiss' = IF p.view = place.view \/ selection = {} THEN amiss
                        ELSE amiss \cup {"selection"}
  PROVE  PanelInv'
<1>1. /\ place' = p /\ p \in Places /\ selection' \subseteq selection
      /\ amiss \cap {"list", "lost", "drawer"} \subseteq amiss'
      /\ amiss' \subseteq {"list", "lost", "selection", "drawer"}
  BY DEF GoTo, PanelInv, PanelShape
<1>2. PanelShape'
  BY <1>1 DEF PanelInv, PanelShape, drawerVars, findVars
<1>3. Browsing' => Browsing /\ place' = place
  BY DEF Browsing, GoTo, TimerFor
<1>4. ListsInOrder' /\ LastIsCurrent' /\ ListedIsCurrent'
  BY <1>1, <1>3, ListsStay
<1>5. NamesAgree'
  BY DEF PanelInv, NamesAgree, GoTo
<1>6. ScreenAgrees'
  <2>1. selection' \subseteq {place'.view} \/ "selection" \in amiss'
    BY <1>1 DEF PanelInv, ScreenAgrees
  <2>2. (detail' = want' /\ text' \in {NoDoc, want'}) \/ "drawer" \in amiss'
    BY <1>1 DEF PanelInv, ScreenAgrees, drawerVars
  <2> QED
    BY <2>1, <2>2 DEF ScreenAgrees
<1> QED
  BY <1>2, <1>4, <1>5, <1>6 DEF PanelInv

LEMMA MovesKeep ==
  ASSUME PanelInv,
         \/ \E v \in Views : SelectView(v)
         \/ OpenFolder
         \/ \E f \in {NoDoc, Folder} : GoToFolder(f)
         \/ \E n \in {p.page : p \in Places} : TurnPage(n)
         \/ \E f \in {p.filter : p \in Places} : Type(f)
         \/ \E m \in {"normal", "ai"} : ChangeSearchMode(m)
         \/ \E p \in Places : GoBack(p)
  PROVE  PanelInv'
<1>1. place \in [view : Views, folder : {NoDoc, Folder}, page : Nat, filter : STRING]
  BY PlacesAssumption DEF PanelInv, PanelShape
<1>2. ASSUME NEW v \in Views, SelectView(v)
      PROVE  PanelInv'
  BY <1>2, MoveKeeps DEF SelectView, Uncovered
<1>3. CASE OpenFolder
  BY <1>3, MoveKeeps DEF OpenFolder, Rows, Uncovered
<1>4. ASSUME NEW f \in {NoDoc, Folder}, GoToFolder(f)
      PROVE  PanelInv'
  <2>1. [place EXCEPT !.folder = f, !.page = 1].view = place.view
    BY <1>1
  <2> QED
    BY <1>4, <2>1, MoveKeeps DEF GoToFolder, Uncovered
<1>5. ASSUME NEW n, TurnPage(n)
      PROVE  PanelInv'
  <2>1. [place EXCEPT !.page = n].view = place.view
    BY <1>1
  <2> QED
    BY <1>5, <2>1, MoveKeeps DEF TurnPage, Uncovered
<1>6. ASSUME NEW f, Type(f)
      PROVE  PanelInv'
  <2>1. [place EXCEPT !.filter = f, !.page = 1].view = place.view
    BY <1>1
  <2> QED
    BY <1>6, <2>1, MoveKeeps DEF Type, Uncovered
<1>7. ASSUME NEW m, ChangeSearchMode(m)
      PROVE  PanelInv'
  BY <1>7, MoveKeeps DEF ChangeSearchMode, Uncovered
<1>8. ASSUME NEW p, GoBack(p)
      PROVE  PanelInv'
  BY <1>8, MoveKeeps DEF GoBack
<1> QED
  BY <1>2, <1>3, <1>4, <1>5, <1>6, <1>7, <1>8

LEMMA ToggleKeeps ==
  ASSUME PanelInv, ToggleSelected
  PROVE  PanelInv'
<1>1. PICK from : /\ from = IF searchMode = "ai" THEN "files" ELSE listed.key.view
                  /\ \/ /\ selection' = selection \cup {from}
                        /\ amiss' = IF from = place.view THEN amiss ELSE amiss \cup {"selection"}
                     \/ selection' = selection \ {from} /\ UNCHANGED amiss
                     \/ selection' = {} /\ amiss' = amiss \ {"selection"}
  BY DEF ToggleSelected
<1>2. from \in Views
  <2>1. searchMode # "ai" => listed \in [key : Places, saw : Nat]
    BY DEF ToggleSelected, Rows, PanelInv, PanelShape
  <2>2. \A p \in Places : p.view \in Views
    BY PlacesAssumption
  <2> QED
    BY <1>1, <2>1, <2>2 DEF Views
<1>3. /\ UNCHANGED <<mounted, place, searchMode, listVars, folderName, naming, drawerVars, findVars,
                     work, left, changes>>
      /\ mounted
  BY DEF ToggleSelected, Rows, Uncovered
<1>4. PanelShape'
  BY <1>1, <1>2, <1>3 DEF PanelInv, PanelShape, listVars, drawerVars, findVars
<1>5. ListsInOrder' /\ LastIsCurrent' /\ ListedIsCurrent'
  BY <1>1, <1>3, ListsStay DEF listVars, Browsing
<1>6. NamesAgree'
  BY <1>3 DEF PanelInv, NamesAgree
<1>7. ScreenAgrees'
  BY <1>1, <1>3 DEF PanelInv, ScreenAgrees, drawerVars
<1> QED
  BY <1>4, <1>5, <1>6, <1>7 DEF PanelInv

LEMMA ListSentKeeps ==
  ASSUME PanelInv, TimerFires \/ RetryList
  PROVE  PanelInv'
<1>1. /\ Send(place, "timer") /\ mounted /\ changes' = changes
      /\ UNCHANGED <<mounted, place, searchMode, folderName, naming, selection, drawerVars,
                     findVars, work, left, amiss>>
  BY DEF TimerFires, RetryList, Uncovered
<1>2. place \in Places /\ changes \in Nat
  BY DEF PanelInv, PanelShape
<1>3. /\ lists' \in Seq(ListRecords) /\ listState' = "loading" /\ listed' = Nowhere
      /\ ListsInOrder' /\ LastIsCurrent' /\ ListedIsCurrent'
  BY <1>1, <1>2, SendKeeps
<1>4. PanelShape'
  BY <1>1, <1>3 DEF PanelInv, PanelShape, drawerVars, findVars
<1>5. NamesAgree' /\ ScreenAgrees'
  BY <1>1 DEF PanelInv, NamesAgree, ScreenAgrees, drawerVars
<1> QED
  BY <1>3, <1>4, <1>5 DEF PanelInv

(* A list that comes late finds those sent before it marked, and the one    *)
(* that was sent last keeps its say while it is on its way.                 *)
LEMMA ListLandsKeeps ==
  ASSUME PanelInv, NEW i \in DOMAIN lists, ListLands(i)
  PROVE  PanelInv'
<1> DEFINE l == lists[i]
           n == Len(lists)
<1>1. /\ lists' = [j \in 1..(n - 1) |->
                     IF j < i THEN [lists[j] EXCEPT !.behind = TRUE] ELSE lists[j + 1]]
      /\ \/ /\ listed' = [key |-> l.key, saw |-> l.saw] /\ listState' = "ready"
            /\ amiss' = (amiss \ ({"list"} \cup (IF l.saw = changes THEN {"lost"} ELSE {})))
                          \cup (IF l.behind \/ l.strayed THEN {"list"} ELSE {})
         \/ listState' = "error" /\ listed' = Nowhere /\ amiss' = amiss \ {"list"}
      /\ work' \subseteq work
      /\ UNCHANGED <<mounted, place, searchMode, timer, folderName, naming, selection, drawerVars,
                     findVars, left, changes>>
  BY DEF ListLands
<1>2. lists \in Seq(ListRecords) /\ n \in Nat /\ i \in 1..n /\ DOMAIN lists = 1..n
  BY DEF PanelInv, PanelShape
<1>3. /\ lists' \in Seq(ListRecords) /\ Len(lists') = n - 1 /\ DOMAIN lists' = 1..(n - 1)
      /\ \A j \in 1..(n - 1) :
           /\ j < i => lists'[j].behind = TRUE /\ lists'[j].saw = lists[j].saw
           /\ ~(j < i) => lists'[j] = lists[j + 1]
  <2>1. /\ lists' \in Seq(ListRecords) /\ Len(lists') = n - 1
        /\ \A j \in 1..(n - 1) :
             /\ j < i => lists'[j].behind = TRUE /\ lists'[j].saw = lists[j].saw
             /\ ~(j < i) => lists'[j] = lists[j + 1]
    BY <1>1, <1>2, LandIs
  <2>2. DOMAIN lists' = 1..(n - 1)
    BY <1>1
  <2> QED
    BY <2>1, <2>2
<1>4. l \in ListRecords
  BY <1>2
<1>5. l.key \in Places /\ l.saw \in Nat /\ l.saw <= changes /\ \A j \in 1..n : lists[j].saw \in Nat
  <2>1. \A r \in ListRecords : r.key \in Places /\ r.saw \in Nat
    BY DEF ListRecords
  <2>2. \A j \in 1..n : lists[j] \in ListRecords
    BY <1>2
  <2> QED
    BY <1>2, <1>4, <2>1, <2>2 DEF PanelInv, ListsInOrder
<1>6. PanelShape'
  <2>1. listed' = Nowhere \/ listed' \in [key : Places, saw : Nat]
    BY <1>1, <1>5
  <2>2. /\ listState' \in {"loading", "ready", "error"}
        /\ listState' = "ready" => listed' \in [key : Places, saw : Nat]
        /\ amiss' \subseteq {"list", "lost", "selection", "drawer"}
    BY <1>1, <1>5 DEF PanelInv, PanelShape
  <2> QED
    BY <1>1, <1>3, <2>1, <2>2 DEF PanelInv, PanelShape, drawerVars, findVars
<1>7. ListsInOrder'
  <2> DEFINE was(j) == IF j < i THEN j ELSE j + 1
  <2>1. \A j \in 1..(n - 1) : was(j) \in 1..n /\ lists'[j].saw = lists[was(j)].saw
    BY <1>2, <1>3
  <2>2. \A j, k \in 1..(n - 1) : j <= k => was(j) <= was(k)
    BY <1>2
  <2> HIDE DEF was
  <2> QED
    BY <1>1, <1>2, <1>3, <2>1, <2>2 DEF PanelInv, ListsInOrder
<1>8. LastIsCurrent'
  <2> SUFFICES ASSUME lists' # <<>>
               PROVE  LET r == lists'[n - 1]
                      IN /\ Browsing => r.key = place \/ r.strayed \/ r.behind
                         /\ r.saw = changes \/ "lost" \in amiss' \/ r.behind
    BY <1>1, <1>3 DEF LastIsCurrent, Browsing
  <2>1. n - 1 \in 1..(n - 1)
    <3>1. Len(lists') # 0
      BY <1>3, EmptySeq
    <3> QED
      BY <1>2, <1>3, <3>1
  <2>2. CASE i = n
    BY <1>2, <1>3, <2>1, <2>2
  <2>3. CASE i # n
    <3>1. lists'[n - 1] = lists[n] /\ n \in DOMAIN lists /\ i <= n
      BY <1>2, <1>3, <2>1, <2>3
    <3>2. lists # <<>>
      BY <3>1
    <3>3. /\ Browsing => lists[n].key = place \/ lists[n].strayed \/ lists[n].behind
          /\ lists[n].saw = changes \/ "lost" \in amiss \/ lists[n].behind
      BY <3>2 DEF PanelInv, LastIsCurrent
    <3>4. l.saw <= lists[n].saw /\ lists[n].saw <= changes /\ lists[n].saw \in Nat
      BY <1>2, <1>5, <3>1 DEF PanelInv, ListsInOrder
    <3>5. l.saw = changes => lists[n].saw = changes
      BY <1>5, <3>4 DEF PanelInv, PanelShape
    <3>6. "lost" \in amiss => "lost" \in amiss' \/ l.saw = changes
      BY <1>1
    <3> QED
      BY <3>1, <3>3, <3>5, <3>6
  <2> QED
    BY <2>2, <2>3
<1>9. ListedIsCurrent'
  <2> SUFFICES ASSUME lists' = <<>>, listState' = "ready"
               PROVE  /\ Browsing => listed'.key = place \/ "list" \in amiss'
                      /\ listed'.saw = changes \/ amiss' \cap {"list", "lost"} # {}
    BY <1>1 DEF ListedIsCurrent, Browsing
  <2>1. n = 1 /\ i = n /\ lists # <<>>
    <3>1. Len(lists') = 0
      OBVIOUS
    <3>2. n - 1 = 0
      BY <1>3, <3>1
    <3> HIDE DEF n
    <3>3. n = 1 /\ i = 1
      BY <1>2, <3>2
    <3>4. lists # <<>>
      BY <3>3 DEF n
    <3> QED
      BY <3>3, <3>4
  <2>2. /\ Browsing => l.key = place \/ l.strayed \/ l.behind
        /\ l.saw = changes \/ "lost" \in amiss \/ l.behind
    BY <2>1 DEF PanelInv, LastIsCurrent
  <2>3. /\ listed'.key = l.key /\ listed'.saw = l.saw
        /\ amiss' = (amiss \ ({"list"} \cup (IF l.saw = changes THEN {"lost"} ELSE {})))
                      \cup (IF l.behind \/ l.strayed THEN {"list"} ELSE {})
    BY <1>1
  <2>4. l.behind \/ l.strayed => "list" \in amiss'
    BY <2>3
  <2>5. "lost" \in amiss /\ l.saw # changes => "lost" \in amiss'
    BY <2>3
  <2> QED
    BY <2>2, <2>3, <2>4, <2>5
<1>10. NamesAgree' /\ ScreenAgrees'
  <2>1. "selection" \in amiss => "selection" \in amiss'
    BY <1>1
  <2>2. "drawer" \in amiss => "drawer" \in amiss'
    BY <1>1
  <2> QED
    BY <1>1, <2>1, <2>2 DEF PanelInv, NamesAgree, ScreenAgrees, drawerVars
<1> QED
  BY <1>6, <1>7, <1>8, <1>9, <1>10 DEF PanelInv

LEMMA NamesLandKeeps ==
  ASSUME PanelInv, NamesLand
  PROVE  PanelInv'
<1>1. /\ naming /\ naming' = FALSE /\ folderName' = place.folder
      /\ UNCHANGED <<mounted, place, searchMode, listVars, selection, drawerVars, findVars, work,
                     left, changes, amiss>>
  BY DEF NamesLand
<1>2. PanelShape'
  BY <1>1 DEF PanelInv, PanelShape, listVars, drawerVars, findVars
<1>3. ListsInOrder' /\ LastIsCurrent' /\ ListedIsCurrent'
  BY <1>1, ListsStay DEF listVars, Browsing
<1>4. NamesAgree' /\ ScreenAgrees'
  BY <1>1 DEF PanelInv, NamesAgree, ScreenAgrees, drawerVars
<1> QED
  BY <1>2, <1>3, <1>4 DEF PanelInv

(* The actions of the drawer and of the changes leave the place alone.      *)
LEMMA DrawerKeeps ==
  ASSUME PanelInv,
         UNCHANGED <<mounted, place, searchMode, listVars, folderName, naming, changes>>,
         work' \subseteq ChangeRecords, left' \in Nat,
         detail' \in Docs \cup {NoDoc}, text' \in Docs \cup {NoDoc}, opens' \subseteq Docs,
         pendingOpen' \in Docs \cup {NoDoc},
         finding' \subseteq {"live", "stale"}, "live" \in finding' => pendingOpen' \in Docs,
         selection' = selection,
         amiss' \subseteq {"list", "lost", "selection", "drawer"},
         amiss \cap {"list", "lost", "selection"} \subseteq amiss',
         (detail' = want' /\ text' \in {NoDoc, want'}) \/ "drawer" \in amiss'
  PROVE  PanelInv'
<1>1. PanelShape'
  BY DEF PanelInv, PanelShape, listVars
<1>2. ListsInOrder' /\ LastIsCurrent' /\ ListedIsCurrent'
  BY ListsStay DEF listVars, Browsing
<1>3. NamesAgree' /\ ScreenAgrees'
  BY DEF PanelInv, NamesAgree, ScreenAgrees
<1> QED
  BY <1>1, <1>2, <1>3 DEF PanelInv

LEMMA OpenKeeps ==
  ASSUME PanelInv, NEW d \in Docs, OpenDocument(d)
  PROVE  PanelInv'
<1>1. /\ detail' = d /\ text' = NoDoc /\ want' = d /\ opens' = opens \cup {d}
      /\ amiss' = amiss \ {"drawer"}
      /\ UNCHANGED <<mounted, place, searchMode, listVars, folderName, naming, selection, findVars,
                     work, left, changes>>
  BY DEF OpenDocument, Show
<1>2. /\ opens \subseteq Docs /\ work \subseteq ChangeRecords /\ left \in Nat
      /\ pendingOpen \in Docs \cup {NoDoc} /\ finding \subseteq {"live", "stale"}
      /\ ("live" \in finding => pendingOpen \in Docs)
      /\ amiss \subseteq {"list", "lost", "selection", "drawer"}
  BY DEF PanelInv, PanelShape
<1> QED
  BY <1>1, <1>2, DrawerKeeps DEF findVars

LEMMA CloseKeeps ==
  ASSUME PanelInv, CloseDocument
  PROVE  PanelInv'
<1>1. /\ detail' = NoDoc /\ text' = NoDoc /\ want' = NoDoc /\ opens' = opens
      /\ amiss' = amiss \ {"drawer"}
      /\ UNCHANGED <<mounted, place, searchMode, listVars, folderName, naming, selection, findVars,
                     work, left, changes>>
  BY DEF CloseDocument
<1>2. /\ opens \subseteq Docs /\ work \subseteq ChangeRecords /\ left \in Nat
      /\ pendingOpen \in Docs \cup {NoDoc} /\ finding \subseteq {"live", "stale"}
      /\ ("live" \in finding => pendingOpen \in Docs)
      /\ amiss \subseteq {"list", "lost", "selection", "drawer"}
  BY DEF PanelInv, PanelShape
<1> QED
  BY <1>1, <1>2, DrawerKeeps DEF findVars

(* What comes for the document that was asked for last may be shown; what   *)
(* comes for another is noted.                                              *)
LEMMA DocumentLandsKeeps ==
  ASSUME PanelInv, NEW d \in opens, DocumentLands(d)
  PROVE  PanelInv'
<1>1. /\ detail' \in {d, detail} /\ text' \in {d, NoDoc} /\ want' = want
      /\ opens' = opens \ {d} /\ amiss' = amiss \cup Late(d)
      /\ UNCHANGED <<mounted, place, searchMode, listVars, folderName, naming, selection, findVars,
                     work, left, changes>>
  BY DEF DocumentLands
<1>2. /\ opens \subseteq Docs /\ work \subseteq ChangeRecords /\ left \in Nat
      /\ pendingOpen \in Docs \cup {NoDoc} /\ finding \subseteq {"live", "stale"}
      /\ ("live" \in finding => pendingOpen \in Docs)
      /\ amiss \subseteq {"list", "lost", "selection", "drawer"}
      /\ detail \in Docs \cup {NoDoc}
  BY DEF PanelInv, PanelShape
<1>3. (detail' = want' /\ text' \in {NoDoc, want'}) \/ "drawer" \in amiss'
  BY <1>1 DEF PanelInv, ScreenAgrees, Late
<1>4. /\ amiss' \subseteq {"list", "lost", "selection", "drawer"}
      /\ amiss \cap {"list", "lost", "selection"} \subseteq amiss'
  BY <1>1, <1>2 DEF Late
<1> QED
  BY <1>1, <1>2, <1>3, <1>4, DrawerKeeps DEF findVars

LEMMA FoundKeeps ==
  ASSUME PanelInv, NEW f \in {"live", "stale"}, Found(f)
  PROVE  PanelInv'
<1>1. /\ \/ f = "live" /\ Show(pendingOpen)
         \/ UNCHANGED <<drawerVars, amiss>>
      /\ f \in finding /\ pendingOpen' = NoDoc /\ finding' \subseteq {"stale"}
      /\ UNCHANGED <<mounted, place, searchMode, listVars, folderName, naming, selection, work,
                     left, changes>>
  BY DEF Found
<1>2. /\ opens \subseteq Docs /\ work \subseteq ChangeRecords /\ left \in Nat
      /\ detail \in Docs \cup {NoDoc} /\ text \in Docs \cup {NoDoc}
      /\ ("live" \in finding => pendingOpen \in Docs)
      /\ amiss \subseteq {"list", "lost", "selection", "drawer"}
  BY DEF PanelInv, PanelShape
<1>3. CASE f = "live" /\ Show(pendingOpen)
  <2>1. /\ detail' = pendingOpen /\ text' = NoDoc /\ want' = pendingOpen
        /\ opens' = opens \cup {pendingOpen} /\ amiss' = amiss \ {"drawer"}
    BY <1>3 DEF Show
  <2>2. pendingOpen \in Docs
    BY <1>1, <1>2, <1>3
  <2> QED
    BY <1>1, <1>2, <2>1, <2>2, DrawerKeeps
<1>4. CASE UNCHANGED <<drawerVars, amiss>>
  <2>1. /\ UNCHANGED <<detail, text, opens, want, amiss>>
        /\ (detail = want /\ text \in {NoDoc, want}) \/ "drawer" \in amiss
    BY <1>4 DEF drawerVars, PanelInv, ScreenAgrees
  <2> QED
    BY <1>1, <1>2, <2>1, DrawerKeeps
<1> QED
  BY <1>1, <1>3, <1>4

LEMMA StartChangeKeeps ==
  ASSUME PanelInv, NEW k \in ChangeKinds, NEW d \in Docs \cup {NoDoc}, StartChange(k, d)
  PROVE  PanelInv'
<1>1. /\ work' = work \cup {[kind |-> k, doc |-> d, key |-> place, step |-> "sent"]}
      /\ UNCHANGED <<mounted, place, searchMode, listVars, folderName, naming, selection,
                     drawerVars, findVars, left, changes, amiss>>
  BY DEF StartChange
<1>2. [kind |-> k, doc |-> d, key |-> place, step |-> "sent"] \in ChangeRecords
  BY DEF PanelInv, PanelShape, ChangeRecords
<1>3. /\ opens \subseteq Docs /\ work \subseteq ChangeRecords /\ left \in Nat
      /\ detail \in Docs \cup {NoDoc} /\ text \in Docs \cup {NoDoc}
      /\ pendingOpen \in Docs \cup {NoDoc} /\ finding \subseteq {"live", "stale"}
      /\ ("live" \in finding => pendingOpen \in Docs)
      /\ amiss \subseteq {"list", "lost", "selection", "drawer"}
      /\ (detail = want /\ text \in {NoDoc, want}) \/ "drawer" \in amiss
  BY DEF PanelInv, PanelShape, ScreenAgrees
<1>4. work' \subseteq ChangeRecords
  BY <1>1, <1>2, <1>3
<1> QED
  BY <1>1, <1>3, <1>4, DrawerKeeps DEF findVars, drawerVars

(* The list a change asks for shows that change.                            *)
LEMMA ChangeDoneKeeps ==
  ASSUME PanelInv, NEW w \in work, ChangeDone(w)
  PROVE  PanelInv'
<1>1. /\ changes' = changes + 1 /\ Send(w.key, w.kind)
      /\ work' = (work \ {w}) \cup {[w EXCEPT !.step = "listing"]}
      /\ UNCHANGED <<mounted, place, searchMode, timer, folderName, naming, opens, findVars, left>>
  BY DEF ChangeDone
<1>2. /\ w \in ChangeRecords /\ changes \in Nat
  BY DEF PanelInv, PanelShape
<1>3. /\ w.kind \in ChangeKinds /\ w.doc \in Docs \cup {NoDoc} /\ w.key \in Places
      /\ [w EXCEPT !.step = "listing"] \in ChangeRecords
  BY <1>2 DEF ChangeRecords
<1>4. /\ lists' \in Seq(ListRecords) /\ listState' = "loading" /\ listed' = Nowhere
      /\ ListsInOrder' /\ LastIsCurrent' /\ ListedIsCurrent'
  BY <1>1, <1>2, <1>3, SendKeeps
<1>5. \/ /\ selection' = {} /\ detail' = NoDoc /\ text' = NoDoc /\ want' = NoDoc
         /\ amiss' = amiss \ {"selection", "drawer"}
      \/ /\ detail' = w.doc /\ amiss' = amiss \cup Late(w.doc)
         /\ UNCHANGED <<selection, text, want>>
      \/ UNCHANGED <<selection, detail, text, want, amiss>>
  BY DEF ChangeDone
<1>6. /\ selection' \subseteq selection /\ detail' \in Docs \cup {NoDoc}
      /\ text' \in Docs \cup {NoDoc} /\ amiss' \subseteq {"list", "lost", "selection", "drawer"}
  BY <1>3, <1>5 DEF PanelInv, PanelShape, Late
<1>7. PanelShape'
  <2>1. work' \subseteq ChangeRecords /\ changes' \in Nat
    BY <1>1, <1>2, <1>3 DEF PanelInv, PanelShape
  <2> QED
    BY <1>1, <1>4, <1>6, <2>1 DEF PanelInv, PanelShape, findVars
<1>8. NamesAgree'
  BY <1>1, <1>6 DEF PanelInv, NamesAgree
<1>9. ScreenAgrees'
  BY <1>1, <1>5 DEF PanelInv, ScreenAgrees, Late
<1> QED
  BY <1>4, <1>7, <1>8, <1>9 DEF PanelInv

(* A change whose answer is lost is noted.                                  *)
LEMMA LostKeeps ==
  ASSUME PanelInv,
         \/ UNCHANGED <<changes, amiss>>
         \/ changes' = changes + 1 /\ amiss' = amiss \cup {"lost"},
         UNCHANGED <<mounted, place, searchMode, listVars, folderName, naming, selection,
                     drawerVars, findVars>>,
         work' \subseteq work, left' \in Nat
  PROVE  PanelInv'
<1>1. UNCHANGED <<timer, lists, listed, listState, detail, text, opens, want, pendingOpen, finding>>
  BY DEF listVars, drawerVars, findVars
<1>2. /\ changes' \in Nat /\ changes <= changes'
      /\ amiss' \subseteq {"list", "lost", "selection", "drawer"} /\ amiss \subseteq amiss'
      /\ changes' = changes \/ "lost" \in amiss'
  <2>1. changes \in Nat /\ amiss \subseteq {"list", "lost", "selection", "drawer"}
    BY DEF PanelInv, PanelShape
  <2>2. CASE UNCHANGED <<changes, amiss>>
    BY <2>1, <2>2
  <2>3. CASE changes' = changes + 1 /\ amiss' = amiss \cup {"lost"}
    BY <2>1, <2>3
  <2> QED
    BY <2>2, <2>3
<1>3. PanelShape'
  BY <1>1, <1>2 DEF PanelInv, PanelShape
<1>4. ListsInOrder'
  <2>1. \A i \in DOMAIN lists : lists[i].saw \in Nat /\ lists[i].saw <= changes
    <3>1. lists \in Seq(ListRecords) /\ \A r \in ListRecords : r.saw \in Nat
      BY DEF PanelInv, PanelShape, ListRecords
    <3> QED
      BY <3>1 DEF PanelInv, ListsInOrder
  <2>2. \A i \in DOMAIN lists : lists[i].saw <= changes'
    BY <1>2, <2>1 DEF PanelInv, PanelShape
  <2> QED
    BY <1>1, <2>2 DEF PanelInv, ListsInOrder
<1>5. LastIsCurrent' /\ ListedIsCurrent'
  BY <1>1, <1>2 DEF PanelInv, LastIsCurrent, ListedIsCurrent, Browsing
<1>6. NamesAgree' /\ ScreenAgrees'
  BY <1>1, <1>2 DEF PanelInv, NamesAgree, ScreenAgrees
<1> QED
  BY <1>3, <1>4, <1>5, <1>6 DEF PanelInv

LEMMA ChangeEndsKeeps ==
  ASSUME PanelInv, (\E w \in work : ChangeFails(w)) \/ LeftDone
  PROVE  PanelInv'
<1>1. left \in Nat
  BY DEF PanelInv, PanelShape
<1>2. ASSUME NEW w \in work, ChangeFails(w)
      PROVE  PanelInv'
  BY <1>1, <1>2, LostKeeps DEF ChangeFails
<1>3. CASE LeftDone
  <2>1. left' \in Nat
    BY <1>1, <1>3 DEF LeftDone
  <2> QED
    BY <1>3, <2>1, LostKeeps DEF LeftDone
<1> QED
  BY <1>2, <1>3

LEMMA LeaveDocumentsKeeps ==
  ASSUME PanelInv, LeaveDocuments
  PROVE  PanelInv'
<1>1. /\ mounted' = FALSE /\ timer' = FALSE /\ lists' = <<>> /\ listed' = Nowhere
      /\ listState' = "loading" /\ folderName' = NoDoc /\ naming' = FALSE /\ selection' = {}
      /\ detail' = NoDoc /\ text' = NoDoc /\ opens' = {} /\ want' = NoDoc
      /\ finding' \subseteq {"stale"}
      /\ left' = left + (IF \E w \in work : w.step = "sent" THEN 1 ELSE 0)
      /\ work' = {} /\ amiss' = {} /\ UNCHANGED <<place, pendingOpen, changes>>
  BY DEF LeaveDocuments
<1>2. <<>> \in Seq(ListRecords) /\ left' \in Nat
  BY <1>1 DEF PanelInv, PanelShape
<1>3. PanelShape'
  BY <1>1, <1>2 DEF PanelInv, PanelShape
<1>4. ListsInOrder' /\ LastIsCurrent' /\ ListedIsCurrent'
  BY <1>1 DEF ListsInOrder, LastIsCurrent, ListedIsCurrent
<1>5. NamesAgree' /\ ScreenAgrees'
  BY <1>1 DEF NamesAgree, ScreenAgrees
<1> QED
  BY <1>3, <1>4, <1>5 DEF PanelInv

LEMMA MountDocumentsKeeps ==
  ASSUME PanelInv, NEW p \in Places, NEW d \in Docs \cup {NoDoc}, MountDocuments(p, d)
  PROVE  PanelInv'
<1>1. /\ ~mounted /\ mounted' = TRUE /\ place' = p /\ timer' = TRUE
      /\ naming' = (p.folder # NoDoc)
      /\ pendingOpen' = IF d = NoDoc THEN pendingOpen ELSE d
      /\ finding' = finding \cup (IF pendingOpen' = NoDoc THEN {} ELSE {"live"})
      /\ UNCHANGED <<searchMode, lists, listed, listState, folderName, selection, drawerVars, work,
                     left, changes, amiss>>
  BY DEF MountDocuments
<1>2. /\ pendingOpen' \in Docs \cup {NoDoc} /\ finding' \subseteq {"live", "stale"}
      /\ "live" \in finding' => pendingOpen' \in Docs
  <2>1. /\ pendingOpen \in Docs \cup {NoDoc} /\ finding \subseteq {"live", "stale"}
        /\ "live" \in finding => pendingOpen \in Docs
    BY DEF PanelInv, PanelShape
  <2>2. CASE d = NoDoc
    BY <1>1, <2>1, <2>2
  <2>3. CASE d \in Docs
    BY <1>1, <2>1, <2>3, PlacesAssumption
  <2> QED
    BY <2>2, <2>3
<1>3. PanelShape'
  BY <1>1, <1>2 DEF PanelInv, PanelShape, drawerVars
<1>4. ListsInOrder' /\ LastIsCurrent' /\ ListedIsCurrent'
  BY <1>1, ListsStay DEF Browsing
<1>5. NamesAgree' /\ ScreenAgrees'
  BY <1>1 DEF PanelInv, NamesAgree, ScreenAgrees, drawerVars
<1> QED
  BY <1>3, <1>4, <1>5 DEF PanelInv

LEMMA PanelStutterKeeps ==
  ASSUME PanelInv, UNCHANGED documentsVars
  PROVE  PanelInv'
<1>1. PanelShape' /\ NamesAgree' /\ ScreenAgrees'
  BY DEF documentsVars, listVars, drawerVars, findVars, PanelInv, PanelShape, NamesAgree,
     ScreenAgrees
<1>2. ListsInOrder' /\ LastIsCurrent' /\ ListedIsCurrent'
  BY ListsStay DEF documentsVars, listVars, Browsing
<1> QED
  BY <1>1, <1>2 DEF PanelInv

LEMMA PanelInvAlways == DocumentsSpec => []PanelInv
<1>1. DocumentsInit => PanelInv
  BY PanelInitEstablishes
<1>2. PanelInv /\ [DocumentsNext]_documentsVars => PanelInv'
  <2> SUFFICES ASSUME PanelInv, [DocumentsNext]_documentsVars
               PROVE  PanelInv'
    OBVIOUS
  <2>1. CASE \/ \E v \in Views : SelectView(v)
             \/ OpenFolder
             \/ \E f \in {NoDoc, Folder} : GoToFolder(f)
             \/ \E n \in {p.page : p \in Places} : TurnPage(n)
             \/ \E f \in {p.filter : p \in Places} : Type(f)
             \/ \E m \in {"normal", "ai"} : ChangeSearchMode(m)
             \/ \E p \in Places : GoBack(p)
    BY <2>1, MovesKeep
  <2>2. CASE ToggleSelected \/ TimerFires \/ RetryList \/ NamesLand
    BY <2>2, ToggleKeeps, ListSentKeeps, NamesLandKeeps
  <2>3. ASSUME NEW i \in DOMAIN lists, ListLands(i)
        PROVE  PanelInv'
    BY <2>3, ListLandsKeeps
  <2>4. ASSUME NEW d \in Docs, OpenDocument(d)
        PROVE  PanelInv'
    BY <2>4, OpenKeeps
  <2>5. ASSUME NEW d \in opens, DocumentLands(d)
        PROVE  PanelInv'
    BY <2>5, DocumentLandsKeeps
  <2>6. ASSUME NEW f \in {"live", "stale"}, Found(f)
        PROVE  PanelInv'
    BY <2>6, FoundKeeps
  <2>7. ASSUME NEW k \in ChangeKinds, NEW d \in Docs \cup {NoDoc}, StartChange(k, d)
        PROVE  PanelInv'
    BY <2>7, StartChangeKeeps
  <2>8. ASSUME NEW w \in work, ChangeDone(w) \/ ChangeFails(w)
        PROVE  PanelInv'
    BY <2>8, ChangeDoneKeeps, ChangeEndsKeeps
  <2>9. CASE CloseDocument \/ LeaveDocuments \/ LeftDone
    BY <2>9, CloseKeeps, LeaveDocumentsKeeps, ChangeEndsKeeps
  <2>10. ASSUME NEW p \in Places, NEW d \in Docs \cup {NoDoc}, MountDocuments(p, d)
         PROVE  PanelInv'
    BY <2>10, MountDocumentsKeeps
  <2>11. CASE UNCHANGED documentsVars
    BY <2>11, PanelStutterKeeps
  <2> QED
    BY <2>1, <2>2, <2>3, <2>4, <2>5, <2>6, <2>7, <2>8, <2>9, <2>10, <2>11 DEF DocumentsNext
<1> QED
  BY <1>1, <1>2, PTL DEF DocumentsSpec

(* The state of the document panel has its types.                           *)
THEOREM DocumentsPanelTypeCorrect == DocumentsSpec => []DocumentsTypeOK
<1>1. PanelInv => DocumentsTypeOK
  <2> SUFFICES ASSUME PanelInv
               PROVE  DocumentsTypeOK
    OBVIOUS
  <2>1. \A i \in DOMAIN lists : lists[i].key \in Places /\ lists[i].saw \in 0..changes
    <3>1. lists \in Seq(ListRecords) /\ \A r \in ListRecords : r.key \in Places /\ r.saw \in Nat
      BY DEF PanelInv, PanelShape, ListRecords
    <3>2. changes \in Nat /\ \A i \in DOMAIN lists : lists[i].saw <= changes
      BY DEF PanelInv, PanelShape, ListsInOrder
    <3> QED
      BY <3>1, <3>2
  <2> QED
    BY <2>1 DEF PanelInv, PanelShape, DocumentsTypeOK
<1> QED
  BY <1>1, PanelInvAlways, PTL

(* When nothing is on its way, the list is that of the place on the screen  *)
(* with every change, the names are those of its folder, the selection is   *)
(* of the view and the drawer shows the document asked for last, but for    *)
(* the reasons the model names: from PanelInv, whose substance is that the  *)
(* list that was sent last, whenever it comes, is the current one or is     *)
(* marked.                                                                  *)
THEOREM WhatIsListedIsCurrent == DocumentsSpec => []PanelAgrees
<1>1. PanelInv => PanelAgrees
  <2> SUFFICES ASSUME PanelInv
               PROVE  PanelAgrees
    OBVIOUS
  <2>1. ASSUME mounted, searchMode = "normal", ~timer, lists = <<>>, listState = "ready"
        PROVE  listed = [key |-> place, saw |-> changes] \/ amiss \cap {"list", "lost"} # {}
    <3>1. /\ listed.key = place \/ "list" \in amiss
          /\ listed.saw = changes \/ amiss \cap {"list", "lost"} # {}
      BY <2>1 DEF PanelInv, ListedIsCurrent, Browsing
    <3>2. listed \in [key : Places, saw : Nat]
      BY <2>1 DEF PanelInv, PanelShape
    <3>3. listed.key = place /\ listed.saw = changes => listed = [key |-> place, saw |-> changes]
      BY <3>2
    <3> QED
      BY <3>1, <3>3
  <2>2. ListSettles
    BY <2>1 DEF ListSettles, PanelInv, NamesAgree
  <2> QED
    BY <2>2 DEF PanelInv, PanelAgrees
<1> QED
  BY <1>1, PanelInvAlways, PTL


-----------------------------------------------------------------------------
(* The receipts, the panels and the accounts side by side.                  *)

(* Every behaviour of the four side by side is one of each: they share no   *)
(* state, so that whichever acts leaves the others as they are.             *)
THEOREM FamilyRunsParts == FamilySpec => Spec /\ ChatSpec /\ DocumentsSpec /\ AccessSpec
<1>1. FamilyInit => Init /\ ChatInit /\ DocumentsInit /\ AccessInit
  BY DEF FamilyInit
<1>2. [FamilyNext]_sideBySideVars =>
        [Next]_vars /\ [ChatNext]_chatVars /\ [DocumentsNext]_documentsVars /\ [AccessNext]_accessVars
  BY DEF FamilyNext, sideBySideVars
<1> QED
  BY <1>1, <1>2, PTL DEF FamilySpec, Spec, ChatSpec, DocumentsSpec, AccessSpec

(* Every variable of the receipts, the panels and the accounts keeps its    *)
(* type while they run side by side.                                        *)
THEOREM FamilyTypesCorrect == FamilySpec => []FamilyTypeOK
<1>1. TypeOK /\ ChatTypeOK /\ DocumentsTypeOK /\ AccessTypeOK => FamilyTypeOK
  BY DEF FamilyTypeOK
<1> QED
  BY <1>1, FamilyRunsParts, TypeCorrect, ChatTypeCorrect, DocumentsPanelTypeCorrect, AccessTypeCorrect, PTL

=============================================================================
