------------------------------- MODULE CliConfig -------------------------------
(***************************************************************************)
(* clients/dotori-cli: config.py and the commands of __main__.py that keep *)
(* its two files.  config.json holds the remotes, the accounts and which   *)
(* of them is active, credentials.json the tokens.  Every command reads    *)
(* both and writes one or both back, the configuration first, without a    *)
(* lock; a command may run beside another, and may be killed between its   *)
(* two writes.  Reading both files is one step, replacing one is another.  *)
(*                                                                         *)
(* A token is of one account of one server.  Servers answer or do not; a   *)
(* token taken from the environment, and what is printed, are left out.    *)
(***************************************************************************)
EXTENDS Naturals, Sequences, FiniteSets

CONSTANTS
  Remotes, Aliases,  \* names the user gives to servers and accounts
  DefaultRemote,     \* the name a migration gives to the active server
  Urls, Accounts,    \* addresses of servers, accounts of them
  Tokens, Issued,    \* Issued[t]: the [url, account] a token is of
  Clients,           \* processes
  Nobody,            \* no url, no account, no token
  MaxCliCommands,    \* bound: commands
  MaxCliKills        \* bound: commands killed

Unverified == "unverified"

ASSUME CliAssumption ==
  /\ DefaultRemote \in Remotes /\ Nobody \notin Urls \cup Accounts \cup Tokens
  /\ Nobody \notin [alias : Aliases, token : Tokens]
  /\ Unverified \notin Accounts \cup {Nobody}
  /\ Issued \in [Tokens -> [url : Urls, account : Accounts]]
  /\ {MaxCliCommands, MaxCliKills} \subseteq Nat

VARIABLES
  files,    \* [config, tokens, legacy]: the files of the directory
  client,   \* client[p]: the command p runs
  sent,     \* ghost: the tokens sent, and where to
  amiss,    \* ghost: what happened that the two files cannot show
  cliRuns   \* [commands, kills] so far

cliVars == <<files, client, sent, amiss, cliRuns>>

Credentials == {"default", "sync"}
Names == Remotes \X Aliases
Slots == Remotes \X Aliases \X Credentials
(* urls, ids and listed say which remotes, accounts and credentials exist. *)
EmptyConfig ==
  [version |-> 2, urls |-> [r \in Remotes |-> Nobody], ids |-> [n \in Names |-> Nobody],
   listed |-> {}, active |-> Nobody]
NoFile == [EmptyConfig EXCEPT !.version = 0]
EmptyTokens == [version |-> 2, of |-> [s \in Slots |-> Nobody]]

NoArguments == [remote |-> Nobody, alias |-> Nobody, slot |-> Nobody, url |-> Nobody,
                token |-> Nobody, skip |-> FALSE, reuse |-> FALSE]
Off == [todo |-> <<>>, with |-> NoArguments, config |-> NoFile, tokens |-> EmptyTokens,
        seen |-> [config |-> NoFile, tokens |-> EmptyTokens], identity |-> Nobody]

On(p, step) == client[p].todo # <<>> /\ Head(client[p].todo) = step
With(p) == client[p].with
Stop(p) == client' = [client EXCEPT ![p] = Off]
(* The command goes on with c, or ends after its last step.                *)
GoOn(p, c) ==
  client' = [client EXCEPT ![p] = IF Len(c.todo) = 1 THEN Off ELSE [c EXCEPT !.todo = Tail(c.todo)]]

(* Files of version 1: one profile with its token, which became the active *)
(* one, or none.                                                           *)
LegacyConfig(profile) ==
  [EmptyConfig EXCEPT !.urls[DefaultRemote] = Issued[profile.token].url,
                      !.ids[<<DefaultRemote, profile.alias>>] = Unverified,
                      !.listed = {<<DefaultRemote, profile.alias, "default">>},
                      !.active = <<DefaultRemote, profile.alias>>]
LegacyTokens(profile) ==
  [EmptyTokens EXCEPT !.of[<<DefaultRemote, profile.alias, "default">>] = profile.token]

(* A new user, one whose account is connected, or one with old files.      *)
CliInit ==
  /\ \/ files = [config |-> NoFile, tokens |-> [EmptyTokens EXCEPT !.version = 0], legacy |-> Nobody]
     \/ \E a \in Aliases, t \in Tokens :
          LET old == [alias |-> a, token |-> t] IN
          files = [config |-> [LegacyConfig(old) EXCEPT !.ids[<<DefaultRemote, a>>] = Issued[t].account],
                   tokens |-> LegacyTokens(old), legacy |-> Nobody]
     \/ \E a \in Aliases, t \in Tokens :
          files = [config |-> NoFile, tokens |-> [EmptyTokens EXCEPT !.version = 1],
                   legacy |-> [alias |-> a, token |-> t]]
  /\ client = [p \in Clients |-> Off] /\ sent = {}
  /\ amiss = [raced |-> FALSE, cut |-> FALSE, moved |-> {}, unverified |-> {}]
  /\ cliRuns = [commands |-> 0, kills |-> 0]
-----------------------------------------------------------------------------
(* The commands: what each reads, asks and writes, in order.               *)
Issue(p, todo, with) ==
  /\ client[p] = Off /\ cliRuns.commands < MaxCliCommands
  /\ cliRuns' = [cliRuns EXCEPT !.commands = @ + 1]
  /\ client' = [client EXCEPT ![p] = [Off EXCEPT !.todo = todo, !.with = with]]
  /\ UNCHANGED <<files, sent, amiss>>

SaveSteps == <<"verify", "load", "save", "writeConfig", "writeTokens">>

AddRemote(p, r, u) ==
  Issue(p, <<"load", "add", "writeConfig">>, [NoArguments EXCEPT !.remote = r, !.url = u])
SetUrl(p, r, u) ==
  Issue(p, <<"load", "set", "writeConfig">>, [NoArguments EXCEPT !.remote = r, !.url = u])
UseAccount(p, r, a) ==
  Issue(p, <<"load", "use", "writeConfig">>, [NoArguments EXCEPT !.remote = r, !.alias = a])
(* connect adds the remote, or finds it at this very address.              *)
ConnectAccount(p, s, u, t, skip) ==
  Issue(p, <<"load", "add", "writeConfig">> \o SaveSteps,
        [NoArguments EXCEPT !.remote = s[1], !.slot = s, !.url = u, !.token = t, !.skip = skip, !.reuse = TRUE])
(* account add asks the server the configuration names.                    *)
AddAccount(p, s, t, skip) ==
  Issue(p, <<"load", "look">> \o SaveSteps,
        [NoArguments EXCEPT !.remote = s[1], !.slot = s, !.token = t, !.skip = skip])
(* Any other command, of the active account.                               *)
Request(p, purpose) ==
  Issue(p, <<"load", "request">>, [NoArguments EXCEPT !.alias = purpose])
-----------------------------------------------------------------------------
(* _load_state: without config.json the files of version 1 are converted,  *)
(* and both new files written; of two versions that differ it says only    *)
(* that it does not support them.                                          *)
Load(p) ==
  /\ On(p, "load")
  /\ LET with(c, t, todo) ==
           client' = [client EXCEPT ![p] = [client[p] EXCEPT !.config = c, !.tokens = t,
                        !.seen = [config |-> files.config, tokens |-> files.tokens], !.todo = todo]]
     IN CASE files.config.version = 0 /\ files.legacy = Nobody ->
               with(EmptyConfig, EmptyTokens, Tail(client[p].todo))
          [] files.config.version = 0 /\ files.legacy # Nobody ->
               with(LegacyConfig(files.legacy), LegacyTokens(files.legacy),
                    <<"writeConfig", "writeTokens">> \o Tail(client[p].todo))
          [] files.config.version = 2 /\ files.tokens.version = 1 -> Stop(p)
          [] OTHER -> with(files.config, [files.tokens EXCEPT !.version = 2], Tail(client[p].todo))
  /\ UNCHANGED <<files, sent, amiss, cliRuns>>

(* add_remote: the first remote becomes the active one.                    *)
Add(p) ==
  LET c == client[p].config  r == With(p).remote IN
  /\ On(p, "add")
  /\ \/ /\ c.urls[r] = Nobody
        /\ GoOn(p, [client[p] EXCEPT !.config.urls[r] = With(p).url,
                      !.config.active = IF @ = Nobody THEN <<r, Nobody>> ELSE @])
     \/ /\ c.urls[r] = With(p).url /\ With(p).reuse
        /\ client' = [client EXCEPT ![p].todo = SaveSteps]
     \/ c.urls[r] # Nobody /\ (c.urls[r] # With(p).url \/ ~With(p).reuse) /\ Stop(p)
  /\ UNCHANGED <<files, sent, amiss, cliRuns>>

Set(p) ==
  /\ On(p, "set")
  /\ IF client[p].config.urls[With(p).remote] = Nobody THEN Stop(p)
     ELSE GoOn(p, [client[p] EXCEPT !.config.urls[With(p).remote] = With(p).url])
  /\ UNCHANGED <<files, sent, amiss, cliRuns>>

Use(p) ==
  LET n == <<With(p).remote, With(p).alias>> IN
  /\ On(p, "use")
  /\ IF client[p].config.ids[n] = Nobody THEN Stop(p)
     ELSE GoOn(p, [client[p] EXCEPT !.config.active = n])
  /\ UNCHANGED <<files, sent, amiss, cliRuns>>

Look(p) ==
  LET u == client[p].config.urls[With(p).remote] IN
  /\ On(p, "look")
  /\ IF u = Nobody THEN Stop(p) ELSE GoOn(p, [client[p] EXCEPT !.with.url = u])
  /\ UNCHANGED <<files, sent, amiss, cliRuns>>

(* The identity of the token at the address read before; a server that did *)
(* not issue it refuses.  --skip-verify asks nobody.                       *)
Verify(p) ==
  LET t == With(p).token  u == With(p).url IN
  /\ On(p, "verify")
  /\ \/ With(p).skip /\ GoOn(p, [client[p] EXCEPT !.identity = Nobody])
     \/ ~With(p).skip /\ Issued[t].url = u /\ GoOn(p, [client[p] EXCEPT !.identity = Issued[t].account])
     \/ ~With(p).skip /\ Stop(p)
  /\ UNCHANGED <<files, sent, amiss, cliRuns>>

(* Wrong variant of Fits: any identity is taken over.                      *)
FitsAnything(known, identity) == TRUE

(* save_account: an alias keeps the server account it was verified for.    *)
Fits(known, identity) == known \in {Nobody, Unverified, identity} \/ identity = Nobody

Save(p) ==
  LET s == With(p).slot  n == <<s[1], s[2]>>  c == client[p].config  i == client[p].identity IN
  /\ On(p, "save")
  /\ IF c.urls[s[1]] = Nobody \/ ~Fits(c.ids[n], i)
       THEN Stop(p) /\ UNCHANGED amiss
       ELSE /\ GoOn(p, [client[p] EXCEPT
                 !.config.ids[n] = IF i # Nobody THEN i ELSE IF @ = Nobody THEN Unverified ELSE @,
                 !.config.listed = @ \cup {s}, !.config.active = n, !.tokens.of[s] = With(p).token])
            /\ amiss' = [amiss EXCEPT
                 !.unverified = IF i = Nobody THEN @ \cup {s} ELSE @,
                 !.moved = IF c.urls[s[1]] # With(p).url THEN @ \cup {s[1]} ELSE @]
  /\ UNCHANGED <<files, sent, cliRuns>>

(* A file is replaced by what was read and changed in memory.              *)
WriteConfigFile(p) ==
  /\ On(p, "writeConfig")
  /\ files' = [files EXCEPT !.config = client[p].config]
  /\ amiss' = [amiss EXCEPT
       !.raced = @ \/ files.config # client[p].seen.config,
       !.moved = @ \cup {r \in Remotes : files.config.urls[r] \notin {Nobody, client[p].config.urls[r]}},
       !.unverified = @ \cup IF client[p].seen.config.version = 0 THEN client[p].config.listed ELSE {}]
  /\ GoOn(p, [client[p] EXCEPT !.seen.config = client[p].config])
  /\ UNCHANGED <<sent, cliRuns>>

WriteTokens(p) ==
  /\ On(p, "writeTokens")
  /\ files' = [files EXCEPT !.tokens = client[p].tokens]
  /\ amiss' = [amiss EXCEPT !.raced = @ \/ files.tokens # client[p].seen.tokens]
  /\ GoOn(p, [client[p] EXCEPT !.seen.tokens = client[p].tokens])
  /\ UNCHANGED <<sent, cliRuns>>

(* load_context: the credential for the purpose, of the active account or  *)
(* of the only one, and the request that carries its token.                *)
Chosen(c, n, purpose) ==
  LET of == {s \in c.listed : <<s[1], s[2]>> = n} IN
  {s \in of : \/ s[3] = purpose
              \/ s[3] = "default" /\ Append(n, purpose) \notin of
              \/ Cardinality(of) = 1}

Selected(c, n) ==
  \/ c.active = n
  \/ c.active = <<n[1], Nobody>> /\ {m \in Names : m[1] = n[1] /\ c.ids[m] # Nobody} = {n}

Send(p) ==
  LET c == client[p].config IN
  /\ On(p, "request") /\ Stop(p)
  /\ \/ \E n \in Names :
          \E s \in Chosen(c, n, With(p).alias) :
            /\ Selected(c, n) /\ c.urls[n[1]] # Nobody /\ client[p].tokens.of[s] # Nobody
            /\ sent' = sent \cup {<<s, client[p].tokens.of[s], c.urls[n[1]]>>}
     \/ UNCHANGED sent
  /\ UNCHANGED <<files, amiss, cliRuns>>

KillClient(p) ==
  /\ client[p] # Off /\ cliRuns.kills < MaxCliKills
  /\ cliRuns' = [cliRuns EXCEPT !.kills = @ + 1]
  /\ amiss' = [amiss EXCEPT !.cut = @ \/ On(p, "writeTokens")]
  /\ Stop(p) /\ UNCHANGED <<files, sent>>

CliCommands(p) ==
  \/ \E r \in Remotes, u \in Urls : AddRemote(p, r, u) \/ SetUrl(p, r, u)
  \/ \E n \in Names : UseAccount(p, n[1], n[2])
  \/ \E s \in Slots, t \in Tokens, skip \in BOOLEAN :
       AddAccount(p, s, t, skip) \/ \E u \in Urls : ConnectAccount(p, s, u, t, skip)
  \/ \E purpose \in Credentials : Request(p, purpose)

CliNext ==
  \E p \in Clients :
    \/ CliCommands(p) \/ Load(p) \/ Add(p) \/ Set(p) \/ Use(p) \/ Look(p) \/ Verify(p) \/ Save(p)
    \/ WriteConfigFile(p) \/ WriteTokens(p) \/ Send(p) \/ KillClient(p)

CliSpec == CliInit /\ [][CliNext]_cliVars
-----------------------------------------------------------------------------
ConfigFile ==
  [version : {0, 2}, urls : [Remotes -> Urls \cup {Nobody}],
   ids : [Names -> Accounts \cup {Nobody, Unverified}], listed : SUBSET Slots,
   active : Names \cup (Remotes \X {Nobody}) \cup {Nobody}]
TokenFile == [version : 0..2, of : [Slots -> Tokens \cup {Nobody}]]

(* Every variable has its type. *)
CliTypeOK ==
  /\ files.config \in ConfigFile /\ files.tokens \in TokenFile
  /\ \A p \in Clients : client[p].config \in ConfigFile /\ client[p].tokens \in TokenFile
  /\ sent \subseteq Slots \X Tokens \X Urls
  /\ amiss \in [raced : BOOLEAN, cut : BOOLEAN, moved : SUBSET Remotes, unverified : SUBSET Slots]
  /\ cliRuns \in [commands : 0..MaxCliCommands, kills : 0..MaxCliKills]

(* The tokens stored under a verified alias are all of its server account. *)
AliasIsOneAccount ==
  \A s \in Slots :
    LET t == files.tokens.of[s]  id == files.config.ids[<<s[1], s[2]>>] IN
    t # Nobody /\ id \notin {Nobody, Unverified} /\ s \notin amiss.unverified => Issued[t].account = id

(* A token goes to the server that issued it.                              *)
SentHome ==
  \A m \in sent :
    m[1][1] \notin amiss.moved /\ m[1] \notin amiss.unverified => Issued[m[2]].url = m[3]

(* The two files are of one version.                                       *)
FilesLoad ==
  files.config.version = 2 /\ files.tokens.version = 1 =>
    amiss.cut \/ \E p \in Clients : On(p, "writeTokens")

(* config.py: whatever commands run one after the other, and wherever one  *)
(* is killed, credentials stay with the account and the server they were   *)
(* verified for; only two commands at once, an address changed under an    *)
(* account and a token saved without verification break it, and a killed   *)
(* conversion of the files of version 1 leaves them unreadable.            *)
CredentialsFit == ~amiss.raced => AliasIsOneAccount /\ SentHome /\ FilesLoad

=============================================================================
