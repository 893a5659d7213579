---------------------------- MODULE OperatorRules ----------------------------
(***************************************************************************)
(* How the rules of an operator change hands: browser tabs and commands    *)
(* read the latest revision, compose the next one from it, ask for a       *)
(* challenge, have it signed and post it, while other clients of the same  *)
(* operator do the same and the wallet may switch accounts.                *)
(*                                                                         *)
(* The server side is that of OperatorAuth with one process: a handler has *)
(* no await, so that a post is one step.  A challenge or a session that    *)
(* expired, and a form the routes do not take, are refusals that may come  *)
(* at any post.  Whether the answer of a post then reaches the client      *)
(* makes no difference to the rules and is left out.                       *)
(***************************************************************************)
EXTENDS Integers, Sequences

CONSTANTS
  Operators,     \* accounts of the wallets and keys of the commands
  Tabs,          \* browser tabs on the audit page
  Commands,      \* runs of the command line
  Assets,
  Series,        \* the rules looked at: a subset of AllSeries
  Charge,        \* the amount of the charge a tab has read
  MaxCap,        \* bound on daily caps
  Settings,      \* denied lists, windows and limits of a policy, as one value
  WebDefault,    \* the settings of a first policy saved by a tab
  CliDefault,    \* the settings of a policy file that names none
  MaxRevision,   \* bound on the revisions of a series
  MaxSwitch,     \* bound on the times the wallets switch accounts
  None

AllSeries == {"policy", "provider", "control"}
Clients   == Tabs \union Commands

OperatorRulesAssumption ==
  /\ Series \subseteq AllSeries
  /\ {WebDefault, CliDefault} \subseteq Settings
  /\ MaxCap \in Nat /\ Charge \in 1..MaxCap
  /\ MaxRevision \in Nat /\ MaxSwitch \in Nat
  /\ Tabs \intersect Commands = {}

VARIABLES
  log,       \* policies, provider_decisions and agent_tokens of an operator
  account,   \* the account selected in the wallet of a tab
  token,     \* tokenRef: the operator of the session a tab or command uses
  key,       \* walletSession.data.publicKey, or the key file of a command
  job,       \* the save a client is in
  login,     \* connectWallet: the address a tab is logging in
  switches

vars == <<log, account, token, key, job, login, switches>>

Caps     == 0..MaxCap     \* 0: the asset has no cap
Policies == [caps : [Assets -> Caps], payers : SUBSET Operators, kept : Settings]
Rules    == [kind : {"pin", "deny"}, asset : Assets]
Controls == [act : {"issue", "revoke"}]
Body(s)  == CASE s = "policy" -> Policies [] s = "provider" -> Rules [] s = "control" -> Controls
NoPolicy == [caps |-> [a \in Assets |-> 0], payers |-> {}, kept |-> WebDefault]

(* An entry: what was signed, by whom, and, as history, who saved it.      *)
Bodies  == UNION {Body(s) : s \in Series}
Entries == [rev : 1..MaxRevision, body : Bodies, by : Clients, asset : Assets, signer : Operators]

Steps == {"challenge", "sign", "prompt", "post"}
Jobs  == [step : Steps, op : Operators, signer : Operators, hand : Operators,
          series : Series, rev : 1..MaxRevision, body : Bodies, asset : Assets]

TypeOK ==
  /\ log \in [Operators -> [Series -> Seq(Entries)]]
  /\ account \in [Tabs -> Operators]
  /\ token \in [Clients -> Operators \union {None}]
  /\ key \in [Clients -> Operators \union {None}]
  /\ job \in [Clients -> Jobs \union {None}]
  /\ \A o \in Operators, s \in Series : \A i \in DOMAIN log[o][s] : log[o][s][i].body \in Body(s)
  /\ \A c \in Clients : job[c] # None => job[c].body \in Body(job[c].series)
  /\ login \in [Tabs -> Operators \union {None}]
  /\ switches \in 0..MaxSwitch

Init ==
  /\ log = [o \in Operators |-> [s \in Series |-> << >>]]
  /\ account \in [Tabs -> Operators]
  /\ token = [c \in Clients |-> None]
  /\ key = [c \in Clients |-> None]
  /\ job = [c \in Clients |-> None]
  /\ login = [t \in Tabs |-> None]
  /\ switches = 0

----------------------------------------------------------------------------
(* The wallet and the sessions of the tabs.                                *)

SwitchAccount(t, o) ==
  /\ switches < MaxSwitch /\ account[t] # o
  /\ account' = [account EXCEPT ![t] = o]
  /\ switches' = switches + 1
  /\ UNCHANGED <<log, token, key, job, login>>

(* connectWallet: the wallet's account asks for a challenge ...            *)
Connect(t) ==
  /\ key[t] = None /\ login[t] = None
  /\ login' = [login EXCEPT ![t] = account[t]]
  /\ UNCHANGED <<log, account, token, key, job, switches>>

(* ... and whoever is selected by then signs it; the server opens a        *)
(* session only for the address that asked.                                *)
Connected(t) ==
  /\ login[t] # None /\ account[t] = login[t]
  /\ token' = [token EXCEPT ![t] = login[t]]
  /\ key' = [key EXCEPT ![t] = login[t]]
  /\ login' = [login EXCEPT ![t] = None]
  /\ UNCHANGED <<log, account, job, switches>>

ConnectFails(t) ==
  /\ login[t] # None
  /\ login' = [login EXCEPT ![t] = None]
  /\ key' = [key EXCEPT ![t] = None]
  /\ UNCHANGED <<log, account, token, job, switches>>

(* setToken: a pasted token ends the wallet's session of the tab.          *)
KeepsWallet(t) == UNCHANGED key   \* mutant: the wallet's session stays
EndsWalletSession(t) == key' = [key EXCEPT ![t] = None]
PasteToken(t, o) ==
  /\ token[t] # o
  /\ token' = [token EXCEPT ![t] = o]
  /\ EndsWalletSession(t)
  /\ UNCHANGED <<log, account, job, login, switches>>

SignOut(t) ==
  /\ token[t] # None
  /\ token' = [token EXCEPT ![t] = None]
  /\ EndsWalletSession(t)
  /\ UNCHANGED <<log, account, job, login, switches>>

(* operatorSigningSession: a command signs with its key, in a session it   *)
(* opens with that key or with a token it is given.                        *)
StartCommand(c, o, p) ==
  /\ key[c] = None
  /\ key' = [key EXCEPT ![c] = o]
  /\ token' = [token EXCEPT ![c] = p]
  /\ UNCHANGED <<log, account, job, login, switches>>

----------------------------------------------------------------------------
(* Reading the latest revision and composing the next.                     *)

Latest(o, s) == Len(log[o][s])
Current(o) == IF Latest(o, "policy") = 0 THEN NoPolicy
              ELSE log[o]["policy"][Latest(o, "policy")].body

(* saveAssetPolicyWithWallet keeps what the current policy says.           *)
StartsAfresh(current, o, a, cap) ==   \* mutant: the current policy is not kept
  [caps |-> [NoPolicy.caps EXCEPT ![a] = cap], payers |-> {o}, kept |-> WebDefault]
Amended(current, o, a, cap) ==
  [caps |-> [current.caps EXCEPT ![a] = cap],
   payers |-> current.payers \union {o},
   kept |-> current.kept]

(* A provider rule is for the charge of the check, installPolicy for what  *)
(* the file of the command says.                                           *)
Drafts(c, s, a) ==
  CASE s = "policy" /\ c \in Tabs -> {Amended(Current(token[c]), key[c], a, cap) : cap \in Charge..MaxCap}
    [] s = "policy" /\ c \in Commands ->
         {[caps |-> [NoPolicy.caps EXCEPT ![a] = cap], payers |-> {key[c]}, kept |-> k]
            : cap \in {0, MaxCap}, k \in {CliDefault}}
    [] s = "provider" -> [kind : {"pin", "deny"}, asset : {a}]
    [] s = "control" -> IF c \in Commands THEN Controls ELSE {}

(* What is read and composed is a matter of one answer; the token and the  *)
(* key are those of this moment, whatever the tab does until the post.     *)
Read(c, s, a) ==
  /\ job[c] = None /\ token[c] # None /\ key[c] # None
  /\ Latest(token[c], s) < MaxRevision
  /\ \E draft \in Drafts(c, s, a) :
       job' = [job EXCEPT ![c] = [step |-> "challenge", op |-> token[c], signer |-> key[c],
                 hand |-> key[c], series |-> s, rev |-> Latest(token[c], s) + 1, body |-> draft, asset |-> a]]
  /\ UNCHANGED <<log, account, token, key, login, switches>>

Moves(c, from, to) ==
  /\ job[c] # None /\ job[c].step = from
  /\ job' = [job EXCEPT ![c].step = to]
  /\ UNCHANGED <<log, account, token, key, login, switches>>

(* A challenge is issued for any key; the session is looked at by the post. *)
Challenge(c) == Moves(c, "challenge", "sign")

(* signWalletMessage compares the selected account, then whoever is        *)
(* selected when the prompt opens signs; a command signs with its key.     *)
AnySigner(c, o) == TRUE   \* mutant: no side compares the account
SignedBy(c, o) == o = job[c].signer

Compare(c) ==
  /\ job[c] # None
  /\ c \in Tabs => SignedBy(c, account[c])
  /\ Moves(c, "sign", "prompt")

Sign(c) ==
  /\ job[c] # None /\ job[c].step = "prompt"
  /\ job' = [job EXCEPT ![c].step = "post",
                        ![c].hand = IF c \in Tabs THEN account[c] ELSE @]
  /\ UNCHANGED <<log, account, token, key, login, switches>>

(* A request fails, the wallet declines, or the account was switched.      *)
Fails(c) ==
  /\ job[c] # None
  /\ job' = [job EXCEPT ![c] = None]
  /\ UNCHANGED <<log, account, token, key, login, switches>>

----------------------------------------------------------------------------
(* The server takes the post: the session's operator is the artifact's,    *)
(* the revision is the next one, the operator signed it; then the row.     *)

OwnArtifact(c) == job[c].op = job[c].signer

AnyRevision(c) == TRUE                                 \* mutant: requireRevision is dropped
NextRevision(c) == job[c].rev = Latest(job[c].op, job[c].series) + 1

Unnumbered(c) ==   \* mutant: the revision read is posted instead of the next one
  [rev |-> job[c].rev - 1, body |-> job[c].body, by |-> c, asset |-> job[c].asset,
   signer |-> job[c].hand]
Entry(c) ==
  [rev |-> job[c].rev, body |-> job[c].body, by |-> c, asset |-> job[c].asset,
   signer |-> job[c].hand]

Saved(o, s, e) == [log EXCEPT ![o][s] = Append(@, e)]

Accept(c) ==
  /\ job[c] # None /\ job[c].step = "post"
  /\ OwnArtifact(c)
  /\ NextRevision(c)
  /\ SignedBy(c, Entry(c).signer)
  /\ log' = Saved(job[c].op, job[c].series, Entry(c))
  /\ job' = [job EXCEPT ![c] = None]

Post(c) ==
  /\ Accept(c)
  /\ UNCHANGED <<account, token, key, login, switches>>

Next ==
  \/ \E t \in Tabs :
       \/ \E o \in Operators : SwitchAccount(t, o) \/ PasteToken(t, o)
       \/ Connect(t) \/ ConnectFails(t) \/ SignOut(t) \/ Connected(t)
  \/ \E c \in Commands, o, p \in Operators : StartCommand(c, o, p)
  \/ \E c \in Clients :
       \/ \E s \in Series, a \in Assets : Read(c, s, a)
       \/ Challenge(c) \/ Compare(c) \/ Sign(c) \/ Fails(c) \/ Post(c)

Spec == Init /\ [][Next]_vars
----------------------------------------------------------------------------
(* Properties.                                                             *)

(* A wallet that switches accounts, before or right after the page has     *)
(* compared them, and a command whose session is another operator's, never *)
(* leave a rule its operator has not signed.                               *)
RulesAreSigned ==
  \A o \in Operators, s \in Series : \A i \in DOMAIN log[o][s] :
    log[o][s][i].signer = o

(* A tab never asks the wallet to sign for a key its token is not for,     *)
(* whatever the order in which people log in, paste tokens and sign out.   *)
KeyFitsToken == \A t \in Tabs : key[t] # None => key[t] = token[t]

(* What a wallet signs and what is stored are the operator's own.          *)
StoredIsOwn == RulesAreSigned /\ KeyFitsToken

(* The revisions of a series are counted without gap or repetition, by     *)
(* whichever clients they were numbered.                                   *)
RevisionsFollow ==
  \A o \in Operators, s \in Series : \A i \in DOMAIN log[o][s] : log[o][s][i].rev = i

Amends(e, before) ==
  /\ e.body.kept = before.kept
  /\ before.payers \subseteq e.body.payers
  /\ \A a \in Assets : a # e.asset => e.body.caps[a] = before.caps[a]
  /\ e.body.caps[e.asset] >= Charge

(* "Existing blocks and other token limits stay in place."                 *)
(* (src/apps/web/src/audit/sections/PolicyAction.tsx:49): a limit saved in *)
(* a tab differs from the revision before it only by that limit and by the *)
(* tab's own account, although others saved after the tab had read; and a  *)
(* revision once stored stays.                                             *)
SavesKeepTheRest ==
  [][\A o \in Operators, s \in Series :
       \/ log'[o][s] = log[o][s]
       \/ \E e \in {log'[o][s][Latest(o, s) + 1]} :
            /\ log'[o][s] = Append(log[o][s], e)
            /\ s = "policy" /\ e.by \in Tabs => Amends(e, Current(o))]_vars
============================================================================
