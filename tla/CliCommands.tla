----------------------------- MODULE CliCommands -----------------------------
(***************************************************************************)
(* The agentpay command line (apps/cli): a script runs commands, each a    *)
(* process of its own, and reads nothing but their exit codes.  A command  *)
(* takes a credential, asks the auditor and maps what it learns to a code; *)
(* answers are lost, and scripts run a command again.                      *)
(*                                                                         *)
(* The auditor is the part of it that the codes speak of: its checks, each *)
(* under an idempotency key, their settlements and the signed controls.    *)
(***************************************************************************)
EXTENDS Integers, Sequences, FiniteSets

CONSTANTS
  Shells,         \* commands that may run at the same time
  Files,          \* check files of a script
  KeyedFiles,     \* those that name an idempotencyKey
  Names,          \* the commands looked at
  Given,          \* what commands are given: token, session or key, by flag or environment
  MaxRuns,        \* bound on the commands of a script
  SignsMessages,  \* whether the signer of a key file can sign a message
  HashForm,       \* what normalizeAddress makes of a transaction hash
  None

Reading  == {"show policy", "list", "show receipt"}
Signing  == {"session", "control", "provider"}
Commands == Reading \union Signing \union {"check", "verify-settlement", "call", "verify receipt"}

CliAssumption ==
  /\ KeyedFiles \subseteq Files
  /\ Names \subseteq Commands
  /\ Given \subseteq SUBSET {"token", "session", "key"}
  /\ MaxRuns \in Nat
  /\ SignsMessages \in BOOLEAN
  /\ HashForm \in {"bare", "prefixed"}

VARIABLES
  cmd,      \* [Shells -> the command that runs there, or None]
  checks,   \* the auditor's payment checks, in the order they were made
  settled,  \* what a look at the chain says of each check's payment by now
  controls, \* revisions of signed policies, decisions and tokens
  runs,     \* the commands started
  exits     \* history: how commands ended, with their codes

vars == <<cmd, checks, settled, controls, runs, exits>>

Verdicts    == {"pay", "review", "block"}
Settlements == {"pending", "match", "mismatch", "unverifiable"}
Steps       == {"input", "credential", "login", "request", "paid", "matched"}
Codes       == {0, 2, 3, 4}
Errors      == {"invalid_input", "hash_refused", "configuration_required", "api_error",
                "client_error", "service_failed", "invalid_receipt", "policy_not_found"}

(* about: the file of a check, or the check of a verification.             *)
Subjects(name) ==
  CASE name = "check" -> Files
    [] name = "verify-settlement" -> DOMAIN checks
    [] OTHER -> {None}

Checks == [file : Files, verdict : Verdicts]
About  == Files \union Nat \union {None}
Rows   == [name : Commands, about : About, given : SUBSET {"token", "session", "key"},
           step : Steps, said : Settlements \union {"ok"}]
Exits  == [name : Commands, about : About, code : Codes, check : Nat \union {None},
           said : Verdicts \union Settlements \union Errors \union {"ok"}, paid : BOOLEAN]

TypeOK ==
  /\ cmd \in [Shells -> Rows \union {None}]
  /\ checks \in Seq(Checks)
  /\ settled \in Seq(Settlements) /\ Len(settled) = Len(checks)
  /\ controls \in Nat
  /\ runs \in 0..MaxRuns
  /\ exits \subseteq Exits

Init ==
  /\ cmd = [s \in Shells |-> None]
  /\ checks = << >>
  /\ settled = << >>
  /\ controls = 0
  /\ runs = 0
  /\ exits = {}

Start(s, name, about, given) ==
  /\ cmd[s] = None /\ runs < MaxRuns
  /\ runs' = runs + 1
  /\ about \in Subjects(name)
  /\ cmd' = [cmd EXCEPT ![s] = [name |-> name, about |-> about, given |-> given,
                              step |-> "input", said |-> "ok"]]
  /\ UNCHANGED <<checks, settled, controls, exits>>

(* writeResult or writeError, and process.exitCode.                        *)
Exit(s, code, said, check, paid) ==
  /\ cmd' = [cmd EXCEPT ![s] = None]
  /\ exits' = exits \union {[name |-> cmd[s].name, about |-> cmd[s].about, code |-> code,
                             said |-> said, check |-> check, paid |-> paid]}
  /\ UNCHANGED runs

At(s, step) == cmd[s] # None /\ cmd[s].step = step
Goes(s, step) ==
  /\ cmd' = [cmd EXCEPT ![s].step = step,
                        ![s].given = IF step = "credential" THEN @ ELSE {}]
  /\ UNCHANGED <<checks, settled, controls, runs, exits>>

Errs(s, why, paid) ==
  /\ Exit(s, 4, why, None, paid)
  /\ UNCHANGED <<checks, settled, controls>>

----------------------------------------------------------------------------
(* Options, files and credentials.                                         *)

(* normalizeHash wants 64 hexadecimal characters of what normalizeAddress  *)
(* returns, which puts 0x before them.                                     *)
WellFormed(name) == name \in {"verify-settlement", "provider"} => HashForm = "bare"

InputRefused(s) == At(s, "input") /\ Errs(s, "invalid_input", FALSE)
HashRefused(s) ==
  /\ At(s, "input") /\ ~WellFormed(cmd[s].name)
  /\ Errs(s, "hash_refused", FALSE)
InputRead(s) ==
  /\ At(s, "input") /\ WellFormed(cmd[s].name) /\ cmd[s].name # "verify receipt"
  /\ Goes(s, "credential")

(* receipt verify works on the file alone.                                 *)
VerifyReceipt(s, verified) ==
  /\ At(s, "input") /\ cmd[s].name = "verify receipt"
  /\ Exit(s, IF verified THEN 0 ELSE 4, IF verified THEN "ok" ELSE "invalid_receipt", None, FALSE)
  /\ UNCHANGED <<checks, settled, controls>>

(* configuredApiToken: commands of an agent run under any credential;      *)
(* operatorToken: those of an operator take no agent's token.              *)
AgentCommands == {"check", "verify-settlement", "call", "show receipt"}
Usable(name) == IF name \in AgentCommands THEN {"token", "session"} ELSE {"session"}

(* readSigner: the key is read even when a session is given.               *)
NeedsKey(name) == name \in Signing \union {"call"}

Configured(s) ==
  /\ At(s, "credential")
  /\ NeedsKey(cmd[s].name) => "key" \in cmd[s].given
  /\ IF cmd[s].name # "session" /\ cmd[s].given \intersect Usable(cmd[s].name) # {}
     THEN Goes(s, "request")
     ELSE "key" \in cmd[s].given /\ Goes(s, "login")

ConfigurationRequired(s) ==
  /\ At(s, "credential")
  /\ "key" \notin cmd[s].given
  /\ NeedsKey(cmd[s].name) \/ cmd[s].given \intersect Usable(cmd[s].name) = {}
  /\ Errs(s, "configuration_required", FALSE)

(* createSession calls signer.sign.                                        *)
LoggedIn(s) ==
  /\ At(s, "login") /\ SignsMessages
  /\ IF cmd[s].name = "session"
     THEN Exit(s, 0, "ok", None, FALSE) /\ UNCHANGED <<checks, settled, controls>>
     ELSE Goes(s, "request")

(* The TypeError of a signer without sign: session, policy, provider and   *)
(* token commands, and any other that has to log in.                       *)
CannotSign(s) ==
  /\ At(s, "login") \/ (At(s, "request") /\ cmd[s].name \in Signing)
  /\ ~SignsMessages
  /\ Errs(s, "client_error", FALSE)

(* No answer, an answer that is not JSON, or an error of the API.          *)
RequestFails(s) == (At(s, "login") \/ At(s, "request")) /\ Errs(s, "api_error", FALSE)

----------------------------------------------------------------------------
(* What a command learns and the code it makes of it.                      *)

PayIsSuccess(verdict) == IF verdict = "block" THEN 3 ELSE 0   \* mutant: review is taken for pay
UnixCode(verdict) == IF verdict = "pay" THEN 0 ELSE 1   \* mutant: a plain failure
paymentVerdictExitCode(verdict) ==
  CASE verdict = "pay" -> 0 [] verdict = "review" -> 2 [] verdict = "block" -> 3

PendingIsSuccess(verdict) ==   \* mutant: a pending settlement is taken for a match
  CASE verdict \in {"match", "pending"} -> 0 [] verdict = "mismatch" -> 3 [] OTHER -> 4
settlementVerdictExitCode(verdict) ==
  CASE verdict = "match" -> 0 [] verdict = "pending" -> 2 [] verdict = "mismatch" -> 3
    [] verdict = "unverifiable" -> 4

(* checkCommand draws a key of its own when the file names none.           *)
NeverSame(file) == {}   \* mutant: every run draws a key
SameKey(file) == {i \in DOMAIN checks : file \in KeyedFiles /\ checks[i].file = file}

(* The auditor answers a key it knows with the check it made; the answer   *)
(* may be lost.                                                            *)
Check(s, verdict, arrives) ==
  LET file == cmd[s].about
      made == Append(checks, [file |-> file, verdict |-> verdict])
      known == SameKey(file) IN
  /\ At(s, "request") /\ cmd[s].name = "check"
  /\ known # {} => \E i \in known : checks[i].verdict = verdict
  /\ IF known = {} THEN checks' = made /\ settled' = Append(settled, "pending")
                    ELSE UNCHANGED <<checks, settled>>
  /\ IF arrives
     THEN Exit(s, paymentVerdictExitCode(verdict), verdict,
               IF known = {} THEN Len(made) ELSE CHOOSE i \in known : TRUE, FALSE)
     ELSE Exit(s, 4, "api_error", None, FALSE)
  /\ UNCHANGED controls

(* The chain says more as time goes by; match and mismatch are final.      *)
Look(i, verdict) ==
  /\ settled[i] \in {"pending", "unverifiable"} /\ verdict # settled[i]
  /\ settled' = [settled EXCEPT ![i] = verdict]
  /\ UNCHANGED <<cmd, checks, controls, runs, exits>>

VerifySettlement(s) ==
  LET verdict == settled[cmd[s].about] IN
  /\ At(s, "request") /\ cmd[s].name = "verify-settlement"
  /\ Exit(s, settlementVerdictExitCode(verdict), verdict, cmd[s].about, FALSE)
  /\ UNCHANGED <<checks, settled, controls>>

(* A policy, a decision, a token or a revocation is signed and posted.     *)
SaveControl(s, arrives) ==
  /\ At(s, "request") /\ cmd[s].name \in {"control", "provider"} /\ SignsMessages
  /\ controls' = controls + 1
  /\ IF arrives THEN Exit(s, 0, "ok", None, FALSE) ELSE Exit(s, 4, "api_error", None, FALSE)
  /\ UNCHANGED <<checks, settled>>

(* policy show ends with 4 while there is no policy.                       *)
Show(s) ==
  /\ At(s, "request") /\ cmd[s].name \in Reading
  /\ IF cmd[s].name = "show policy" /\ controls = 0
     THEN Exit(s, 4, "policy_not_found", None, FALSE) ELSE Exit(s, 0, "ok", None, FALSE)
  /\ UNCHANGED <<checks, settled, controls>>

----------------------------------------------------------------------------
(* callCommand: checkedX402Call ends in a PaymentAuditError that names the *)
(* verdict, before or after the signed payment was sent (see CheckedCall). *)

mapError(verdict) ==
  CASE verdict \in {"review", "pending"} -> 2
    [] verdict \in {"block", "mismatch"} -> 3
    [] OTHER -> 4

CallRefused(s, verdict) ==
  /\ At(s, "request") /\ cmd[s].name = "call"
  /\ verdict \in {"review", "block"}
  /\ Exit(s, mapError(verdict), verdict, None, FALSE)
  /\ UNCHANGED <<checks, settled, controls>>

CallPays(s) == At(s, "request") /\ cmd[s].name = "call" /\ Goes(s, "paid")

(* The service's answer or the auditor's fails after the payment.          *)
PaidCallFails(s) ==
  /\ At(s, "paid") \/ At(s, "matched")
  /\ Errs(s, "service_failed", TRUE)

AnySettlement(verdict) == verdict # "mismatch"   \* mutant: a pending payment is taken for settled
GoesOn(verdict) == verdict = "match"

CallSettled(s, verdict) ==
  /\ At(s, "paid")
  /\ IF GoesOn(verdict)
     THEN /\ cmd' = [cmd EXCEPT ![s].step = "matched", ![s].said = verdict]
          /\ UNCHANGED <<checks, settled, controls, runs, exits>>
     ELSE /\ Exit(s, mapError(verdict), verdict, None, TRUE)
          /\ UNCHANGED <<checks, settled, controls>>

(* Observed and with its receipt: the code is that of the service.         *)
CallEnds(s, ok) ==
  /\ At(s, "matched")
  /\ Exit(s, IF ok THEN 0 ELSE 4, cmd[s].said, None, TRUE)
  /\ UNCHANGED <<checks, settled, controls>>

Next ==
  \/ \E s \in Shells :
       \/ \E name \in Names, given \in Given :
            \E about \in Subjects(name) : Start(s, name, about, given)
       \/ InputRefused(s) \/ HashRefused(s) \/ InputRead(s) \/ Configured(s) \/ ConfigurationRequired(s)
       \/ LoggedIn(s) \/ CannotSign(s) \/ RequestFails(s)
       \/ VerifySettlement(s) \/ Show(s)
       \/ CallPays(s) \/ PaidCallFails(s)
       \/ \E b \in BOOLEAN : VerifyReceipt(s, b) \/ SaveControl(s, b) \/ CallEnds(s, b)
       \/ \E v \in Verdicts : CallRefused(s, v) \/ \E b \in BOOLEAN : Check(s, v, b)
       \/ \E v \in Settlements : CallSettled(s, v)
  \/ \E i \in DOMAIN checks, v \in Settlements : Look(i, v)

Spec == Init /\ [][Next]_vars
----------------------------------------------------------------------------
(* Properties.                                                             *)

(* "0: PAY, settlement match, or success; 2: REVIEW or settlement pending; *)
(* 3: BLOCK or settlement mismatch" (README.md:479-482): a script that     *)
(* reads a code knows what the auditor has on record, and as long as the   *)
(* payment is not pending the code stays true.                             *)
CodesTellTheRecord ==
  \A e \in exits :
    /\ e.name = "check" /\ e.code # 4 =>
         <<e.code, checks[e.check].verdict>> \in {<<0, "pay">>, <<2, "review">>, <<3, "block">>}
    /\ e.name = "verify-settlement" /\ e.code \in {0, 3} =>
         <<e.code, settled[e.check]>> \in {<<0, "match">>, <<3, "mismatch">>}

(* A script that runs a check again because the answer was lost, or runs   *)
(* it twice at a time, books one payment and is told one verdict, if its   *)
(* file names a key.                                                       *)
OneVerdictPerKey ==
  /\ \A i, j \in DOMAIN checks :
       checks[i].file = checks[j].file /\ checks[i].file \in KeyedFiles => i = j
  /\ \A e, f \in exits :
       /\ e.name = "check" /\ f.name = "check"
       /\ e.about = f.about /\ e.about \in KeyedFiles
       /\ 4 \notin {e.code, f.code}
       => e.code = f.code

(* What a script makes of the codes, however often it runs its commands.   *)
RerunsAgree == OneVerdictPerKey /\ CodesTellTheRecord

(* A call that ends with 0 has paid and found its payment settled, and one *)
(* that ends with 2 or 3 after it paid was not refused but is unsettled.   *)
CallCodesTellThePayment ==
  \A e \in exits :
    e.name = "call" =>
      /\ e.code = 0 => e.paid /\ e.said = "match"
      /\ e.code \in {2, 3} => (e.paid <=> e.said \in Settlements)

(* "creates an operator session" expects code 0                            *)
(* (src/apps/cli/test/cli.test.ts:107): the key of a command can sign.     *)
KeysCanSign == \A e \in exits : e.said # "client_error"

(* "agentpay verify-settlement --check <check-id> --tx <transaction-hash>" *)
(* (README.md:465): a transaction hash is taken.                           *)
HashesAreTaken == \A e \in exits : e.said # "hash_refused"
============================================================================
