--------------------------- MODULE WhatsAppAccounts ---------------------------
(***************************************************************************)
(* One WhatsApp number and the tenants that want it: Meta's Embedded       *)
(* Signup, the access token in the vault, health checks, and the           *)
(* disconnection, which cleans up after it has committed.                  *)
(*                                                                         *)
(* No lock is held while Meta is asked, so whatever a request has read may *)
(* be out of date when it writes.  Connecting and disconnecting are        *)
(* serialized by an advisory lock of the number, each inside one           *)
(* transaction, which is one step.                                         *)
(***************************************************************************)
EXTENDS Naturals

CONSTANTS
  Staff,      \* administrators, each with one request at a time
  Clients,    \* tenants that sign up with this number
  MaxSignups  \* bound: signups

ASSUME SignupAssumption == MaxSignups \in Nat

\* A signup names the authorization that comes of it, its token, and the moment
\* it was verified (verified_at is read when the state is consumed).
Signups == 1 .. MaxSignups

VARIABLES
  signup,    \* whatsapp_signup_states
  account,   \* the row of public.whatsapp_accounts with this number
  tokens,    \* access tokens in the vault
  honoured,  \* access tokens that Meta honours
  errand     \* what each administrator's request is at

accountVars == <<signup, account, tokens, honoured, errand>>

NoSignup == [state |-> "none", client |-> {}, by |-> {}]
NoAccount == [status |-> "none", client |-> {}, token |-> 0, verified |-> 0,
              health |-> "UNKNOWN", error |-> "none"]
NoErrand == [at |-> "idle", signup |-> 0, token |-> 0, verified |-> 0, verdict |-> "none",
             loaded |-> FALSE, deleted |-> FALSE]

AccountsInit ==
  /\ signup = [s \in Signups |-> NoSignup]
  /\ account = NoAccount
  /\ tokens = {}
  /\ honoured = {}
  /\ errand = [a \in Staff |-> NoErrand]

ErrandAt(a, step) == errand[a].at = step
Proceeds(a, step) == errand' = [errand EXCEPT ![a].at = step]
Returns(a) == errand' = [errand EXCEPT ![a] = NoErrand]

\* A request that goes on with what it read of the row.
Reading(step) == [NoErrand EXCEPT !.at = step, !.token = account.token,
                                  !.verified = account.verified]

--------------------------------------------------------------------------------
\* Embedded Signup.

\* WhatsAppSignupService.start: a state of this administrator for this tenant.
StartSignup(a, c) ==
  /\ ErrandAt(a, "idle")
  /\ \E s \in Signups :
       /\ signup[s] = NoSignup
       /\ \A earlier \in 1 .. s - 1 : signup[earlier] # NoSignup
       /\ signup' = [signup EXCEPT ![s] = [state |-> "open", client |-> {c}, by |-> {a}]]
  /\ UNCHANGED <<account, tokens, honoured, errand>>

\* complete begins: the state is consumed in a transaction of its own, which
\* stands whatever Meta answers.
ConsumeSignup(a, s) ==
  /\ ErrandAt(a, "idle")
  /\ signup[s].state = "open" /\ a \in signup[s].by
  /\ signup' = [signup EXCEPT ![s].state = "consumed"]
  /\ errand' = [errand EXCEPT ![a] = [NoErrand EXCEPT !.at = "exchanging", !.signup = s]]
  /\ UNCHANGED <<account, tokens, honoured>>

\* exchange_and_verify: the code gives a token, and the assets are verified.  A
\* refusal after the exchange leaves a token nobody knows of.
Exchange(a) ==
  /\ ErrandAt(a, "exchanging")
  /\ \/ Proceeds(a, "authorized") /\ honoured' = honoured \cup {errand[a].signup}
     \/ Returns(a) /\ honoured' \in {honoured, honoured \cup {errand[a].signup}}
  /\ UNCHANGED <<signup, account, tokens>>

\* The rest of complete, under the lock of the number: a number of another
\* tenant is refused; the token that is replaced goes with the row's reference.
Connect(a) ==
  LET s == errand[a].signup IN
  /\ ErrandAt(a, "authorized")
  /\ account.client \subseteq signup[s].client
  /\ account' = [status |-> "active", client |-> signup[s].client, token |-> s,
                 verified |-> s, health |-> "HEALTHY", error |-> "none"]
  /\ tokens' = (tokens \ {account.token}) \cup {s}
  /\ Returns(a)
  /\ UNCHANGED <<signup, honoured>>

RefuseConnection(a) ==
  /\ ErrandAt(a, "authorized")
  /\ ~(account.client \subseteq signup[errand[a].signup].client)
  /\ Returns(a)
  /\ UNCHANGED <<signup, account, tokens, honoured>>

--------------------------------------------------------------------------------
\* Health.

\* inspect_health: only a token that is honoured is answered HEALTHY.
Inspections(token) ==
  {"ERROR", "REAUTH_REQUIRED"} \cup IF token \in honoured THEN {"HEALTHY"} ELSE {}

\* check_health: the row is read, its token loaded, and Meta asked.
Inspect(a) ==
  /\ ErrandAt(a, "idle")
  /\ account.token \in tokens
  /\ \E verdict \in Inspections(account.token) :
       errand' = [errand EXCEPT ![a] = [Reading("inspected") EXCEPT !.verdict = verdict]]
  /\ UNCHANGED <<signup, account, tokens, honoured>>

\* update_health_if_current_active.
RecordHealth(a) ==
  LET current == account.status = "active" /\ account.token = errand[a].token
                                           /\ account.verified = errand[a].verified
      failed == errand[a].verdict # "HEALTHY"
  IN
  /\ ErrandAt(a, "inspected")
  /\ account' = IF current
                  THEN [account EXCEPT !.health = errand[a].verdict,
                                       !.error = IF failed THEN "health" ELSE "none"]
                  ELSE account
  /\ Returns(a)
  /\ UNCHANGED <<signup, tokens, honoured>>

--------------------------------------------------------------------------------
\* Disconnection: WhatsAppDisconnectCoordinator.revoke.

\* _commit_local_disconnect: under the lock, the row is deactivated and forgets
\* its token.  A row that already did is left alone, and nothing follows.
Disconnect(a) ==
  /\ ErrandAt(a, "idle")
  /\ account.status = "active" \/ account.token # 0
  /\ account' = [account EXCEPT !.status = "inactive", !.token = 0,
                                !.health = "REAUTH_REQUIRED", !.error = "meta_revoke_pending"]
  /\ errand' = [errand EXCEPT ![a] = Reading("loading")]
  /\ UNCHANGED <<signup, tokens, honoured>>

\* _load_old_token: a failure is remembered, not raised.
LoadOldToken(a) ==
  /\ ErrandAt(a, "loading")
  /\ \E loaded \in BOOLEAN :
       /\ loaded => errand[a].token \in tokens
       /\ errand' = [errand EXCEPT ![a].at = "deleting", ![a].loaded = loaded]
  /\ UNCHANGED <<signup, account, tokens, honoured>>

\* _delete_old_secret: likewise.
DeleteOldSecret(a) ==
  /\ ErrandAt(a, "deleting")
  /\ \E deleted \in BOOLEAN :
       /\ deleted => errand[a].token \in tokens
       /\ tokens' = IF deleted THEN tokens \ {errand[a].token} ELSE tokens
       /\ errand' = [errand EXCEPT ![a] = IF errand[a].loaded
                                           THEN [@ EXCEPT !.at = "revoking", !.deleted = deleted]
                                           ELSE NoErrand]
  /\ UNCHANGED <<signup, account, honoured>>

\* revoke of the provider: an error says nothing of whether it took effect.
RevokeAtMeta(a) ==
  LET without == honoured \ {errand[a].token} IN
  /\ ErrandAt(a, "revoking")
  /\ \/ errand[a].deleted /\ Proceeds(a, "clearing") /\ honoured' = without
     \/ Returns(a) /\ honoured' \in {honoured, without}
  /\ UNCHANGED <<signup, account, tokens>>

\* Mutation: the row is inactive, so this disconnection must have been the last.
ClearAnyPending(a) ==
  /\ ErrandAt(a, "clearing")
  /\ account' = IF account.status = "inactive" THEN [account EXCEPT !.error = "none"] ELSE account
  /\ Returns(a)
  /\ UNCHANGED <<signup, tokens, honoured>>

\* _clear_pending_if_current_disconnect.
ClearPending(a) ==
  LET current == account.status = "inactive" /\ account.token = 0
                                             /\ account.verified = errand[a].verified
  IN
  /\ ErrandAt(a, "clearing")
  /\ account' = IF current THEN [account EXCEPT !.error = "none"] ELSE account
  /\ Returns(a)
  /\ UNCHANGED <<signup, tokens, honoured>>

--------------------------------------------------------------------------------
\* A request ends early: the process dies, or its transaction is rolled back.
StaffStops(a) ==
  /\ ~ErrandAt(a, "idle")
  /\ Returns(a)
  /\ UNCHANGED <<signup, account, tokens, honoured>>

AccountsNext ==
  \/ \E a \in Staff, c \in Clients : StartSignup(a, c)
  \/ \E a \in Staff, s \in Signups : ConsumeSignup(a, s)
  \/ \E a \in Staff : Exchange(a)
  \/ \E a \in Staff : Connect(a)
  \/ \E a \in Staff : RefuseConnection(a)
  \/ \E a \in Staff : Inspect(a)
  \/ \E a \in Staff : RecordHealth(a)
  \/ \E a \in Staff : Disconnect(a)
  \/ \E a \in Staff : LoadOldToken(a)
  \/ \E a \in Staff : DeleteOldSecret(a)
  \/ \E a \in Staff : RevokeAtMeta(a)
  \/ \E a \in Staff : ClearPending(a)
  \/ \E a \in Staff : StaffStops(a)

AccountsSpec == AccountsInit /\ [][AccountsNext]_accountVars

--------------------------------------------------------------------------------
\* Properties.

\* The shape of the row, of the states and of the requests.
AccountsTypeOK ==
  /\ account.status \in {"none", "active", "inactive"}
  /\ account.health \in {"UNKNOWN", "HEALTHY", "ERROR", "REAUTH_REQUIRED"}
  /\ account.error \in {"none", "health", "meta_revoke_pending"}
  /\ {account.token, account.verified} \subseteq {0} \cup Signups
  /\ tokens \cup honoured \subseteq Signups
  /\ \A a \in Staff : errand[a].signup \in {0} \cup Signups

\* Whatever signups, checks and disconnections overlap, an active number works
\* with the token of the authorization it was last verified with, which is in
\* the vault and was asked for by the tenant that has the number.
TokenCurrent ==
  account.status = "active" =>
    /\ account.token = account.verified
    /\ account.token \in tokens
    /\ account.client = signup[account.token].client

\* A number that is disconnected never looks healthy, and stops being reported
\* as pending only when Meta does not honour its last token any more and the
\* vault does not have it.
DisconnectionTold ==
  account.status = "inactive" =>
    /\ account.token = 0
    /\ account.health = "REAUTH_REQUIRED"
    /\ account.error # "meta_revoke_pending" => account.verified \notin tokens \cup honoured

\* Signups, health checks and disconnections that overlap leave a number that
\* works as it says, or one that is disconnected and says so.
NumberTruthful == TokenCurrent /\ DisconnectionTold
===============================================================================
