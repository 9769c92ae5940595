----------------------------- MODULE Connections -----------------------------
(***************************************************************************)
(* One connection of a tenant to a provider, with its credential in the    *)
(* vault: authorization with OAuth or with a key, refresh, health checks,  *)
(* the lease under which connectors run, revocation, and the rotation of   *)
(* the key that wraps the vault's envelopes.                               *)
(*                                                                         *)
(* Every request locks the row of the connection for as long as it is at   *)
(* work, calls to the provider included, so a transaction is one step.     *)
(* Authorizing and revoking take two transactions, and what happens        *)
(* between them is anybody's.  A transaction that does not commit leaves   *)
(* only what it did at the provider.                                       *)
(***************************************************************************)
EXTENDS Naturals, FiniteSets

CONSTANTS
  Admins,            \* administrators, each with one request at a time
  MaxAuthorizations, \* bound: versions of the authorization
  MaxSecrets         \* bound: envelopes in the vault at a time

ASSUME ConnectionsAssumption == {MaxAuthorizations, MaxSecrets} \subseteq Nat

Authorizations == 0 .. MaxAuthorizations
Secrets == 1 .. MaxSecrets

\* The version of the key-encryption key that wraps an envelope.
KeyVersions == {"old", "new"}

VARIABLES
  authKind,    \* OAUTH2 or API_KEY
  connection,  \* public.integration_connections
  oauthState,  \* integration_oauth_states, by the authorization they belong to
  vault,       \* public.secret_envelopes
  masterKey,   \* the key the running processes have
  pending,     \* what is between the two transactions of each administrator
  deadGrants,  \* grants the provider does not honour any more
  forsaken,    \* history: the envelope a privacy job left behind
  revokedAt    \* history: the version of the authorization at the last revocation

connectionVars == <<authKind, connection, oauthState, vault, masterKey, pending, deadGrants,
                    forsaken, revokedAt>>

Absent == [key |-> "none", grant |-> 0]
NoState == [state |-> "none", verifier |-> 0, by |-> "none"]
NoRequest == [at |-> "idle", authorization |-> 0]

ConnectionsInit ==
  /\ authKind \in {"OAUTH2", "API_KEY"}
  /\ connection = [status |-> "none", version |-> 0, secret |-> 0, health |-> "UNKNOWN"]
  /\ oauthState = [v \in Authorizations |-> NoState]
  /\ vault = [s \in Secrets |-> Absent]
  /\ masterKey = "old"
  /\ pending = [a \in Admins |-> NoRequest]
  /\ deadGrants = {}
  /\ forsaken = {}
  /\ revokedAt = 0

--------------------------------------------------------------------------------
\* The vault.

\* encrypt: an envelope is wrapped with the key the process has.
Envelope(grant) == [key |-> masterKey, grant |-> grant]

\* store: an envelope of its own.
Fresh == CHOOSE s \in Secrets : vault[s] = Absent
HasRoom == \E s \in Secrets : vault[s] = Absent
Stored(grant, envelopes) == [envelopes EXCEPT ![Fresh] = Envelope(grant)]

\* load: an envelope that the process's key does not open is refused, which ends
\* the transaction.
Unwraps(s) == s # 0 /\ vault[s].key = masterKey

\* delete.
Without(s, envelopes) == [envelopes EXCEPT ![s] = Absent]

\* rotate_tenant_keys: one batch, of the envelopes nobody has locked.
RotateKeys ==
  /\ \E batch \in (SUBSET {s \in Secrets : vault[s].key = "old"}) \ {{}} :
       vault' = [s \in Secrets |-> IF s \in batch THEN [vault[s] EXCEPT !.key = "new"]
                                                  ELSE vault[s]]
  /\ UNCHANGED <<authKind, forsaken, connection, oauthState, masterKey, pending, deadGrants,
                  revokedAt>>

\* The processes are started again with the new key.
Redeploy ==
  /\ masterKey' = "new"
  /\ UNCHANGED <<authKind, forsaken, connection, oauthState, vault, pending, deadGrants,
                  revokedAt>>

--------------------------------------------------------------------------------
\* The provider.

Grant == IF connection.secret = 0 THEN 0 ELSE vault[connection.secret].grant

\* provider_failure_health: what a call that failed says about the connection.
\* A grant that is not honoured is never answered with success.
Failures == {"REAUTH_REQUIRED", "ERROR"}
Replies(grant) == Failures \cup IF grant \in deadGrants THEN {} ELSE {"HEALTHY"}

\* The customer takes the grant back; or a refresh replaced it and the
\* transaction that would have stored the new one did not commit.
GrantDies ==
  /\ connection.secret # 0
  /\ deadGrants' = deadGrants \cup {Grant}
  /\ UNCHANGED <<authKind, forsaken, connection, oauthState, vault, masterKey, pending,
                  revokedAt>>

--------------------------------------------------------------------------------
\* Requests of one transaction.

\* _replace_credential: the new envelope is stored, the row saved, and then the
\* old envelope deleted.
ReplaceCredential(grant, envelopes, row) ==
  /\ HasRoom
  /\ connection' = [row EXCEPT !.status = "CONNECTED", !.health = "HEALTHY", !.secret = Fresh]
  /\ vault' = LET stored == Stored(grant, envelopes)
              IN  IF row.secret = 0 THEN stored ELSE Without(row.secret, stored)

\* The envelope of a credential that is replaced can be opened.
Replaceable == connection.secret = 0 \/ Unwraps(connection.secret)

\* insert_state: the state of an authorization and where its verifier is.
Awaiting(a, secret) == [state |-> "open", verifier |-> secret, by |-> a]

\* An administrator whose last request is over.
Free(a) == pending[a] = NoRequest

\* start_oauth: for a new connection or an old one.
StartOAuth(a) ==
  /\ Free(a)
  /\ authKind = "OAUTH2"
  /\ connection.status # "REVOKING"
  /\ connection.version < MaxAuthorizations
  /\ HasRoom
  /\ connection' = [connection EXCEPT !.status = "PENDING", !.version = @ + 1,
                                      !.health = "UNKNOWN"]
  /\ vault' = Stored(0, vault)
  /\ oauthState' = [oauthState EXCEPT ![connection'.version] = Awaiting(a, Fresh)]
  /\ UNCHANGED <<authKind, forsaken, masterKey, pending, deadGrants, revokedAt>>

\* connect_api_key: the key is tried before it is stored.  Its grant is named by
\* the version it was connected in; a new key is another one than any before it.
ConnectApiKey(a) ==
  /\ Free(a)
  /\ authKind = "API_KEY"
  /\ connection.status # "REVOKING"
  /\ \/ /\ Replaceable
        /\ ReplaceCredential(connection.version, vault, connection)
        /\ deadGrants' = deadGrants \ {connection.version}
     \/ /\ \E health \in Failures :
             connection' = [connection EXCEPT !.status = "REAUTH_REQUIRED", !.health = health]
        /\ UNCHANGED <<vault, deadGrants>>
  /\ UNCHANGED <<authKind, forsaken, oauthState, masterKey, pending, revokedAt>>

\* Whether a credential that a call was refused with must be authorized again.
Failed(health, expired) ==
  [connection EXCEPT !.health = health,
                     !.status = IF health = "REAUTH_REQUIRED" \/ expired
                                  THEN "REAUTH_REQUIRED" ELSE @]

\* refresh: the same grant, in a new envelope.
Refresh(a) ==
  /\ Free(a)
  /\ authKind = "OAUTH2"
  /\ connection.status \in {"CONNECTED", "REAUTH_REQUIRED"}
  /\ Unwraps(connection.secret)
  /\ \E answer \in Replies(Grant), expired \in BOOLEAN :
       IF answer = "HEALTHY"
         THEN ReplaceCredential(Grant, vault, connection)
         ELSE connection' = Failed(answer, expired) /\ UNCHANGED vault
  /\ UNCHANGED <<authKind, forsaken, oauthState, masterKey, pending, deadGrants, revokedAt>>

\* check_health: an expired credential is not tried.
CheckHealth(a) ==
  /\ Free(a)
  /\ connection.status = "CONNECTED"
  /\ \/ /\ authKind = "OAUTH2"
        /\ connection' = Failed("REAUTH_REQUIRED", TRUE)
     \/ /\ Unwraps(connection.secret)
        /\ \E answer \in Replies(Grant) : connection' = Failed(answer, FALSE)
  /\ UNCHANGED <<authKind, forsaken, oauthState, vault, masterKey, pending, deadGrants,
                  revokedAt>>

\* execute_connector: a credential about to expire is refreshed first, and a
\* failure of that ends the call; a result may say that the grant is gone.
ExecuteConnector ==
  /\ connection.status = "CONNECTED"
  /\ Unwraps(connection.secret)
  /\ \/ /\ authKind = "OAUTH2"
        /\ \E answer \in Replies(Grant) :
             IF answer = "HEALTHY"
               THEN ReplaceCredential(Grant, vault, connection)
               ELSE connection' = Failed(answer, FALSE) /\ UNCHANGED vault
     \/ /\ connection' = Failed("REAUTH_REQUIRED", FALSE)
        /\ UNCHANGED vault
  /\ UNCHANGED <<authKind, forsaken, oauthState, masterKey, pending, deadGrants, revokedAt>>

--------------------------------------------------------------------------------
\* Authorization.

\* consume_state, in a transaction of its own, by the administrator it was made
\* for: it is used once, whatever becomes of the rest.
ConsumeState(a, v) ==
  /\ Free(a)
  /\ oauthState[v].state = "open"
  /\ oauthState[v].by = a
  /\ oauthState' = [oauthState EXCEPT ![v].state = "consumed"]
  /\ pending' = [pending EXCEPT ![a] = [at |-> "authorizing", authorization |-> v]]
  /\ UNCHANGED <<authKind, forsaken, connection, vault, masterKey, deadGrants, revokedAt>>

\* Mutation: any authorization that is awaited will do.
AwaitedAny(v) == connection.status = "PENDING" /\ v <= connection.version

\* The connection awaits this authorization, and not a later one.
Awaited(v) == connection.status = "PENDING" /\ connection.version = v

Done(a) == pending' = [pending EXCEPT ![a] = NoRequest]

\* complete_oauth after the state was consumed: the verifier is taken from the
\* vault, and the code exchanged if it is still awaited.
CompleteOAuth(a) ==
  LET v == pending[a].authorization
      verifier == oauthState[v].verifier
  IN
  /\ pending[a].at = "authorizing"
  /\ Unwraps(verifier)
  /\ oauthState' = [oauthState EXCEPT ![v].verifier = 0]
  /\ \/ /\ ~Awaited(v)
        /\ vault' = Without(verifier, vault)
        /\ UNCHANGED connection
     \/ /\ Awaited(v)
        /\ Replaceable
        /\ ReplaceCredential(v, Without(verifier, vault), connection)
     \/ /\ Awaited(v)
        /\ \E health \in Failures :
             connection' = [connection EXCEPT !.status = "REAUTH_REQUIRED", !.health = health]
        /\ vault' = Without(verifier, vault)
  /\ Done(a)
  /\ UNCHANGED <<authKind, forsaken, masterKey, deadGrants, revokedAt>>

--------------------------------------------------------------------------------
\* Revocation.

\* revoke: the connection is disabled first.
BeginRevoke(a) ==
  /\ Free(a)
  /\ connection.status \notin {"none", "REVOKED"}
  /\ connection.version < MaxAuthorizations
  /\ connection' = [connection EXCEPT !.status = "REVOKING", !.version = @ + 1,
                                      !.health = "ERROR"]
  /\ revokedAt' = connection.version + 1
  /\ pending' = [pending EXCEPT ![a] = [NoRequest EXCEPT !.at = "revoking"]]
  /\ UNCHANGED <<authKind, forsaken, oauthState, vault, masterKey, deadGrants>>

\* The second transaction revokes what the connection has by then, whatever its
\* status, unless it is revoked already.
EndRevoke(a) ==
  /\ pending[a].at = "revoking"
  /\ Done(a)
  /\ \/ /\ connection.status = "REVOKED"
        /\ UNCHANGED <<connection, vault, deadGrants>>
     \/ /\ connection.status # "REVOKED"
        /\ connection.secret # 0 => Unwraps(connection.secret)
        /\ connection' = [connection EXCEPT !.status = "REVOKED", !.health = "REAUTH_REQUIRED",
                                            !.secret = 0]
        /\ deadGrants' = IF connection.secret = 0 THEN deadGrants ELSE deadGrants \cup {Grant}
        /\ vault' = IF connection.secret = 0 THEN vault ELSE Without(connection.secret, vault)
     \/ /\ connection.status # "REVOKED"
        /\ Unwraps(connection.secret)
        /\ \E health \in Failures : connection' = [connection EXCEPT !.health = health]
        /\ UNCHANGED <<vault, deadGrants>>
  /\ UNCHANGED <<authKind, forsaken, oauthState, masterKey, revokedAt>>

\* A privacy job revokes the integrations of the tenant: the rows, in one
\* statement that neither asks the provider nor looks at the vault.
PrivacyRevokes ==
  /\ connection.status \notin {"none", "REVOKED"}
  /\ forsaken = {}
  /\ connection' = [connection EXCEPT !.status = "REVOKED", !.secret = 0]
  /\ forsaken' = {connection.secret}
  /\ revokedAt' = IF authKind = "OAUTH2" THEN connection.version + 1 ELSE connection.version
  /\ UNCHANGED <<authKind, oauthState, vault, masterKey, pending, deadGrants>>

\* The process dies, or the transaction fails, between the two.
AdminDies(a) ==
  /\ ~Free(a)
  /\ Done(a)
  /\ UNCHANGED <<authKind, forsaken, connection, oauthState, vault, masterKey, deadGrants,
                  revokedAt>>

ConnectionsNext ==
  \/ RotateKeys
  \/ Redeploy
  \/ GrantDies
  \/ ExecuteConnector
  \/ PrivacyRevokes
  \/ \E a \in Admins : StartOAuth(a)
  \/ \E a \in Admins : ConnectApiKey(a)
  \/ \E a \in Admins : Refresh(a)
  \/ \E a \in Admins : CheckHealth(a)
  \/ \E a \in Admins, v \in Authorizations : ConsumeState(a, v)
  \/ \E a \in Admins : CompleteOAuth(a)
  \/ \E a \in Admins : BeginRevoke(a)
  \/ \E a \in Admins : EndRevoke(a)
  \/ \E a \in Admins : AdminDies(a)

ConnectionsSpec == ConnectionsInit /\ [][ConnectionsNext]_connectionVars

--------------------------------------------------------------------------------
\* Properties.

\* The shape of the rows and of the requests between their transactions.
ConnectionsTypeOK ==
  /\ connection.status \in
       {"none", "PENDING", "CONNECTED", "REAUTH_REQUIRED", "REVOKING", "REVOKED"}
  /\ connection.version \in Authorizations
  /\ connection.secret \in {0} \cup Secrets
  /\ connection.health \in {"UNKNOWN", "HEALTHY", "ERROR", "REAUTH_REQUIRED"}
  /\ \A v \in Authorizations : oauthState[v].state \in {"none", "open", "consumed"}
  /\ \A s \in Secrets : vault[s].key \in KeyVersions \cup {"none"}
  /\ \A a \in Admins : pending[a].at \in {"idle", "authorizing", "revoking"}
  /\ deadGrants \subseteq Authorizations

\* However requests, rotations and deaths interleave, the vault holds exactly
\* the credential of the connection and the verifiers of authorizations that
\* were not completed: none is missing, and no envelope is left behind but the
\* one whose reference a privacy job cleared.
SecretsAccounted ==
  {s \in Secrets : vault[s] # Absent} =
    ({connection.secret} \cup {oauthState[v].verifier : v \in Authorizations}
      \cup forsaken) \ {0}

\* "Refresh and reconnect cannot revive a connection": a connection that works
\* does so with a grant that was asked for after the last revocation.
RevocationHolds == connection.status = "CONNECTED" => Grant >= revokedAt

\* Whatever is requested, dies or is rotated between two transactions: the vault
\* and the rows that refer to it agree, and no authorization from before a
\* revocation makes the connection work again.
ConnectionsSafe == SecretsAccounted /\ RevocationHolds
==============================================================================
