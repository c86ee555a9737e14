---------------------------- MODULE BrowserSessions ----------------------------
(***************************************************************************)
(* The password administrator and the browser sessions                     *)
(* (session-auth.ts), beside the agent connections whose database they     *)
(* share.  A bootstrap or a login waits for the hash of its password; what *)
(* it asked before may no longer hold when the hash is there.  A restore   *)
(* brings back the rows of a backup and revokes sessions and connections   *)
(* in one transaction (restore-worker.ts).                                 *)
(*                                                                         *)
(* An attempt makes at most one session, so a session has the name of its  *)
(* attempt.  The lock after too many failures only refuses a login, which  *)
(* is then not enabled; its counters are left out.                         *)
(***************************************************************************)
EXTENDS AgentConnections

CONSTANTS
    Attempts,     \* bounds the bootstraps and logins ever begun
    Tokens,       \* values of FORMASPEC_BOOTSTRAP_TOKEN_HASH
    Required,     \* requireBootstrapCredential: a server, not a local app
    IdleTTL,      \* SESSION_IDLE_MILLISECONDS
    AbsoluteTTL   \* SESSION_ABSOLUTE_MILLISECONDS

ASSUME SessionsAssumption ==
    Required \in BOOLEAN /\ IdleTTL \in Nat /\ AbsoluteTTL \in Nat

VARIABLES
    account,      \* whether password_accounts has its one row
    credential,   \* the row of bootstrap_credentials
    sessions,     \* sessions[l]: the row of browser_sessions that attempt l made
    attempts,     \* attempts[l]: what attempt l waits for
    configured,   \* the token hash this process was started with, in a set
    serving,      \* whether the process runs
    backup        \* account, credential and sessions as last backed up

database == <<account, credential, sessions>>
sessionVars == <<account, credential, sessions, attempts, configured, serving, backup>>

-----------------------------------------------------------------------------
CredentialRows ==
    [status : {"none"}] \cup [status : {"open", "consumed"}, token : Tokens]

SessionRows ==
    [status : {"none"}]
    \cup [status : {"live", "revoked"}, created : Nat, idle : Nat, expires : Nat]

AttemptRows ==
    [status : {"unused", "over"}]
    \cup [status : {"bootstrapping"}]
    \cup [status : {"checking"}, began : Nat, right : BOOLEAN]

MaybeToken == {{}} \cup {{t} : t \in Tokens}

LiveSession(l) == sessions[l].status = "live"

\* readSession and resolveAccess: what a request that carries the cookie is checked for.
Servable(l) ==
    /\ LiveSession(l)
    /\ sessions[l].idle > clock
    /\ sessions[l].expires > clock

AllRevoked(rows) ==
    [l \in Attempts |->
        IF rows[l].status = "live" THEN [rows[l] EXCEPT !.status = "revoked"]
        ELSE rows[l]]

\* prepareSession and insertPreparedSession
NewSession(at) ==
    [status |-> "live", created |-> at, idle |-> at + IdleTTL,
     expires |-> at + AbsoluteTTL]

Over(l) == attempts' = [attempts EXCEPT ![l] = [status |-> "over"]]

-----------------------------------------------------------------------------
(* The first administrator.                                                *)

\* bootstrap, before its hash and in its transaction: a configured token must
\* be the one the open credential names.
MayBootstrap ==
    /\ ~account
    /\ configured # {} =>
        credential.status = "open" /\ credential.token \in configured

BeginBootstrap(l) ==
    /\ serving
    /\ attempts[l].status = "unused"
    /\ MayBootstrap
    /\ attempts' = [attempts EXCEPT ![l] = [status |-> "bootstrapping"]]
    /\ UNCHANGED <<database, configured, serving, backup>>

\* The transaction of bootstrap asks again; the session begins after the hash.
FinishBootstrap(l) ==
    /\ serving
    /\ attempts[l].status = "bootstrapping"
    /\ MayBootstrap
    /\ account' = TRUE
    /\ credential' = IF configured = {} THEN credential
                     ELSE [credential EXCEPT !.status = "consumed"]
    /\ sessions' = [sessions EXCEPT ![l] = NewSession(clock)]
    /\ Over(l)
    /\ UNCHANGED <<configured, serving, backup>>

-----------------------------------------------------------------------------
(* Logins, requests and logouts.                                           *)

\* login reads the account and the clock before its hash.
BeginLogin(l, right) ==
    /\ serving
    /\ attempts[l].status = "unused"
    /\ attempts' = [attempts EXCEPT ![l] =
          [status |-> "checking", began |-> clock, right |-> account /\ right]]
    /\ UNCHANGED <<database, configured, serving, backup>>

\* CHECK(revoked_at >= created_at): a login that began before the session it
\* would revoke fails with the whole transaction.
Overtaken(l) ==
    \E k \in Attempts : LiveSession(k) /\ sessions[k].created > attempts[l].began

FinishLogin(l) ==
    /\ serving
    /\ attempts[l].status = "checking"
    /\ attempts[l].right
    /\ ~Overtaken(l)
    /\ sessions' = [AllRevoked(sessions) EXCEPT ![l] = NewSession(attempts[l].began)]
    /\ Over(l)
    /\ UNCHANGED <<account, credential, configured, serving, backup>>

RefuseAttempt(l) ==
    /\ serving
    /\ \/ attempts[l].status = "bootstrapping" /\ ~MayBootstrap
       \/ attempts[l].status = "checking" /\ (attempts[l].right => Overtaken(l))
    /\ Over(l)
    /\ UNCHANGED <<database, configured, serving, backup>>

Earlier(a, b) == IF a < b THEN a ELSE b

\* readSession: a use in time postpones the idle expiry, one too late revokes.
ReadSession(l) ==
    /\ serving
    /\ LiveSession(l)
    /\ sessions' = [sessions EXCEPT ![l] =
          IF Servable(l)
          THEN [@ EXCEPT !.idle = Earlier(clock + IdleTTL, sessions[l].expires)]
          ELSE [@ EXCEPT !.status = "revoked"]]
    /\ UNCHANGED <<account, credential, attempts, configured, serving, backup>>

Logout(l) ==
    /\ serving
    /\ LiveSession(l)
    /\ sessions' = [sessions EXCEPT ![l].status = "revoked"]
    /\ UNCHANGED <<account, credential, attempts, configured, serving, backup>>

-----------------------------------------------------------------------------
(* The process and its database.                                           *)

\* initializeBootstrapCredential.  It throws where this is not enabled.
StartServer(tokens) ==
    /\ ~serving
    /\ serving' = TRUE
    /\ configured' = tokens
    /\ \/ /\ account
          /\ credential' = IF credential.status = "open"
                           THEN [credential EXCEPT !.status = "consumed"]
                           ELSE credential
       \/ /\ ~account /\ tokens = {} /\ ~Required
          /\ UNCHANGED credential
       \/ /\ ~account /\ credential.status # "consumed"
          /\ \E t \in tokens : credential' = [status |-> "open", token |-> t]
    /\ UNCHANGED <<account, sessions, attempts, backup>>

\* Attempts that wait die with the process.
StopServer ==
    /\ serving
    /\ serving' = FALSE
    /\ attempts' = [l \in Attempts |->
          IF attempts[l].status = "unused" THEN attempts[l] ELSE [status |-> "over"]]
    /\ UNCHANGED <<database, configured, backup>>

TakeBackup ==
    /\ serving
    /\ backup' = database
    /\ UNCHANGED <<database, attempts, configured, serving>>

\* Mutant: the sessions of the backup are taken as they were.
RestoreSessions_AsSaved ==
    /\ ~serving
    /\ account' = backup[1]
    /\ credential' = backup[2]
    /\ sessions' = backup[3]
    /\ UNCHANGED <<attempts, configured, serving, backup>>

\* reconcileAfterRestore, with RestoreBackup of the connections.
RestoreSessions ==
    /\ ~serving
    /\ account' = backup[1]
    /\ credential' = backup[2]
    /\ sessions' = AllRevoked(backup[3])
    /\ UNCHANGED <<attempts, configured, serving, backup>>

-----------------------------------------------------------------------------
AccessInit ==
    /\ Init
    /\ account = FALSE
    /\ credential = [status |-> "none"]
    /\ sessions = [l \in Attempts |-> [status |-> "none"]]
    /\ attempts = [l \in Attempts |-> [status |-> "unused"]]
    /\ configured = {}
    /\ serving = FALSE
    /\ backup = <<FALSE, [status |-> "none"], [l \in Attempts |-> [status |-> "none"]]>>

SessionOperation ==
    \/ \E l \in Attempts :
        \/ BeginBootstrap(l)
        \/ FinishBootstrap(l)
        \/ \E right \in BOOLEAN : BeginLogin(l, right)
        \/ FinishLogin(l)
        \/ RefuseAttempt(l)
        \/ ReadSession(l)
        \/ Logout(l)
    \/ \E tokens \in MaybeToken : StartServer(tokens)
    \/ StopServer
    \/ TakeBackup

AccessNext ==
    \/ serving /\ ConnectionOperation /\ UNCHANGED sessionVars
    \/ SessionOperation /\ UNCHANGED vars
    \/ \E kept \in SUBSET Connections : RestoreBackup(kept) /\ RestoreSessions
    \/ Tick /\ UNCHANGED sessionVars

AccessSpec == AccessInit /\ [][AccessNext]_<<vars, sessionVars>>

-----------------------------------------------------------------------------
\* Every variable has its type, and so has what was backed up.
AccessTypeOK ==
    /\ TypeOK
    /\ account \in BOOLEAN
    /\ credential \in CredentialRows
    /\ sessions \in [Attempts -> SessionRows]
    /\ attempts \in [Attempts -> AttemptRows]
    /\ configured \in MaybeToken
    /\ serving \in BOOLEAN
    /\ backup \in BOOLEAN \X CredentialRows \X [Attempts -> SessionRows]

\* The account is the one the credential was consumed for, so that the start
\* of a process never has to refuse its own database ("Bootstrap authorization
\* is consumed without a persisted password administrator account").
BootstrapSound(made, cred) ==
    /\ cred.status = "consumed" => made
    /\ Required /\ made => cred.status = "consumed"

\* However bootstraps and logins overlap, one session at most is live.
OneSession ==
    \A l, k \in Attempts : LiveSession(l) /\ LiveSession(k) => l = k

AccessInv ==
    /\ OneSession
    /\ BootstrapSound(account, credential)
    /\ ~account => \A l \in Attempts : sessions[l].status = "none"

\* A session that has ended, by logout, by a later login, by time, or with the
\* database it was in, is never served again, whatever is restored.
EndedStaysEnded ==
    \A l \in Attempts :
        attempts[l].status = "over" /\ ~Servable(l) => ~Servable(l)'

\* What session-auth.ts keeps over its awaits, restarts and restores.
SessionsSound == []AccessInv /\ [][EndedStaysEnded]_<<vars, sessionVars>>
=================================================================================
