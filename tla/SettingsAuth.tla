---------------------------- MODULE SettingsAuth ----------------------------
(***************************************************************************)
(* The settings document and UI authentication: PUT /settings              *)
(* (internal/api/v1/settings.go), login and session                        *)
(* (internal/api/v1/auth.go, internal/settings/session.go), the gate       *)
(* RequireAuth (internal/api/middleware.go) and the singleton row they     *)
(* share (internal/storage/sqlite/settings.go).                            *)
(*                                                                         *)
(* The row is read and written whole, by one statement each, and never in  *)
(* a transaction: every request works on its own copy of the document.     *)
(* A password hash is modelled by the password it verifies, a signed       *)
(* session by the secret and the name it was signed with, the notification *)
(* channels and disabled resolvers by one opaque value.                    *)
(***************************************************************************)
EXTENDS Integers, FiniteSets

CONSTANTS
    Requests,     \* HTTP requests that may be in flight together
    Users,        \* user names, the empty one excluded
    BarNames,     \* the user names with a "|" in them
    Passwords,    \* passwords, the empty one excluded
    Rests,        \* contents of the other settings
    DefaultRest,  \* the other settings of settings.Default
    Empty,        \* the empty string
    MaxSecrets    \* bound on the secrets that GenerateToken makes

ASSUME EmptyAssumption == Empty \notin Users /\ Empty \notin Passwords
ASSUME BarAssumption == BarNames \subseteq Users
ASSUME RestAssumption == DefaultRest \in Rests
ASSUME SecretsAssumption == MaxSecrets \in Nat

VARIABLES
    doc,        \* the stored document
    req,        \* state of each request
    sessions,   \* session cookies handed out and not expired
    secrets,    \* number of secrets generated
    stale,      \* requests whose copy predates the latest write (history)
    clobbered   \* a stale copy has been written (history)

vars == <<doc, req, sessions, secrets, stale, clobbered>>

\* Secret 0 is the empty secret.
Document == [enabled : BOOLEAN, username : Users \cup {Empty},
             password : Passwords \cup {Empty}, secret : 0..MaxSecrets, rest : Rests]

\* A session is signed with a secret that is not empty, for a user that has a name.
Session == [secret : 1..MaxSecrets, name : Users]

Default == [enabled |-> FALSE, username |-> Empty, password |-> Empty, secret |-> 0,
            rest |-> DefaultRest]

\* A request: its cookie (at most one session), the fields of its body and its own
\* copy of the document.
Request == [pc : {"idle", "gate", "load", "save", "login", "saveSecret"},
            cookie : SUBSET Session, body : Document, copy : Document]

TypeOK ==
    /\ doc \in Document
    /\ req \in [Requests -> Request]
    /\ sessions \subseteq Session
    /\ secrets \in 0..MaxSecrets
    /\ stale \subseteq Requests
    /\ clobbered \in BOOLEAN

Init ==
    /\ doc = Default
    /\ req = [c \in Requests |-> [pc |-> "idle", cookie |-> {}, body |-> Default,
                                  copy |-> Default]]
    /\ sessions = {}
    /\ secrets = 0
    /\ stale = {}
    /\ clobbered = FALSE

\* The request is answered; what it held is gone.
Answered(c) ==
    req' = [req EXCEPT ![c] = [pc |-> "idle", cookie |-> {}, body |-> Default,
                               copy |-> Default]]

Arrive(c, pc, cookie, body) ==
    /\ req[c].pc = "idle"
    /\ req' = [req EXCEPT ![c] = [pc |-> pc, cookie |-> cookie, body |-> body,
                                  copy |-> Default]]

\* GetSettings fails: the gate denies, the handlers answer 500.
ReadFails(c) ==
    /\ req[c].pc \in {"gate", "load", "login"}
    /\ Answered(c)
    /\ UNCHANGED <<doc, sessions, secrets, stale, clobbered>>

-----------------------------------------------------------------------------
(* PUT /settings: the gate, then the handler.                              *)

Body(enabled, username, password, rest) ==
    [enabled |-> enabled, username |-> username, password |-> password, secret |-> 0,
     rest |-> rest]

PutSettings(c) ==
    /\ \E cookie \in {{}} \cup {{s} : s \in sessions}, enabled \in BOOLEAN,
          username \in Users \cup {Empty}, password \in Passwords \cup {Empty},
          rest \in Rests :
          Arrive(c, "gate", cookie, Body(enabled, username, password, rest))
    /\ UNCHANGED <<doc, sessions, secrets, stale, clobbered>>

\* ParseSession under the stored secret: the signature matches, the payload splits at
\* its first "|" into a name and a number, and that expiry has not passed.
ParseSession(secret, s) == s.secret = secret /\ s.name \notin BarNames /\ s \in sessions

\* RequireAuth: passes when authentication is off or the cookie carries a session of
\* the stored user.
RequireAuth(c) ==
    /\ req[c].pc = "gate"
    /\ \/ /\ \/ ~doc.enabled
             \/ \E s \in req[c].cookie :
                   ParseSession(doc.secret, s) /\ s.name = doc.username
          /\ req' = [req EXCEPT ![c].pc = "load", ![c].cookie = {}]
       \/ /\ doc.enabled
          /\ ~ \E s \in req[c].cookie :
                   ParseSession(doc.secret, s) /\ s.name = doc.username
          /\ Answered(c)
    /\ UNCHANGED <<doc, sessions, secrets, stale, clobbered>>

\* Mutant of Merge: the document is built anew from the body.
MergeFresh(d, body) ==
    [body EXCEPT !.password = IF body.password = Empty THEN d.password ELSE body.password]

\* The copy that the body turns the document d into.  An empty password keeps the
\* stored one; the session secret is not part of the body.
Merge(d, body) ==
    [d EXCEPT !.enabled = body.enabled,
              !.username = body.username,
              !.password = IF body.password = Empty THEN d.password ELSE body.password,
              !.rest = body.rest]

Credentials(d) == d.username # Empty /\ d.password # Empty

\* Mutant of UpdateSettings: credentials are demanded of the stored document only.
UpdateSettingsChecksStored(c) ==
    /\ req[c].pc = "load"
    /\ LET merged == Merge(doc, req[c].body)
       IN  \/ /\ ~(doc.enabled /\ ~Credentials(doc))
              /\ req' = [req EXCEPT ![c].pc = "save", ![c].copy = merged]
    /\ UNCHANGED <<doc, sessions, secrets, stale, clobbered>>

\* UpdateSettings: read, merge, refuse to enable without credentials.
UpdateSettings(c) ==
    /\ req[c].pc = "load"
    /\ LET merged == Merge(doc, req[c].body)
       IN  \/ /\ ~(merged.enabled /\ ~Credentials(merged))
              /\ req' = [req EXCEPT ![c].pc = "save", ![c].copy = merged]
           \/ merged.enabled /\ ~Credentials(merged) /\ Answered(c)
    /\ UNCHANGED <<doc, sessions, secrets, stale, clobbered>>

\* The write of c's copy: the copies that others hold are older than the row now.
Overwrite(c) ==
    /\ doc' = req[c].copy
    /\ stale' = {d \in Requests \ {c} : req[d].pc \in {"save", "saveSecret"}}
    /\ clobbered' = (clobbered \/ c \in stale)

WriteFails(c) == stale' = stale \ {c} /\ UNCHANGED <<doc, clobbered>>

\* SaveSettings of the copy; an error is answered with 500.
SaveSettings(c) ==
    /\ req[c].pc = "save"
    /\ Answered(c)
    /\ Overwrite(c) \/ WriteFails(c)
    /\ UNCHANGED <<sessions, secrets>>

-----------------------------------------------------------------------------
(* POST /auth/login.                                                       *)

PostLogin(c) ==
    /\ \E username \in Users \cup {Empty}, password \in Passwords \cup {Empty} :
          Arrive(c, "login", {}, Body(FALSE, username, password, DefaultRest))
    /\ UNCHANGED <<doc, sessions, secrets, stale, clobbered>>

SignSession(secret, name) == [secret |-> secret, name |-> name]

\* An empty hash verifies nothing.
VerifySecret(password, hash) == hash # Empty /\ password = hash

Accepted(d, body) ==
    /\ d.enabled
    /\ body.username = d.username
    /\ VerifySecret(body.password, d.password)

\* Mutant of Login: no secret is generated, the first session is signed without one.
LoginWithoutSecret(c) ==
    /\ req[c].pc = "login"
    /\ \/ /\ Accepted(doc, req[c].body)
          /\ sessions' = sessions \cup {SignSession(doc.secret, doc.username)}
       \/ ~Accepted(doc, req[c].body) /\ UNCHANGED sessions
    /\ Answered(c)
    /\ UNCHANGED <<doc, secrets, stale, clobbered>>

\* Mutant of Login: the secret is persisted in a document that holds nothing else.
LoginSavesSecretOnly(c) ==
    /\ req[c].pc = "login"
    /\ \/ /\ Accepted(doc, req[c].body) /\ doc.secret = 0 /\ secrets < MaxSecrets
          /\ secrets' = secrets + 1
          /\ req' = [req EXCEPT ![c].pc = "saveSecret",
                                ![c].copy = [Default EXCEPT !.secret = secrets + 1]]
          /\ UNCHANGED sessions
       \/ /\ Accepted(doc, req[c].body) /\ doc.secret # 0
          /\ sessions' = sessions \cup {SignSession(doc.secret, doc.username)}
          /\ Answered(c)
          /\ UNCHANGED secrets
    /\ UNCHANGED <<doc, stale, clobbered>>

\* Login reads the document and verifies the credentials; the first login generates
\* a signing secret and has it saved before it signs, later ones sign at once.
Login(c) ==
    /\ req[c].pc = "login"
    /\ \/ /\ Accepted(doc, req[c].body) /\ doc.secret = 0 /\ secrets < MaxSecrets
          /\ secrets' = secrets + 1
          /\ req' = [req EXCEPT ![c].pc = "saveSecret",
                                ![c].copy = [doc EXCEPT !.secret = secrets + 1]]
          /\ UNCHANGED sessions
       \/ /\ Accepted(doc, req[c].body) /\ doc.secret # 0
          /\ sessions' = sessions \cup {SignSession(doc.secret, doc.username)}
          /\ Answered(c)
          /\ UNCHANGED secrets
       \/ ~Accepted(doc, req[c].body) /\ Answered(c) /\ UNCHANGED <<sessions, secrets>>
    /\ UNCHANGED <<doc, stale, clobbered>>

\* SaveSettings of the copy with the new secret, then the signed cookie; on an error
\* there is no session.
SaveSecret(c) ==
    /\ req[c].pc = "saveSecret"
    /\ \/ /\ Overwrite(c)
          /\ sessions' = sessions \cup {SignSession(req[c].copy.secret, req[c].copy.username)}
       \/ WriteFails(c) /\ UNCHANGED sessions
    /\ Answered(c)
    /\ UNCHANGED secrets

-----------------------------------------------------------------------------
\* The expiry in a session passes.
Expire ==
    /\ \E s \in sessions : sessions' = sessions \ {s}
    /\ UNCHANGED <<doc, req, secrets, stale, clobbered>>

Next ==
    \/ \E c \in Requests :
          \/ PutSettings(c) \/ RequireAuth(c) \/ UpdateSettings(c) \/ SaveSettings(c)
          \/ PostLogin(c) \/ Login(c) \/ SaveSecret(c)
          \/ ReadFails(c)
    \/ Expire

Spec == Init /\ [][Next]_vars

-----------------------------------------------------------------------------
(* Properties.                                                             *)

(* The stored document never demands a login that nobody can make: when    *)
(* authentication is enabled a user name and a password are set ("A        *)
(* username and password are required to enable authentication"), although *)
(* requests check their own copy and write it over whatever was stored in  *)
(* the meantime.                                                           *)
EnabledHasCredentials == doc.enabled => Credentials(doc)

(* A session that was handed out and has not expired passes ParseSession   *)
(* under the stored secret, for as long as no request has written a copy   *)
(* older than the row: logins and updates that merely overlap, fail or run *)
(* one after the other never lose the secret.  The exception is a user     *)
(* whose name holds the separator of the payload: the gate cannot split it *)
(* and refuses every session of that user.                                 *)
SessionsHold ==
    ~clobbered => \A s \in sessions : s.name \in BarNames \/ ParseSession(doc.secret, s)

(* Comment in Login, "Lazily generate and persist a signing secret on      *)
(* first login": the secret that signed a session handed out stays the one *)
(* in the store.                                                           *)
SecretKept == \A s \in sessions : s.secret = doc.secret

(* A login that saves a copy which is not stale changes nothing in the     *)
(* stored document but the session secret, whatever other requests read or *)
(* failed to write while it ran.                                           *)
LoginKeepsSettings ==
    [][\A c \in Requests \ stale : req[c].pc = "saveSecret" /\ req'[c].pc = "idle" =>
          doc' = [doc EXCEPT !.secret = doc'.secret]]_vars
=============================================================================
