------------------------- MODULE SettingsAuthProofs -------------------------
(***************************************************************************)
(* Proofs about SettingsAuth, for any number of concurrent requests.       *)
(*                                                                         *)
(* EnabledHasCredentials is made inductive by what holds of the copies in  *)
(* flight: a request that is about to save holds a document that passed    *)
(* the check of UpdateSettings, or one that Login read while it was        *)
(* enabled, and it is written whole.  SessionsHold rests on Signed, which  *)
(* needs to know further what a copy that is not stale shares with the     *)
(* row: a settings update carries the stored secret, and a login that      *)
(* brings a new one found none in the row, so that no session can depend   *)
(* on it.                                                                  *)
(***************************************************************************)
EXTENDS SettingsAuth, TLAPS

CopiesChecked ==
    \A c \in Requests :
        /\ req[c].pc \in {"save", "saveSecret"} /\ req[c].copy.enabled
              => Credentials(req[c].copy)
        /\ req[c].pc = "saveSecret" => req[c].copy.enabled /\ req[c].copy.secret # 0

FreshCopies ==
    \A c \in Requests \ stale :
        /\ req[c].pc = "save" => req[c].copy.secret = doc.secret
        /\ req[c].pc = "saveSecret" =>
              doc.secret = 0 /\ req[c].copy = [doc EXCEPT !.secret = req[c].copy.secret]

Signed == ~clobbered => \A s \in sessions : s.secret = doc.secret

Inv ==
    /\ TypeOK
    /\ CopiesChecked
    /\ EnabledHasCredentials
    /\ FreshCopies
    /\ Signed

(* The document a fresh store returns is a document.                       *)
LEMMA DefaultTyped == Default \in Document
BY RestAssumption, SecretsAssumption DEF Default, Document

(* Bodies of requests are typed.                                           *)
LEMMA BodyTyped ==
  ASSUME NEW e \in BOOLEAN, NEW u \in Users \cup {Empty}, NEW p \in Passwords \cup {Empty},
         NEW r \in Rests
  PROVE  Body(e, u, p, r) \in Document
BY SecretsAssumption DEF Body, Document

(* Merging a body into a document gives a document.                        *)
LEMMA MergeTyped ==
  ASSUME NEW d \in Document, NEW b \in Document
  PROVE  Merge(d, b) \in Document
BY DEF Merge, Document

(* A session signed from an enabled document with a secret is typed.       *)
LEMMA SessionTyped ==
  ASSUME NEW d \in Document, d.secret # 0, Credentials(d)
  PROVE  SignSession(d.secret, d.username) \in Session
BY SecretsAssumption DEF SignSession, Session, Document, Credentials

(* Replacing the state of one request by a typed one keeps the types.      *)
LEMMA ReqTyped ==
  ASSUME req \in [Requests -> Request], NEW c \in Requests, NEW q \in Request,
         req' = [req EXCEPT ![c] = q]
  PROVE  req' \in [Requests -> Request] /\ req'[c] = q
         /\ \A d \in Requests \ {c} : req'[d] = req[d]
OBVIOUS

(* An answered request is idle and the others are as they were.            *)
LEMMA AnsweredFacts ==
  ASSUME TypeOK, NEW c \in Requests, Answered(c)
  PROVE  /\ req' \in [Requests -> Request]
         /\ CopiesChecked => CopiesChecked'
         /\ req'[c].pc = "idle"
         /\ \A d \in Requests \ {c} : req'[d] = req[d]
<1> DEFINE q == [pc |-> "idle", cookie |-> {}, body |-> Default, copy |-> Default]
<1>1. q \in Request
  BY DefaultTyped DEF Request
<1>2. req' \in [Requests -> Request] /\ req'[c] = q
      /\ \A d \in Requests \ {c} : req'[d] = req[d]
  BY <1>1, ReqTyped DEF TypeOK, Answered
<1> QED
  BY <1>2 DEF CopiesChecked

(* A request that arrives holds no checked copy yet.                       *)
LEMMA ArriveFacts ==
  ASSUME TypeOK, NEW c \in Requests, NEW pc \in {"gate", "login"},
         NEW cookie \in SUBSET Session, NEW body \in Document,
         Arrive(c, pc, cookie, body)
  PROVE  /\ req' \in [Requests -> Request]
         /\ CopiesChecked => CopiesChecked'
         /\ req'[c].pc = pc
         /\ \A d \in Requests \ {c} : req'[d] = req[d]
<1> DEFINE q == [pc |-> pc, cookie |-> cookie, body |-> body, copy |-> Default]
<1>1. q \in Request
  BY DefaultTyped DEF Request
<1>2. req' \in [Requests -> Request] /\ req'[c] = q
      /\ \A d \in Requests \ {c} : req'[d] = req[d]
  BY <1>1, ReqTyped DEF TypeOK, Arrive
<1> QED
  BY <1>2 DEF CopiesChecked

(* A request that takes a copy it has checked to the pc that saves it.     *)
LEMMA CopyFacts ==
  ASSUME TypeOK, NEW c \in Requests, NEW pc \in {"save", "saveSecret"},
         NEW d \in Document, d.enabled => Credentials(d),
         pc = "saveSecret" => d.enabled /\ d.secret # 0,
         req' = [req EXCEPT ![c].pc = pc, ![c].copy = d]
  PROVE  /\ req' \in [Requests -> Request]
         /\ CopiesChecked => CopiesChecked'
         /\ req'[c].pc = pc /\ req'[c].copy = d
         /\ \A e \in Requests \ {c} : req'[e] = req[e]
<1> DEFINE q == [req[c] EXCEPT !.pc = pc, !.copy = d]
<1>1. q \in Request /\ q.pc = pc /\ q.copy = d
  BY DEF TypeOK, Request
<1>2. req' \in [Requests -> Request] /\ req'[c] = q
      /\ \A e \in Requests \ {c} : req'[e] = req[e]
  BY <1>1, ReqTyped DEF TypeOK
<1> QED
  BY <1>1, <1>2 DEF CopiesChecked

-----------------------------------------------------------------------------
(* The copies of requests other than c are as fresh as they were, when the *)
(* row is not written and c itself is not about to save.                   *)
LEMMA FreshElsewhere ==
  ASSUME NEW c \in Requests, FreshCopies, UNCHANGED doc, stale' = stale \/ stale' = stale \ {c},
         req'[c].pc \notin {"save", "saveSecret"},
         \A d \in Requests \ {c} : req'[d] = req[d]
  PROVE  FreshCopies'
<1> SUFFICES ASSUME NEW d \in Requests, d \notin stale'
             PROVE  /\ req'[d].pc = "save" => req'[d].copy.secret = doc'.secret
                    /\ req'[d].pc = "saveSecret" =>
                          doc'.secret = 0
                          /\ req'[d].copy = [doc' EXCEPT !.secret = req'[d].copy.secret]
  BY DEF FreshCopies
<1>1. CASE d = c
  BY <1>1
<1>2. CASE d # c
  BY <1>2 DEF FreshCopies
<1> QED
  BY <1>1, <1>2

(* After a write every copy still in flight is stale.                      *)
LEMMA FreshAfterWrite ==
  ASSUME NEW c \in Requests, Overwrite(c), req'[c].pc = "idle",
         \A d \in Requests \ {c} : req'[d] = req[d]
  PROVE  FreshCopies'
BY DEF FreshCopies, Overwrite

(* Every step keeps Inv.                                                   *)
LEMMA InvStep ==
  ASSUME Inv, [Next]_vars
  PROVE  Inv'
<1> USE DEF Inv
<1>1. ASSUME NEW c \in Requests, PutSettings(c) PROVE Inv'
  <2>1. PICK cookie \in {{}} \cup {{s} : s \in sessions}, e \in BOOLEAN,
             u \in Users \cup {Empty}, p \in Passwords \cup {Empty}, r \in Rests :
             Arrive(c, "gate", cookie, Body(e, u, p, r))
    BY <1>1 DEF PutSettings
  <2>2. cookie \in SUBSET Session /\ Body(e, u, p, r) \in Document
    BY BodyTyped DEF TypeOK
  <2>3. /\ req' \in [Requests -> Request] /\ CopiesChecked' /\ req'[c].pc = "gate"
        /\ \A d \in Requests \ {c} : req'[d] = req[d]
    BY <2>1, <2>2, ArriveFacts
  <2>4. FreshCopies'
    BY <1>1, <2>3, FreshElsewhere DEF PutSettings
  <2> QED
    BY <1>1, <2>3, <2>4 DEF PutSettings, TypeOK, EnabledHasCredentials, Signed
<1>2. ASSUME NEW c \in Requests, PostLogin(c) PROVE Inv'
  <2>1. PICK u \in Users \cup {Empty}, p \in Passwords \cup {Empty} :
             Arrive(c, "login", {}, Body(FALSE, u, p, DefaultRest))
    BY <1>2 DEF PostLogin
  <2>2. Body(FALSE, u, p, DefaultRest) \in Document
    BY BodyTyped, RestAssumption
  <2>3. /\ req' \in [Requests -> Request] /\ CopiesChecked' /\ req'[c].pc = "login"
        /\ \A d \in Requests \ {c} : req'[d] = req[d]
    BY <2>1, <2>2, ArriveFacts
  <2>4. FreshCopies'
    BY <1>2, <2>3, FreshElsewhere DEF PostLogin
  <2> QED
    BY <1>2, <2>3, <2>4 DEF PostLogin, TypeOK, EnabledHasCredentials, Signed
<1>3. ASSUME NEW c \in Requests, RequireAuth(c) PROVE Inv'
  <2>1. CASE Answered(c)
    <3>1. FreshCopies'
      BY <1>3, <2>1, AnsweredFacts, FreshElsewhere DEF RequireAuth
    <3> QED
      BY <1>3, <2>1, <3>1, AnsweredFacts
      DEF RequireAuth, TypeOK, EnabledHasCredentials, Signed
  <2>2. CASE req' = [req EXCEPT ![c].pc = "load", ![c].cookie = {}]
    <3> DEFINE q == [req[c] EXCEPT !.pc = "load", !.cookie = {}]
    <3>1. q \in Request /\ q.pc = "load"
      BY DEF TypeOK, Request
    <3>2. req' \in [Requests -> Request] /\ req'[c] = q
          /\ \A d \in Requests \ {c} : req'[d] = req[d]
      BY <2>2, <3>1, ReqTyped DEF TypeOK
    <3>3. CopiesChecked'
      BY <3>1, <3>2 DEF CopiesChecked
    <3>4. FreshCopies'
      BY <1>3, <3>1, <3>2, FreshElsewhere DEF RequireAuth
    <3> QED
      BY <1>3, <3>2, <3>3, <3>4 DEF RequireAuth, TypeOK, EnabledHasCredentials, Signed
  <2> QED
    BY <1>3, <2>1, <2>2 DEF RequireAuth
<1>4. ASSUME NEW c \in Requests, UpdateSettings(c) PROVE Inv'
  <2> DEFINE merged == Merge(doc, req[c].body)
  <2>1. merged \in Document /\ merged.secret = doc.secret
    BY MergeTyped DEF TypeOK, Request, Merge, Document
  <2>2. CASE Answered(c)
    <3>1. FreshCopies'
      BY <1>4, <2>2, AnsweredFacts, FreshElsewhere DEF UpdateSettings
    <3> QED
      BY <1>4, <2>2, <3>1, AnsweredFacts
      DEF UpdateSettings, TypeOK, EnabledHasCredentials, Signed
  <2>3. CASE /\ ~(merged.enabled /\ ~Credentials(merged))
             /\ req' = [req EXCEPT ![c].pc = "save", ![c].copy = merged]
    <3> HIDE DEF merged
    <3>1. /\ req' \in [Requests -> Request] /\ CopiesChecked'
          /\ req'[c].pc = "save" /\ req'[c].copy = merged
          /\ \A d \in Requests \ {c} : req'[d] = req[d]
      BY <2>1, <2>3, CopyFacts DEF Document
    <3>2. FreshCopies'
      BY <1>4, <2>1, <3>1 DEF UpdateSettings, FreshCopies
    <3> QED
      BY <1>4, <3>1, <3>2 DEF UpdateSettings, TypeOK, EnabledHasCredentials, Signed
  <2> QED
    BY <1>4, <2>2, <2>3 DEF UpdateSettings
<1>5. ASSUME NEW c \in Requests, SaveSettings(c) PROVE Inv'
  <2>1. /\ req' \in [Requests -> Request] /\ CopiesChecked' /\ req'[c].pc = "idle"
        /\ \A d \in Requests \ {c} : req'[d] = req[d]
    BY <1>5, AnsweredFacts DEF SaveSettings
  <2>2. /\ req[c].copy \in Document /\ (req[c].copy.enabled => Credentials(req[c].copy))
        /\ c \notin stale => req[c].copy.secret = doc.secret
    BY <1>5 DEF SaveSettings, TypeOK, Request, CopiesChecked, FreshCopies
  <2>3. CASE Overwrite(c)
    <3>1. FreshCopies'
      BY <2>1, <2>3, FreshAfterWrite
    <3>2. Signed'
      BY <1>5, <2>2, <2>3 DEF SaveSettings, Overwrite, Signed
    <3> QED
      BY <1>5, <2>1, <2>2, <2>3, <3>1, <3>2
      DEF SaveSettings, Overwrite, TypeOK, EnabledHasCredentials
  <2>4. CASE WriteFails(c)
    <3>1. FreshCopies'
      BY <2>1, <2>4, FreshElsewhere DEF WriteFails
    <3> QED
      BY <1>5, <2>1, <2>4, <3>1
      DEF SaveSettings, WriteFails, TypeOK, EnabledHasCredentials, Signed
  <2> QED
    BY <1>5, <2>3, <2>4 DEF SaveSettings
<1>6. ASSUME NEW c \in Requests, Login(c) PROVE Inv'
  <2>1. CASE Answered(c) /\ UNCHANGED <<sessions, secrets>>
    <3>1. FreshCopies'
      BY <1>6, <2>1, AnsweredFacts, FreshElsewhere DEF Login
    <3> QED
      BY <1>6, <2>1, <3>1, AnsweredFacts
      DEF Login, TypeOK, EnabledHasCredentials, Signed
  <2>2. CASE /\ Accepted(doc, req[c].body) /\ doc.secret # 0
             /\ sessions' = sessions \cup {SignSession(doc.secret, doc.username)}
             /\ Answered(c)
             /\ UNCHANGED secrets
    <3>1. SignSession(doc.secret, doc.username) \in Session
      BY <2>2, SessionTyped DEF TypeOK, Accepted, EnabledHasCredentials
    <3>2. FreshCopies'
      BY <1>6, <2>2, AnsweredFacts, FreshElsewhere DEF Login
    <3>3. Signed'
      BY <1>6, <2>2 DEF Login, Signed, SignSession
    <3> QED
      BY <1>6, <2>2, <3>1, <3>2, <3>3, AnsweredFacts
      DEF Login, TypeOK, EnabledHasCredentials
  <2>3. CASE /\ Accepted(doc, req[c].body) /\ doc.secret = 0 /\ secrets < MaxSecrets
             /\ secrets' = secrets + 1
             /\ req' = [req EXCEPT ![c].pc = "saveSecret",
                                   ![c].copy = [doc EXCEPT !.secret = secrets + 1]]
             /\ UNCHANGED sessions
    <3> DEFINE d == [doc EXCEPT !.secret = secrets + 1]
    <3>1. /\ d \in Document /\ d.secret # 0 /\ d.enabled /\ Credentials(d)
          /\ secrets + 1 \in 0..MaxSecrets
      BY <2>3, SecretsAssumption
      DEF TypeOK, Document, Accepted, EnabledHasCredentials, Credentials
    <3>2. d = [doc EXCEPT !.secret = d.secret]
      BY DEF TypeOK, Document
    <3> HIDE DEF d
    <3>3. /\ req' \in [Requests -> Request] /\ CopiesChecked'
          /\ req'[c].pc = "saveSecret" /\ req'[c].copy = d
          /\ \A e \in Requests \ {c} : req'[e] = req[e]
      BY <2>3, <3>1, CopyFacts DEF d
    <3>4. FreshCopies'
      BY <1>6, <2>3, <3>2, <3>3 DEF Login, FreshCopies
    <3> QED
      BY <1>6, <2>3, <3>1, <3>3, <3>4 DEF Login, TypeOK, EnabledHasCredentials, Signed
  <2> QED
    BY <1>6, <2>1, <2>2, <2>3 DEF Login
<1>7. ASSUME NEW c \in Requests, SaveSecret(c) PROVE Inv'
  <2>1. /\ req' \in [Requests -> Request] /\ CopiesChecked' /\ req'[c].pc = "idle"
        /\ \A d \in Requests \ {c} : req'[d] = req[d]
    BY <1>7, AnsweredFacts DEF SaveSecret
  <2>2. /\ req[c].copy \in Document /\ Credentials(req[c].copy)
        /\ req[c].copy.secret # 0
        /\ c \notin stale => doc.secret = 0
    BY <1>7 DEF SaveSecret, TypeOK, Request, CopiesChecked, FreshCopies
  <2>3. SignSession(req[c].copy.secret, req[c].copy.username) \in Session
    BY <2>2, SessionTyped
  <2>4. CASE /\ Overwrite(c)
             /\ sessions' = sessions \cup
                    {SignSession(req[c].copy.secret, req[c].copy.username)}
    <3>1. FreshCopies'
      BY <2>1, <2>4, FreshAfterWrite
    <3>2. ASSUME ~clobbered' PROVE sessions = {}
      <4>1. ~clobbered /\ c \notin stale
        BY <2>4, <3>2 DEF Overwrite
      <4>2. \A s \in sessions : s.secret = 0
        BY <2>2, <4>1 DEF Signed
      <4>3. \A s \in sessions : s.secret # 0
        BY SecretsAssumption DEF TypeOK, Session
      <4> QED
        BY <4>2, <4>3
    <3>3. Signed'
      BY <2>4, <3>2 DEF Overwrite, Signed, SignSession
    <3> QED
      BY <1>7, <2>1, <2>2, <2>3, <2>4, <3>1, <3>3
      DEF SaveSecret, Overwrite, TypeOK, EnabledHasCredentials
  <2>5. CASE WriteFails(c) /\ UNCHANGED sessions
    <3>1. FreshCopies'
      BY <2>1, <2>5, FreshElsewhere DEF WriteFails
    <3> QED
      BY <1>7, <2>1, <2>5, <3>1
      DEF SaveSecret, WriteFails, TypeOK, EnabledHasCredentials, Signed
  <2> QED
    BY <1>7, <2>4, <2>5 DEF SaveSecret
<1>8. ASSUME NEW c \in Requests, ReadFails(c) PROVE Inv'
  <2>1. FreshCopies'
    BY <1>8, AnsweredFacts, FreshElsewhere DEF ReadFails
  <2> QED
    BY <1>8, <2>1, AnsweredFacts DEF ReadFails, TypeOK, EnabledHasCredentials, Signed
<1>9. CASE Expire
  BY <1>9 DEF Expire, TypeOK, CopiesChecked, EnabledHasCredentials, FreshCopies, Signed
<1>10. CASE UNCHANGED vars
  BY <1>10
  DEF vars, TypeOK, CopiesChecked, EnabledHasCredentials, FreshCopies, Signed
<1> QED
  BY <1>1, <1>2, <1>3, <1>4, <1>5, <1>6, <1>7, <1>8, <1>9, <1>10 DEF Next

(* Inv is inductive.                                                       *)
LEMMA Invariance == Spec => []Inv
<1>1. Init => Inv
  <2> SUFFICES ASSUME Init PROVE Inv
    OBVIOUS
  <2>1. TypeOK
    <3>1. req \in [Requests -> Request]
      BY DefaultTyped DEF Init, Request
    <3>2. clobbered \in BOOLEAN
      BY DEF Init
    <3> QED
      BY <3>1, <3>2, DefaultTyped, SecretsAssumption DEF Init, TypeOK
  <2>2. CopiesChecked /\ EnabledHasCredentials /\ FreshCopies /\ Signed
    BY DEF Init, CopiesChecked, EnabledHasCredentials, Default, FreshCopies, Signed
  <2> QED
    BY <2>1, <2>2 DEF Inv
<1>2. Inv /\ [Next]_vars => Inv'
  BY InvStep
<1> QED
  BY <1>1, <1>2, PTL DEF Spec

(* Type correctness; in particular every session cookie that Login hands   *)
(* out is signed with a secret that is not empty, for a named user.        *)
THEOREM SettingsTyped == Spec => []TypeOK
<1>1. Inv => TypeOK
  BY DEF Inv
<1> QED
  BY <1>1, Invariance, PTL

(* However settings updates and logins interleave or fail, the stored      *)
(* document never enables authentication without a user and a password.    *)
THEOREM NeverLockedOut == Spec => []EnabledHasCredentials
<1>1. Inv => EnabledHasCredentials
  BY DEF Inv
<1> QED
  BY <1>1, Invariance, PTL

(* Sessions are lost only to stale copies: until one is written, every     *)
(* session that Login handed out and that has not expired passes           *)
(* ParseSession, unless its user name holds the separator.                 *)
THEOREM SessionsSurvive == Spec => []SessionsHold
<1>1. Inv => SessionsHold
  BY DEF Inv, Signed, SessionsHold, ParseSession
<1> QED
  BY <1>1, Invariance, PTL

(* A login whose copy is not stale changes nothing but the secret.         *)
THEOREM LoginIsFrugal == Spec => LoginKeepsSettings
<1> DEFINE Frugal(c) == doc' = [doc EXCEPT !.secret = doc'.secret]
           A == \A c \in Requests \ stale :
                   req[c].pc = "saveSecret" /\ req'[c].pc = "idle" => Frugal(c)
<1>1. ASSUME Inv, [Next]_vars PROVE [A]_vars
  <2> USE <1>1 DEF Inv
  <2> SUFFICES ASSUME NEW c \in Requests \ stale, req[c].pc = "saveSecret",
                      req'[c].pc = "idle", Next
               PROVE  Frugal(c)
    OBVIOUS
  <2>1. CASE UNCHANGED doc
    BY <2>1 DEF TypeOK, Document
  <2>2. ASSUME NEW d \in Requests, SaveSettings(d), Overwrite(d) PROVE FALSE
    BY <2>2, AnsweredFacts DEF SaveSettings
  <2>3. ASSUME NEW d \in Requests, SaveSecret(d), Overwrite(d) PROVE Frugal(c)
    <3>1. d = c
      BY <2>3, AnsweredFacts DEF SaveSecret
    <3>2. req[c].copy = [doc EXCEPT !.secret = req[c].copy.secret]
      BY DEF FreshCopies
    <3> QED
      BY <2>3, <3>1, <3>2 DEF Overwrite
  <2>4. \/ UNCHANGED doc
        \/ \E d \in Requests : (SaveSettings(d) \/ SaveSecret(d)) /\ Overwrite(d)
    BY DEF Next, PutSettings, RequireAuth, UpdateSettings, SaveSettings, PostLogin, Login,
           SaveSecret, ReadFails, Expire, WriteFails
  <2> QED
    BY <2>1, <2>2, <2>3, <2>4
<1> HIDE DEF A
<1>2. Spec => [][A]_vars
  BY <1>1, Invariance, PTL DEF Spec
<1> QED
  BY <1>2 DEF LoginKeepsSettings, A
=============================================================================
