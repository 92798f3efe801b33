---------------------------- MODULE AuthSessions ----------------------------
(***************************************************************************)
(* The session store of the PurrivacyApp API server                        *)
(* (src/apps/server/src/features/session): three Firestore collections     *)
(* (refreshTokenFamilies, refreshTokens, sessions) that login, refresh,    *)
(* access-token validation, sign-out, revoke-all-sessions, MFA trust       *)
(* changes and the hourly cleanup all read and write concurrently.         *)
(*                                                                         *)
(* One request is one worker; every Firestore call it awaits is one step,  *)
(* so any two requests interleave between any two awaits.  A Firestore     *)
(* transaction or batch is one atomic step.  `new Date()` is read in the   *)
(* step of the call that uses it.  A query answers with all its matches:   *)
(* the paging of deletePagedQueryResults is not part of this module.       *)
(***************************************************************************)
EXTENDS Integers, Sequences, FiniteSets

CONSTANTS
    User,               \* accounts
    MfaUser,            \* the accounts whose mfaEnabled is true
    Device,             \* normalised device ids
    Family,             \* refresh-token family ids
    Token,              \* refresh tokens
    Access,             \* access tokens, the keys of the sessions collection
    Request,            \* HTTP requests that may be in progress at once
    Maintenance,        \* runs of the cleanup job: one per server process
    None,               \* "no such value"
    AccessLife,         \* ACCESS_TOKEN_LIFETIME_MS
    RefreshLife,        \* REFRESH_TOKEN_LIFETIME_MS
    UntrustedMfaMaxAge, \* UNTRUSTED_MFA_MAX_AGE_MS
    MaxClock            \* bound: the last instant of the instance

ASSUME UserAssumption == MfaUser \subseteq User

ASSUME LifeAssumption ==
    /\ AccessLife \in Nat
    /\ RefreshLife \in Nat
    /\ UntrustedMfaMaxAge \in Nat
    /\ MaxClock \in Nat

ASSUME DistinctIds ==
    /\ None \notin User \cup Device \cup Family \cup Token \cup Access
    /\ Family \cap Token = {}
    /\ Family \cap Access = {}
    /\ Token \cap Access = {}
    /\ Request \cap Maintenance = {}

VARIABLES
    familyDocs,  \* the ids of the documents of refreshTokenFamilies ...
    tokenDocs,   \* ... of refreshTokens ...
    sessionDocs, \* ... and of sessions
    family,      \* the fields of each family document
    token,       \* the fields of each refresh-token document
    session,     \* the fields of each access-session document
    minted,      \* the random ids drawn so far
    known,       \* the tokens some client has received
    stale,       \* staleFamilyDocs of the login that created the family
    sweep,       \* how far that login's device sweep is
    clock,
    req,         \* the local variables of every request and job
    promised     \* history: families a completed answer declared dead

docVars  == <<familyDocs, tokenDocs, sessionDocs>>
dataVars == <<family, token, session>>
idVars   == <<minted, known>>
devVars  == <<stale, sweep>>
vars     == <<docVars, dataVars, idVars, devVars, clock, req, promised>>

Worker == Request \cup Maintenance
Id == Family \cup Token \cup Access

NoFamily == [userId |-> None, deviceId |-> None, expiresAt |-> 0,
             revoked |-> FALSE, mfaTrusted |-> FALSE, mfaVerifiedAt |-> 0]
NoToken == [familyId |-> None, userId |-> None, createdAt |-> 0, used |-> FALSE]
NoSession == [familyId |-> None, userId |-> None, expiresAt |-> 0]

SessionOps == {"use", "signOut", "revokeAll", "trust", "untrust"}

Idle == [pc |-> "idle", op |-> "none", userId |-> None, dev |-> None, fam |-> None,
         tok |-> None, acc |-> None, target |-> None, left |-> <<>>,
         pend |-> {}, had |-> {}, now |-> 0, deadAtStart |-> FALSE]

(***************************************************************************)
(* What the code reads of the documents                                    *)
(***************************************************************************)
HasMfa(f) == family[f].userId \in MfaUser

\* A family no token and no session can be used with any more.
Dead(f) == f \in minted /\ (f \notin familyDocs \/ family[f].revoked)

TokenExpiresAt(t) == token[t].createdAt + RefreshLife

\* getValidActiveAccessSession: the access token sent along with a refresh
\* still belongs to a live session of that family.
ActiveSession(f, a) ==
    /\ a \in sessionDocs
    /\ session[a].expiresAt > clock
    /\ session[a].familyId = f
    /\ session[a].userId = family[f].userId

\* ... and an expired one is deleted by the same transaction.
ExpiredSession(a) ==
    {s \in sessionDocs : s = a /\ session[s].expiresAt <= clock}

MfaVerificationFresh(f) ==
    clock - family[f].mfaVerifiedAt <= UntrustedMfaMaxAge

\* Mutant: an active session, or a fresh verification, is enough.
RequiresMfaEither(f, a) ==
    /\ HasMfa(f)
    /\ ~family[f].mfaTrusted
    /\ ~ActiveSession(f, a) /\ ~MfaVerificationFresh(f)

RequiresMfaForRefresh(f, a) ==
    /\ HasMfa(f)
    /\ ~family[f].mfaTrusted
    /\ ~ActiveSession(f, a) \/ ~MfaVerificationFresh(f)

RefreshExpired(t) ==
    \/ TokenExpiresAt(t) < clock
    \/ family[token[t].familyId].expiresAt < clock

\* Mutant: the sweep spares families that are as young as the new one.
StaleOlderFamilies(r) ==
    {g \in familyDocs \ {r.fam} : /\ family[g].deviceId = r.dev
                                  /\ family[g].userId = r.userId
                                  /\ family[g].expiresAt < family[r.fam].expiresAt}

\* Mutant: the query without its filter.
StaleFamiliesOfAnyUser(r) ==
    {g \in familyDocs \ {r.fam} : family[g].deviceId = r.dev}

\* The query and the filter of deleteStaleDeviceFamilies, for a login with the locals r.
StaleDeviceFamilies(r) ==
    {g \in familyDocs \ {r.fam} : /\ family[g].deviceId = r.dev
                                  /\ family[g].userId = r.userId}

(***************************************************************************)
(* Sweeps.  deleteFamilyRecords, deleteAllUserSessions and                 *)
(* cleanupExpiredSessionRecords walk over the collections in a fixed order *)
(* and delete, in each, what one query answered.                           *)
(***************************************************************************)
FamilyChildren == <<"sessions", "refreshTokens">>
AllCollections == <<"sessions", "refreshTokenFamilies", "refreshTokens">>
CleanupOrder   == <<"sessions", "refreshTokens", "refreshTokenFamilies">>

\* The documents the query of worker w answers in one collection.
FamilyMatches(w, c) ==
    LET f == req[w].target
    IN  CASE c = "sessions"      -> {s \in sessionDocs : session[s].familyId = f}
          [] c = "refreshTokens" -> {t \in tokenDocs : token[t].familyId = f}
          [] OTHER               -> {}

UserMatches(w, c) ==
    LET u == req[w].userId
    IN  CASE c = "sessions"      -> {s \in sessionDocs : session[s].userId = u}
          [] c = "refreshTokens" -> {t \in tokenDocs : token[t].userId = u}
          [] OTHER               -> {f \in familyDocs : family[f].userId = u}

\* Mutant: the cleanup also takes what expires at this very instant.
ExpiringMatches(w, c) ==
    LET now == req[w].now
    IN  CASE c = "sessions"      -> {s \in sessionDocs : session[s].expiresAt <= now}
          [] c = "refreshTokens" -> {t \in tokenDocs : TokenExpiresAt(t) <= now}
          [] OTHER               -> {f \in familyDocs : family[f].expiresAt <= now}

ExpiredMatches(w, c) ==
    LET now == req[w].now
    IN  CASE c = "sessions"      -> {s \in sessionDocs : session[s].expiresAt < now}
          [] c = "refreshTokens" -> {t \in tokenDocs : TokenExpiresAt(t) < now}
          [] OTHER               -> {f \in familyDocs : family[f].expiresAt < now}

Matches(w, c) ==
    CASE req[w].op \in {"login", "signOut"} -> FamilyMatches(w, c)
      [] req[w].op = "revokeAll"            -> UserMatches(w, c)
      [] OTHER                              -> ExpiredMatches(w, c)

(***************************************************************************)
(* The initial state: an empty database and an idle server.                *)
(***************************************************************************)
Init ==
    /\ familyDocs = {} /\ tokenDocs = {} /\ sessionDocs = {}
    /\ family = [f \in Family |-> NoFamily]
    /\ token = [t \in Token |-> NoToken]
    /\ session = [s \in Access |-> NoSession]
    /\ minted = {} /\ known = {}
    /\ stale = [f \in Family |-> {}]
    /\ sweep = [f \in Family |-> "none"]
    /\ clock = 0
    /\ req = [w \in Worker |-> Idle]
    /\ promised = {}

\* Worker w is at pc and goes on with the local variables r.
At(w, pc) == req[w].pc = pc
Becomes(w, r) == req' = [req EXCEPT ![w] = r]
Goto(w, pc) == Becomes(w, [req[w] EXCEPT !.pc = pc])

\* Deleting documents deletes their fields with them.
DeleteDocs(ids) ==
    /\ familyDocs' = familyDocs \ ids
    /\ tokenDocs' = tokenDocs \ ids
    /\ sessionDocs' = sessionDocs \ ids
    /\ family' = [f \in Family |-> IF f \in ids THEN NoFamily ELSE family[f]]
    /\ token' = [t \in Token |-> IF t \in ids THEN NoToken ELSE token[t]]
    /\ session' = [s \in Access |-> IF s \in ids THEN NoSession ELSE session[s]]

DeleteSessions(ids) ==
    /\ sessionDocs' = sessionDocs \ ids
    /\ session' = [s \in Access |-> IF s \in ids THEN NoSession ELSE session[s]]

(***************************************************************************)
(* POST /session: the family and its first refresh token are one batch;    *)
(* then the other families of the device are swept; then the access token  *)
(* is issued.  The MFA code was right: a wrong one changes nothing here.   *)
(***************************************************************************)
LoginCommit(w, u, d, trusted, f, t) ==
    /\ At(w, "idle")
    /\ w \in Request
    /\ f \notin minted /\ t \notin minted
    /\ minted' = minted \cup {f, t}
    /\ familyDocs' = familyDocs \cup {f}
    /\ tokenDocs' = tokenDocs \cup {t}
    /\ family' = [family EXCEPT ![f] =
            [userId |-> u, deviceId |-> d, expiresAt |-> clock + RefreshLife,
             revoked |-> FALSE, mfaTrusted |-> u \in MfaUser /\ trusted,
             mfaVerifiedAt |-> IF u \in MfaUser THEN clock ELSE 0]]
    /\ token' = [token EXCEPT ![t] =
            [familyId |-> f, userId |-> u, createdAt |-> clock, used |-> FALSE]]
    /\ Becomes(w, [Idle EXCEPT !.pc = IF d = None THEN "issue" ELSE "sweep",
                               !.op = "login", !.userId = u, !.dev = d, !.fam = f,
                               !.tok = t])
    /\ UNCHANGED <<sessionDocs, session, known, devVars, clock, promised>>

SweepDevices(w) ==
    /\ At(w, "sweep")
    /\ LET f == req[w].fam
       IN  /\ stale' = [stale EXCEPT ![f] = StaleDeviceFamilies(req[w])]
           /\ sweep' = [sweep EXCEPT ![f] = "running"]
    /\ Goto(w, "nextStale")
    /\ UNCHANGED <<docVars, dataVars, idVars, clock, promised>>

\* The next stale family: its document goes first, then its children.
SweepFamily(w, g) ==
    /\ At(w, "nextStale")
    /\ g \in stale[req[w].fam]
    /\ stale' = [stale EXCEPT ![req[w].fam] = @ \ {g}]
    /\ DeleteDocs({g})
    /\ Becomes(w, [req[w] EXCEPT !.pc = "query", !.target = g,
                                 !.left = FamilyChildren])
    /\ UNCHANGED <<idVars, sweep, clock, promised>>

SweepDone(w) ==
    /\ At(w, "nextStale")
    /\ stale[req[w].fam] = {}
    /\ sweep' = [sweep EXCEPT ![req[w].fam] = "done"]
    /\ Goto(w, "issue")
    /\ UNCHANGED <<docVars, dataVars, idVars, stale, clock, promised>>

\* The catch around the sweep: the login goes on without it.
SweepFails(w) ==
    /\ req[w].op = "login"
    /\ req[w].pc \in {"sweep", "nextStale", "query", "purge"}
    /\ stale' = [stale EXCEPT ![req[w].fam] = {}]
    /\ sweep' = [sweep EXCEPT ![req[w].fam] = "none"]
    /\ Becomes(w, [req[w] EXCEPT !.pc = "issue", !.target = None,
                                 !.left = <<>>, !.pend = {}])
    /\ UNCHANGED <<docVars, dataVars, idVars, clock, promised>>

\* createAccessTokenForFamily writes a session for the family the request
\* read earlier, whatever happened to it since; the answer may get lost.
IssueAccess(w, s, delivered) ==
    /\ At(w, "issue")
    /\ s \notin minted
    /\ minted' = minted \cup {s}
    /\ sessionDocs' = sessionDocs \cup {s}
    /\ session' = [session EXCEPT ![s] =
            [familyId |-> req[w].fam, userId |-> req[w].userId,
             expiresAt |-> clock + AccessLife]]
    /\ known' = IF delivered THEN known \cup {s, req[w].tok} ELSE known
    /\ Becomes(w, Idle)
    /\ UNCHANGED <<familyDocs, tokenDocs, family, token, devVars, clock, promised>>

(***************************************************************************)
(* POST /session/refresh: one transaction, then the access token.  A       *)
(* transaction that throws (unknown token or family, revoked family, MFA   *)
(* required) writes nothing and is no step.                                *)
(***************************************************************************)
RefreshReuse(w, t, a) ==
    LET f == token[t].familyId
    IN  /\ At(w, "idle")
        /\ w \in Request
        /\ t \in known \cap tokenDocs
        /\ f \in familyDocs
        /\ token[t].used
        /\ family' = [family EXCEPT ![f].revoked = TRUE]
        /\ DeleteSessions(ExpiredSession(a))
        /\ promised' = promised \cup {f}
        /\ UNCHANGED <<familyDocs, tokenDocs, token, idVars, devVars, clock, req>>

RefreshTooLate(w, t, a) ==
    LET f == token[t].familyId
    IN  /\ At(w, "idle")
        /\ w \in Request
        /\ t \in known \cap tokenDocs
        /\ f \in familyDocs
        /\ ~token[t].used
        /\ ~family[f].revoked
        /\ RefreshExpired(t)
        /\ DeleteDocs({t, f} \cup ExpiredSession(a))
        /\ promised' = promised \cup {f}
        /\ UNCHANGED <<idVars, devVars, clock, req>>

\* Mutant: the rotated token is not marked used.
RotateWithoutMark(t, new) ==
    token' = [token EXCEPT ![new] = [familyId |-> token[t].familyId,
                                     userId |-> family[token[t].familyId].userId,
                                     createdAt |-> clock, used |-> FALSE]]

\* The writes of a successful rotation.
RotateTokens(t, new) ==
    token' = [token EXCEPT ![t].used = TRUE,
                           ![new] = [familyId |-> token[t].familyId,
                                     userId |-> family[token[t].familyId].userId,
                                     createdAt |-> clock, used |-> FALSE]]

RefreshRotate(w, t, a, new) ==
    LET f == token[t].familyId
    IN  /\ At(w, "idle")
        /\ w \in Request
        /\ t \in known \cap tokenDocs
        /\ f \in familyDocs
        /\ ~token[t].used
        /\ ~family[f].revoked
        /\ ~RefreshExpired(t)
        /\ ~RequiresMfaForRefresh(f, a)
        /\ new \notin minted
        /\ minted' = minted \cup {new}
        /\ tokenDocs' = tokenDocs \cup {new}
        /\ RotateTokens(t, new)
        /\ family' = [family EXCEPT ![f].expiresAt = clock + RefreshLife]
        /\ DeleteSessions(ExpiredSession(a))
        /\ Becomes(w, [Idle EXCEPT !.pc = "issue", !.op = "refresh", !.fam = f,
                                   !.userId = family[f].userId, !.tok = new])
        /\ UNCHANGED <<familyDocs, known, devVars, clock, promised>>

(***************************************************************************)
(* validateBackendSession: the session document, then the family document. *)
(* Requests that carry an access token: "use" (any of them), "signOut",    *)
(* "revokeAll", and "trust" or "untrust" for POST /session/trust.          *)
(***************************************************************************)
AuthRead(w, op, a) ==
    /\ At(w, "idle")
    /\ w \in Request
    /\ a \in known \cap sessionDocs
    /\ LET f == session[a].familyId
       IN  Becomes(w, [Idle EXCEPT
                !.pc = IF session[a].expiresAt < clock THEN "dropSession" ELSE "family",
                !.op = op, !.acc = a, !.fam = f,
                !.userId = session[a].userId, !.deadAtStart = Dead(f)])
    /\ UNCHANGED <<docVars, dataVars, idVars, devVars, clock, promised>>

\* Mutant: revokedAt is not looked at.
FamilyExists(f) == f \in familyDocs

FamilyUsable(f) == f \in familyDocs /\ ~family[f].revoked

AuthFamily(w) ==
    /\ At(w, "family")
    /\ Goto(w, IF FamilyUsable(req[w].fam) THEN "authed" ELSE "dropSession")
    /\ UNCHANGED <<docVars, dataVars, idVars, devVars, clock, promised>>

DropSession(w) ==
    /\ At(w, "dropSession")
    /\ DeleteDocs({req[w].acc})
    /\ Becomes(w, Idle)
    /\ UNCHANGED <<idVars, devVars, clock, promised>>

(***************************************************************************)
(* verifySensitiveMfa in front of revokeAll and trust: with MFA enabled, a *)
(* right code marks the family verified, in a read and a later update.     *)
(***************************************************************************)
Sensitive(w) == req[w].op \in {"revokeAll", "trust", "untrust"}

SkipMfa(w) ==
    /\ At(w, "authed") /\ Sensitive(w)
    /\ req[w].userId \notin MfaUser
    /\ Goto(w, "handler")
    /\ UNCHANGED <<docVars, dataVars, idVars, devVars, clock, promised>>

\* getOwnedFamilyRef, before either update of the family.
OwnedFamilyRead(w, from, to) ==
    /\ At(w, from)
    /\ IF FamilyUsable(req[w].fam) THEN Goto(w, to) ELSE Becomes(w, Idle)
    /\ UNCHANGED <<docVars, dataVars, idVars, devVars, clock, promised>>

MarkRead(w) ==
    /\ Sensitive(w)
    /\ req[w].userId \in MfaUser
    /\ OwnedFamilyRead(w, "authed", "markWrite")

\* Mutant: set with merge instead of update.
UpsertFamily(w, fields, then) ==
    /\ familyDocs' = familyDocs \cup {req[w].fam}
    /\ family' = [family EXCEPT ![req[w].fam] = fields]
    /\ then

\* familyRef.update fails when the document was deleted since it was read.
UpdateFamily(w, fields, then) ==
    /\ IF req[w].fam \in familyDocs
       THEN /\ family' = [family EXCEPT ![req[w].fam] = fields]
            /\ then
       ELSE /\ UNCHANGED family
            /\ Becomes(w, Idle)
    /\ UNCHANGED familyDocs

MarkWrite(w) ==
    /\ At(w, "markWrite")
    /\ UpdateFamily(w, [family[req[w].fam] EXCEPT !.mfaVerifiedAt = clock],
                    Goto(w, "handler"))
    /\ UNCHANGED <<tokenDocs, sessionDocs, token, session, idVars, devVars,
                   clock, promised>>

TrustRead(w) ==
    /\ req[w].op \in {"trust", "untrust"}
    /\ OwnedFamilyRead(w, "handler", "trustWrite")

\* setSessionFamilyMfaTrust also restarts the verification age.
TrustedFields(w) ==
    [family[req[w].fam] EXCEPT !.mfaTrusted = HasMfa(req[w].fam) /\ req[w].op = "trust",
                               !.mfaVerifiedAt = IF HasMfa(req[w].fam) THEN clock ELSE 0]

TrustWrite(w) ==
    /\ At(w, "trustWrite")
    /\ UpdateFamily(w, TrustedFields(w), Becomes(w, Idle))
    /\ UNCHANGED <<tokenDocs, sessionDocs, token, session, idVars, devVars,
                   clock, promised>>

(***************************************************************************)
(* The handlers that revoke, and the sweeps they share with the login.     *)
(***************************************************************************)
\* revokeSessionFamily: a family that is gone already needs no deletion.
SignOutRead(w) ==
    /\ At(w, "authed") /\ req[w].op = "signOut"
    /\ Becomes(w, [req[w] EXCEPT
            !.pc = IF req[w].fam \in familyDocs THEN "dropFamily" ELSE "respond",
            !.had = {req[w].fam}])
    /\ UNCHANGED <<docVars, dataVars, idVars, devVars, clock, promised>>

DropFamily(w) ==
    /\ At(w, "dropFamily")
    /\ DeleteDocs({req[w].fam})
    /\ Becomes(w, [req[w] EXCEPT !.pc = "query", !.target = req[w].fam,
                                 !.left = FamilyChildren])
    /\ UNCHANGED <<idVars, devVars, clock, promised>>

\* deleteAllUserSessions; `had` is history: what the answer will promise.
RevokeAllStart(w) ==
    /\ At(w, "handler") /\ req[w].op = "revokeAll"
    /\ Becomes(w, [req[w] EXCEPT
            !.pc = "query", !.left = AllCollections,
            !.had = {f \in familyDocs : family[f].userId = req[w].userId}])
    /\ UNCHANGED <<docVars, dataVars, idVars, devVars, clock, promised>>

\* The hourly job; a run never starts while the last one is in progress.
JobStart(w) ==
    /\ At(w, "idle")
    /\ w \in Maintenance
    /\ Becomes(w, [Idle EXCEPT !.pc = "query", !.op = "cleanup", !.now = clock,
                               !.left = CleanupOrder])
    /\ UNCHANGED <<docVars, dataVars, idVars, devVars, clock, promised>>

\* One collection of a sweep: the query, then the batch of deletes.
SweepQuery(w) ==
    /\ At(w, "query")
    /\ Becomes(w, [req[w] EXCEPT !.pc = "purge",
                                 !.pend = Matches(w, Head(req[w].left))])
    /\ UNCHANGED <<docVars, dataVars, idVars, devVars, clock, promised>>

AfterSweep(op) == IF op = "login" THEN "nextStale" ELSE "respond"

SweepPurge(w) ==
    /\ At(w, "purge")
    /\ DeleteDocs(req[w].pend)
    /\ LET rest == Tail(req[w].left)
       IN  Becomes(w, [req[w] EXCEPT
                !.pc = IF rest = <<>> THEN AfterSweep(req[w].op) ELSE "query",
                !.pend = {}, !.left = rest])
    /\ UNCHANGED <<idVars, devVars, clock, promised>>

\* The handler of an ordinary authenticated request.
Serve(w) ==
    /\ At(w, "authed") /\ req[w].op = "use"
    /\ Becomes(w, Idle)
    /\ UNCHANGED <<docVars, dataVars, idVars, devVars, clock, promised>>

\* The answer to a revocation promises that those families are dead.
Respond(w) ==
    /\ At(w, "respond")
    /\ promised' = promised \cup req[w].had
    /\ Becomes(w, Idle)
    /\ UNCHANGED <<docVars, dataVars, idVars, devVars, clock>>

\* A Firestore call throws and nothing catches it, or the process dies.
Abort(w) ==
    /\ ~At(w, "idle")
    /\ IF req[w].op = "login"
       THEN /\ stale' = [stale EXCEPT ![req[w].fam] = {}]
            /\ sweep' = [sweep EXCEPT ![req[w].fam] =
                            IF @ = "running" THEN "none" ELSE @]
       ELSE UNCHANGED devVars
    /\ Becomes(w, Idle)
    /\ UNCHANGED <<docVars, dataVars, idVars, clock, promised>>

Tick ==
    /\ clock < MaxClock
    /\ clock' = clock + 1
    /\ UNCHANGED <<docVars, dataVars, idVars, devVars, req, promised>>

Login(w) == \E u \in User, d \in Device \cup {None}, trusted \in BOOLEAN,
               f \in Family, t \in Token : LoginCommit(w, u, d, trusted, f, t)

Sweep(w) == \/ SweepDevices(w)
            \/ \E g \in Family : SweepFamily(w, g)
            \/ SweepDone(w)
            \/ SweepFails(w)
            \/ SweepQuery(w)
            \/ SweepPurge(w)

Issue(w) == \E s \in Access, delivered \in BOOLEAN : IssueAccess(w, s, delivered)

\* A refresh names a token and, or not, the access token it has.
Refresh(w) ==
    \E t \in Token, a \in (known \cap Access) \cup {None} :
        \/ RefreshReuse(w, t, a)
        \/ RefreshTooLate(w, t, a)
        \/ \E new \in Token : RefreshRotate(w, t, a, new)

Authenticate(w) ==
    \/ \E op \in SessionOps, a \in Access : AuthRead(w, op, a)
    \/ AuthFamily(w)
    \/ DropSession(w)

Handle(w) == \/ SkipMfa(w)
             \/ MarkRead(w)
             \/ MarkWrite(w)
             \/ TrustRead(w)
             \/ TrustWrite(w)
             \/ SignOutRead(w)
             \/ DropFamily(w)
             \/ RevokeAllStart(w)
             \/ Serve(w)
             \/ Respond(w)

Step(w) == \/ Login(w) \/ Sweep(w) \/ Issue(w) \/ Refresh(w)
           \/ Authenticate(w) \/ Handle(w) \/ JobStart(w) \/ Abort(w)

Next == Tick \/ \E w \in Worker : Step(w)

Spec == Init /\ [][Next]_vars

-----------------------------------------------------------------------------
(***************************************************************************)
(* Properties                                                              *)
(***************************************************************************)
Pc == {"idle", "sweep", "nextStale", "issue", "query", "purge", "dropSession",
       "family", "authed", "markWrite", "handler", "trustWrite", "dropFamily",
       "respond"}
Collection == {"sessions", "refreshTokenFamilies", "refreshTokens"}

Local == [pc : Pc, op : SessionOps \cup {"none", "login", "refresh", "cleanup"},
          userId : User \cup {None}, dev : Device \cup {None},
          fam : Family \cup {None}, tok : Token \cup {None}, acc : Access \cup {None},
          target : Family \cup {None}, left : Seq(Collection),
          pend : SUBSET Id, had : SUBSET Family, now : Nat,
          deadAtStart : BOOLEAN]

FamilyDoc == [userId : User \cup {None}, deviceId : Device \cup {None},
              expiresAt : Nat, revoked : BOOLEAN, mfaTrusted : BOOLEAN,
              mfaVerifiedAt : Nat]
TokenDoc == [familyId : Family \cup {None}, userId : User \cup {None},
             createdAt : Nat, used : BOOLEAN]
SessionDoc == [familyId : Family \cup {None}, userId : User \cup {None},
               expiresAt : Nat]

\* The types of the variables; every document's id was drawn before.
TypeOK ==
    /\ familyDocs \subseteq Family \cap minted
    /\ tokenDocs \subseteq Token \cap minted
    /\ sessionDocs \subseteq Access \cap minted
    /\ family \in [Family -> FamilyDoc]
    /\ token \in [Token -> TokenDoc]
    /\ session \in [Access -> SessionDoc]
    /\ minted \subseteq Id
    /\ known \subseteq (Token \cup Access) \cap minted
    /\ stale \in [Family -> SUBSET Family]
    /\ sweep \in [Family -> {"none", "running", "done"}]
    /\ clock \in Nat
    /\ req \in [Worker -> Local]
    /\ promised \subseteq Family

SameDevice(f, g) ==
    /\ family[f].deviceId # None
    /\ family[f].deviceId = family[g].deviceId
    /\ family[f].userId = family[g].userId

\* Two logins of one user on one device whose sweeps both ran to their end
\* never both leave a family behind, in whatever order their commits and their
\* queries interleave (createSession.ts: commit first, sweep afterwards).
OneFamilyPerDevice ==
    \A f, g \in familyDocs :
        f # g /\ SameDevice(f, g) => sweep[f] # "done" \/ sweep[g] # "done"

\* A family never has two refresh tokens that could both still be rotated,
\* however many clients race with the same token (rotateRefreshToken.ts): the
\* lineage is a chain, which is what makes the reuse of a token detectable.
AtMostOneUnusedToken ==
    \A t, u \in tokenDocs :
        token[t].familyId = token[u].familyId /\ ~token[t].used /\ ~token[u].used
            => t = u

\* In a family of an MFA account that is not trusted, no refresh token was
\* ever issued later than UNTRUSTED_MFA_MAX_AGE_MS after the last MFA
\* verification the family records: not even when the family was trusted,
\* refreshed for long, and is no longer trusted (sessionMfaPolicy.ts,
\* setSessionFamilyMfaTrust).
UntrustedRotationsAreFresh ==
    \A t \in tokenDocs :
        LET f == token[t].familyId
        IN  f \in familyDocs /\ HasMfa(f) /\ ~family[f].mfaTrusted
                => token[t].createdAt <= family[f].mfaVerifiedAt + UntrustedMfaMaxAge

\* A request that is let through did not begin after its family was deleted or
\* revoked, although the session document may well outlive the family
\* (validateSession.ts reads the two documents one after the other, and
\* IssueAccess writes sessions for families that are gone).
NoStaleAuth ==
    \A w \in Worker : req[w].pc = "authed" => ~req[w].deadAtStart

\* What an answer declared dead stays dead: no update, refresh or login that
\* was in flight brings a signed-out, revoked, expired or reused family back
\* (sessionFamilyMutations.ts, sessionDeletion.ts, rotateRefreshToken.ts).
PromisedRevocationsHold == \A f \in promised : Dead(f)

\* A family of one account is deleted only by a request of that account, or
\* because it expired: two accounts that use one device do not sign each other
\* out (deleteStaleDeviceFamilies queries by device alone).
DeletionsAreOwned ==
    [][\A f \in familyDocs \ familyDocs' :
            \/ family[f].expiresAt < clock
            \/ \E w \in Worker : /\ req[w].userId = family[f].userId
                                 /\ req[w] # req'[w]]_vars

\* Between its query and its batch the cleanup may be overtaken by refreshes;
\* none of them prolongs a family that it is about to delete
\* (expiredSessionCleanup.ts against rotateRefreshToken.ts).
CleanupPurgesOnlyExpired ==
    \A w \in Worker : req[w].op = "cleanup" =>
        \A f \in req[w].pend \cap familyDocs : family[f].expiresAt < clock
====
