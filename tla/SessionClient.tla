---------------------------- MODULE SessionClient ----------------------------
(***************************************************************************)
(* The session manager of the PurrivacyApp mobile app                      *)
(* (src/apps/mobile/src/api/session, api/request and                       *)
(* features/security/services/storedSessionService.ts) and the answers of  *)
(* the API server it depends on.                                           *)
(*                                                                         *)
(* One account on one device.  A session response carries a refresh token  *)
(* and an access token; both are the number n of the response.  A call is  *)
(* an asynchronous function of the app; every await is a step boundary.    *)
(* Refreshing is shared by all calls and has one record of its own.        *)
(*                                                                         *)
(* The server half follows AuthSessions with its operations atomic; the    *)
(* families of other devices are left out, their effects are not.          *)
(***************************************************************************)
EXTENDS Naturals, FiniteSets

CONSTANTS
    Call,      \* calls that may be in progress at once
    Kinds,     \* what they may be used for: the kinds of calls of each of them
    MaxToken,  \* bound: session responses the server issues
    MaxTrouble \* bound: faults and remote events

ASSUME BoundAssumption == MaxToken \in Nat /\ MaxTrouble \in Nat
Kind == {"request", "trust", "swap", "sync", "login", "relogin", "resume", "signout"}

ASSUME KindAssumption == Kinds \subseteq [Call -> SUBSET Kind]

Token == 1..MaxToken

\* mfaEnabled and mfaTrusted of a session, as far as they matter: MFA is off,
\* a refresh may ask for it, or the session is trusted.
Mode == {"off", "asks", "trusted"}

NoSession == [tok |-> 0, mode |-> "off"]
Session == [tok : Token, mode : Mode] \cup {NoSession}

VARIABLES
    \* the server
    minted,  \* the responses issued so far are 1..minted
    family,  \* the refresh-token family of a token: the first token of it
    alive,   \* the family of this device that exists and is not revoked, or 0
    spent,   \* the used refresh tokens of it
    mode,    \* its MFA mode
    mfaOn,   \* mfaEnabled of the account
    \* the app
    user,    \* auth.currentUser is set
    mem,     \* the usable access token in memory, or 0
    stored,  \* the stored session
    force,   \* forceFreshSessionAfterRemoteMfaState
    recent,  \* hasRecentSessionSwap()
    refresh, \* refreshSessionPromise and the refresh behind it
    event,   \* a signOut event was emitted
    notice,  \* the MFA mode a push notification under way tells, or "none"
    call,    \* the local variables of every call
    \* bookkeeping
    uses,    \* the kinds of calls of this behaviour
    why,     \* history: what has cost the app its session or a token
    trouble  \* bound: faults and remote events so far

serverVars == <<minted, family, alive, spent, mode, mfaOn>>
flagVars   == <<user, force, recent, event, notice>>
vars == <<serverVars, mem, stored, flagVars, refresh, call, uses, why, trouble>>

Idle == [pc |-> "idle", kind |-> "none", stage |-> "first", from |-> "none",
         sess |-> NoSession, left |-> 0]
NoRefresh == [pc |-> "none", sess |-> NoSession]

At(c, pc) == call[c].pc = pc
Becomes(c, r) == call' = [call EXCEPT ![c] = r]
Goto(c, pc) == Becomes(c, [call[c] EXCEPT !.pc = pc])

\* retryOnFailure of the createSession or request a call is in.
Retries(r) == r.kind # "resume" /\ r.stage # "again"

Of(tok) == tok # 0 /\ family[tok] = alive
Live(s) == Of(s.tok) /\ s.tok \notin spent

Trouble == trouble < MaxTrouble /\ trouble' = trouble + 1

\* A new family with one token; the one before it on the device is deleted.
Login(n, m) ==
    /\ minted < MaxToken /\ n = minted + 1
    /\ minted' = n
    /\ family' = [family EXCEPT ![n] = n]
    /\ alive' = n /\ spent' = {} /\ mode' = m

Ends == alive' = 0 /\ spent' = {} /\ mode' = "off"

ModeOf(on) == IF on THEN "asks" ELSE "off"

Init ==
    /\ minted = 0
    /\ family = [t \in Token |-> t]
    /\ alive = 0 /\ spent = {} /\ mode = "off"
    /\ mfaOn \in BOOLEAN
    /\ user = FALSE /\ mem = 0 /\ stored = NoSession
    /\ force = FALSE /\ recent = FALSE /\ event = FALSE /\ notice = "none"
    /\ refresh = NoRefresh
    /\ call = [c \in Call |-> Idle]
    /\ uses \in Kinds
    /\ why = {} /\ trouble = 0

\* createSession up to its first await; a fresh session skips the stored one.
Enter(c, r) ==
    LET fresh == force \/ r.kind = "relogin"
    IN  /\ mem' = IF fresh THEN 0 ELSE mem
        /\ Becomes(c, [r EXCEPT !.pc = IF fresh THEN "post" ELSE "read"])

(***************************************************************************)
(* Calls begin.                                                            *)
(***************************************************************************)
Start(c, k) ==
    /\ At(c, "idle") /\ k \in uses[c]
    /\ IF k \in {"login", "relogin"} THEN TRUE ELSE user
    /\ k = "sync" => notice # "none"
    /\ user' = TRUE
    /\ notice' = IF k = "sync" THEN "none" ELSE notice
    /\ LET r == [Idle EXCEPT !.kind = k]
       IN  CASE k = "sync" -> mem' = mem /\ Becomes(c, [r EXCEPT !.pc = "sync", !.sess.mode = notice])
             [] k = "signout" -> mem' = mem /\ Becomes(c, [r EXCEPT !.pc = "leave"])
             [] OTHER -> Enter(c, r)
    /\ UNCHANGED <<uses, serverVars, stored, force, recent, event, refresh, why, trouble>>

(***************************************************************************)
(* createSession                                                           *)
(***************************************************************************)
\* A call has a session: it was all it wanted, or it sends its request, the
\* second time after one more createSession (buildAuthHeaders of the retry).
Got(r, s) ==
    CASE r.kind \in {"login", "relogin", "resume"} -> Idle
      [] r.stage = "renew" -> [r EXCEPT !.pc = "create", !.stage = "again", !.from = "none"]
      [] OTHER -> [r EXCEPT !.pc = "have", !.sess = [NoSession EXCEPT !.tok = s.tok], !.from = "none"]

Create(c) ==
    /\ At(c, "create")
    /\ Enter(c, call[c])
    /\ UNCHANGED <<uses, serverVars, stored, flagVars, refresh, why, trouble>>

\* Mutant: every call refreshes on its own; the last one replaces the promise.
JoinAlone(c) ==
    /\ Goto(c, "wait")
    /\ refresh' = [NoRefresh EXCEPT !.pc = "read"]

\* refreshSession joins the refresh in progress or begins one.
Join(c) ==
    /\ Goto(c, "wait")
    /\ refresh' = IF refresh.pc = "none" THEN [NoRefresh EXCEPT !.pc = "read"] ELSE refresh

\* tryGetLocalSession, with the session s that the storage returned.
Found(c, s) ==
    IF s # NoSession /\ mem = 0
    THEN Join(c)
    ELSE /\ Becomes(c, IF s # NoSession THEN Got(call[c], [s EXCEPT !.tok = mem])
                       ELSE IF Retries(call[c]) THEN [call[c] EXCEPT !.pc = "post"] ELSE Idle)
         /\ UNCHANGED refresh

\* getUserId throws when nobody is signed in, and so does the login after it.
Read(c) ==
    /\ At(c, "read")
    /\ IF user THEN Found(c, stored)
               ELSE Becomes(c, Idle) /\ UNCHANGED refresh
    /\ UNCHANGED <<uses, serverVars, mem, stored, flagVars, why, trouble>>

\* A transient error of the storage counts as no session.
ReadFails(c) ==
    /\ At(c, "read") /\ user
    /\ Trouble
    /\ Found(c, NoSession)
    /\ UNCHANGED <<uses, serverVars, mem, stored, flagVars, why>>

\* clearBackendSession, then throwStoredSessionAuthFailure.
Clear(c) ==
    /\ At(c, "clear")
    /\ stored' = NoSession
    /\ event' = (event \/ (Retries(call[c]) /\ ~recent))
    /\ Becomes(c, Idle)
    /\ UNCHANGED <<uses, serverVars, mem, user, force, recent, notice, refresh, why, trouble>>

\* POST /auth/session.  An account with MFA answers mfaRequired first; the user
\* enters the code, and the app stores the response twice more on its way up.
Post(c, n) ==
    /\ At(c, "post") /\ user
    /\ mfaOn => Retries(call[c])
    /\ Login(n, ModeOf(mfaOn))
    /\ mem' = IF mfaOn /\ force THEN 0 ELSE mem
    /\ Becomes(c, [call[c] EXCEPT !.pc = "answered", !.from = "post",
                                  !.left = IF mfaOn THEN 2 ELSE 0,
                                  !.sess = [tok |-> n, mode |-> ModeOf(mfaOn)]])
    /\ UNCHANGED <<uses, mfaOn, stored, flagVars, refresh, why, trouble>>

\* Nobody is signed in, the modal is cancelled or busy, or the request fails.
PostFails(c) ==
    /\ At(c, "post")
    /\ IF ~user \/ mfaOn \/ minted = MaxToken THEN UNCHANGED trouble ELSE Trouble
    /\ Becomes(c, Idle)
    /\ UNCHANGED <<uses, serverVars, mem, stored, flagVars, refresh, why>>

\* The answer with a new session is lost; no device holds the session.
AnswerLost(c) ==
    /\ At(c, "answered") /\ call[c].from # "kept"
    /\ Trouble
    /\ why' = why \cup {"slipped"}
    /\ Becomes(c, Idle)
    /\ UNCHANGED <<uses, serverVars, mem, stored, flagVars, refresh>>

\* storeSessionResponse: the memory at once, the storage after an await.
Answered(c) ==
    /\ At(c, "answered")
    /\ IF user
       THEN mem' = call[c].sess.tok /\ Goto(c, "keep") /\ UNCHANGED why
       ELSE mem' = mem /\ Becomes(c, Idle) /\ why' = why \cup {"slipped"}
    /\ UNCHANGED <<uses, serverVars, stored, flagVars, refresh, trouble>>

\* History: storing what is used up or dead loses the session.
Stores(s) ==
    /\ stored' = s
    /\ why' = IF Live(s) THEN why ELSE why \cup {"slipped"}

\* The middle one of three writes comes without the rest of storeSessionResponse.
Keep(c) ==
    LET r == call[c]
    IN  /\ At(c, "keep")
        /\ Stores(r.sess)
        /\ recent' = (recent \/ r.left # 1)
        /\ force' = (force /\ (r.left = 1 \/ r.from = "swap"))
        /\ Becomes(c, CASE r.left = 2 -> [r EXCEPT !.left = 1]
                        [] r.left = 1 -> [r EXCEPT !.left = 0, !.from = "kept", !.pc = "answered"]
                        [] r.from = "swap" -> Idle
                        [] OTHER -> Got(r, r.sess))
        /\ UNCHANGED <<uses, serverVars, mem, user, event, notice, refresh, trouble>>

\* The storage refuses the session; the caller gets the error.
KeepFails(c) ==
    /\ At(c, "keep")
    /\ Trouble
    /\ why' = why \cup {"slipped"}
    /\ Becomes(c, Idle)
    /\ UNCHANGED <<uses, serverVars, mem, stored, flagVars, refresh>>

(***************************************************************************)
(* refreshSessionOnce, and what the calls that wait for it do next.        *)
(***************************************************************************)
\* Mutant: a refresh that failed for good ends the call and nothing else.
ResumedQuietly(r, e, s) ==
    IF r.kind = "signout"
    THEN [r EXCEPT !.pc = IF e = "ok" THEN "revoke" ELSE "wipe", !.sess.tok = s.tok]
    ELSE CASE e = "ok" -> Got(r, s)
           [] e = "mfa" -> IF Retries(r) THEN [r EXCEPT !.pc = "post"] ELSE Idle
           [] e \in {"dead", "limit"} -> Idle
           [] e = "other" -> [r EXCEPT !.pc = "post"]

\* tryGetLocalSession and createSession with the outcome e of the refresh;
\* signOut goes on without a token when there is none.
Resumed(r, e, s) ==
    IF r.kind = "signout"
    THEN [r EXCEPT !.pc = IF e = "ok" THEN "revoke" ELSE "wipe",
                       !.sess.tok = s.tok]
    ELSE CASE e = "ok" -> Got(r, s)
           [] e = "mfa" -> IF Retries(r) THEN [r EXCEPT !.pc = "post"] ELSE Idle
           [] e = "dead" -> [r EXCEPT !.pc = "clear"]
           [] e = "limit" -> Idle
           [] e = "other" -> [r EXCEPT !.pc = "post"]

\* Mutant: a failure is told to the caller that began the refresh only.
SettleForOne(e, s, token) ==
    LET waiting == {c \in Call : At(c, "wait")}
        told == IF e = "ok" \/ waiting = {} THEN waiting ELSE {CHOOSE c \in waiting : TRUE}
    IN  /\ refresh' = NoRefresh
        /\ call' = [c \in Call |-> IF c \in told THEN Resumed(call[c], e, s) ELSE call[c]]
        /\ mem' = IF e = "ok" THEN token ELSE 0

\* The promise settles: it is forgotten, and every call that waits resumes.
Settle(e, s, token) ==
    LET waiting == {c \in Call : At(c, "wait")}
        clears == \E c \in waiting : call[c].kind = "signout" \/ e \in {"mfa", "dead", "other"}
    IN  /\ refresh' = NoRefresh
        /\ call' = [c \in Call |-> IF c \in waiting THEN Resumed(call[c], e, s) ELSE call[c]]
        /\ mem' = IF clears THEN 0 ELSE token

RefreshRead ==
    /\ refresh.pc = "read"
    /\ IF stored = NoSession
       THEN Settle("other", NoSession, mem)
       ELSE refresh' = [pc |-> "sent", sess |-> stored] /\ UNCHANGED <<call, mem>>
    /\ UNCHANGED <<uses, serverVars, stored, flagVars, why, trouble>>

\* rotateBackendRefreshToken: one transaction, then the access token.
RefreshServed(n) ==
    LET t == refresh.sess.tok
    IN  /\ refresh.pc = "sent"
        /\ Live(refresh.sess)
        /\ minted < MaxToken /\ n = minted + 1
        /\ minted' = n
        /\ family' = [family EXCEPT ![n] = alive]
        /\ spent' = spent \cup {t}
        /\ refresh' = [pc |-> "answered", sess |-> [tok |-> n, mode |-> mode]]
        /\ UNCHANGED <<uses, alive, mode, mfaOn, mem, stored, flagVars, call, why, trouble>>

\* An unknown token, or reuse, which revokes the family.
RefreshDead ==
    /\ refresh.pc = "sent"
    /\ ~Live(refresh.sess)
    /\ IF Of(refresh.sess.tok) THEN Ends ELSE UNCHANGED <<alive, spent, mode>>
    /\ Settle("dead", NoSession, mem)
    /\ UNCHANGED <<uses, minted, family, mfaOn, stored, flagVars, why, trouble>>

\* requiresMfaForRefresh: no valid access token came along, or the check is old.
RefreshNeedsMfa ==
    /\ refresh.pc = "sent"
    /\ Live(refresh.sess)
    /\ mode = "asks"
    /\ Settle("mfa", NoSession, mem)
    /\ UNCHANGED <<uses, serverVars, stored, flagVars, why, trouble>>

RefreshLimited ==
    /\ refresh.pc = "sent"
    /\ IF minted = MaxToken /\ Live(refresh.sess) THEN UNCHANGED trouble ELSE Trouble
    /\ Settle("limit", NoSession, mem)
    /\ UNCHANGED <<uses, serverVars, stored, flagVars, why>>

\* The request or its answer is lost; an answer takes the new token with it.
RefreshLost ==
    /\ refresh.pc \in {"sent", "answered"}
    /\ Trouble
    /\ why' = IF refresh.pc = "answered" THEN why \cup {"slipped"} ELSE why
    /\ Settle("other", NoSession, mem)
    /\ UNCHANGED <<uses, serverVars, stored, flagVars>>

RefreshAnswered ==
    /\ refresh.pc = "answered"
    /\ mem' = refresh.sess.tok
    /\ refresh' = [refresh EXCEPT !.pc = "keep"]
    /\ UNCHANGED <<uses, serverVars, stored, flagVars, call, why, trouble>>

RefreshKept ==
    /\ refresh.pc = "keep"
    /\ Stores(refresh.sess)
    /\ recent' = TRUE
    /\ Settle("ok", refresh.sess, mem)
    /\ UNCHANGED <<uses, serverVars, user, force, event, notice, trouble>>

RefreshNotKept ==
    /\ refresh.pc = "keep"
    /\ Trouble
    /\ why' = why \cup {"slipped"}
    /\ Settle("other", NoSession, mem)
    /\ UNCHANGED <<uses, serverVars, stored, flagVars>>

(***************************************************************************)
(* Requests with a session                                                 *)
(***************************************************************************)
Authentic(c) == At(c, "have") /\ Of(call[c].sess.tok)

Served(c) ==
    /\ Authentic(c) /\ call[c].kind = "request"
    /\ Becomes(c, Idle)
    /\ UNCHANGED <<uses, serverVars, mem, stored, flagVars, refresh, why, trouble>>

\* Without MFA the answer to /mfa/session/trust is always mfaTrusted false.
ServedTrust(c, trusted) ==
    LET m == IF mode = "off" THEN "off" ELSE IF trusted THEN "trusted" ELSE "asks"
    IN  /\ Authentic(c) /\ call[c].kind = "trust"
        /\ mode' = m
        /\ Becomes(c, [call[c] EXCEPT !.pc = "copy", !.sess = [tok |-> 0, mode |-> m]])
        /\ UNCHANGED <<uses, minted, family, alive, spent, mfaOn, mem, stored, flagVars,
                       refresh, why, trouble>>

\* MFA is enabled or disabled; its new session replaces all others.
ServedSwap(c, n, trusted) ==
    LET m == IF mfaOn THEN "off" ELSE IF trusted THEN "trusted" ELSE "asks"
    IN  /\ Authentic(c) /\ call[c].kind = "swap"
        /\ mfaOn' = ~mfaOn
        /\ Login(n, m)
        /\ Becomes(c, [call[c] EXCEPT !.pc = "answered", !.from = "swap",
                                      !.sess = [tok |-> n, mode |-> m]])
        /\ UNCHANGED <<uses, mem, stored, flagVars, refresh, why, trouble>>

\* The request or its answer is lost, or it is refused for another reason.
NotServed(c) ==
    /\ At(c, "have")
    /\ IF minted = MaxToken /\ call[c].kind = "swap" THEN UNCHANGED trouble ELSE Trouble
    /\ Becomes(c, Idle)
    /\ UNCHANGED <<uses, serverVars, mem, stored, flagVars, refresh, why>>

\* Mutant: signOut() without a look at the last session swap.
RefusedLoudly(c) ==
    /\ At(c, "have") /\ ~Authentic(c)
    /\ IF call[c].stage = "first"
       THEN Enter(c, [call[c] EXCEPT !.sess = NoSession, !.stage = "renew"]) /\ UNCHANGED event
       ELSE Becomes(c, Idle) /\ event' = TRUE /\ UNCHANGED mem
    /\ UNCHANGED <<uses, serverVars, stored, user, force, recent, notice, refresh, why, trouble>>

\* 401: a request that may retry gets a session once more; else signOut().
Refused(c) ==
    /\ At(c, "have") /\ ~Authentic(c)
    /\ IF call[c].stage = "first"
       THEN Enter(c, [call[c] EXCEPT !.sess = NoSession, !.stage = "renew"]) /\ UNCHANGED event
       ELSE Becomes(c, Idle) /\ event' = (event \/ ~recent) /\ UNCHANGED mem
    /\ UNCHANGED <<uses, serverVars, stored, user, force, recent, notice, refresh, why, trouble>>

(***************************************************************************)
(* The mode of the stored session is changed by reading it and writing it. *)
(***************************************************************************)
\* syncRemoteMfaState
Sync(c) ==
    /\ At(c, "sync")
    /\ IF stored # NoSession /\ stored.mode = call[c].sess.mode
       THEN Becomes(c, Idle) /\ UNCHANGED <<mem, force>>
       ELSE Goto(c, "copy") /\ mem' = 0 /\ force' = TRUE
    /\ UNCHANGED <<uses, serverVars, stored, user, recent, event, notice, refresh, why, trouble>>

\* updateStoredSessionMfaTrust leaves mfaEnabled alone.
Copy(c) ==
    LET r == call[c]
        m == IF r.kind = "trust" /\ stored.mode = "off" THEN "off"
             ELSE IF r.kind = "trust" /\ r.sess.mode = "off" THEN "asks" ELSE r.sess.mode
    IN  /\ At(c, "copy")
        /\ Becomes(c, IF stored = NoSession THEN Idle
                      ELSE [r EXCEPT !.pc = "write", !.sess = [stored EXCEPT !.mode = m]])
        /\ UNCHANGED <<uses, serverVars, mem, stored, flagVars, refresh, why, trouble>>

Write(c) ==
    /\ At(c, "write")
    /\ Stores(call[c].sess)
    /\ Becomes(c, Idle)
    /\ UNCHANGED <<uses, serverVars, mem, flagVars, refresh, trouble>>

\* Errors of the storage are swallowed.
NotWritten(c) ==
    /\ At(c, "copy") \/ At(c, "write")
    /\ Trouble
    /\ Becomes(c, Idle)
    /\ UNCHANGED <<uses, serverVars, mem, stored, flagVars, refresh, why>>

(***************************************************************************)
(* signOut, of the session manager and of the account commands around it   *)
(***************************************************************************)
Leave(c) ==
    /\ At(c, "leave")
    /\ mem' = 0
    /\ IF mem = 0 /\ stored # NoSession /\ stored.mode # "asks"
       THEN Join(c)
       ELSE /\ Becomes(c, IF mem # 0
                          THEN [call[c] EXCEPT !.pc = "revoke", !.sess.tok = mem]
                          ELSE [call[c] EXCEPT !.pc = "wipe"])
            /\ UNCHANGED refresh
    /\ UNCHANGED <<uses, serverVars, stored, flagVars, why, trouble>>

\* POST /auth/sign-out; an error of any kind changes nothing for the app.
Revoke(c) ==
    /\ At(c, "revoke")
    /\ IF Of(call[c].sess.tok) THEN Ends ELSE UNCHANGED <<alive, spent, mode>>
    /\ Becomes(c, [Idle EXCEPT !.kind = "signout", !.pc = "wipe"])
    /\ UNCHANGED <<uses, minted, family, mfaOn, mem, stored, flagVars, refresh, why, trouble>>

NotRevoked(c) ==
    /\ At(c, "revoke")
    /\ Trouble
    /\ Becomes(c, [Idle EXCEPT !.kind = "signout", !.pc = "wipe"])
    /\ UNCHANGED <<uses, serverVars, mem, stored, flagVars, refresh, why>>

Wipe(c) ==
    /\ At(c, "wipe")
    /\ stored' = NoSession
    /\ Goto(c, "gone")
    /\ UNCHANGED <<uses, serverVars, mem, flagVars, refresh, why, trouble>>

Gone(c) ==
    /\ At(c, "gone")
    /\ user' = FALSE /\ event' = FALSE
    /\ Becomes(c, Idle)
    /\ UNCHANGED <<uses, serverVars, mem, stored, force, recent, notice, refresh, why, trouble>>

\* deletePushToken or firebaseSignOut fails, after the storage was wiped.
NotGone(c) ==
    /\ At(c, "gone")
    /\ Trouble
    /\ event' = FALSE
    /\ Becomes(c, Idle)
    /\ UNCHANGED <<uses, serverVars, mem, stored, user, force, recent, notice, refresh, why>>

(***************************************************************************)
(* What happens around the calls                                           *)
(***************************************************************************)
Quiet == refresh.pc = "none" /\ \A c \in Call : At(c, "idle")

\* The access token is near its end, or the app is locked.
TokenGoes ==
    /\ mem # 0
    /\ mem' = 0
    /\ UNCHANGED <<uses, serverVars, stored, flagVars, refresh, call, why, trouble>>

\* Twenty seconds pass, and no call takes that long.
Forget ==
    /\ recent /\ Quiet
    /\ recent' = FALSE
    /\ UNCHANGED <<uses, serverVars, mem, stored, user, force, event, notice, refresh, call, why, trouble>>

\* Another device, the age of the family or the cleanup ends the session.
EndedElsewhere ==
    /\ alive # 0
    /\ Trouble
    /\ Ends
    /\ why' = why \cup {"ended"}
    /\ UNCHANGED <<uses, minted, family, mfaOn, mem, stored, flagVars, refresh, call>>

\* Another device enables or disables MFA, which ends the sessions and tells.
SwitchedElsewhere ==
    /\ user
    /\ Trouble
    /\ mfaOn' = ~mfaOn
    /\ Ends
    /\ notice' = ModeOf(mfaOn')
    /\ why' = why \cup {"ended"}
    /\ UNCHANGED <<uses, minted, family, mem, stored, user, force, recent, event, refresh, call>>

\* The process dies with all it holds in memory, answers included.
Restart ==
    /\ Trouble
    /\ mem' = 0 /\ force' = FALSE /\ recent' = FALSE /\ event' = FALSE
    /\ refresh' = NoRefresh
    /\ call' = [c \in Call |-> Idle]
    /\ why' = IF \E pc \in {"answered", "keep", "wipe"} : refresh.pc = pc \/ \E c \in Call : At(c, pc)
              THEN why \cup {"slipped"} ELSE why
    /\ UNCHANGED <<uses, serverVars, stored, user, notice>>

Step(c) ==
    \/ Create(c) \/ Read(c) \/ ReadFails(c) \/ Clear(c)
    \/ \E n \in Token : Post(c, n)
    \/ PostFails(c) \/ AnswerLost(c) \/ Answered(c) \/ Keep(c) \/ KeepFails(c)
    \/ Served(c) \/ NotServed(c) \/ Refused(c)
    \/ \E trusted \in BOOLEAN : ServedTrust(c, trusted)
    \/ \E n \in Token, trusted \in BOOLEAN : ServedSwap(c, n, trusted)
    \/ Sync(c) \/ Copy(c) \/ Write(c) \/ NotWritten(c)
    \/ Leave(c) \/ Revoke(c) \/ NotRevoked(c) \/ Wipe(c) \/ Gone(c) \/ NotGone(c)

RefreshStep ==
    \/ RefreshRead
    \/ \E n \in Token : RefreshServed(n)
    \/ RefreshDead \/ RefreshNeedsMfa \/ RefreshLimited \/ RefreshLost
    \/ RefreshAnswered \/ RefreshKept \/ RefreshNotKept

Next ==
    \/ \E c \in Call, k \in Kind : Start(c, k)
    \/ \E c \in Call : Step(c)
    \/ RefreshStep
    \/ TokenGoes \/ Forget \/ EndedElsewhere \/ SwitchedElsewhere \/ Restart

\* What the app and the server begin, they go on with; access tokens age; and a
\* user who stays signed in makes requests now and again.
Fairness ==
    /\ \A c \in Call : WF_vars(Step(c))
    /\ WF_vars(RefreshStep)
    /\ WF_vars(TokenGoes)
    /\ SF_vars(\E c \in Call : Start(c, "request"))

Spec == Init /\ [][Next]_vars /\ Fairness

(***************************************************************************)
(* Properties                                                              *)
(***************************************************************************)
CallType ==
    [pc : {"idle", "create", "read", "wait", "clear", "post", "answered", "keep", "have",
           "sync", "copy", "write", "leave", "revoke", "wipe", "gone"},
     kind : Kind \cup {"none"}, stage : {"first", "renew", "again"},
     from : {"none", "post", "swap", "kept"}, sess : [tok : {0} \cup Token, mode : Mode], left : 0..2]

\* Types, and: a refresh has a session in hand whenever it is under way, and
\* someone waits for it unless the process was restarted.
TypeOK ==
    /\ minted \in 0..MaxToken
    /\ family \in [Token -> Token] /\ mode \in Mode
    /\ alive \in {0} \cup Token /\ spent \subseteq Token
    /\ {mfaOn, user, force, recent, event} \subseteq BOOLEAN
    /\ notice \in Mode \cup {"none"}
    /\ mem \in {0} \cup Token
    /\ stored \in Session
    /\ refresh \in [pc : {"none", "read", "sent", "answered", "keep"}, sess : Session]
    /\ refresh.pc \in {"sent", "answered", "keep"} <=> refresh.sess # NoSession
    /\ call \in [Call -> CallType] /\ uses \in Kinds
    /\ why \subseteq {"ended", "slipped"}
    /\ trouble \in 0..MaxTrouble

\* The app never presents a used refresh token, which would end its session on
\* the server, unless an answer got lost or a late write put an old session
\* back (refreshSession, one promise for all callers; storeSession is awaited
\* before the promise settles).
NoReuse ==
    "slipped" \notin why /\ refresh.pc = "sent" =>
        refresh.sess.tok \notin spent

\* The app is told to sign out only when the session it has stored is dead,
\* requests that raced a session swap included (signOut in httpErrorHandler,
\* throwStoredSessionAuthFailure).
SignOutEventIsDue ==
    [][event' /\ ~event /\ "slipped" \notin why => ~Live(stored)]_vars

\* Every call comes to an end, those that share a refresh included.
CallsEnd == \A c \in Call : ~At(c, "idle") ~> At(c, "idle")

\* A signed-in app does not go on with a dead session: it drops it, replaces it,
\* asks for a new one or signs out.
DeadSessionIsNoticed ==
    (user /\ stored # NoSession /\ ~Live(stored)) ~>
        (stored = NoSession \/ Live(stored) \/ force \/ event \/ ~user)

\* As the comments of sessionSwap, httpErrorHandler and
\* sessionAuthenticationFlow promise, a failed refresh that raced a swap leaves
\* the fresh session stored.
KeepsFreshSession == [][\A c \in Call : Clear(c) => ~Live(stored)]_vars
====
