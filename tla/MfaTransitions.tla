---------------------------- MODULE MfaTransitions ----------------------------
(***************************************************************************)
(* Switching MFA on and off in the PurrivacyApp API server                 *)
(* (src/apps/server/src/features/mfa and core/transitions): a transition   *)
(* creates the new session, applies the change and revokes the old         *)
(* sessions, each step recorded in a progress document so that a retry     *)
(* resumes, with a compensation when the change itself failed.             *)
(*                                                                         *)
(* The module follows one account.  A session is its refresh-token family  *)
(* (AuthSessions has the rest).  Every awaited call is one step; any of    *)
(* them may throw, and the process may die between any two.                *)
(***************************************************************************)
EXTENDS Integers, FiniteSets

CONSTANTS
    Family,       \* refresh-token family ids
    Request,      \* HTTP requests that may be in progress at once
    None,         \* "no such value"
    ProgressLife, \* MFA_TRANSITION_TTL_MS
    SetupLife,    \* MFA_SETUP_EXPIRY_MINUTES
    MaxClock      \* bound: the last instant of the instance

ASSUME LifeAssumption == ProgressLife \in Nat /\ SetupLife \in Nat /\ MaxClock \in Nat
ASSUME NoneAssumption == None \notin Family

Kind == {"enable", "disable"}
StepName == {"createSession", "applyMfa", "revokeOldSessions"}

VARIABLES
    mfaEnabled, \* the flag of the user document
    setup,      \* expiry of the MFA setup document, or None
    live,       \* the families of the account that exist
    minted,     \* the family ids drawn so far
    claims,     \* userHasMfa of each family
    held,       \* the families whose tokens a device of the account received
    progress,   \* the progress document of each transition
    clock,
    req         \* the local variables of every request

accountVars == <<mfaEnabled, setup>>
familyVars  == <<live, minted, claims, held>>
vars == <<accountVars, familyVars, progress, clock, req>>

NoDoc == [exists |-> FALSE, steps |-> {}, fam |-> None, expiresAt |-> 0]

Idle == [pc |-> "idle", kind |-> "none", step |-> "none", code |-> FALSE,
         resume |-> FALSE, done |-> {}, fam |-> None, doc |-> NoDoc,
         pend |-> {}, was |-> FALSE, sound |-> FALSE]

\* MfaTransitionStore.read: an expired document counts as none.
Readable(doc) == doc.exists /\ doc.expiresAt > clock
Recorded(doc) == IF Readable(doc) THEN doc.steps ELSE {}

Target(k) == k = "enable"

\* Some device of the account can authenticate a request.
CanAuthenticate == held \cap live # {}

\* A progress document that still tells the truth: the session it recorded is
\* alive, the change it recorded was not undone, and no session that claims
\* otherwise appeared since the old ones were revoked.
Truthful(doc, k) ==
    /\ "createSession" \in Recorded(doc) => doc.fam \in live
    /\ "applyMfa" \in Recorded(doc) => mfaEnabled = Target(k)
    /\ "revokeOldSessions" \in Recorded(doc) => \A f \in live : claims[f] = Target(k)

Init ==
    /\ mfaEnabled = FALSE
    /\ setup = None
    /\ live = {} /\ minted = {} /\ held = {}
    /\ claims = [f \in Family |-> FALSE]
    /\ progress = [k \in Kind |-> NoDoc]
    /\ clock = 0
    /\ req = [w \in Request |-> Idle]

At(w, pc) == req[w].pc = pc
Becomes(w, r) == req' = [req EXCEPT ![w] = r]
Goto(w, pc) == Becomes(w, [req[w] EXCEPT !.pc = pc])

\* The first step that is not recorded yet.
NextStep(done) ==
    IF "createSession" \notin done THEN "createSession"
    ELSE IF "applyMfa" \notin done THEN "applyMfa"
    ELSE IF "revokeOldSessions" \notin done THEN "revokeOldSessions"
    ELSE "clear"

Proceed(w, r) == Becomes(w, [r EXCEPT !.pc = NextStep(r.done), !.step = NextStep(r.done)])

\* The step ran; store.complete comes next.
StepDone(w, r) == Becomes(w, [r EXCEPT !.done = @ \cup {r.step}, !.pc = "recordRead"])

\* The step failed: compensate when it was the change itself.
Fail(w) ==
    IF req[w].step = "applyMfa" /\ req[w].fam # None
    THEN Goto(w, "compensate")
    ELSE Becomes(w, Idle)

(***************************************************************************)
(* Logins, sign-outs and the setup of MFA, around the transitions.         *)
(***************************************************************************)
\* AuthSessionService.createSession reads the flag and commits afterwards.
LoginRead(w) ==
    /\ At(w, "idle")
    /\ Becomes(w, [Idle EXCEPT !.pc = "login", !.was = mfaEnabled])
    /\ UNCHANGED <<accountVars, familyVars, progress, clock>>

LoginCommit(w, f, delivered) ==
    /\ At(w, "login")
    /\ f \notin minted
    /\ minted' = minted \cup {f}
    /\ live' = live \cup {f}
    /\ claims' = [claims EXCEPT ![f] = req[w].was]
    /\ held' = IF delivered THEN held \cup {f} ELSE held
    /\ Becomes(w, Idle)
    /\ UNCHANGED <<accountVars, progress, clock>>

\* Sign-out of one device, or of all of them.
SignOut(w, gone) ==
    /\ At(w, "idle")
    /\ CanAuthenticate
    /\ live' = live \ gone
    /\ UNCHANGED <<accountVars, minted, claims, held, progress, clock, req>>

\* setupMfa refuses an account with MFA and writes the setup document later.
SetupRead(w) ==
    /\ At(w, "idle")
    /\ CanAuthenticate
    /\ ~mfaEnabled
    /\ Becomes(w, [Idle EXCEPT !.pc = "setup"])
    /\ UNCHANGED <<accountVars, familyVars, progress, clock>>

SetupWrite(w) ==
    /\ At(w, "setup")
    /\ setup' = clock + SetupLife
    /\ Becomes(w, Idle)
    /\ UNCHANGED <<mfaEnabled, familyVars, progress, clock>>

\* cleanupExpiredMfaSetups
CleanupSetup ==
    /\ setup # None
    /\ setup < clock
    /\ setup' = None
    /\ UNCHANGED <<mfaEnabled, familyVars, progress, clock, req>>

(***************************************************************************)
(* A transition.                                                           *)
(***************************************************************************)
\* The request is authenticated by a live family; disable passed
\* verifySensitiveMfa, so its code was right; runTransition reads the progress.
Start(w, k, code) ==
    /\ At(w, "idle")
    /\ CanAuthenticate
    /\ k = "disable" => code
    /\ LET doc == progress[k]
       IN  Becomes(w, [Idle EXCEPT
                !.pc = "reread", !.kind = k, !.code = code, !.resume = Readable(doc),
                !.fam = IF Readable(doc) THEN doc.fam ELSE None,
                !.was = mfaEnabled, !.sound = Truthful(doc, k)])
    /\ UNCHANGED <<accountVars, familyVars, progress, clock>>

\* executeTransition reads it once more.
Reread(w) ==
    /\ At(w, "reread")
    /\ Proceed(w, [req[w] EXCEPT !.done = Recorded(progress[req[w].kind])])
    /\ UNCHANGED <<accountVars, familyVars, progress, clock>>

\* Mutant: the new session sweeps the old ones at once.
CreateSweeping(w, f) ==
    /\ At(w, "createSession")
    /\ f \notin minted
    /\ minted' = minted \cup {f}
    /\ live' = {f}
    /\ claims' = [claims EXCEPT ![f] = Target(req[w].kind)]
    /\ Becomes(w, [req[w] EXCEPT !.pc = "access", !.pend = {f}])
    /\ UNCHANGED <<accountVars, held, progress, clock>>

CreateCommit(w, f) ==
    /\ At(w, "createSession")
    /\ f \notin minted
    /\ minted' = minted \cup {f}
    /\ live' = live \cup {f}
    /\ claims' = [claims EXCEPT ![f] = Target(req[w].kind)]
    /\ Becomes(w, [req[w] EXCEPT !.pc = "access", !.pend = {f}])
    /\ UNCHANGED <<accountVars, held, progress, clock>>

\* createAccessTokenForFamily; only now is there a session response.
CreateAccess(w, f) ==
    /\ At(w, "access")
    /\ f \in req[w].pend
    /\ StepDone(w, [req[w] EXCEPT !.fam = f, !.pend = {}])
    /\ UNCHANGED <<accountVars, familyVars, progress, clock>>

\* applyMfaState: a resumed enable of an account that has MFA by now proves
\* the code against it; everything else takes the setup document.
EnableRead(w) ==
    /\ At(w, "applyMfa")
    /\ req[w].kind = "enable"
    /\ Goto(w, IF req[w].resume /\ mfaEnabled THEN "verify" ELSE "readSetup")
    /\ UNCHANGED <<accountVars, familyVars, progress, clock>>

EnableVerify(w) ==
    /\ At(w, "verify")
    /\ IF mfaEnabled /\ req[w].code THEN StepDone(w, req[w]) ELSE Fail(w)
    /\ UNCHANGED <<accountVars, familyVars, progress, clock>>

ReadSetup(w) ==
    /\ At(w, "readSetup")
    /\ IF setup # None
       THEN IF setup < clock
            THEN Goto(w, "dropSetup")
            ELSE IF req[w].code THEN Goto(w, "enableCommit") ELSE Fail(w)
       ELSE Fail(w)
    /\ UNCHANGED <<accountVars, familyVars, progress, clock>>

DropSetup(w) ==
    /\ At(w, "dropSetup")
    /\ setup' = None
    /\ Fail(w)
    /\ UNCHANGED <<mfaEnabled, familyVars, progress, clock>>

EnableCommit(w) ==
    /\ At(w, "enableCommit")
    /\ mfaEnabled' = TRUE
    /\ Goto(w, "consumeSetup")
    /\ UNCHANGED <<setup, familyVars, progress, clock>>

ConsumeSetup(w) ==
    /\ At(w, "consumeSetup")
    /\ setup' = None
    /\ StepDone(w, req[w])
    /\ UNCHANGED <<mfaEnabled, familyVars, progress, clock>>

DisableCommit(w) ==
    /\ At(w, "applyMfa")
    /\ req[w].kind = "disable"
    /\ mfaEnabled' = FALSE
    /\ StepDone(w, req[w])
    /\ UNCHANGED <<setup, familyVars, progress, clock>>

\* Mutant: only the families some device is known to hold.
OldFamiliesHeld(w) == (live \cap held) \ {req[w].fam}

OldFamilies(w) == live \ {req[w].fam}

RevokeQuery(w) ==
    /\ At(w, "revokeOldSessions")
    /\ IF req[w].fam = None
       THEN Fail(w)
       ELSE Becomes(w, [req[w] EXCEPT !.pc = "purge", !.pend = OldFamilies(w)])
    /\ UNCHANGED <<accountVars, familyVars, progress, clock>>

RevokePurge(w) ==
    /\ At(w, "purge")
    /\ live' = live \ req[w].pend
    /\ StepDone(w, [req[w] EXCEPT !.pend = {}])
    /\ UNCHANGED <<accountVars, minted, claims, held, progress, clock>>

\* store.complete reads the document and writes it back with the step added;
\* an existing document, even an expired one, keeps its expiry and its steps.
RecordRead(w) ==
    /\ At(w, "recordRead")
    /\ Becomes(w, [req[w] EXCEPT !.pc = "recordWrite", !.doc = progress[req[w].kind]])
    /\ UNCHANGED <<accountVars, familyVars, progress, clock>>

RecordWrite(w) ==
    /\ At(w, "recordWrite")
    /\ LET r == req[w]
       IN  progress' = [progress EXCEPT ![r.kind] =
               [exists |-> TRUE, steps |-> r.doc.steps \cup {r.step},
                fam |-> IF r.step = "createSession" THEN r.fam ELSE r.doc.fam,
                expiresAt |-> IF r.doc.exists THEN r.doc.expiresAt
                                              ELSE clock + ProgressLife]]
    /\ Proceed(w, [req[w] EXCEPT !.doc = NoDoc])
    /\ UNCHANGED <<accountVars, familyVars, clock>>

\* store.clear after the last step; its failure is swallowed.
Clear(w, ok) ==
    /\ At(w, "clear")
    /\ progress' = IF ok THEN [progress EXCEPT ![req[w].kind] = NoDoc] ELSE progress
    /\ Goto(w, "answer")
    /\ UNCHANGED <<accountVars, familyVars, clock>>

\* The answer carries the session and may get lost.
Answer(w, delivered) ==
    /\ At(w, "answer")
    /\ held' = IF delivered THEN held \cup ({req[w].fam} \ {None}) ELSE held
    /\ Becomes(w, Idle)
    /\ UNCHANGED <<accountVars, live, minted, claims, progress, clock>>

\* The compensation: revoke the new family, then clear the progress.
Compensate(w) ==
    /\ At(w, "compensate")
    /\ live' = live \ {req[w].fam}
    /\ Goto(w, "clearFailed")
    /\ UNCHANGED <<accountVars, minted, claims, held, progress, clock>>

ClearFailed(w) ==
    /\ At(w, "clearFailed")
    /\ progress' = [progress EXCEPT ![req[w].kind] = NoDoc]
    /\ Becomes(w, Idle)
    /\ UNCHANGED <<accountVars, familyVars, clock>>

\* An awaited call inside a step, or store.complete after it, throws.
StepFails(w) ==
    /\ req[w].step \in StepName
    /\ ~At(w, "compensate") /\ ~At(w, "clearFailed")
    /\ Fail(w)
    /\ UNCHANGED <<accountVars, familyVars, progress, clock>>

\* Any other call throws, or the process dies.
Abort(w) ==
    /\ ~At(w, "idle")
    /\ Becomes(w, Idle)
    /\ UNCHANGED <<accountVars, familyVars, progress, clock>>

Tick ==
    /\ clock < MaxClock
    /\ clock' = clock + 1
    /\ UNCHANGED <<accountVars, familyVars, progress, req>>

Around(w) == \/ LoginRead(w)
             \/ \E f \in Family, delivered \in BOOLEAN : LoginCommit(w, f, delivered)
             \/ \E gone \in {{f} : f \in live \cap held} \cup {live} : SignOut(w, gone)
             \/ SetupRead(w)
             \/ SetupWrite(w)

Apply(w) == \/ EnableRead(w)
            \/ EnableVerify(w)
            \/ ReadSetup(w)
            \/ DropSetup(w)
            \/ EnableCommit(w)
            \/ ConsumeSetup(w)
            \/ DisableCommit(w)

Transition(w) == \/ \E k \in Kind, code \in BOOLEAN : Start(w, k, code)
                 \/ Reread(w)
                 \/ \E f \in Family : CreateCommit(w, f)
                 \/ \E f \in Family : CreateAccess(w, f)
                 \/ Apply(w)
                 \/ RevokeQuery(w)
                 \/ RevokePurge(w)
                 \/ RecordRead(w)
                 \/ RecordWrite(w)
                 \/ \E ok \in BOOLEAN : Clear(w, ok)
                 \/ \E delivered \in BOOLEAN : Answer(w, delivered)
                 \/ Compensate(w)
                 \/ ClearFailed(w)
                 \/ StepFails(w)
                 \/ Abort(w)

Next == Tick \/ CleanupSetup \/ \E w \in Request : Around(w) \/ Transition(w)

Spec == Init /\ [][Next]_vars

-----------------------------------------------------------------------------
(***************************************************************************)
(* Properties                                                              *)
(***************************************************************************)
Pc == {"idle", "login", "setup", "reread", "createSession", "access", "applyMfa",
       "verify", "readSetup", "dropSetup", "enableCommit", "consumeSetup",
       "revokeOldSessions", "purge", "recordRead", "recordWrite", "clear",
       "answer", "compensate", "clearFailed"}

ProgressDoc == [exists : BOOLEAN, steps : SUBSET StepName, fam : Family \cup {None},
                expiresAt : Nat]

Local == [pc : Pc, kind : Kind \cup {"none"}, step : StepName \cup {"none", "clear"},
          code : BOOLEAN, resume : BOOLEAN, done : SUBSET StepName,
          fam : Family \cup {None}, doc : ProgressDoc, pend : SUBSET Family,
          was : BOOLEAN, sound : BOOLEAN]

\* The types of the variables.
TypeOK ==
    /\ mfaEnabled \in BOOLEAN
    /\ setup \in Nat \cup {None}
    /\ live \subseteq minted /\ held \subseteq minted /\ minted \subseteq Family
    /\ claims \in [Family -> BOOLEAN]
    /\ progress \in [Kind -> ProgressDoc]
    /\ clock \in Nat
    /\ req \in [Request -> Local]

\* A transition that answers success has switched MFA, hands out a session that is
\* alive, and leaves no session that carries the old state, which decides whether a
\* refresh asks for MFA (sessionMfaPolicy.ts) - through every failed attempt, crash,
\* resumed progress and expiry before it; unless it resumed a progress document that no
\* longer told the truth when it began (MfaSessionService.runTransition).
SuccessIsApplied ==
    \A w \in Request : At(w, "answer") /\ req[w].fam # None /\ req[w].sound =>
        /\ mfaEnabled = Target(req[w].kind)
        /\ req[w].fam \in live
        /\ \A f \in live : claims[f] = mfaEnabled

\* A transition deletes no family but the one it created, unless the change was
\* applied: a wrong code, or any failure before, costs no session
\* (sweepStaleFamilies: false in runTransition, and the compensation).
FailureCostsNoSession ==
    [][\A w \in Request : req[w].kind \in Kind /\ req[w] # req'[w] =>
           live \ live' \subseteq {req[w].fam}
               \/ {"createSession", "applyMfa"} \subseteq req[w].done]_vars

\* MfaSessionService.ts:39-40: "The post-transition session is created FIRST, so
\* a failure in any later step can never leave the user without a working
\* session": of an account with a working session, a transition does not delete
\* the last family.
NeverStrands ==
    [][\A w \in Request : req[w].kind \in Kind /\ req[w] # req'[w] =>
           (CanAuthenticate => live' # {})]_vars

\* MfaSessionService.ts:57-58: "Failure: new family revoked (compensation);
\* MFA stays disabled": when the compensation of an enable runs, an account
\* without MFA at its start still has none.
FailedEnableStaysDisabled ==
    \A w \in Request : At(w, "compensate") /\ req[w].kind = "enable" /\ ~req[w].was
        => ~mfaEnabled
====
