---------------------------- MODULE AuthLifecycle ----------------------------
(***************************************************************************)
(* The auth lifecycle of the app (src/apps/mobile/src/features/auth): the  *)
(* asynchronous commands, the Firebase listener and the React effects that *)
(* drive AuthMachine, with the key cache (dekStore) and the lock marker.   *)
(*                                                                         *)
(* A task is what an async function keeps between two awaits; awaits with  *)
(* nothing shared between them are one step.  React renders, and runs the  *)
(* effects whose dependencies changed, before the next task continues.     *)
(* One account uses the app.  Left out: sign-up, custom-token sign-in, the *)
(* remembered username; local storage does not fail.                       *)
(***************************************************************************)
EXTENDS AuthMachine, Naturals, FiniteSets

\* Object 1 is the User object of an earlier run of the app.
ASSUME UserAssumption == User \subseteq Nat /\ 1 \in User

CONSTANTS
    MaxSignIns, \* bound on sign-ins and unlocks that users start
    MaxRefreshes, \* token changes the Firebase SDK reports by itself
    MaxEvents \* bound on locks, sign-outs, deletions, reloads and restarts together

VARIABLES
    m,        \* the state of the reducer
    ref,      \* the refs shared by the hooks
    current,  \* auth.currentUser
    dek,      \* the data-encryption key is in dekCache
    marker,   \* the lock marker is persisted
    print,    \* a biometric copy of the key exists
    rendered, \* the fields of m that the effects last ran for
    made,     \* how many User objects were made
    left,     \* what the bounds still allow
    signin,   \* the sign-in or unlock in progress
    told,     \* runs of the onIdTokenChanged handler
    creates,  \* runs of createBackendAuthSession
    finishes, \* runs of finishAuthenticatedSession
    unlocks,  \* runs of tryUnlock
    loads,    \* runs of loadUser
    locks, outs, clears, deletes \* lock, signOut, clearPartialFirebaseAuth, deletion

tasks == <<signin, told, creates, finishes, unlocks, loads, locks, outs, clears, deletes>>
vars == <<m, ref, current, dek, marker, print, rendered, made, left, tasks>>

InitialRefs == [user |-> None, load |-> TRUE, lock |-> FALSE, init |-> FALSE, force |-> FALSE,
                getting |-> FALSE, password |-> FALSE]

Fields == {"session", "fbUser", "user", "decrypted", "loading", "pending"}
Watched(s) == [f \in Fields |-> s[f]]
Quiet == rendered = Watched(m)

NoSignin == [at |-> "idle", user |-> None, local |-> FALSE, was |-> FALSE]
NoTasks == /\ signin' = NoSignin
           /\ creates' = {} /\ finishes' = {} /\ unlocks' = {} /\ loads' = {}
           /\ locks' = {} /\ outs' = {} /\ clears' = FALSE /\ deletes' = FALSE

\* At start nobody is signed in, or the user of an earlier run is (as object 1),
\* locked or not and with a biometric copy of the key.
Init ==
    /\ m = InitialState /\ ref = InitialRefs /\ dek = FALSE
    /\ rendered = Watched(InitialState)
    /\ current \in {None, 1} /\ made = 1
    /\ marker \in {FALSE, current = 1} /\ print = (current = 1)
    /\ left = [signIn |-> MaxSignIns,
                        refresh |-> MaxRefreshes, event |-> MaxEvents]
    /\ signin = NoSignin
    /\ told = {[user |-> current, at |-> "told"]}
    /\ creates = {} /\ finishes = {} /\ unlocks = {} /\ loads = {}
    /\ locks = {} /\ outs = {} /\ clears = FALSE /\ deletes = FALSE

Spend(what) == left[what] > 0 /\ left' = [left EXCEPT ![what] = @ - 1]
Event == Spend("event")

-----------------------------------------------------------------------------
\* Loading and locking, which several tasks call.

\* loadUser up to its first await; it gives up at once when it may not run.
Loading == ref.load /\ ref.user # None
LoadFor(finish) == [forFinish |-> finish, fresh |-> TRUE, data |-> FALSE, at |-> "fetching"]

\* invalidateLoads.
Stale(ls) == {[l EXCEPT !.fresh = FALSE] : l \in ls}

\* lock of useLockCommands up to its first await, after the caller's own
\* dispatches led to s.  createSession calls it without invalidateLoads.
StartLock(s, caller) ==
    IF current = None
    THEN /\ m' = UiSettled(LoadingFinished(LockRequested(s)))
         /\ UNCHANGED <<dek, locks>>
    ELSE /\ m' = LockRequested(s)
         /\ dek' = FALSE
         /\ locks' = locks \cup {caller}

\* finishAuthenticatedSession goes on once its lock is done.
ClosedBy(caller, done) == IF caller = "finish" /\ done THEN {"closing"} ELSE {}

\* completeAuthenticatedUi with the caller's setAuthCompleted.
UiCompleted(s) == UiSettled(UnlockSucceeded(LoadingFinished(s)))
ClearMarker == marker' = (marker /\ current = None)

LockStarts ==
    /\ Quiet /\ m.user # None /\ Event
    /\ ref' = [ref EXCEPT !.load = FALSE]
    /\ loads' = Stale(loads)
    /\ StartLock(m, "user")
    /\ UNCHANGED <<current, marker, print, rendered, made, signin, told, creates, finishes,
                   unlocks, outs, clears, deletes>>

\* lockLocalSession after its awaits.
Locked(s) ==
    UiSettled(LoadingFinished(FirebaseUserCleared(UserCleared(LockCompleted(SessionLost(
        UserDecryptedChanged(PendingPasswordChanged(s, FALSE), FALSE)))))))

LockEnds(l) ==
    /\ Quiet
    /\ locks' = locks \ {l}
    /\ marker' = TRUE
    /\ ref' = [ref EXCEPT !.lock = TRUE, !.password = FALSE, !.load = FALSE,
                          !.getting = @ /\ l # "create"]
    /\ m' = Locked(m)
    /\ finishes' = finishes \cup ClosedBy(l, TRUE)
    /\ UNCHANGED <<current, dek, print, rendered, made, left, signin, told, creates,
                   unlocks, loads, outs, clears, deletes>>

-----------------------------------------------------------------------------
\* useFirebaseAuth.

Announce(u) == told' = told \cup {[user |-> u, at |-> "told"]}

\* A token change the SDK reports by itself while the user is in.
TokenChanges ==
    /\ Quiet /\ m.user # None /\ current # None /\ Spend("refresh")
    /\ Announce(current)
    /\ UNCHANGED <<m, ref, current, dek, marker, print, rendered, made, signin, creates,
                   finishes, unlocks, loads, locks, outs, clears, deletes>>

HandlerMoves(h, next) == told' = (told \ {h}) \cup next

\* The listener's branches for no user, a locked app and a sign-in in progress.
ListenerTold(h) ==
    /\ Quiet /\ h.at = "told" /\ HandlerMoves(h, {})
    /\ \/ /\ h.user = None
          /\ ref' = [ref EXCEPT !.user = None, !.lock = FALSE, !.load = FALSE]
          /\ m' = UserLost(m)
       \/ /\ h.user # None /\ ref.lock
          /\ ref' = [ref EXCEPT !.user = h.user, !.load = FALSE]
          /\ m' = LockDetected(m)
       \/ /\ h.user # None /\ ~ref.lock /\ ref.init
          /\ ref' = [ref EXCEPT !.user = h.user]
          /\ m' = IF ref.force THEN Established(m, h.user) ELSE m
    /\ UNCHANGED <<current, dek, marker, print, rendered, made, left, signin, creates,
                   finishes, unlocks, loads, locks, outs, clears, deletes>>

\* The marker and the key cache are read: lock, or go on to the time check.
ListenerChecks(h) ==
    /\ Quiet /\ h.at = "told" /\ h.user # None /\ ~ref.lock /\ ~ref.init
    /\ \/ /\ marker \/ ~dek
          /\ marker' = TRUE
          /\ ref' = [ref EXCEPT !.user = h.user, !.lock = TRUE, !.load = FALSE]
          /\ m' = LockDetected(m)
          /\ HandlerMoves(h, {})
       \/ /\ ~marker /\ dek
          /\ ref' = [ref EXCEPT !.user = h.user]
          /\ HandlerMoves(h, {[h EXCEPT !.at = "timing"]})
          /\ UNCHANGED <<m, marker>>
    /\ UNCHANGED <<current, dek, print, rendered, made, left, signin, creates, finishes,
                   unlocks, loads, locks, outs, clears, deletes>>

\* inactiveTooLong answered.
ListenerTimes(h) ==
    /\ Quiet /\ h.at = "timing"
    /\ HandlerMoves(h, {})
    /\ \/ /\ m' = Established(m, h.user)
          /\ UNCHANGED <<ref, dek, loads, locks, left>>
       \/ /\ Event
          /\ ref' = [ref EXCEPT !.load = FALSE]
          /\ loads' = Stale(loads)
          /\ StartLock(m, "user")
    /\ UNCHANGED <<current, marker, print, rendered, made, signin, creates, finishes,
                   unlocks, outs, clears, deletes>>

-----------------------------------------------------------------------------
\* signin of useSigninCommands, with performPasswordSignIn and
\* unlockLocalBiometricSession.

IsLocalUnlock == current # None /\ (ref.lock \/ marker \/ ~dek)

\* The sign-in screen and its buttons.
CanSignIn == /\ m.user = None /\ m.phase # "bootstrapping" /\ ~m.loading
             /\ signin = NoSignin
StartSignin(at, u) ==
    /\ signin' = [at |-> at, user |-> u, local |-> IsLocalUnlock, was |-> ref.lock]
    /\ m' = LoadingStarted(IF IsLocalUnlock THEN UnlockRequested(m) ELSE m)

PasswordStarts ==
    /\ Quiet /\ CanSignIn /\ Spend("signIn")
    /\ made' = made + 1 /\ made' \in User
    /\ StartSignin("password", made')
    /\ ref' = [ref EXCEPT !.init = TRUE, !.force = ~IsLocalUnlock, !.lock = FALSE,
                          !.load = FALSE, !.password = TRUE]
    /\ UNCHANGED <<current, dek, marker, print, rendered, told, creates, finishes,
                   unlocks, loads, locks, outs, clears, deletes>>

\* The biometric button of the unlock screen.
BiometricStarts ==
    /\ Quiet /\ CanSignIn /\ Spend("signIn") /\ m.locked /\ current # None /\ print
    /\ StartSignin("prompt", current)
    /\ ref' = [ref EXCEPT !.init = TRUE, !.force = ~IsLocalUnlock]
    /\ UNCHANGED <<current, dek, marker, print, rendered, made, told, creates,
                   finishes, unlocks, loads, locks, outs, clears, deletes>>

\* The catch branches.  The unlock of a biometric sign-in drops the key again.
SigninFails(biometric) ==
    /\ signin' = NoSignin
    /\ m' = IF signin.local THEN UnlockFailed(LoadingFinished(m)) ELSE LoadingFinished(m)
    /\ ref' = [ref EXCEPT !.init = FALSE, !.force = FALSE,
                          !.lock = @ \/ (signin.was /\ ~biometric),
                          !.password = @ /\ biometric]

PasswordAnswered ==
    /\ Quiet /\ signin.at = "password"
    /\ \/ /\ SigninFails(FALSE)                         \* wrong password, or offline
          /\ UNCHANGED <<current, told>>
       \/ /\ current' = signin.user /\ Announce(signin.user)
          /\ \/ SigninFails(FALSE)                      \* getIdToken(true) threw
             \/ /\ signin' = [signin EXCEPT !.at = "accepted"]
                /\ ref' = [ref EXCEPT !.password = TRUE]
                /\ m' = PendingPasswordChanged(m, TRUE)
    /\ UNCHANGED <<dek, marker, print, rendered, made, left, creates, finishes, unlocks,
                   loads, locks, outs, clears, deletes>>

PasswordEstablished ==
    /\ Quiet /\ signin.at = "accepted"
    /\ ref' = [ref EXCEPT !.user = signin.user]
    /\ m' = Established(m, signin.user)
    /\ signin' = NoSignin
    /\ UNCHANGED <<current, dek, marker, print, rendered, made, left, told, creates,
                   finishes, unlocks, loads, locks, outs, clears, deletes>>

\* unlockDekWithBiometric: a key still in the cache needs no fingerprint.
BiometricAnswered ==
    /\ Quiet /\ signin.at = "prompt"
    /\ \/ /\ SigninFails(TRUE)
          /\ dek' = FALSE
       \/ /\ signin' = [signin EXCEPT !.at = "session"]
          /\ dek' = TRUE
          /\ UNCHANGED <<m, ref>>
    /\ UNCHANGED <<current, marker, print, rendered, made, left, told, creates, finishes,
                   unlocks, loads, locks, outs, clears, deletes>>

\* createSessionAfterBiometricUnlock and the rest of the unlock.
BiometricEstablished ==
    /\ Quiet /\ signin.at = "session"
    /\ \/ /\ SigninFails(TRUE)
          /\ dek' = FALSE
          /\ UNCHANGED marker
       \/ /\ signin' = NoSignin
          /\ marker' = FALSE
          /\ ref' = [ref EXCEPT !.lock = FALSE, !.init = FALSE, !.load = TRUE,
                                !.user = signin.user]
          /\ m' = SessionCreated(Established(m, signin.user))
          /\ UNCHANGED dek
    /\ UNCHANGED <<current, print, rendered, made, left, told, creates, finishes, unlocks,
                   loads, locks, outs, clears, deletes>>

-----------------------------------------------------------------------------
\* createBackendAuthSession.

\* clearPartialFirebaseAuth up to firebaseSignOut.
StartClear == clears' = TRUE /\ ClearMarker

\* signOut until the server is asked: the stored secrets of the user are gone.
SignOutRefs(r) == [r EXCEPT !.lock = FALSE, !.init = FALSE, !.force = FALSE]
StartSignOut(s, caller) ==
    LET started == SignOutStarted(LoadingStarted(s))
    IN  IF current = None
        THEN /\ m' = Left(LoadingFinished(LockCleared(started)))
             /\ UNCHANGED <<outs, marker, dek, print>>
        ELSE /\ m' = started
             /\ outs' = outs \cup {caller}
             /\ marker' = FALSE /\ dek' = FALSE /\ print' = FALSE

NoIntent(r) == [r EXCEPT !.init = FALSE, !.force = FALSE]
\* Mutant: the end of a request leaves isGettingSessionRef set.
GotForgotten(r) == r
Got(r) == [r EXCEPT !.getting = FALSE]
SessionFailed(s) == SessionLost(LoadingFinished(s))
Sent(c) == c.at = "sent"
CreateEnds(c) == Sent(c) /\ creates' = creates \ {c}

\* The effect asks, after an await; the refs are read when the request is made.
SessionAsked(c) ==
    /\ Quiet /\ ~Sent(c)
    /\ \/ /\ ref.getting
          /\ creates' = creates \ {c}
          /\ UNCHANGED ref
       \/ /\ ~ref.getting
          /\ creates' = (creates \ {c}) \cup {[at |-> "sent", init |-> ref.init]}
          /\ ref' = [ref EXCEPT !.getting = TRUE]
    /\ UNCHANGED <<m, current, dek, marker, print, rendered, made, left, signin, told,
                   finishes, unlocks, loads, locks, outs, clears, deletes>>

SessionArrives(c) ==
    /\ Quiet /\ CreateEnds(c)
    /\ ref' = Got(NoIntent(ref))
    /\ m' = SessionCreated(m)
    /\ UNCHANGED <<current, dek, marker, print, rendered, made, left, signin, told,
                   finishes, unlocks, loads, locks, outs, clears, deletes>>

\* Rate limited, or for another reason not created on the user's request.
SessionRefused(c) ==
    /\ Quiet /\ CreateEnds(c) /\ c.init
    /\ StartClear
    /\ ref' = [NoIntent(ref) EXCEPT !.lock = FALSE]
    /\ m' = SessionFailed(m)
    /\ UNCHANGED <<current, dek, print, rendered, made, left, signin, told, finishes,
                   unlocks, loads, locks, outs, deletes>>

\* The same in the background: the error only settles the user interface.
SessionUnavailable(c) ==
    /\ Quiet /\ CreateEnds(c) /\ ~c.init
    /\ ref' = Got(NoIntent(ref))
    /\ m' = UiSettled(SessionFailed(m))
    /\ UNCHANGED <<current, dek, marker, print, rendered, made, left, signin, told,
                   finishes, unlocks, loads, locks, outs, clears, deletes>>

\* The refresh token no longer works.  Within the grace period of a session
\* swap nothing is done.
SessionEnded(c) ==
    /\ Quiet /\ CreateEnds(c)
    /\ \/ /\ ref' = IF current = None THEN Got(SignOutRefs(ref)) ELSE SignOutRefs(ref)
          /\ StartSignOut(SessionFailed(m), "create")
       \/ /\ ref' = Got(ref)
          /\ m' = LoadingFinished(m)
          /\ UNCHANGED <<outs, marker, dek, print>>
    /\ UNCHANGED <<current, rendered, made, left, signin, told,
                   finishes, unlocks, loads, locks, clears, deletes>>

\* MFA is required: a challenge after a sign-in, a lock in the background.
SessionNeedsMfa(c) ==
    /\ Quiet /\ CreateEnds(c)
    /\ \/ /\ c.init
          /\ ref' = Got(NoIntent(ref))
          /\ m' = UiSettled(ChallengeRaised(SessionFailed(m)))
          /\ UNCHANGED <<dek, locks>>
       \/ /\ ~c.init
          /\ ref' = IF current = None THEN Got(NoIntent(ref)) ELSE NoIntent(ref)
          /\ StartLock(SessionFailed(m), "create")
    /\ UNCHANGED <<current, marker, print, rendered, made, left, signin, told, finishes,
                   unlocks, loads, outs, clears, deletes>>

\* firebaseSignOut returned.
ClearEnds ==
    /\ Quiet /\ clears /\ clears' = FALSE
    /\ current' = None /\ Announce(None)
    /\ ref' = Got(ref)
    /\ m' = PartialCleared(LoadingFinished(LockCleared(SessionLost(FirebaseUserCleared(
                 UserCleared(m))))))
    /\ UNCHANGED <<dek, marker, print, rendered, made, left, signin, creates, finishes,
                   unlocks, loads, locks, outs, deletes>>

-----------------------------------------------------------------------------
\* finishAuthenticatedSession and useUserLoading.

\* The session timer was reset: load, or settle the user interface.
FinishStarts ==
    /\ Quiet /\ "timer" \in finishes
    /\ \/ /\ Loading
          /\ loads' = loads \cup {LoadFor(TRUE)}
          /\ finishes' = finishes \ {"timer"}
          /\ UNCHANGED <<m, ref, dek, marker, locks>>
       \/ /\ ref.load /\ ref.user = None
          /\ ref' = [ref EXCEPT !.load = FALSE]
          /\ loads' = Stale(loads)
          /\ finishes' = (finishes \ {"timer"}) \cup ClosedBy("finish", current = None)
          /\ StartLock(m, "finish")
          /\ UNCHANGED marker
       \/ /\ ~ref.load
          /\ finishes' = (finishes \ {"timer"}) \cup {"closing"}
          /\ IF ref.password THEN UNCHANGED <<m, marker>>
             ELSE m' = UiCompleted(m) /\ ClearMarker
          /\ UNCHANGED <<ref, dek, loads, locks>>
    /\ UNCHANGED <<current, print, rendered, made, left, signin, told, creates, unlocks,
                   outs, clears, deletes>>

FinishCloses ==
    /\ Quiet /\ "closing" \in finishes
    /\ finishes' = finishes \ {"closing"}
    /\ m' = UiReady(m)
    /\ UNCHANGED <<ref, current, dek, marker, print, rendered, made, left, signin, told,
                   creates, unlocks, loads, locks, outs, clears, deletes>>

\* The encrypted records arrived; the key is read from the cache.
LoadFetched(l) ==
    /\ Quiet /\ l.at = "fetching"
    /\ \E data \in {FALSE, dek} :
           loads' = (loads \ {l}) \cup {[l EXCEPT !.at = "opened", !.data = data]}
    /\ UNCHANGED <<m, ref, current, dek, marker, print, rendered, made, left, signin, told,
                   creates, finishes, unlocks, locks, outs, clears, deletes>>

\* The rest of loadUser, and of finishAuthenticatedSession when it asked.
LoadEnds(l) ==
    /\ Quiet /\ l.at = "opened"
    /\ LET valid == l.fresh /\ Loading
           shown == IF valid THEN UserDecryptedChanged(m, l.data) ELSE m
           got   == valid /\ l.data
       IN  \/ /\ ~l.forFinish
              /\ m' = shown
              /\ loads' = loads \ {l}
              /\ UNCHANGED <<ref, dek, marker, finishes, locks>>
           \/ /\ l.forFinish /\ ref.load /\ ~got
              /\ ref' = [ref EXCEPT !.load = FALSE]
              /\ loads' = Stale(loads \ {l})
              /\ finishes' = finishes \cup ClosedBy("finish", current = None)
              /\ StartLock(shown, "finish")
              /\ UNCHANGED marker
           \/ /\ l.forFinish /\ (got \/ ~ref.load)
              /\ finishes' = finishes \cup {"closing"}
              /\ loads' = loads \ {l}
              /\ IF got THEN m' = UiCompleted(shown) /\ ClearMarker
                 ELSE m' = shown /\ UNCHANGED marker
              /\ UNCHANGED <<ref, dek, locks>>
    /\ UNCHANGED <<current, print, rendered, made, left, signin, told, creates, unlocks,
                   outs, clears, deletes>>

\* A change of the user's data asks for a reload.
ReloadStarts ==
    /\ Quiet /\ m.user # None /\ Loading /\ Event
    /\ loads' = loads \cup {LoadFor(FALSE)}
    /\ UNCHANGED <<m, ref, current, dek, marker, print, rendered, made, signin, told,
                   creates, finishes, unlocks, locks, outs, clears, deletes>>

\* tryUnlock: the password opened the key.
KeyOpened(t) ==
    /\ Quiet
    /\ unlocks' = unlocks \ {t}
    /\ dek' = TRUE
    /\ m' = PendingPasswordChanged(m, FALSE)
    /\ ref' = [ref EXCEPT !.load = TRUE]
    /\ loads' = IF ref.user = None THEN loads ELSE loads \cup {LoadFor(FALSE)}
    /\ UNCHANGED <<current, marker, print, rendered, made, left, signin, told, creates,
                   finishes, locks, outs, clears, deletes>>

\* Retries exhausted, decryption failed, or the retry found itself cancelled.
KeyNotOpened(t) ==
    /\ Quiet
    /\ unlocks' = unlocks \ {t}
    /\ m' \in {m, PendingPasswordChanged(m, FALSE)}
    /\ UNCHANGED <<ref, current, dek, marker, print, rendered, made, left, signin, told,
                   creates, finishes, loads, locks, outs, clears, deletes>>

-----------------------------------------------------------------------------
\* signOut, deletion and restart.

SignOutStarts ==
    /\ Quiet /\ (m.user # None \/ (m.locked /\ ~m.loading)) /\ Event
    /\ ref' = SignOutRefs(ref)
    /\ StartSignOut(m, "user")
    /\ UNCHANGED <<current, rendered, made, signin, told, creates, finishes, unlocks, loads,
                   locks, clears, deletes>>

\* The server was asked, and answered or not; deleting the push token may throw.
SignOutEnds(o) ==
    /\ Quiet /\ outs' = outs \ {o}
    /\ ref' = IF o = "create" THEN Got(ref) ELSE ref
    /\ \/ /\ current' = None /\ Announce(None)
          /\ m' = Left(LockCleared(UserDecryptedChanged(m, FALSE)))
       \/ /\ m' = IF o = "create" THEN UiSettled(SignOutFailed(m)) ELSE SignOutFailed(m)
          /\ UNCHANGED <<current, told>>
    /\ UNCHANGED <<dek, marker, print, rendered, made, left, signin, creates, finishes,
                   unlocks, loads, locks, clears, deletes>>

\* The backend deleted the account: deleteCurrentAccount.
DeletionStarts ==
    /\ Quiet /\ m.user # None /\ Event
    /\ m' = LoadingStarted(DeletionStarted(m))
    /\ ref' = Got([SignOutRefs(ref) EXCEPT !.password = FALSE, !.load = FALSE])
    /\ deletes' = TRUE
    /\ UNCHANGED <<current, dek, marker, print, rendered, made, signin, told, creates,
                   finishes, unlocks, loads, locks, outs, clears>>

DeletionEnds ==
    /\ Quiet /\ deletes /\ deletes' = FALSE
    /\ marker' = FALSE /\ dek' = FALSE /\ print' = FALSE
    /\ current' = None /\ Announce(None)
    /\ ref' = [ref EXCEPT !.user = None]
    /\ m' = Left(LoadingFinished(UiSettled(FirebaseUserCleared(UserCleared(LockCleared(SessionLost(
                 UserDecryptedChanged(PendingPasswordChanged(m, FALSE), FALSE))))))))
    /\ UNCHANGED <<rendered, made, left, signin, creates, finishes, unlocks, loads, locks,
                   outs, clears>>

Restart ==
    /\ Event
    /\ m' = InitialState /\ ref' = InitialRefs /\ dek' = FALSE
    /\ rendered' = Watched(InitialState)
    /\ NoTasks /\ told' = {[user |-> current, at |-> "told"]}
    /\ UNCHANGED <<current, marker, print, made>>

-----------------------------------------------------------------------------
(***************************************************************************)
(* The effects of useUserLoading, AuthContext and useAuthSessionLifecycle  *)
(* after a render, each when one of its dependencies changed.              *)
(***************************************************************************)
Changed(fields) == \E f \in fields : rendered[f] # m[f]

Render ==
    /\ ~Quiet
    /\ rendered' = Watched(m)
    /\ unlocks' = IF Changed({"user", "pending"}) /\ m.user # None /\ m.pending
                  THEN unlocks \cup {m.user} ELSE unlocks
    /\ finishes' = IF Changed({"session", "fbUser"}) /\ m.session /\ m.fbUser # None
                   THEN finishes \cup {"timer"} ELSE finishes
    /\ m' = IF /\ Changed({"session", "user", "decrypted", "loading"})
               /\ m.session /\ m.loading /\ m.decrypted /\ m.user # None
            THEN UiReady(m) ELSE m
    /\ creates' = IF Changed({"fbUser"}) /\ m.fbUser # None /\ current # None
                  THEN creates \cup {[at |-> "asked", init |-> FALSE]} ELSE creates
    /\ ref' = [ref EXCEPT !.password = IF Changed({"pending"}) THEN m.pending ELSE @]
    /\ UNCHANGED <<current, dek, marker, print, made, left, signin, told, loads, locks,
                   outs, clears, deletes>>

\* What users and their surroundings do.
Environment == \/ LockStarts \/ TokenChanges \/ PasswordStarts \/ BiometricStarts
               \/ ReloadStarts \/ SignOutStarts \/ DeletionStarts \/ Restart

\* What the app does: renders and the steps of its tasks.
App ==
    \/ Render
    \/ \E l \in locks : LockEnds(l)
    \/ \E h \in told :
          ListenerTold(h) \/ ListenerChecks(h) \/ ListenerTimes(h)
    \/ PasswordAnswered \/ PasswordEstablished
    \/ BiometricAnswered \/ BiometricEstablished
    \/ \E c \in creates :
          \/ SessionAsked(c)
          \/ SessionArrives(c) \/ SessionRefused(c) \/ SessionUnavailable(c)
          \/ SessionEnded(c) \/ SessionNeedsMfa(c)
    \/ ClearEnds
    \/ FinishStarts \/ FinishCloses
    \/ \E l \in loads : LoadFetched(l) \/ LoadEnds(l)
    \/ \E t \in unlocks : KeyOpened(t) \/ KeyNotOpened(t)
    \/ \E o \in outs : SignOutEnds(o)
    \/ DeletionEnds

Next == Environment \/ App

\* Every request, prompt and storage call answers: the API client and the
\* Firebase SDK time requests out.
Fairness == WF_vars(App)
Spec == Init /\ [][Next]_vars /\ Fairness

-----------------------------------------------------------------------------
Refs == [user : User \cup {None}, load : BOOLEAN, lock : BOOLEAN, init : BOOLEAN,
         force : BOOLEAN, getting : BOOLEAN, password : BOOLEAN]
Signin == [at : {"idle", "password", "accepted", "prompt", "session"},
           user : User \cup {None}, local : BOOLEAN, was : BOOLEAN]
Report == [user : User \cup {None}, at : {"told", "timing"}]
Load == [forFinish : BOOLEAN, fresh : BOOLEAN, data : BOOLEAN, at : {"fetching", "opened"}]

\* The values the variables range over (left and rendered aside).  A sign-in
\* under way and a report that is timed have a user.
TypeOK ==
    /\ m \in Machine
    /\ ref \in Refs
    /\ current \in User \cup {None}
    /\ signin \in Signin /\ (signin # NoSignin => signin.user \in User)
    /\ told \subseteq Report /\ \A h \in told : h.at = "timing" => h.user \in User
    /\ creates \subseteq [at : {"asked", "sent"}, init : BOOLEAN]
    /\ finishes \subseteq {"timer", "closing"}
    /\ unlocks \subseteq User
    /\ loads \subseteq Load
    /\ locks \subseteq {"user", "create", "finish"} /\ outs \subseteq {"user", "create"}
    /\ dek \in BOOLEAN /\ marker \in BOOLEAN /\ print \in BOOLEAN
    /\ clears \in BOOLEAN /\ deletes \in BOOLEAN

\* However the lock meets sign-ins, loads and sign-outs under way, a locked
\* machine has neither a password waiting to open the key nor decrypted data
\* (authStateMachine.ts:16-19).
LockedHoldsNothing == m.phase = "locally-locked" => ~m.pending /\ ~m.decrypted

\* No step brings decrypted data back to a machine that is locked, signed out
\* or leaving: a load that answers late is dropped (authStateMachine.ts:557-560).
NoRehydration ==
    [][m.phase \in {"signed-out", "locally-locked", "signing-out", "deleting"}
          /\ ~m.decrypted => ~m'.decrypted]_vars

\* A phase to return to is remembered only in a phase that can be left for it:
\* otherwise a later failure would restore a phase of another flow.
PriorOnlyWhileAway ==
    m.prior # None => m.phase \in {"mfa-pending", "signing-out", "deleting"}

\* isGettingSessionRef is never left set: each request that set it, or the
\* cleanup after it, is still under way.  Left set, no session is ever created.
GettingEnds ==
    ref.getting => \/ clears \/ "create" \in locks \cup outs
                   \/ \E c \in creates : Sent(c)

\* The start-up screen is left: the first report of the listener always leads on.
BootstrapEnds == m.phase = "bootstrapping" ~> m.phase # "bootstrapping"

\* A sign-out or deletion ends, done or undone, whatever interferes with it.
LeavingEnds == m.phase \in {"signing-out", "deleting"} ~>
                  m.phase \notin {"signing-out", "deleting"}

\* authStateMachine.test.ts:917 says what 'authenticated' implies, line 924
\* that the local session is then not locked.
AuthenticatedIsUnlocked == m.phase = "authenticated" => ~m.locked

\* SECURITY_ARCHITECTURE_REVIEW.md:390: the key cache is cleared on local lock,
\* so none is there when a lock completes.
LockClearsKey == [][\A l \in locks : l \notin locks' => ~dek']_vars
=============================================================================
