----------------------------- MODULE AuthMachine -----------------------------
(***************************************************************************)
(* The auth state machine of the app                                       *)
(* (features/auth/state/authStateMachine.ts): a pure reducer, here one     *)
(* operator per event, from the state of the machine to the next one.      *)
(*                                                                         *)
(* Left out: the error text, and the flags that only choose a spinner or   *)
(* prefill a form (authCompleted, isCheckingInactivity,                    *)
(* appStateIsBackground, lastSignedInUser, lastUsedBiometricSignIn): no    *)
(* other field ever depends on them.  One account signs in: of a pending   *)
(* password and of the decrypted data only whether they are there counts.  *)
(* Left out too are the events that never occur: USER_CHANGED and          *)
(* BOOTSTRAP_COMPLETED are dispatched nowhere; the cleanup before          *)
(* DELETION_FAILED catches every error; and MFA_CHALLENGE_CANCELLED would  *)
(* need a prompt in a request not made for the user.                       *)
(***************************************************************************)
CONSTANTS
    User, \* Firebase User objects: every sign-in makes one of its own
    None  \* "no such value"

ASSUME NoneAssumption == None \notin User

Phase == {"bootstrapping", "signed-out", "firebase-authenticated", "mfa-pending",
          "unlocking", "authenticated", "locally-locked", "signing-out", "deleting"}

Machine == [phase : Phase, prior : Phase \cup {None},
            user : User \cup {None}, fbUser : User \cup {None},
            session : BOOLEAN, locked : BOOLEAN, loading : BOOLEAN,
            pending : BOOLEAN, decrypted : BOOLEAN]

InitialState == [phase |-> "bootstrapping", prior |-> None, user |-> None, fbUser |-> None,
                 session |-> FALSE, locked |-> FALSE, loading |-> FALSE,
                 pending |-> FALSE, decrypted |-> FALSE]

PasswordPhases == {"bootstrapping", "signed-out", "firebase-authenticated",
                   "mfa-pending", "unlocking"}
DecryptedPhases == {"firebase-authenticated", "mfa-pending", "unlocking", "authenticated"}

\* toSignedOut and toLocallyLocked: every field but the phase and the lock goes.
AtRest(phase) == [InitialState EXCEPT !.phase = phase, !.locked = (phase = "locally-locked")]
SignedOut == AtRest("signed-out")
LocallyLocked == AtRest("locally-locked")

-----------------------------------------------------------------------------
\* Firebase user.
\* Mutant: the listener's first report does not end the start-up.
UserLostLate(s) ==
    IF s.phase \in {"bootstrapping", "signed-out", "deleting"} THEN s ELSE SignedOut

UserLost(s) == IF s.phase \in {"signed-out", "deleting"} THEN s ELSE SignedOut

Established(s, u) ==
    LET known == [s EXCEPT !.fbUser = u, !.user = IF s.session THEN u ELSE s.user]
    IN  IF s.phase \in {"locally-locked", "unlocking"} THEN known
        ELSE [known EXCEPT !.locked = FALSE,
                           !.phase = IF s.phase \in {"bootstrapping", "signed-out"}
                                     THEN "firebase-authenticated" ELSE s.phase]

\* Mutant: the listener's lock only sets the phase and the flag.
LockDetectedLightly(s) == [s EXCEPT !.phase = "locally-locked", !.locked = TRUE]
LockDetected(s) == LocallyLocked

\* Backend session and MFA.
\* Mutant: the phase to return to is kept.
SessionCreatedMindful(s) ==
    IF s.session /\ s.phase # "mfa-pending" THEN s
    ELSE [s EXCEPT !.session = TRUE,
                   !.locked = s.phase = "unlocking" /\ s.locked,
                   !.user = IF s.fbUser # None THEN s.fbUser ELSE s.user,
                   !.phase = IF s.phase \in {"mfa-pending", "locally-locked",
                                             "bootstrapping"}
                             THEN "firebase-authenticated" ELSE s.phase]

SessionCreated(s) ==
    LET shown == [s EXCEPT !.session = TRUE, !.prior = None,
                           !.user = IF s.fbUser # None THEN s.fbUser ELSE s.user]
    IN  IF s.session /\ s.phase # "mfa-pending" THEN s
        ELSE IF s.phase = "unlocking" THEN shown
        ELSE [shown EXCEPT !.locked = FALSE,
                           !.phase = IF s.phase \in {"mfa-pending", "locally-locked",
                                                     "bootstrapping"}
                                     THEN "firebase-authenticated" ELSE s.phase]

SessionLost(s) == [s EXCEPT !.session = FALSE]

ChallengeRaised(s) ==
    IF s.phase = "mfa-pending" THEN s
    ELSE [s EXCEPT !.phase = "mfa-pending", !.prior = s.phase, !.session = FALSE,
                   !.loading = FALSE]

\* Unlocking and locking.
UnlockRequested(s) ==
    IF s.phase = "locally-locked" THEN [s EXCEPT !.phase = "unlocking"] ELSE s

UnlockSucceeded(s) ==
    IF s.phase \notin {"unlocking", "locally-locked"} THEN s
    ELSE [s EXCEPT !.locked = FALSE,
                   !.phase = IF s.fbUser # None THEN "firebase-authenticated" ELSE s.phase]

UnlockFailed(s) == IF s.phase = "unlocking" THEN LocallyLocked ELSE s
LockRequested(s) == [s EXCEPT !.loading = TRUE]
LockCompleted(s) == IF s.phase = "locally-locked" THEN s ELSE LocallyLocked
LockCleared(s) == [s EXCEPT !.locked = FALSE]

\* Sign-out and deletion.  Each is entered from the other without losing the
\* phase to return to.
Leaving(s, phase, other) ==
    IF s.phase = phase THEN s
    ELSE [s EXCEPT !.phase = phase, !.loading = TRUE,
                   !.prior = IF s.phase = other THEN s.prior ELSE s.phase]
SignOutStarted(s) == Leaving(s, "signing-out", "deleting")
DeletionStarted(s) == Leaving(s, "deleting", "signing-out")

\* SIGN_OUT_COMPLETED and DELETION_COMPLETED.
Left(s) == IF s.phase = "signed-out" THEN s ELSE SignedOut

\* Mutant: without a remembered phase nothing is undone.
SignOutFailedQuietly(s) ==
    IF s.phase # "signing-out" \/ s.prior = None THEN s
    ELSE [s EXCEPT !.phase = s.prior, !.prior = None, !.loading = FALSE]

SignOutFailed(s) ==
    IF s.phase # "signing-out" THEN s
    ELSE [s EXCEPT !.phase = IF s.prior # None THEN s.prior ELSE "signed-out",
                   !.prior = None, !.loading = FALSE]

\* Cleanup and the user interface.
PartialCleared(s) ==
    IF s.phase \in {"signing-out", "deleting"}
    THEN [InitialState EXCEPT !.phase = s.phase, !.prior = s.prior]
    ELSE SignedOut

UiSettled(s) == IF s.phase = "bootstrapping" THEN SignedOut ELSE [s EXCEPT !.loading = FALSE]

Ready(s) == /\ s.phase \in {"firebase-authenticated", "unlocking"}
            /\ s.session /\ s.decrypted /\ None \notin {s.fbUser, s.user}

UiReady(s) ==
    IF ~Ready(s) THEN s
    ELSE [s EXCEPT !.phase = "authenticated", !.prior = None, !.loading = FALSE,
                   !.pending = FALSE]

LoadingStarted(s) == [s EXCEPT !.loading = TRUE]
LoadingFinished(s) == [s EXCEPT !.loading = FALSE]
UserCleared(s) == [s EXCEPT !.user = None]
FirebaseUserCleared(s) == [s EXCEPT !.fbUser = None]

\* Mutant: decrypted data is committed in every phase.
UserDecryptedAlways(s, d) == [s EXCEPT !.decrypted = d]

PendingPasswordChanged(s, p) ==
    IF p /\ s.phase \notin PasswordPhases THEN s ELSE [s EXCEPT !.pending = p]

UserDecryptedChanged(s, d) ==
    IF d /\ s.phase \notin DecryptedPhases THEN s ELSE [s EXCEPT !.decrypted = d]
=============================================================================
