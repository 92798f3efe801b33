------------------------- MODULE AuthLifecycleProofs -------------------------
(***************************************************************************)
(* Theorems about AuthLifecycle, for any number of User objects and of     *)
(* tasks under way: what the reducer alone guarantees, in whatever order   *)
(* commands, callbacks and effects drive it.                               *)
(***************************************************************************)
EXTENDS AuthLifecycle, TLAPS

Away == {"signing-out", "deleting"}

\* A locked machine is empty, and so is one that is leaving and may return to
\* the lock; a phase is remembered only where it can be restored.
Good(s) ==
    /\ s \in Machine
    /\ \/ s.phase = "locally-locked"
       \/ s.phase \in Away /\ s.prior # None /\ s.prior = "locally-locked"
       => ~s.pending /\ ~s.decrypted
    /\ s.prior # None => s.phase \in {"mfa-pending"} \cup Away

\* What an event may do to the machine: t is good and nothing was decrypted.
Sound(s, t) == Good(t) /\ (t.decrypted => s.decrypted)

-----------------------------------------------------------------------------
\* The events of the reducer.

LEMMA RestTyped == SignedOut \in Machine /\ LocallyLocked \in Machine
  BY DEF SignedOut, LocallyLocked, AtRest, InitialState, Machine, Phase

LEMMA UserLostSound == ASSUME NEW s, Good(s) PROVE Sound(s, UserLost(s))
  <1>1. UserLost(s) \in Machine
    BY RestTyped DEF Good, UserLost
  <1>2. Good(UserLost(s))
    BY <1>1 DEF Good, Away, Machine, UserLost, SignedOut, AtRest, InitialState
  <1>3. UserLost(s).decrypted => s.decrypted
    BY DEF Good, Machine, UserLost, SignedOut, AtRest, InitialState
  <1> QED BY <1>2, <1>3 DEF Sound

LEMMA LockDetectedSound == ASSUME NEW s, Good(s) PROVE Sound(s, LockDetected(s))
  BY DEF Good, Sound, Away, Machine, Phase, LockDetected, LocallyLocked,
         AtRest, InitialState

LEMMA SessionCreatedSound == ASSUME NEW s, Good(s) PROVE Sound(s, SessionCreated(s))
  <1> DEFINE user == IF s.fbUser # None THEN s.fbUser ELSE s.user
             phase == IF s.phase \in {"mfa-pending", "locally-locked", "bootstrapping"}
                      THEN "firebase-authenticated" ELSE s.phase
             shown == [s EXCEPT !.session = TRUE, !.prior = None, !.user = user]
             entered == [shown EXCEPT !.locked = FALSE, !.phase = phase]
  <1>1. SessionCreated(s) \in Machine
    <2>1. user \in User \cup {None} /\ phase \in Phase
      BY DEF Good, Machine, Phase
    <2> HIDE DEF user, phase
    <2>2. shown \in Machine
      BY <2>1 DEF Good, Machine
    <2> HIDE DEF shown
    <2>3. entered \in Machine
      BY <2>1, <2>2 DEF Machine
    <2>4. SessionCreated(s) \in {s, shown, entered}
      BY Zenon DEF SessionCreated, user, phase, shown
    <2> QED BY <2>2, <2>3, <2>4 DEF Good
  <1>2. Good(SessionCreated(s))
    BY <1>1 DEF Good, Away, Machine, SessionCreated
  <1>3. SessionCreated(s).decrypted => s.decrypted
    BY DEF Good, Machine, SessionCreated
  <1> QED BY <1>2, <1>3 DEF Sound

LEMMA SessionLostSound == ASSUME NEW s, Good(s) PROVE Sound(s, SessionLost(s))
  BY ZenonT(40) DEF Good, Sound, Away, Machine, Phase, SessionLost

LEMMA ChallengeRaisedSound == ASSUME NEW s, Good(s) PROVE Sound(s, ChallengeRaised(s))
  BY ZenonT(40) DEF Good, Sound, Away, Machine, Phase, ChallengeRaised

LEMMA UnlockRequestedSound == ASSUME NEW s, Good(s) PROVE Sound(s, UnlockRequested(s))
  BY DEF Good, Sound, Away, Machine, Phase, UnlockRequested

LEMMA UnlockSucceededSound == ASSUME NEW s, Good(s) PROVE Sound(s, UnlockSucceeded(s))
  <1>1. UnlockSucceeded(s) \in Machine
    <2>1. CASE s.fbUser # None
      BY ZenonT(40), <2>1 DEF UnlockSucceeded, Good, Machine, Phase
    <2>2. CASE s.fbUser = None
      BY ZenonT(40), <2>2 DEF UnlockSucceeded, Good, Machine, Phase
    <2> QED BY <2>1, <2>2
  <1>2. Good(UnlockSucceeded(s))
    BY <1>1 DEF Good, Away, Machine, UnlockSucceeded
  <1>3. UnlockSucceeded(s).decrypted => s.decrypted
    BY DEF Good, Machine, UnlockSucceeded
  <1> QED BY <1>2, <1>3 DEF Sound

LEMMA UnlockFailedSound == ASSUME NEW s, Good(s) PROVE Sound(s, UnlockFailed(s))
  <1>1. UnlockFailed(s) \in Machine
    BY RestTyped DEF Good, UnlockFailed
  <1>2. Good(UnlockFailed(s))
    BY <1>1 DEF Good, Away, Machine, UnlockFailed, LocallyLocked, AtRest, InitialState
  <1>3. UnlockFailed(s).decrypted => s.decrypted
    BY DEF Good, Machine, UnlockFailed, LocallyLocked, AtRest, InitialState
  <1> QED BY <1>2, <1>3 DEF Sound

LEMMA LockRequestedSound == ASSUME NEW s, Good(s) PROVE Sound(s, LockRequested(s))
  BY ZenonT(40) DEF Good, Sound, Away, Machine, Phase, LockRequested

LEMMA LockCompletedSound == ASSUME NEW s, Good(s) PROVE Sound(s, LockCompleted(s))
  BY ZenonT(40) DEF Good, Sound, Away, Machine, Phase, LockCompleted, LocallyLocked,
         AtRest, InitialState

LEMMA LockClearedSound == ASSUME NEW s, Good(s) PROVE Sound(s, LockCleared(s))
  BY ZenonT(40) DEF Good, Sound, Away, Machine, Phase, LockCleared

LEMMA SignOutStartedSound == ASSUME NEW s, Good(s) PROVE Sound(s, SignOutStarted(s))
  <1>1. SignOutStarted(s) \in Machine
    BY ZenonT(40) DEF Good, Machine, Phase, SignOutStarted, Leaving
  <1>2. Good(SignOutStarted(s))
    BY <1>1 DEF Good, Away, Machine, SignOutStarted, Leaving
  <1>3. SignOutStarted(s).decrypted => s.decrypted
    BY DEF Good, Machine, SignOutStarted, Leaving
  <1> QED BY <1>2, <1>3 DEF Sound

LEMMA DeletionStartedSound == ASSUME NEW s, Good(s) PROVE Sound(s, DeletionStarted(s))
  <1>1. DeletionStarted(s) \in Machine
    BY ZenonT(40) DEF Good, Machine, Phase, DeletionStarted, Leaving
  <1>2. Good(DeletionStarted(s))
    BY <1>1 DEF Good, Away, Machine, DeletionStarted, Leaving
  <1>3. DeletionStarted(s).decrypted => s.decrypted
    BY DEF Good, Machine, DeletionStarted, Leaving
  <1> QED BY <1>2, <1>3 DEF Sound

LEMMA LeftSound == ASSUME NEW s, Good(s) PROVE Sound(s, Left(s))
  BY ZenonT(40) DEF Good, Sound, Away, Machine, Phase, Left, SignedOut, AtRest, InitialState

LEMMA SignOutFailedSound == ASSUME NEW s, Good(s) PROVE Sound(s, SignOutFailed(s))
  <1>1. SignOutFailed(s) \in Machine
    <2>1. CASE s.prior # None /\ s.phase = "signing-out"
      <3>1. s.prior \in Phase
        BY <2>1 DEF Good, Machine
      <3> QED BY <2>1, <3>1, Zenon DEF SignOutFailed, Good, Machine
    <2>2. CASE s.prior = None /\ s.phase = "signing-out"
      BY <2>2, Zenon DEF SignOutFailed, Good, Machine, Phase
    <2>3. CASE s.phase # "signing-out"
      BY <2>3 DEF SignOutFailed, Good
    <2> QED BY <2>1, <2>2, <2>3
  <1>2. Good(SignOutFailed(s))
    BY <1>1 DEF Good, Away, Machine, SignOutFailed
  <1>3. SignOutFailed(s).decrypted => s.decrypted
    BY DEF Good, Machine, SignOutFailed
  <1> QED BY <1>2, <1>3 DEF Sound

LEMMA PartialClearedSound == ASSUME NEW s, Good(s) PROVE Sound(s, PartialCleared(s))
  BY ZenonT(40) DEF Good, Sound, Away, Machine, Phase, PartialCleared, SignedOut, AtRest,
         InitialState

LEMMA UiSettledSound == ASSUME NEW s, Good(s) PROVE Sound(s, UiSettled(s))
  BY DEF Good, Sound, Away, Machine, Phase, UiSettled, SignedOut, AtRest, InitialState

LEMMA UiReadySound == ASSUME NEW s, Good(s) PROVE Sound(s, UiReady(s))
  <1>1. UiReady(s) \in Machine
    <2>1. CASE Ready(s)
      BY <2>1 DEF UiReady, Good, Machine, Phase
    <2>2. CASE ~Ready(s)
      BY <2>2 DEF UiReady, Good
    <2> QED BY <2>1, <2>2
  <1>2. Good(UiReady(s))
    BY <1>1 DEF Good, Away, Machine, UiReady, Ready
  <1>3. UiReady(s).decrypted => s.decrypted
    BY DEF Good, Machine, UiReady, Ready
  <1> QED BY <1>2, <1>3 DEF Sound

LEMMA LoadingStartedSound == ASSUME NEW s, Good(s) PROVE Sound(s, LoadingStarted(s))
  BY ZenonT(40) DEF Good, Sound, Away, Machine, Phase, LoadingStarted

LEMMA LoadingFinishedSound == ASSUME NEW s, Good(s) PROVE Sound(s, LoadingFinished(s))
  BY ZenonT(40) DEF Good, Sound, Away, Machine, Phase, LoadingFinished

LEMMA UserClearedSound == ASSUME NEW s, Good(s) PROVE Sound(s, UserCleared(s))
  BY DEF Good, Sound, Away, Machine, Phase, UserCleared

LEMMA FirebaseUserClearedSound ==
    ASSUME NEW s, Good(s)
    PROVE  Sound(s, FirebaseUserCleared(s))
  BY DEF Good, Sound, Away, Machine, Phase, FirebaseUserCleared

LEMMA EstablishedSound ==
    ASSUME NEW s, Good(s), NEW u \in User
    PROVE  Sound(s, Established(s, u))
  <1> DEFINE user == IF s.session THEN u ELSE s.user
             phase == IF s.phase \in {"bootstrapping", "signed-out"}
                      THEN "firebase-authenticated" ELSE s.phase
             known == [s EXCEPT !.fbUser = u, !.user = user]
             entered == [known EXCEPT !.locked = FALSE, !.phase = phase]
  <1>1. Established(s, u) \in Machine
    <2>1. user \in User \cup {None} /\ phase \in Phase
      BY DEF Good, Machine, Phase
    <2> HIDE DEF user, phase
    <2>2. known \in Machine
      BY <2>1 DEF Good, Machine
    <2> HIDE DEF known
    <2>3. entered \in Machine
      BY <2>1, <2>2 DEF Machine
    <2>4. Established(s, u) \in {known, entered}
      BY Zenon DEF Established, user, phase, known
    <2> QED BY <2>2, <2>3, <2>4
  <1>2. Good(Established(s, u))
    BY <1>1 DEF Good, Away, Machine, Established
  <1>3. Established(s, u).decrypted => s.decrypted
    BY DEF Good, Machine, Established
  <1> QED BY <1>2, <1>3 DEF Sound

LEMMA PasswordSound ==
    ASSUME NEW s, Good(s), NEW p \in BOOLEAN
    PROVE  Sound(s, PendingPasswordChanged(s, p))
  BY DEF Good, Sound, Away, Machine, Phase, PasswordPhases, PendingPasswordChanged

\* Only a load may decrypt, and not in every phase.
Guarded(s, t) == Good(t) /\ (t.decrypted => s.decrypted \/ s.phase \in DecryptedPhases)

LEMMA DecryptedGuarded ==
    ASSUME NEW s, Good(s), NEW d \in BOOLEAN
    PROVE  /\ Guarded(s, UserDecryptedChanged(s, d))
           /\ ~d => Sound(s, UserDecryptedChanged(s, d))
  BY DEF Good, Sound, Guarded, Away, Machine, Phase, DecryptedPhases,
         UserDecryptedChanged

\* Events dispatched one after the other compose.
LEMMA SoundChains ==
    ASSUME NEW s, NEW t, NEW u
    PROVE  /\ Sound(s, t) /\ Sound(t, u) => Sound(s, u)
           /\ Guarded(s, t) /\ Sound(t, u) => Guarded(s, u)
           /\ Sound(s, t) => Guarded(s, t) /\ Good(t)
           /\ Good(s) => Sound(s, s)
  BY DEF Sound, Guarded

-----------------------------------------------------------------------------
\* What the tasks dispatch together.

LEMMA UiCompletedSound == ASSUME NEW s, Good(s) PROVE Sound(s, UiCompleted(s))
  <1> DEFINE a == LoadingFinished(s)
             b == UnlockSucceeded(a)
  <1>1. Sound(s, a) /\ Good(a)
    BY LoadingFinishedSound, SoundChains
  <1>2. Sound(a, b) /\ Good(b)
    BY <1>1, UnlockSucceededSound, SoundChains
  <1>3. Sound(b, UiCompleted(s))
    BY <1>2, UiSettledSound DEF UiCompleted
  <1> QED BY <1>1, <1>2, <1>3, SoundChains

LEMMA SessionFailedSound == ASSUME NEW s, Good(s) PROVE Sound(s, SessionFailed(s))
  <1> DEFINE a == LoadingFinished(s)
  <1>1. Sound(s, a) /\ Good(a)
    BY LoadingFinishedSound, SoundChains
  <1>2. Sound(a, SessionFailed(s))
    BY <1>1, SessionLostSound DEF SessionFailed
  <1> QED BY <1>1, <1>2, SoundChains

LEMMA LockedSound == ASSUME NEW s, Good(s) PROVE Sound(s, Locked(s))
  <1> DEFINE a == PendingPasswordChanged(s, FALSE)
             b == UserDecryptedChanged(a, FALSE)
             c == SessionLost(b)
             d == LockCompleted(c)
             e == UserCleared(d)
             f == FirebaseUserCleared(e)
             g == LoadingFinished(f)
  <1>1. Sound(s, a) /\ Good(a)
    BY PasswordSound, SoundChains
  <1>2. Sound(a, b) /\ Good(b)
    BY <1>1, DecryptedGuarded, SoundChains
  <1>3. Sound(b, c) /\ Good(c)
    BY <1>2, SessionLostSound, SoundChains
  <1>4. Sound(c, d) /\ Good(d)
    BY <1>3, LockCompletedSound, SoundChains
  <1> HIDE DEF d
  <1>5. Sound(d, e) /\ Good(e)
    BY <1>4, UserClearedSound, SoundChains
  <1>6. Sound(e, f) /\ Good(f)
    BY <1>5, FirebaseUserClearedSound, SoundChains
  <1>7. Sound(f, g) /\ Good(g)
    BY <1>6, LoadingFinishedSound, SoundChains
  <1>8. Sound(g, Locked(s))
    BY <1>7, UiSettledSound DEF Locked, d
  <1> HIDE DEF a, b, c, e, f, g
  <1> QED BY <1>1, <1>2, <1>3, <1>4, <1>5, <1>6, <1>7, <1>8, SoundChains

\* StartLock, StartSignOut and SigninFails also write variables around the machine.
LEMMA StartLockSound ==
    ASSUME NEW s, Good(s), NEW caller \in {"user", "create", "finish"}, TypeOK,
           StartLock(s, caller)
    PROVE  /\ Sound(s, m')
           /\ dek' \in BOOLEAN /\ locks' \subseteq {"user", "create", "finish"}
  <1> DEFINE a == LockRequested(s)
             b == LoadingFinished(a)
  <1>1. Sound(s, a) /\ Good(a)
    BY LockRequestedSound, SoundChains
  <1>2. Sound(a, b) /\ Good(b)
    BY <1>1, LoadingFinishedSound, SoundChains
  <1>3. Sound(b, UiSettled(b))
    BY <1>2, UiSettledSound
  <1>4. m' \in {a, UiSettled(b)}
    BY DEF StartLock
  <1> HIDE DEF a, b
  <1>5. Sound(s, m')
    BY <1>1, <1>2, <1>3, <1>4, SoundChains
  <1> QED BY <1>5 DEF StartLock, TypeOK

LEMMA StartSignOutSound ==
    ASSUME NEW s, Good(s), NEW caller \in {"user", "create"}, TypeOK,
           StartSignOut(s, caller)
    PROVE  /\ Sound(s, m')
           /\ dek' \in BOOLEAN /\ marker' \in BOOLEAN /\ print' \in BOOLEAN
           /\ outs' \subseteq {"user", "create"}
  <1> DEFINE a == LoadingStarted(s)
             b == SignOutStarted(a)
             c == LockCleared(b)
             d == LoadingFinished(c)
  <1>1. Sound(s, a) /\ Good(a)
    BY LoadingStartedSound, SoundChains
  <1>2. Sound(a, b) /\ Good(b)
    BY <1>1, SignOutStartedSound, SoundChains
  <1>3. Sound(b, c) /\ Good(c)
    BY <1>2, LockClearedSound, SoundChains
  <1>4. Sound(c, d) /\ Good(d)
    BY <1>3, LoadingFinishedSound, SoundChains
  <1>5. Sound(d, Left(d))
    BY <1>4, LeftSound
  <1>6. m' \in {b, Left(d)}
    BY DEF StartSignOut
  <1> HIDE DEF a, b, c, d
  <1>7. Sound(s, m')
    BY <1>1, <1>2, <1>3, <1>4, <1>5, <1>6, SoundChains
  <1> QED BY <1>7 DEF StartSignOut, TypeOK

LEMMA SigninFailsSound ==
    ASSUME Good(m), TypeOK, NEW b \in BOOLEAN, SigninFails(b)
    PROVE  Sound(m, m') /\ ref' \in Refs /\ signin' = NoSignin
  <1> DEFINE a == LoadingFinished(m)
  <1>1. Sound(m, a) /\ Good(a)
    BY LoadingFinishedSound, SoundChains
  <1>2. Sound(a, UnlockFailed(a))
    BY <1>1, UnlockFailedSound
  <1>3. m' \in {a, UnlockFailed(a)} /\ signin' = NoSignin
    BY DEF SigninFails
  <1>4. ref' \in Refs
    <2>1. ref \in Refs /\ signin \in Signin
      BY DEF TypeOK
    <2>2. (ref.lock \/ (signin.was /\ ~b)) \in BOOLEAN /\ (ref.password /\ b) \in BOOLEAN
      OBVIOUS
    <2> QED BY <2>1, <2>2 DEF Refs, SigninFails
  <1> HIDE DEF a
  <1> QED BY <1>1, <1>2, <1>3, <1>4, SoundChains

-----------------------------------------------------------------------------
(***************************************************************************)
(* Every action keeps the types and the machine good, and only decrypts    *)
(* where a load may.                                                       *)
(***************************************************************************)
Kept == TypeOK' /\ Guarded(m, m')

\* The initial machine, and what tasks put into their sets.
LEMMA InitialGood == Good(InitialState)
  BY DEF Good, InitialState, Machine, Phase

LEMMA LoadsTyped ==
    /\ \A ls : ls \subseteq Load => Stale(ls) \subseteq Load
    /\ LoadFor(TRUE) \in Load /\ LoadFor(FALSE) \in Load
  BY DEF Load, Stale, LoadFor

LEMMA NoSigninTyped == NoSignin \in Signin
  BY DEF NoSignin, Signin

LEMMA SigninTyped ==
    ASSUME TypeOK, signin # NoSignin, NEW a \in {"password", "accepted", "prompt", "session"}
    PROVE  [signin EXCEPT !.at = a] \in Signin /\ [signin EXCEPT !.at = a].user \in User
  BY DEF TypeOK, Signin

LEMMA AnnounceTyped ==
    ASSUME TypeOK, NEW u \in User \cup {None}, Announce(u)
    PROVE  told' \subseteq Report /\ \A h \in told' : h.at = "timing" => h.user \in User
  BY DEF TypeOK, Announce, Report

LEMMA LockStartsKept == ASSUME TypeOK, Good(m), LockStarts PROVE Kept
  <1>1. Guarded(m, m')
    BY StartLockSound, SoundChains DEF LockStarts
  <1>2. ref' \in Refs
    BY DEF TypeOK, Refs, LockStarts
  <1> QED BY ZenonT(40), <1>1, <1>2, StartLockSound
         DEF Kept, TypeOK, Guarded, Good, LockStarts, Stale, Load

LEMMA LockEndsKept == ASSUME TypeOK, Good(m), NEW l \in locks, LockEnds(l) PROVE Kept
  <1>1. Guarded(m, m')
    BY LockedSound, SoundChains DEF LockEnds
  <1>2. ref' \in Refs
    BY DEF TypeOK, Refs, LockEnds
  <1> QED BY <1>1, <1>2 DEF Kept, TypeOK, Guarded, Good, LockEnds, ClosedBy

LEMMA TokenChangesKept == ASSUME TypeOK, Good(m), TokenChanges PROVE Kept
  <1>1. Guarded(m, m')
    BY SoundChains DEF TokenChanges
  <1> QED BY <1>1 DEF Kept, TypeOK, Guarded, Good, TokenChanges, Announce, Report

LEMMA ListenerToldKept ==
    ASSUME TypeOK, Good(m), NEW h \in told, ListenerTold(h)
    PROVE  Kept
  <1>1. Guarded(m, m')
    BY UserLostSound, LockDetectedSound, EstablishedSound, SoundChains
       DEF ListenerTold, TypeOK, Report
  <1>2. ref' \in Refs
    BY ZenonT(40) DEF TypeOK, Refs, ListenerTold, Report
  <1> QED BY <1>1, <1>2
         DEF Kept, TypeOK, Guarded, Good, ListenerTold, HandlerMoves, Report

LEMMA ListenerChecksKept ==
    ASSUME TypeOK, Good(m), NEW h \in told, ListenerChecks(h)
    PROVE  Kept
  <1>1. Guarded(m, m')
    BY LockDetectedSound, SoundChains DEF ListenerChecks
  <1>2. ref' \in Refs
    BY ZenonT(40) DEF TypeOK, Refs, ListenerChecks, Report
  <1> QED BY <1>1, <1>2
         DEF Kept, TypeOK, Guarded, Good, ListenerChecks, HandlerMoves, Report

LEMMA ListenerTimesKept ==
    ASSUME TypeOK, Good(m), NEW h \in told, ListenerTimes(h)
    PROVE  Kept
  <1>1. Guarded(m, m')
    BY EstablishedSound, StartLockSound, SoundChains DEF ListenerTimes, TypeOK
  <1>2. ref' \in Refs
    BY DEF TypeOK, Refs, ListenerTimes
  <1>3. loads' \subseteq Load
    BY LoadsTyped DEF TypeOK, ListenerTimes
  <1>4. dek' \in BOOLEAN /\ locks' \subseteq {"user", "create", "finish"}
    BY StartLockSound DEF TypeOK, ListenerTimes
  <1> QED BY <1>1, <1>2, <1>3, <1>4
         DEF Kept, TypeOK, Guarded, Good, ListenerTimes, HandlerMoves

LEMMA PasswordStartsKept == ASSUME TypeOK, Good(m), PasswordStarts PROVE Kept
  <1>1. Guarded(m, m')
    BY UnlockRequestedSound, LoadingStartedSound, SoundChains DEF PasswordStarts, StartSignin
  <1>2. ref' \in Refs
    BY DEF TypeOK, Refs, PasswordStarts, IsLocalUnlock
  <1> QED BY <1>1, <1>2
         DEF Kept, TypeOK, Guarded, Good, PasswordStarts, StartSignin, IsLocalUnlock, Signin, Refs

LEMMA BiometricStartsKept == ASSUME TypeOK, Good(m), BiometricStarts PROVE Kept
  <1>1. Guarded(m, m')
    BY UnlockRequestedSound, LoadingStartedSound, SoundChains DEF BiometricStarts, StartSignin
  <1>2. ref' \in Refs
    BY DEF TypeOK, Refs, BiometricStarts, IsLocalUnlock
  <1> QED BY <1>1, <1>2
         DEF Kept, TypeOK, Guarded, Good, BiometricStarts, StartSignin, IsLocalUnlock, Signin, Refs

LEMMA PasswordAnsweredKept == ASSUME TypeOK, Good(m), PasswordAnswered PROVE Kept
  <1>1. Guarded(m, m')
    BY SigninFailsSound, PasswordSound, SoundChains DEF PasswordAnswered
  <1>2. ref' \in Refs
    BY SigninFailsSound DEF TypeOK, Refs, PasswordAnswered
  <1>3. signin.user \in User
    BY DEF TypeOK, NoSignin, PasswordAnswered
  <1>4. signin # NoSignin
    BY DEF NoSignin, PasswordAnswered
  <1>5. signin' \in Signin /\ (signin' # NoSignin => signin'.user \in User)
    BY <1>4, SigninTyped, NoSigninTyped, SigninFailsSound DEF PasswordAnswered
  <1>6. told' \subseteq Report /\ \A h \in told' : h.at = "timing" => h.user \in User
    BY <1>3, AnnounceTyped DEF TypeOK, PasswordAnswered
  <1> QED BY <1>1, <1>2, <1>3, <1>4, <1>5, <1>6
         DEF Kept, TypeOK, Guarded, Good, PasswordAnswered, NoSignin

LEMMA PasswordEstablishedKept == ASSUME TypeOK, Good(m), PasswordEstablished PROVE Kept
  <1>1. Guarded(m, m')
    BY EstablishedSound, SoundChains DEF PasswordEstablished, TypeOK, NoSignin
  <1>2. ref' \in Refs
    BY DEF TypeOK, Refs, PasswordEstablished, NoSignin
  <1> QED BY <1>1, <1>2
         DEF Kept, TypeOK, Guarded, Good, PasswordEstablished, NoSignin, Signin

LEMMA BiometricAnsweredKept == ASSUME TypeOK, Good(m), BiometricAnswered PROVE Kept
  <1>1. Guarded(m, m')
    BY SigninFailsSound, SoundChains DEF BiometricAnswered
  <1>2. ref' \in Refs
    BY SigninFailsSound DEF TypeOK, BiometricAnswered
  <1>3. signin # NoSignin
    BY DEF NoSignin, BiometricAnswered
  <1>4. signin' \in Signin /\ (signin' # NoSignin => signin'.user \in User)
    BY <1>3, SigninTyped, NoSigninTyped, SigninFailsSound DEF BiometricAnswered
  <1> QED BY <1>1, <1>2, <1>3, <1>4 DEF Kept, TypeOK, Guarded, Good, BiometricAnswered

LEMMA BiometricEstablishedKept ==
    ASSUME TypeOK, Good(m), BiometricEstablished
    PROVE  Kept
  <1>1. Guarded(m, m')
    <2>1. signin.user \in User
      BY DEF TypeOK, NoSignin, BiometricEstablished
    <2>2. Sound(m, SessionCreated(Established(m, signin.user)))
      BY <2>1, EstablishedSound, SessionCreatedSound, SoundChains
    <2> QED BY <2>2, SigninFailsSound, SoundChains DEF BiometricEstablished
  <1>2. signin.user \in User
    BY DEF TypeOK, NoSignin, BiometricEstablished
  <1>3. ref' \in Refs
    BY <1>2, SigninFailsSound DEF TypeOK, Refs, BiometricEstablished
  <1>4. signin' = NoSignin /\ NoSignin \in Signin
    BY SigninFailsSound DEF Signin, NoSignin, BiometricEstablished
  <1> QED BY <1>1, <1>2, <1>3, <1>4
         DEF Kept, TypeOK, Guarded, Good, BiometricEstablished

LEMMA SessionAskedKept ==
    ASSUME TypeOK, Good(m), NEW c \in creates, SessionAsked(c)
    PROVE  Kept
  <1>1. Guarded(m, m')
    BY SoundChains DEF SessionAsked
  <1>2. ref' \in Refs
    BY DEF TypeOK, Refs, SessionAsked
  <1>3. creates' \subseteq [at : {"asked", "sent"}, init : BOOLEAN]
    BY DEF TypeOK, Refs, SessionAsked
  <1> QED BY <1>1, <1>2, <1>3 DEF Kept, TypeOK, Guarded, Good, SessionAsked

LEMMA SessionArrivesKept ==
    ASSUME TypeOK, Good(m), NEW c \in creates, SessionArrives(c)
    PROVE  Kept
  <1>1. Guarded(m, m')
    BY SessionCreatedSound, SoundChains DEF SessionArrives
  <1>2. ref' \in Refs
    BY DEF TypeOK, Refs, SessionArrives, Got, NoIntent
  <1> QED BY <1>1, <1>2 DEF Kept, TypeOK, Guarded, Good, SessionArrives, CreateEnds

LEMMA SessionRefusedKept ==
    ASSUME TypeOK, Good(m), NEW c \in creates, SessionRefused(c)
    PROVE  Kept
  <1>1. Guarded(m, m')
    BY SessionFailedSound, SoundChains DEF SessionRefused
  <1>2. ref' \in Refs
    BY DEF TypeOK, Refs, SessionRefused, NoIntent
  <1> QED BY <1>1, <1>2
         DEF Kept, TypeOK, Guarded, Good, SessionRefused, CreateEnds, StartClear, ClearMarker

LEMMA SessionUnavailableKept ==
    ASSUME TypeOK, Good(m), NEW c \in creates, SessionUnavailable(c)
    PROVE  Kept
  <1>1. Guarded(m, m')
    BY SessionFailedSound, UiSettledSound, SoundChains DEF SessionUnavailable
  <1>2. ref' \in Refs
    BY DEF TypeOK, Refs, SessionUnavailable, Got, NoIntent
  <1> QED BY <1>1, <1>2 DEF Kept, TypeOK, Guarded, Good, SessionUnavailable, CreateEnds

\* What a session request's end does to the refs keeps their type.
LEMMA GotRefs == ASSUME NEW r \in Refs PROVE Got(r) \in Refs
  BY DEF Refs, Got

LEMMA SignedOutRefs == ASSUME NEW r \in Refs PROVE SignOutRefs(r) \in Refs
  BY DEF Refs, SignOutRefs

LEMMA SessionEndedKept ==
    ASSUME TypeOK, Good(m), NEW c \in creates, SessionEnded(c)
    PROVE  Kept
  <1>1. Guarded(m, m')
    BY SessionFailedSound, StartSignOutSound, LoadingFinishedSound, SoundChains
       DEF SessionEnded
  <1>2. ref' \in Refs
    <2>1. ref \in Refs /\ SignOutRefs(ref) \in Refs
      BY SignedOutRefs DEF TypeOK
    <2>2. Got(ref) \in Refs /\ Got(SignOutRefs(ref)) \in Refs
      BY <2>1, GotRefs
    <2>3. ref' \in {Got(ref), SignOutRefs(ref), Got(SignOutRefs(ref))}
      BY DEF SessionEnded
    <2> QED BY <2>1, <2>2, <2>3
  <1> QED BY <1>1, <1>2, SessionFailedSound, StartSignOutSound, SoundChains
         DEF Kept, TypeOK, Guarded, Good, SessionEnded, CreateEnds

LEMMA SessionNeedsMfaKept ==
    ASSUME TypeOK, Good(m), NEW c \in creates, SessionNeedsMfa(c)
    PROVE  Kept
  <1>1. Guarded(m, m')
    <2> DEFINE a == SessionFailed(m)
               b == ChallengeRaised(a)
    <2>1. Sound(m, a) /\ Good(a)
      BY SessionFailedSound, SoundChains
    <2>2. Sound(a, b) /\ Good(b)
      BY <2>1, ChallengeRaisedSound, SoundChains
    <2>3. Sound(b, UiSettled(b))
      BY <2>2, UiSettledSound
    <2>4. m' = UiSettled(b) \/ StartLock(a, "create")
      BY DEF SessionNeedsMfa
    <2> HIDE DEF a, b
    <2>5. Sound(a, m') \/ Sound(b, m')
      BY <2>1, <2>3, <2>4, StartLockSound
    <2> QED BY <2>1, <2>2, <2>5, SoundChains
  <1>2. ref' \in Refs
    BY ZenonT(40) DEF TypeOK, Refs, SessionNeedsMfa, Got, NoIntent
  <1>3. dek' \in BOOLEAN /\ locks' \subseteq {"user", "create", "finish"}
    BY SessionFailedSound, StartLockSound, SoundChains DEF TypeOK, SessionNeedsMfa
  <1> QED BY <1>1, <1>2, <1>3
         DEF Kept, TypeOK, Guarded, Good, SessionNeedsMfa, CreateEnds

LEMMA ClearEndsKept == ASSUME TypeOK, Good(m), ClearEnds PROVE Kept
  <1>1. Guarded(m, m')
    <2> DEFINE a == UserCleared(m)
               b == FirebaseUserCleared(a)
               c == SessionLost(b)
               d == LockCleared(c)
               e == LoadingFinished(d)
    <2>1. Sound(m, a) /\ Good(a)
      BY UserClearedSound, SoundChains
    <2>2. Sound(a, b) /\ Good(b)
      BY <2>1, FirebaseUserClearedSound, SoundChains
    <2>3. Sound(b, c) /\ Good(c)
      BY <2>2, SessionLostSound, SoundChains
    <2>4. Sound(c, d) /\ Good(d)
      BY <2>3, LockClearedSound, SoundChains
    <2>5. Sound(d, e) /\ Good(e)
      BY <2>4, LoadingFinishedSound, SoundChains
    <2>6. Sound(e, m')
      BY <2>5, PartialClearedSound DEF ClearEnds
    <2> HIDE DEF a, b, c, d, e
    <2> QED BY <2>1, <2>2, <2>3, <2>4, <2>5, <2>6, SoundChains
  <1>2. ref' \in Refs
    BY DEF TypeOK, Refs, ClearEnds, Got
  <1>3. told' \subseteq Report /\ \A h \in told' : h.at = "timing" => h.user \in User
    BY AnnounceTyped DEF ClearEnds
  <1> QED BY <1>1, <1>2, <1>3 DEF Kept, TypeOK, Guarded, Good, ClearEnds

LEMMA FinishStartsKept == ASSUME TypeOK, Good(m), FinishStarts PROVE Kept
  <1>1. Guarded(m, m')
    <2>1. m' \in {m, UiCompleted(m)} \/ StartLock(m, "finish")
      BY DEF FinishStarts
    <2> QED BY <2>1, StartLockSound, UiCompletedSound, SoundChains
  <1>2. ref' \in Refs
    BY DEF TypeOK, Refs, FinishStarts
  <1>3. loads' \in {loads, loads \cup {LoadFor(TRUE)}, Stale(loads)}
    BY DEF FinishStarts
  <1>4. loads' \subseteq Load
    BY <1>3, LoadsTyped DEF TypeOK
  <1>5. dek' \in BOOLEAN /\ locks' \subseteq {"user", "create", "finish"}
    BY StartLockSound DEF TypeOK, FinishStarts
  <1>6. finishes' \subseteq {"timer", "closing"}
    BY DEF TypeOK, FinishStarts, ClosedBy
  <1>7. marker' \in BOOLEAN
    BY DEF TypeOK, FinishStarts, ClearMarker
  <1> QED BY <1>1, <1>2, <1>3, <1>4, <1>5, <1>6, <1>7
         DEF Kept, TypeOK, Guarded, Good, FinishStarts

LEMMA FinishClosesKept == ASSUME TypeOK, Good(m), FinishCloses PROVE Kept
  <1>1. Guarded(m, m')
    BY UiReadySound, SoundChains DEF FinishCloses
  <1> QED BY <1>1 DEF Kept, TypeOK, Guarded, Good, FinishCloses

LEMMA LoadFetchedKept ==
    ASSUME TypeOK, Good(m), NEW l \in loads, LoadFetched(l)
    PROVE  Kept
  <1>1. Guarded(m, m')
    BY SoundChains DEF LoadFetched
  <1> QED BY <1>1 DEF Kept, TypeOK, Guarded, Good, LoadFetched, Load

LEMMA LoadEndsKept == ASSUME TypeOK, Good(m), NEW l \in loads, LoadEnds(l) PROVE Kept
  <1>1. Guarded(m, m')
    <2>1. l.data \in BOOLEAN
      BY DEF TypeOK, Load
    <2> DEFINE shown == IF l.fresh /\ Loading THEN UserDecryptedChanged(m, l.data) ELSE m
    <2>2. Guarded(m, shown) /\ Good(shown)
      BY <2>1, DecryptedGuarded, SoundChains DEF Guarded
    <2>3. m' \in {shown, UiCompleted(shown)} \/ StartLock(shown, "finish")
      BY DEF LoadEnds
    <2> HIDE DEF shown
    <2>4. Sound(shown, m')
      BY <2>2, <2>3, StartLockSound, UiCompletedSound, SoundChains
    <2> QED BY <2>2, <2>4, SoundChains
  <1>2. ref' \in Refs
    BY DEF TypeOK, Refs, LoadEnds
  <1>3. loads' \subseteq Load
    BY LoadsTyped DEF TypeOK, LoadEnds
  <1>4. dek' \in BOOLEAN /\ locks' \subseteq {"user", "create", "finish"}
    BY DEF TypeOK, LoadEnds, StartLock
  <1>5. finishes' \subseteq {"timer", "closing"}
    BY DEF TypeOK, LoadEnds, ClosedBy
  <1>6. marker' \in BOOLEAN
    BY DEF TypeOK, LoadEnds, ClearMarker
  <1> QED BY <1>1, <1>2, <1>3, <1>4, <1>5, <1>6
         DEF Kept, TypeOK, Guarded, Good, LoadEnds

LEMMA ReloadStartsKept == ASSUME TypeOK, Good(m), ReloadStarts PROVE Kept
  <1>1. Guarded(m, m')
    BY SoundChains DEF ReloadStarts
  <1> QED BY <1>1, LoadsTyped DEF Kept, TypeOK, Guarded, Good, ReloadStarts

LEMMA KeyOpenedKept ==
    ASSUME TypeOK, Good(m), NEW t \in unlocks, KeyOpened(t)
    PROVE  Kept
  <1>1. Guarded(m, m')
    BY PasswordSound, SoundChains DEF KeyOpened
  <1>2. ref' \in Refs
    BY DEF TypeOK, Refs, KeyOpened
  <1>3. loads' \subseteq Load
    BY LoadsTyped DEF TypeOK, KeyOpened
  <1> QED BY <1>1, <1>2, <1>3 DEF Kept, TypeOK, Guarded, Good, KeyOpened

LEMMA KeyNotOpenedKept ==
    ASSUME TypeOK, Good(m), NEW t \in unlocks, KeyNotOpened(t)
    PROVE  Kept
  <1>1. Guarded(m, m')
    BY PasswordSound, SoundChains DEF KeyNotOpened
  <1> QED BY <1>1 DEF Kept, TypeOK, Guarded, Good, KeyNotOpened

LEMMA SignOutStartsKept == ASSUME TypeOK, Good(m), SignOutStarts PROVE Kept
  <1>1. Guarded(m, m')
    BY StartSignOutSound, SoundChains DEF SignOutStarts
  <1>2. ref' \in Refs
    BY DEF TypeOK, Refs, SignOutStarts, SignOutRefs
  <1> QED BY <1>1, <1>2, StartSignOutSound
         DEF Kept, TypeOK, Guarded, Good, SignOutStarts

LEMMA SignOutEndsKept ==
    ASSUME TypeOK, Good(m), NEW o \in outs, SignOutEnds(o)
    PROVE  Kept
  <1>1. Guarded(m, m')
    <2> DEFINE a == UserDecryptedChanged(m, FALSE)
               b == LockCleared(a)
               c == SignOutFailed(m)
    <2>1. Sound(m, a) /\ Good(a)
      BY DecryptedGuarded, SoundChains
    <2>2. Sound(a, b) /\ Good(b)
      BY <2>1, LockClearedSound, SoundChains
    <2>3. Sound(b, Left(b))
      BY <2>2, LeftSound
    <2>4. Sound(m, c) /\ Good(c)
      BY SignOutFailedSound, SoundChains
    <2>5. Sound(c, UiSettled(c))
      BY <2>4, UiSettledSound
    <2>6. m' \in {Left(b), c, UiSettled(c)}
      BY DEF SignOutEnds
    <2> HIDE DEF a, b, c
    <2> QED BY <2>1, <2>2, <2>3, <2>4, <2>5, <2>6, SoundChains
  <1>2. ref' \in Refs
    BY DEF TypeOK, Refs, SignOutEnds, Got
  <1>3. told' \subseteq Report /\ \A h \in told' : h.at = "timing" => h.user \in User
    BY AnnounceTyped DEF TypeOK, SignOutEnds
  <1> QED BY <1>1, <1>2, <1>3 DEF Kept, TypeOK, Guarded, Good, SignOutEnds

LEMMA DeletionStartsKept == ASSUME TypeOK, Good(m), DeletionStarts PROVE Kept
  <1>1. Guarded(m, m')
    BY DeletionStartedSound, LoadingStartedSound, SoundChains DEF DeletionStarts
  <1>2. ref' \in Refs
    BY DEF TypeOK, Refs, DeletionStarts, Got, SignOutRefs
  <1> QED BY <1>1, <1>2 DEF Kept, TypeOK, Guarded, Good, DeletionStarts

LEMMA DeletionEndsKept == ASSUME TypeOK, Good(m), DeletionEnds PROVE Kept
  <1>1. Guarded(m, m')
    <2> DEFINE a == PendingPasswordChanged(m, FALSE)
               b == UserDecryptedChanged(a, FALSE)
               c == SessionLost(b)
               d == LockCleared(c)
               e == UserCleared(d)
               f == FirebaseUserCleared(e)
               g == UiSettled(f)
               h == LoadingFinished(g)
    <2>1. Sound(m, a) /\ Good(a)
      BY PasswordSound, SoundChains
    <2>2. Sound(a, b) /\ Good(b)
      BY <2>1, DecryptedGuarded, SoundChains
    <2>3. Sound(b, c) /\ Good(c)
      BY <2>2, SessionLostSound, SoundChains
    <2>4. Sound(c, d) /\ Good(d)
      BY <2>3, LockClearedSound, SoundChains
    <2> HIDE DEF d
    <2>5. Sound(d, e) /\ Good(e)
      BY <2>4, UserClearedSound, SoundChains
    <2>6. Sound(e, f) /\ Good(f)
      BY <2>5, FirebaseUserClearedSound, SoundChains
    <2>7. Sound(f, g) /\ Good(g)
      BY <2>6, UiSettledSound, SoundChains
    <2> HIDE DEF g
    <2>8. Sound(g, h) /\ Good(h)
      BY <2>7, LoadingFinishedSound, SoundChains
    <2>9. Sound(h, m')
      BY <2>8, LeftSound DEF DeletionEnds, d, g
    <2> HIDE DEF a, b, c, e, f, h
    <2> QED BY <2>1, <2>2, <2>3, <2>4, <2>5, <2>6, <2>7, <2>8, <2>9, SoundChains
  <1>2. ref' \in Refs
    BY DEF TypeOK, Refs, DeletionEnds
  <1>3. told' \subseteq Report /\ \A h \in told' : h.at = "timing" => h.user \in User
    BY AnnounceTyped DEF DeletionEnds
  <1> QED BY <1>1, <1>2, <1>3 DEF Kept, TypeOK, Guarded, Good, DeletionEnds

LEMMA RestartKept == ASSUME TypeOK, Good(m), Restart PROVE Kept
  <1>1. Guarded(m, m')
    BY InitialGood DEF Restart, Guarded, InitialState
  <1>2. ref' \in Refs
    BY DEF TypeOK, Refs, Restart, InitialRefs
  <1>3. NoSignin \in Signin
    BY DEF NoSignin, Signin
  <1>4. told' \subseteq Report /\ \A h \in told' : h.at = "timing" => h.user \in User
    BY DEF TypeOK, Restart, Report
  <1> QED BY <1>1, <1>2, <1>3, <1>4, InitialGood
         DEF Kept, TypeOK, Guarded, Good, Restart, NoTasks

LEMMA RenderKept == ASSUME TypeOK, Good(m), Render PROVE Kept
  <1>1. Guarded(m, m')
    BY UiReadySound, SoundChains DEF Render
  <1>2. ref' \in Refs
    BY DEF TypeOK, Refs, Render, Machine
  <1>3. unlocks' \subseteq User
    BY NoneAssumption DEF TypeOK, Machine, Render
  <1>4. [at |-> "asked", init |-> FALSE] \in [at : {"asked", "sent"}, init : BOOLEAN]
    OBVIOUS
  <1>5. creates' \subseteq [at : {"asked", "sent"}, init : BOOLEAN]
    BY <1>4 DEF TypeOK, Render
  <1> QED BY <1>1, <1>2, <1>3, <1>4, <1>5 DEF Kept, TypeOK, Guarded, Good, Render

-----------------------------------------------------------------------------
Inv == TypeOK /\ Good(m)

LEMMA InitInv == Init => Inv
  <1> SUFFICES ASSUME Init PROVE Inv
    OBVIOUS
  <1>1. Good(m)
    BY InitialGood DEF Init
  <1>2. ref \in Refs
    BY DEF Init, InitialRefs, Refs
  <1>3. current \in User \cup {None}
    BY UserAssumption DEF Init
  <1>4. told \subseteq Report /\ \A h \in told : h.at = "timing" => h.user \in User
    BY <1>3 DEF Init, Report
  <1>5. signin \in Signin /\ signin = NoSignin
    BY NoSigninTyped DEF Init
  <1>6. marker \in BOOLEAN /\ print \in BOOLEAN
    BY DEF Init
  <1> QED BY <1>1, <1>2, <1>3, <1>4, <1>5, <1>6 DEF Init, Inv, TypeOK, Good

LEMMA StepKept == Inv /\ [Next]_vars => Kept
  <1> SUFFICES ASSUME Inv, [Next]_vars PROVE Kept
    OBVIOUS
  <1> USE DEF Inv
  <1>1. CASE Environment
    BY <1>1, LockStartsKept, TokenChangesKept, PasswordStartsKept, BiometricStartsKept,
       ReloadStartsKept, SignOutStartsKept, DeletionStartsKept, RestartKept
       DEF Environment
  <1>2. CASE App
    BY <1>2, RenderKept, LockEndsKept, ListenerToldKept, ListenerChecksKept,
       ListenerTimesKept, PasswordAnsweredKept, PasswordEstablishedKept,
       BiometricAnsweredKept, BiometricEstablishedKept, SessionAskedKept,
       SessionArrivesKept, SessionRefusedKept, SessionUnavailableKept, SessionEndedKept,
       SessionNeedsMfaKept, ClearEndsKept, FinishStartsKept, FinishClosesKept,
       LoadFetchedKept, LoadEndsKept, KeyOpenedKept, KeyNotOpenedKept, SignOutEndsKept,
       DeletionEndsKept
       DEF App
  <1>3. CASE UNCHANGED vars
    BY <1>3, SoundChains DEF Kept, TypeOK, vars, tasks
  <1> QED BY <1>1, <1>2, <1>3 DEF Next

LEMMA InvStep == Inv /\ [Next]_vars => Inv'
  BY StepKept DEF Kept, Inv, Guarded

\* The machine is good in every reachable state: it holds what the lemmas on its
\* single events say, whoever dispatches them.
THEOREM InvCorrect == Spec => []Inv
  BY InitInv, InvStep, PTL DEF Spec

\* In every order of commands, callbacks and effects the variables keep their
\* types: no event of the reducer and no task leaves the machine half set.
THEOREM TypeCorrect == Spec => []TypeOK
  <1>1. Inv => TypeOK
    BY DEF Inv
  <1> QED BY <1>1, InvCorrect, PTL

\* The lock of authStateMachine.ts holds neither data nor a password, whatever
\* was under way when it closed, and also when a failed sign-out returns to it.
THEOREM LockIsEmpty == Spec => []LockedHoldsNothing
  <1>1. Inv => LockedHoldsNothing
    BY DEF Inv, Good, LockedHoldsNothing
  <1> QED BY <1>1, InvCorrect, PTL

\* The remembered phase (prior) never outlives the flow that remembered it.
THEOREM PriorBelongsToAFlow == Spec => []PriorOnlyWhileAway
  <1>1. Inv => PriorOnlyWhileAway
    BY DEF Inv, Good, PriorOnlyWhileAway, Away
  <1> QED BY <1>1, InvCorrect, PTL

\* No step of any task decrypts a machine that is locked, out or leaving: the
\* guard of USER_DECRYPTED_CHANGED suffices for every late load.
THEOREM LateLoadsAreDropped == Spec => NoRehydration
  <1> DEFINE Drop == m.phase \in {"signed-out", "locally-locked", "signing-out", "deleting"}
                        /\ ~m.decrypted => ~m'.decrypted
  <1>1. Inv /\ [Next]_vars => [Drop]_vars
    BY StepKept DEF Kept, Guarded, DecryptedPhases
  <1>2. Spec => [][Drop]_vars
    BY <1>1, InvCorrect, PTL DEF Spec
  <1> QED BY <1>2 DEF NoRehydration
-----------------------------------------------------------------------------
LEMMA GettingStep == TypeOK /\ GettingEnds /\ [Next]_vars => GettingEnds'
  <1> SUFFICES ASSUME TypeOK, GettingEnds, [Next]_vars PROVE GettingEnds'
    OBVIOUS
  <1>0. ref \in Refs
    BY DEF TypeOK
  <1> USE <1>0 DEF GettingEnds, Refs
  <1>1. CASE LockStarts
    BY <1>1 DEF LockStarts, StartLock
  <1>2. CASE TokenChanges
    BY <1>2 DEF TokenChanges
  <1>3. CASE PasswordStarts
    BY <1>3 DEF PasswordStarts
  <1>4. CASE BiometricStarts
    BY <1>4 DEF BiometricStarts
  <1>5. CASE ReloadStarts
    BY <1>5 DEF ReloadStarts
  <1>6. CASE SignOutStarts
    BY <1>6 DEF SignOutStarts, SignOutRefs, StartSignOut
  <1>7. CASE DeletionStarts
    BY <1>7 DEF DeletionStarts, SignOutRefs, Got
  <1>8. CASE Restart
    BY <1>8 DEF Restart, InitialRefs
  <1>9. CASE Render
    BY <1>9 DEF Render, Sent
  <1>10. ASSUME NEW l \in locks, LockEnds(l) PROVE GettingEnds'
    BY <1>10 DEF LockEnds
  <1>11. ASSUME NEW h \in told, ListenerTold(h) PROVE GettingEnds'
    BY <1>11 DEF ListenerTold
  <1>12. ASSUME NEW h \in told, ListenerChecks(h) PROVE GettingEnds'
    BY <1>12 DEF ListenerChecks
  <1>13. ASSUME NEW h \in told, ListenerTimes(h) PROVE GettingEnds'
    BY <1>13 DEF ListenerTimes, StartLock
  <1>14. CASE PasswordAnswered
    BY <1>14 DEF PasswordAnswered, SigninFails
  <1>15. CASE PasswordEstablished
    BY <1>15 DEF PasswordEstablished
  <1>16. CASE BiometricAnswered
    BY <1>16 DEF BiometricAnswered, SigninFails
  <1>17. CASE BiometricEstablished
    BY <1>17 DEF BiometricEstablished, SigninFails
  <1>18. ASSUME NEW c \in creates, SessionAsked(c) PROVE GettingEnds'
    <2>1. CASE ref.getting
      BY <1>18, <2>1 DEF SessionAsked, Sent
    <2>2. CASE ~ref.getting
      <3>1. [at |-> "sent", init |-> ref.init] \in creates'
        BY <1>18, <2>2 DEF SessionAsked
      <3> QED BY <3>1 DEF Sent
    <2> QED BY <2>1, <2>2
  <1>19. ASSUME NEW c \in creates, SessionArrives(c) PROVE GettingEnds'
    BY <1>19 DEF SessionArrives, NoIntent, Got, CreateEnds
  <1>20. ASSUME NEW c \in creates, SessionRefused(c) PROVE GettingEnds'
    BY <1>20 DEF SessionRefused, NoIntent, StartClear, CreateEnds
  <1>21. ASSUME NEW c \in creates, SessionUnavailable(c) PROVE GettingEnds'
    BY <1>21 DEF SessionUnavailable, NoIntent, Got, CreateEnds
  <1>22. ASSUME NEW c \in creates, SessionEnded(c) PROVE GettingEnds'
    BY <1>22 DEF SessionEnded, SignOutRefs, Got, CreateEnds, StartSignOut
  <1>23. ASSUME NEW c \in creates, SessionNeedsMfa(c) PROVE GettingEnds'
    BY <1>23 DEF SessionNeedsMfa, NoIntent, Got, CreateEnds, StartLock
  <1>24. CASE ClearEnds
    BY <1>24 DEF ClearEnds, Got
  <1>25. CASE FinishStarts
    BY <1>25 DEF FinishStarts, StartLock
  <1>26. CASE FinishCloses
    BY <1>26 DEF FinishCloses
  <1>27. ASSUME NEW l \in loads, LoadFetched(l) PROVE GettingEnds'
    BY <1>27 DEF LoadFetched
  <1>28. ASSUME NEW l \in loads, LoadEnds(l) PROVE GettingEnds'
    BY <1>28 DEF LoadEnds, StartLock
  <1>29. ASSUME NEW t \in unlocks, KeyOpened(t) PROVE GettingEnds'
    BY <1>29 DEF KeyOpened
  <1>30. ASSUME NEW t \in unlocks, KeyNotOpened(t) PROVE GettingEnds'
    BY <1>30 DEF KeyNotOpened
  <1>31. ASSUME NEW o \in outs, SignOutEnds(o) PROVE GettingEnds'
    BY <1>31 DEF SignOutEnds, Got
  <1>32. CASE DeletionEnds
    BY <1>32 DEF DeletionEnds
  <1>33. CASE UNCHANGED vars
    BY <1>33 DEF vars, tasks, Sent
  <1> QED
    BY <1>1, <1>2, <1>3, <1>4, <1>5, <1>6, <1>7, <1>8, <1>9, <1>10, <1>11, <1>12, <1>13,
       <1>14, <1>15, <1>16, <1>17, <1>18, <1>19, <1>20, <1>21, <1>22, <1>23, <1>24,
       <1>25, <1>26, <1>27, <1>28, <1>29, <1>30, <1>31, <1>32, <1>33
       DEF Next, Environment, App

\* createBackendAuthSession and everything it may start give isGettingSessionRef
\* back: a set flag always has a request, or its cleanup, that will clear it.
THEOREM FlagHasARequest == Spec => []GettingEnds
  <1>1. Init => GettingEnds
    BY DEF Init, InitialRefs, GettingEnds
  <1> QED BY <1>1, GettingStep, TypeCorrect, PTL DEF Spec
=============================================================================
