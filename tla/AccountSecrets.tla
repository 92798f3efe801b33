--------------------------- MODULE AccountSecrets ---------------------------
(***************************************************************************)
(* The password of an account and what it opens                            *)
(* (src/apps/mobile/src/features/auth, .../features/security/hooks).       *)
(* The account password is kept twice: Firebase Auth checks it at sign-in, *)
(* and the data key of the vault lies on the server, wrapped with it       *)
(* (dekPassword) and with the recovery seed (dekSeed).  Sign-up, a change  *)
(* of the password, a recovery with the seed and a deletion write to both  *)
(* places, one request after the other, from any device.                   *)
(*                                                                         *)
(* The module follows one username.  Each Firebase identity created under  *)
(* it has a uid, a data key and a seed of its own, so that a wrapping is   *)
(* told by the uid and the password; the seed always opens its own vault,  *)
(* and the user knows it.  Encryption is ideal.                            *)
(***************************************************************************)
EXTENDS Naturals

CONSTANTS
    Phone,       \* devices of the user
    Password,
    NoPassword,
    MaxUid,      \* bound: identities created in one behaviour
    MaxCuts      \* bound: requests that fail, answers that get lost, processes that die

ASSUME SecretsAssumption == NoPassword \notin Password /\ MaxUid \in Nat /\ MaxCuts \in Nat

VARIABLES
    holder,    \* the uid of the Firebase identity of the username, or 0
    password,  \* ... and its password
    uids,      \* identities created so far
    wrapped,   \* the password dekPassword of users/{uid} is wrapped with
    signed,    \* the uid a phone is signed in as, or 0
    trusted,      \* the phones whose Firebase sign-in has not been revoked
    copy,      \* the password behind dekPassword in the userDecrypted of a phone
    act,       \* the call in progress on each phone
    split,     \* history: a change was cut off between its two writes, or overlapped
               \* another one, and none has succeeded alone since
    stray,     \* history: an identity was left without its documents
    cuts

secretVars == <<holder, password, uids, wrapped, signed, trusted, copy, act, split, stray, cuts>>
accounts == <<holder, password, uids, wrapped>>
phones   == <<signed, trusted, copy>>

Uid == 1..MaxUid

Resting == [pc |-> "rest", uid |-> 0, old |-> NoPassword, new |-> NoPassword,
            wrap |-> NoPassword, alone |-> FALSE]

AtStep(p, pc) == act[p].pc = pc
\* Firebase removes the identity, if it still exists.
Removed(u) ==
    IF holder = u THEN holder' = 0 /\ password' = NoPassword ELSE UNCHANGED <<holder, password>>

\* The call goes on, or ends.
GoesOn(p, pc) == act' = [act EXCEPT ![p].pc = pc]
Ends(p) == act' = [act EXCEPT ![p] = Resting]
\* The call goes on after a write: what other phones have begun is no longer alone.
Wrote(p, pc) ==
    act' = [q \in Phone |-> IF q = p THEN [act[p] EXCEPT !.pc = pc, !.alone = TRUE]
                                     ELSE [act[q] EXCEPT !.alone = FALSE]]

SecretsInit ==
    /\ holder = 0 /\ password = NoPassword /\ uids = 0
    /\ wrapped = [u \in Uid |-> NoPassword]
    /\ signed = [p \in Phone |-> 0] /\ trusted = {} /\ copy = [p \in Phone |-> NoPassword]
    /\ act = [p \in Phone |-> Resting]
    /\ split = FALSE /\ stray = FALSE /\ cuts = 0

-----------------------------------------------------------------------------
(* Sign-up.  The check of the name beforehand answers "free" when it fails *)
(* and is repeated by Firebase: it only spares requests.                   *)

BeginSignUp(p, new) ==
    /\ AtStep(p, "rest") /\ signed[p] = 0
    /\ act' = [act EXCEPT ![p] = [Resting EXCEPT !.pc = "identity", !.new = new]]
    /\ UNCHANGED <<accounts, phones, split, stray, cuts>>

IdentityMade(p) ==
    /\ holder = 0 /\ uids < MaxUid
    /\ uids' = uids + 1 /\ holder' = uids + 1 /\ password' = act[p].new

CreateIdentity(p) ==
    /\ AtStep(p, "identity") /\ IdentityMade(p)
    /\ signed' = [signed EXCEPT ![p] = uids + 1] /\ trusted' = trusted \cup {p}
    /\ act' = [act EXCEPT ![p].pc = "register", ![p].uid = uids + 1]
    /\ UNCHANGED <<wrapped, copy, split, stray, cuts>>

NameTaken(p) ==
    /\ AtStep(p, "identity") /\ holder # 0
    /\ Ends(p)
    /\ UNCHANGED <<accounts, phones, split, stray, cuts>>

\* POST /user; the session and the load that follow find the new vault.
Register(p) ==
    /\ AtStep(p, "register")
    /\ wrapped' = [wrapped EXCEPT ![act[p].uid] = act[p].new]
    /\ copy' = [copy EXCEPT ![p] = act[p].new]
    /\ Ends(p)
    /\ UNCHANGED <<holder, password, uids, signed, trusted, split, stray, cuts>>

\* The request failed, with or without effect; the identity is to be removed again.
NotRegistered(p) ==
    /\ AtStep(p, "register") /\ cuts < MaxCuts
    /\ cuts' = cuts + 1
    /\ wrapped' \in {wrapped, [wrapped EXCEPT ![act[p].uid] = act[p].new]}
    /\ GoesOn(p, "undo")
    /\ UNCHANGED <<holder, password, uids, phones, split, stray>>

\* Mutant: a failed registration is reported, and the identity forgotten.
NoUndo(p) ==
    /\ AtStep(p, "undo")
    /\ signed' = [signed EXCEPT ![p] = 0] /\ trusted' = trusted \ {p}
    /\ Ends(p)
    /\ UNCHANGED <<accounts, copy, split, stray, cuts>>

Undo(p) ==
    /\ AtStep(p, "undo")
    /\ Removed(act[p].uid)
    /\ signed' = [signed EXCEPT ![p] = 0] /\ trusted' = trusted \ {p}
    /\ Ends(p)
    /\ UNCHANGED <<uids, wrapped, copy, split, stray, cuts>>

-----------------------------------------------------------------------------
(* Signing in, reloading, locking and signing out.                         *)

\* A session is refused when the user document is missing, and the sign-in is
\* undone; a password that does not open the vault leaves the app without data.
SignIn(p) ==
    /\ AtStep(p, "rest") /\ copy[p] = NoPassword
    /\ holder # 0 /\ wrapped[holder] # NoPassword
    /\ signed' = [signed EXCEPT ![p] = holder] /\ trusted' = trusted \cup {p}
    /\ copy' = [copy EXCEPT ![p] = IF wrapped[holder] = password THEN password ELSE NoPassword]
    /\ UNCHANGED <<accounts, act, split, stray, cuts>>

\* A `user` notification or a manual refresh loads the documents again.
Reload(p) ==
    /\ copy[p] # NoPassword /\ p \in trusted /\ wrapped[signed[p]] # NoPassword
    /\ copy' = [copy EXCEPT ![p] = wrapped[signed[p]]]
    /\ UNCHANGED <<accounts, signed, trusted, act, split, stray, cuts>>

\* The app locks, whatever it is doing, or its process ends between two calls.
Locked(p) ==
    /\ copy[p] # NoPassword
    /\ copy' = [copy EXCEPT ![p] = NoPassword]
    /\ UNCHANGED <<accounts, signed, trusted, act, split, stray, cuts>>

LeavePhone(p) ==
    /\ signed' = [signed EXCEPT ![p] = 0] /\ trusted' = trusted \ {p}
    /\ copy' = [copy EXCEPT ![p] = NoPassword]

LeaveAccount(p) ==
    /\ AtStep(p, "rest") /\ signed[p] # 0
    /\ LeavePhone(p)
    /\ UNCHANGED <<accounts, act, split, stray, cuts>>

-----------------------------------------------------------------------------
(* Changing the password and recovering the account.                       *)

\* handleSecurityAction: userDecrypted is the one of the moment of the tap.
BeginChange(p, old, new) ==
    /\ AtStep(p, "rest") /\ signed[p] # 0 /\ copy[p] # NoPassword /\ new # old
    /\ act' = [act EXCEPT ![p] = [Resting EXCEPT !.pc = "reauth", !.uid = signed[p],
                                  !.old = old, !.new = new, !.wrap = copy[p]]]
    /\ UNCHANGED <<accounts, phones, split, stray, cuts>>

Reauth(p) ==
    /\ AtStep(p, "reauth")
    /\ IF holder = act[p].uid /\ password = act[p].old
         THEN /\ trusted' = trusted \cup {p}
              /\ GoesOn(p, IF act[p].new = NoPassword THEN "erase" ELSE "unwrap")
         ELSE Ends(p) /\ UNCHANGED trusted
    /\ UNCHANGED <<accounts, signed, copy, split, stray, cuts>>

\* AuthService.changePassword takes the key from the copy the app holds.
Unwrap(p) ==
    /\ AtStep(p, "unwrap")
    /\ IF act[p].wrap = act[p].old THEN GoesOn(p, "rewrap") ELSE Ends(p)
    /\ UNCHANGED <<accounts, phones, split, stray, cuts>>

\* The seed opens the challenge: a token to sign in with and the wrapped key.
BeginRecover(p, new) ==
    /\ AtStep(p, "rest") /\ copy[p] = NoPassword
    /\ holder # 0 /\ wrapped[holder] # NoPassword
    /\ act' = [act EXCEPT ![p] = [Resting EXCEPT !.pc = "enter", !.uid = holder, !.new = new]]
    /\ UNCHANGED <<accounts, phones, split, stray, cuts>>

Enter(p) ==
    /\ AtStep(p, "enter") /\ holder = act[p].uid
    /\ signed' = [signed EXCEPT ![p] = holder] /\ trusted' = trusted \cup {p}
    /\ GoesOn(p, "rewrap")
    /\ UNCHANGED <<accounts, copy, split, stray, cuts>>

\* The identity the token was made for has been deleted since.
NobodyToEnter(p) ==
    /\ AtStep(p, "enter") /\ holder # act[p].uid
    /\ Ends(p)
    /\ UNCHANGED <<accounts, phones, split, stray, cuts>>

Accepted(p) == p \in trusted /\ wrapped[act[p].uid] # NoPassword

\* Mutant: a change wraps the key with the password it was given first.
RewrappedOld(p) ==
    wrapped' = [wrapped EXCEPT ![act[p].uid] =
                   IF act[p].old = NoPassword THEN act[p].new ELSE act[p].old]

Rewrapped(p) == wrapped' = [wrapped EXCEPT ![act[p].uid] = act[p].new]
Overlaps(p) == \E q \in Phone \ {p} : AtStep(q, "update")

\* changeDekPassword: the first of the two writes.
Rewrap(p) ==
    /\ AtStep(p, "rewrap") /\ Accepted(p)
    /\ Rewrapped(p) /\ Wrote(p, "update")
    /\ split' = (split \/ Overlaps(p))
    /\ UNCHANGED <<holder, password, uids, phones, stray, cuts>>

Refused(p) ==
    /\ AtStep(p, "rewrap") /\ ~Accepted(p)
    /\ Ends(p)
    /\ UNCHANGED <<accounts, phones, split, stray, cuts>>

\* Firebase's updatePassword revokes the sign-ins of all other phones.
Updated(p) == password' = act[p].new /\ trusted' = {p}

\* The second write.
Update(p) ==
    /\ AtStep(p, "update") /\ p \in trusted /\ holder = act[p].uid
    /\ Updated(p)
    /\ act' = [q \in Phone |-> IF q = p THEN [act[p] EXCEPT !.pc = "revoke"]
                                        ELSE [act[q] EXCEPT !.alone = FALSE]]
    /\ UNCHANGED <<holder, uids, wrapped, signed, copy, split, stray, cuts>>

\* Its sign-in was revoked in between: the change ends half-way.
Outdated(p) ==
    /\ AtStep(p, "update") /\ (p \notin trusted \/ holder # act[p].uid)
    /\ Ends(p) /\ split' = TRUE
    /\ UNCHANGED <<accounts, phones, stray, cuts>>

\* revokeAllSessions answered: the app says so and signs out.
Succeed(p) ==
    /\ AtStep(p, "revoke")
    /\ Ends(p) /\ LeavePhone(p)
    /\ split' = (split /\ ~act[p].alone)
    /\ UNCHANGED <<accounts, stray, cuts>>

-----------------------------------------------------------------------------
(* Deleting the account: the server removes the documents, then the rest.  *)

\* handleSecurityAction("delete"); a call without a new password.
BeginErasure(p, old) ==
    /\ AtStep(p, "rest") /\ signed[p] # 0 /\ copy[p] # NoPassword
    /\ act' = [act EXCEPT ![p] = [Resting EXCEPT !.pc = "reauth", !.uid = signed[p], !.old = old]]
    /\ UNCHANGED <<accounts, phones, split, stray, cuts>>

\* Revokes every sign-in, removes the documents; the app drops its own state
\* whether or not the rest succeeds.
Erase(p) ==
    /\ AtStep(p, "erase") /\ Accepted(p)
    /\ wrapped' = [wrapped EXCEPT ![act[p].uid] = NoPassword]
    /\ trusted' = {} /\ signed' = [signed EXCEPT ![p] = 0] /\ copy' = [copy EXCEPT ![p] = NoPassword]
    /\ Wrote(p, "dismiss")
    /\ UNCHANGED <<holder, password, uids, split, stray, cuts>>

NotErased(p) ==
    /\ AtStep(p, "erase") /\ ~Accepted(p)
    /\ Ends(p)
    /\ UNCHANGED <<accounts, phones, split, stray, cuts>>

\* auth.deleteUser, the last step.
Dismiss(p) ==
    /\ AtStep(p, "dismiss")
    /\ Removed(act[p].uid)
    /\ Ends(p)
    /\ UNCHANGED <<uids, wrapped, phones, split, stray, cuts>>

-----------------------------------------------------------------------------
(* A request fails without effect, or its effect is never heard of, or the *)
(* process of the app ends (the server finishes a deletion it has begun).  *)

Cut(p) ==
    /\ ~AtStep(p, "rest") /\ cuts < MaxCuts
    /\ cuts' = cuts + 1
    /\ split' = (split \/ AtStep(p, "update"))
    /\ stray' = (stray \/ act[p].pc \in {"register", "undo", "dismiss"})
    /\ Ends(p)
    /\ copy' \in {copy, [copy EXCEPT ![p] = NoPassword]}
    \* a deletion revokes the sign-ins before it removes the documents
    /\ trusted' \in IF AtStep(p, "erase") THEN {trusted, {}} ELSE {trusted}
    /\ UNCHANGED <<accounts, signed>>

IdentityUnheard(p) ==
    /\ AtStep(p, "identity") /\ cuts < MaxCuts
    /\ cuts' = cuts + 1
    /\ IdentityMade(p) /\ stray' = TRUE
    /\ Ends(p)
    /\ UNCHANGED <<wrapped, phones, split>>

RewrapUnheard(p) ==
    /\ AtStep(p, "rewrap") /\ Accepted(p) /\ cuts < MaxCuts
    /\ cuts' = cuts + 1
    /\ Rewrapped(p) /\ split' = TRUE
    /\ act' = [q \in Phone |-> IF q = p THEN Resting ELSE [act[q] EXCEPT !.alone = FALSE]]
    /\ UNCHANGED <<holder, password, uids, phones, stray>>

UpdateUnheard(p) ==
    /\ AtStep(p, "update") /\ p \in trusted /\ holder = act[p].uid /\ cuts < MaxCuts
    /\ cuts' = cuts + 1
    /\ Updated(p)
    /\ act' = [q \in Phone |-> IF q = p THEN Resting ELSE [act[q] EXCEPT !.alone = FALSE]]
    /\ UNCHANGED <<holder, uids, wrapped, signed, copy, split, stray>>

SecretsNext == \E p \in Phone :
    \/ \E new \in Password : BeginSignUp(p, new) \/ BeginRecover(p, new) \/ BeginErasure(p, new)
    \/ \E old, new \in Password : BeginChange(p, old, new)
    \/ CreateIdentity(p) \/ NameTaken(p) \/ Register(p) \/ NotRegistered(p) \/ Undo(p)
    \/ SignIn(p) \/ Reload(p) \/ Locked(p) \/ LeaveAccount(p)
    \/ Reauth(p) \/ Unwrap(p) \/ Enter(p) \/ NobodyToEnter(p)
    \/ Rewrap(p) \/ Refused(p) \/ Update(p) \/ Outdated(p) \/ Succeed(p)
    \/ Erase(p) \/ NotErased(p) \/ Dismiss(p)
    \/ Cut(p) \/ IdentityUnheard(p) \/ RewrapUnheard(p) \/ UpdateUnheard(p)

SecretsSpec == SecretsInit /\ [][SecretsNext]_secretVars

-----------------------------------------------------------------------------
SecretsTypeOK ==
    /\ holder \in 0..MaxUid /\ uids \in 0..MaxUid
    /\ password \in Password \cup {NoPassword}
    /\ wrapped \in [Uid -> Password \cup {NoPassword}]
    /\ signed \in [Phone -> 0..MaxUid] /\ trusted \subseteq Phone
    /\ copy \in [Phone -> Password \cup {NoPassword}]
    /\ act \in [Phone -> [pc : {"rest", "identity", "register", "undo", "reauth", "unwrap",
                                "enter", "rewrap", "update", "revoke", "erase", "dismiss"},
                          uid : 0..MaxUid, old : Password \cup {NoPassword},
                          new : Password \cup {NoPassword},
                          wrap : Password \cup {NoPassword}, alone : BOOLEAN]]
    /\ split \in BOOLEAN /\ stray \in BOOLEAN /\ cuts \in 0..MaxCuts

\* authService.ts:134, useSecurityActions.ts:84 - the password Firebase accepts
\* opens the vault, unless a change or recovery is between its two writes, was cut
\* off there or overlapped another one; and one that succeeds afterwards, with the
\* seed if need be, makes the two agree again.
PasswordOpensVault ==
    /\ holder # 0 /\ wrapped[holder] # NoPassword
    /\ ~split /\ ~\E p \in Phone : AtStep(p, "update")
    => wrapped[holder] = password

\* userAuthService.ts:24, userWrites.ts:80 - a username is taken only by an account
\* that has its documents, unless the attempt to remove the identity failed.
TakenNamesAreUsable ==
    /\ holder # 0 /\ wrapped[holder] = NoPassword
    => stray \/ \E p \in Phone : act[p].pc \in {"register", "undo", "dismiss"} /\ act[p].uid = holder
=============================================================================
