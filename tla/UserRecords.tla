----------------------------- MODULE UserRecords -----------------------------
(***************************************************************************)
(* The account records of the PurrivacyApp API server                      *)
(* (src/apps/server/src/features/user): the user document in Firestore,    *)
(* the key-record set in the Realtime Database, the push registrations and *)
(* the Firebase identity, and the handlers that create, change and delete  *)
(* them.  Only a single call to a store is atomic: an RTDB transaction is  *)
(* one step, a read followed by a write is two.                            *)
(*                                                                         *)
(* The module follows one account.  A record is its id; what it holds is   *)
(* ciphertext the server never looks into.                                 *)
(***************************************************************************)
EXTENDS Naturals, FiniteSets

CONSTANTS
    Key,        \* ids RTDB's push() may hand out
    Handler,    \* HTTP requests that may be in progress at once
    NoKey,       \* "no such value"
    MaxKeys,    \* env.userMaxKeyRecords
    MaxFaults   \* bound: calls that fail, or processes that die, in one behaviour

ASSUME RecordsAssumption == NoKey \notin Key /\ MaxKeys \in Nat /\ MaxFaults \in Nat

VARIABLES
    identity,  \* the Firebase Auth user exists
    userDoc,   \* users/{uid} (and, with it, its security/mfa document) exists
    hasSet,    \* something is stored at userKeys/{uid}
    items,     \* the ids under userKeys/{uid}/items
    pushed,    \* userPushDevices/{uid} has an entry
    session,   \* a backend session of the user exists
    fresh,     \* the ids not handed out yet
    halted,    \* history: a deletion stopped half-way and none has finished since
    overlap,   \* history: another handler was in progress during a deletion
    faults,
    handler    \* the local variables of every handler

keySet  == <<hasSet, items>>
records == <<identity, userDoc, hasSet, items, pushed, session>>
history == <<halted, overlap>>
recVars == <<records, fresh, history, faults, handler>>

Rest == [pc |-> "rest", key |-> NoKey, landed |-> FALSE, told |-> "none"]

Deleting == {"dRevoke", "dDocuments", "dKeys", "dPush", "dIdentity"}

Doing(h, pc) == handler[h].pc = pc
GoOn(h, pc) == handler' = [handler EXCEPT ![h].pc = pc]
Reply(h, told) == handler' = [handler EXCEPT ![h].pc = "rest", ![h].told = told]

\* ref.set or ref.remove on the whole record set.
Overwrite(exists, ids) == hasSet' = exists /\ items' = ids

RecInit ==
    /\ identity = TRUE
    /\ userDoc = FALSE /\ hasSet = FALSE /\ items = {} /\ pushed = FALSE /\ session = FALSE
    /\ fresh = Key
    /\ halted = FALSE /\ overlap = FALSE /\ faults = 0
    /\ handler = [h \in Handler |-> Rest]

-----------------------------------------------------------------------------
(* Authentication: a login and every authenticated request read the user   *)
(* document, and fail with 404 when it is missing.                         *)

Login ==
    /\ identity /\ userDoc /\ ~session
    /\ session' = TRUE
    /\ UNCHANGED <<identity, userDoc, hasSet, items, pushed, fresh, history, faults, handler>>

\* The token of a vanished account is dropped by the request that presents it.
LoginLost ==
    /\ session /\ ~userDoc
    /\ session' = FALSE
    /\ UNCHANGED <<identity, userDoc, hasSet, items, pushed, fresh, history, faults, handler>>

Begin(h, pc, key) ==
    /\ Doing(h, "rest")
    /\ handler' = [handler EXCEPT ![h] = [Rest EXCEPT !.pc = pc, !.key = key]]
    /\ overlap' = (overlap \/ \E o \in Handler : handler[o].pc \in Deleting)
    /\ UNCHANGED <<records, halted, faults>>

BeginCreate(h) == identity /\ Begin(h, "cRead", NoKey) /\ UNCHANGED fresh
BeginList(h)   == session /\ userDoc /\ Begin(h, "lRead", NoKey) /\ UNCHANGED fresh
BeginPush(h)   == session /\ userDoc /\ Begin(h, "pSave", NoKey) /\ UNCHANGED fresh
BeginAdd(h, k) ==
    /\ session /\ userDoc /\ k \in fresh
    /\ Begin(h, "aCommit", k)
    /\ fresh' = fresh \ {k}
\* A client names the ids it was given, whether their records still exist or not; the
\* id of an addition leaves the server with its record, or with the answer.
Given(k) == k \notin fresh /\ \A o \in Handler : Doing(o, "aCommit") => handler[o].key # k
BeginUpdate(h, k) ==
    session /\ userDoc /\ Given(k) /\ Begin(h, "uRead", k) /\ UNCHANGED fresh
BeginRemove(h, k) ==
    session /\ userDoc /\ Given(k) /\ Begin(h, "rRead", k) /\ UNCHANGED fresh
\* The new password's wrapping of the data key; the passphrase-storage switch.
BeginPassword(h) == session /\ userDoc /\ Begin(h, "wRead", NoKey) /\ UNCHANGED fresh
BeginSwitch(h)   == session /\ userDoc /\ Begin(h, "wUpdate", NoKey) /\ UNCHANGED fresh
BeginDelete(h) ==
    /\ session /\ userDoc /\ Doing(h, "rest")
    /\ handler' = [handler EXCEPT ![h] = [Rest EXCEPT !.pc = "dRevoke"]]
    /\ overlap' = (overlap \/ \E o \in Handler : ~Doing(o, "rest"))
    /\ UNCHANGED <<records, fresh, halted, faults>>

-----------------------------------------------------------------------------
(* POST /user: the document first, then the key records; a failure of the  *)
(* second deletes the first again.                                         *)

CreateRead(h) ==
    /\ Doing(h, "cRead")
    /\ IF userDoc THEN Reply(h, "conflict") ELSE GoOn(h, "cCommit")
    /\ UNCHANGED <<records, fresh, history, faults>>

UserCommit(h) ==
    /\ Doing(h, "cCommit")
    /\ userDoc' = TRUE
    /\ IF userDoc THEN Reply(h, "conflict") ELSE GoOn(h, "cKeys")
    /\ UNCHANGED <<identity, hasSet, items, pushed, session, fresh, history, faults>>

CreateKeys(h, new) ==
    /\ Doing(h, "cKeys")
    /\ new \subseteq fresh /\ Cardinality(new) <= MaxKeys
    /\ Overwrite(TRUE, new)
    /\ fresh' = fresh \ new
    /\ Reply(h, "created")
    /\ UNCHANGED <<identity, userDoc, pushed, session, halted, overlap, faults>>

CreateKeysFail(h) ==
    /\ Doing(h, "cKeys") /\ faults < MaxFaults
    /\ faults' = faults + 1
    /\ GoOn(h, "cRollback")
    /\ UNCHANGED <<records, fresh, history>>

CreateRollback(h) ==
    /\ Doing(h, "cRollback")
    /\ userDoc' = FALSE
    /\ Reply(h, "failed")
    /\ UNCHANGED <<identity, hasSet, items, pushed, session, fresh, history, faults>>

-----------------------------------------------------------------------------
(* The key records.                                                        *)

\* A reader that finds no set stores an empty one; the set, not a transaction.
ListRead(h) ==
    /\ Doing(h, "lRead")
    /\ IF hasSet THEN Reply(h, "listed") ELSE GoOn(h, "lStub")
    /\ UNCHANGED <<records, fresh, history, faults>>

ListStub(h) ==
    /\ Doing(h, "lStub")
    /\ Overwrite(TRUE, {})
    /\ Reply(h, "listed")
    /\ UNCHANGED <<identity, userDoc, pushed, session, fresh, history, faults>>

AddCommit(h) ==
    LET k == handler[h].key IN
    /\ Doing(h, "aCommit")
    /\ \/ /\ hasSet => Cardinality(items) < MaxKeys
          /\ hasSet' = TRUE /\ items' = items \cup {k}
          /\ Reply(h, "added")
       \/ /\ hasSet /\ Cardinality(items) >= MaxKeys
          /\ Reply(h, "quota") /\ UNCHANGED keySet
    /\ UNCHANGED <<identity, userDoc, pushed, session, fresh, history, faults>>

\* The existence check in front of an update and of a removal.
Precheck(h) ==
    /\ handler[h].pc \in {"uRead", "rRead"}
    /\ IF hasSet THEN GoOn(h, IF Doing(h, "uRead") THEN "uCommit" ELSE "rCommit")
       ELSE Reply(h, "missing")
    /\ UNCHANGED <<records, fresh, history, faults>>

\* The transaction of an update: a set that vanished since the check becomes an
\* empty one, which is committed like a write that landed.
\* Mutant: without the read that follows.
UpdateTrusted(h) ==
    /\ Doing(h, "uCommit")
    /\ handler' = [handler EXCEPT ![h].pc = "rest", ![h].landed = hasSet,
          ![h].told = IF hasSet /\ handler[h].key \notin items THEN "missing" ELSE "updated"]
    /\ hasSet' = TRUE
    /\ UNCHANGED <<identity, userDoc, items, pushed, session, fresh, history, faults>>

UpdateCommit(h) ==
    /\ Doing(h, "uCommit")
    /\ IF hasSet /\ handler[h].key \notin items THEN Reply(h, "missing")
       ELSE handler' = [handler EXCEPT ![h].pc = "uVerify", ![h].landed = hasSet]
    /\ hasSet' = TRUE
    /\ UNCHANGED <<identity, userDoc, items, pushed, session, fresh, history, faults>>

\* The read that follows it.
UpdateVerify(h) ==
    /\ Doing(h, "uVerify")
    /\ Reply(h, IF handler[h].key \in items THEN "updated" ELSE "missing")
    /\ UNCHANGED <<records, fresh, history, faults>>

RemoveCommit(h) ==
    LET k == handler[h].key IN
    /\ Doing(h, "rCommit")
    /\ hasSet' = TRUE
    /\ \/ /\ hasSet => k \in items
          /\ items' = items \ {k} /\ Reply(h, "removed")
       \/ hasSet /\ k \notin items /\ Reply(h, "missing") /\ UNCHANGED items
    /\ UNCHANGED <<identity, userDoc, pushed, session, fresh, history, faults>>

PushSave(h) ==
    /\ Doing(h, "pSave")
    /\ pushed' = TRUE
    /\ Reply(h, "saved")
    /\ UNCHANGED <<identity, userDoc, hasSet, items, session, fresh, history, faults>>

\* A write to the user document: update() fails where there is none.
PasswordRead(h) ==
    /\ Doing(h, "wRead")
    /\ IF userDoc THEN GoOn(h, "wUpdate") ELSE Reply(h, "missing")
    /\ UNCHANGED <<records, fresh, history, faults>>

DocumentUpdate(h) ==
    /\ Doing(h, "wUpdate")
    /\ Reply(h, IF userDoc THEN "changed" ELSE "failed")
    /\ UNCHANGED <<records, fresh, history, faults>>

-----------------------------------------------------------------------------
(* DELETE /user: five steps, the identity last.                            *)

DeleteSessions(h) ==
    /\ Doing(h, "dRevoke")
    /\ session' = FALSE
    /\ GoOn(h, "dDocuments")
    /\ UNCHANGED <<identity, userDoc, hasSet, items, pushed, fresh, history, faults>>

\* Mutant: the step after this one is forgotten.
DocumentsThenPush(h) ==
    /\ Doing(h, "dDocuments")
    /\ userDoc' = FALSE
    /\ GoOn(h, "dPush")
    /\ UNCHANGED <<identity, hasSet, items, pushed, session, fresh, history, faults>>

DeleteDocuments(h) ==
    /\ Doing(h, "dDocuments")
    /\ userDoc' = FALSE
    /\ GoOn(h, "dKeys")
    /\ UNCHANGED <<identity, hasSet, items, pushed, session, fresh, history, faults>>

DeleteKeys(h) ==
    /\ Doing(h, "dKeys")
    /\ Overwrite(FALSE, {})
    /\ GoOn(h, "dPush")
    /\ UNCHANGED <<identity, userDoc, pushed, session, fresh, history, faults>>

DeletePush(h) ==
    /\ Doing(h, "dPush")
    /\ pushed' = FALSE
    /\ GoOn(h, "dIdentity")
    /\ UNCHANGED <<identity, userDoc, hasSet, items, session, fresh, history, faults>>

\* An identity that is already gone counts as success.
DeleteIdentity(h) ==
    /\ Doing(h, "dIdentity")
    /\ identity' = FALSE /\ halted' = FALSE
    /\ Reply(h, "deleted")
    /\ UNCHANGED <<userDoc, hasSet, items, pushed, session, fresh, overlap, faults>>

\* Any call may throw, and the process may die before it: the handler ends, and
\* what it has done so far stays.  A deletion reports its remaining steps.
Throws(h) ==
    /\ ~Doing(h, "rest") /\ faults < MaxFaults
    /\ faults' = faults + 1
    /\ halted' = (halted \/ handler[h].pc \in Deleting)
    /\ Reply(h, "failed")
    /\ UNCHANGED <<records, fresh, overlap>>

Step(h) ==
    \/ CreateRead(h) \/ UserCommit(h) \/ CreateRollback(h)
    \/ \E new \in SUBSET fresh : CreateKeys(h, new)
    \/ ListRead(h) \/ ListStub(h) \/ AddCommit(h)
    \/ Precheck(h) \/ UpdateCommit(h) \/ UpdateVerify(h) \/ RemoveCommit(h)
    \/ PushSave(h) \/ PasswordRead(h) \/ DocumentUpdate(h)
    \/ DeleteSessions(h) \/ DeleteDocuments(h) \/ DeleteKeys(h)
    \/ DeletePush(h) \/ DeleteIdentity(h)

Arrive(h) ==
    \/ BeginCreate(h) \/ BeginList(h) \/ BeginPush(h) \/ BeginDelete(h)
    \/ BeginPassword(h) \/ BeginSwitch(h)
    \/ \E k \in Key : BeginAdd(h, k) \/ BeginUpdate(h, k) \/ BeginRemove(h, k)

RecNext ==
    \/ Login \/ LoginLost
    \/ \E h \in Handler : Step(h) \/ Arrive(h) \/ CreateKeysFail(h) \/ Throws(h)

\* The server finishes what it started; the user logs in and asks again for the
\* deletion as long as that is possible at all.
RecFairness ==
    /\ SF_recVars(Login)
    /\ \A h \in Handler : WF_recVars(Step(h)) /\ SF_recVars(BeginDelete(h))

RecSpec == RecInit /\ [][RecNext]_recVars
RecFairSpec == RecSpec /\ RecFairness

-----------------------------------------------------------------------------
RecTypeOK ==
    /\ {identity, userDoc, hasSet, pushed, session, halted, overlap} \subseteq BOOLEAN
    /\ items \subseteq Key /\ (items # {} => hasSet)
    /\ fresh \subseteq Key
    /\ faults \in 0..MaxFaults

\* UserKeyRepository.ts:208 - an update never reports success for a write that
\* did not land, even when the whole set was deleted and replaced by the
\* transaction's empty placeholder between its check and its commit.
ReportedUpdatesLanded ==
    \A h \in Handler : handler[h].told = "updated" => handler[h].landed

\* userWrites.ts:85 - when the identity is gone every other record is gone too,
\* whatever failed and was repeated before, as long as no other handler of the
\* account ran beside the deletion.
FinishedDeletionIsComplete ==
    ~identity /\ ~overlap => ~userDoc /\ ~hasSet /\ ~pushed

\* userWrites.ts:89 - a deletion that failed half-way is completed by asking again.
RetriedDeletionFinishes == halted ~> ~halted
=============================================================================
