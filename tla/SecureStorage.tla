---------------------------- MODULE SecureStorage ----------------------------
(***************************************************************************)
(* The sensitive values of the PurrivacyApp mobile app on the device       *)
(* (src/apps/mobile/src/features/security/services:                        *)
(* biometricSecureStorage.ts, encryptedSqliteValueStore.ts).               *)
(*                                                                         *)
(* A short value lies in the SecureStore; of a long one the SecureStore    *)
(* has a pointer, and the value lies encrypted in SQLite.  A write and a   *)
(* deletion touch both stores, one after the other, and nothing orders the *)
(* calls for one key: the session of a user is read by requests while it   *)
(* is rotated or cleared.  A call may fail between its two steps and the   *)
(* process may die there.  Every value is written once, so that it tells   *)
(* its write.                                                              *)
(***************************************************************************)
EXTENDS Naturals

CONSTANTS
    Caller,     \* calls that may be under way at once, for one key
    LastValue,  \* bound: the writes of a behaviour
    MaxReads    \* bound: the reads of a behaviour

ASSUME StorageAssumption == {LastValue, MaxReads} \subseteq Nat

VARIABLES
    secure,    \* the SecureStore: 0, a value, or Pointer
    sqlite,    \* the SQLite store: 0 or a value
    cipher,    \* encryptionKeyPromise: "unset", "loaded" or "rejected"
    written,   \* the last value that was handed to a write
    reads,
    caller,    \* the local state of every call
    possible,  \* history: what the calls so far may have left, 0 for nothing
    whole      \* history: no two calls overlapped, and no short value stopped half-way

storageVars == <<secure, sqlite, cipher, written, reads, caller, possible, whole>>

Pointer == LastValue + 1
Value == 1..LastValue
\* meets: what a read may return, or what a write or deletion may leave when it is done.
NoCall == [pc |-> "rest", op |-> "none", value |-> 0, long |-> FALSE, meets |-> {}]
Changing(c) == caller[c].op \in {"set", "delete"}

StorageInit ==
    /\ secure = 0 /\ sqlite = 0 /\ cipher = "unset"
    /\ written = 0 /\ reads = 0
    /\ caller = [c \in Caller |-> NoCall]
    /\ possible = {0} /\ whole = TRUE

-----------------------------------------------------------------------------
Under == {c \in Caller : caller[c].pc # "rest"}

\* A call begins: those under way may meet what it writes, and it what they write.
BeginCall(c, call) ==
    /\ caller[c].pc = "rest"
    /\ LET mine == IF call.op = "get" THEN {} ELSE {call.value}
           theirs == {caller[o].value : o \in {o \in Under : Changing(o)}}
       IN  /\ caller' = [o \in Caller |->
                 IF o = c THEN [call EXCEPT !.meets = mine \cup theirs \cup (IF call.op = "get" THEN possible ELSE {})]
                 ELSE IF o \in Under THEN [caller[o] EXCEPT !.meets = @ \cup mine] ELSE caller[o]]
           /\ possible' = possible \cup mine
    /\ whole' = (whole /\ Under = {})
    /\ UNCHANGED <<secure, sqlite, cipher>>

\* setSensitiveValue: SQLite first, with the value or without; a long one needs the key.
BeginSet(c, long) ==
    /\ written < LastValue
    /\ written' = written + 1
    /\ BeginCall(c, [NoCall EXCEPT !.pc = IF long THEN "cipher" ELSE "sqlite",
                               !.op = "set", !.value = written + 1, !.long = long])
    /\ UNCHANGED reads

\* deleteSensitiveValue: the SecureStore first.
BeginDelete(c) ==
    /\ BeginCall(c, [NoCall EXCEPT !.pc = "secure", !.op = "delete"])
    /\ UNCHANGED <<written, reads>>

BeginGet(c) ==
    /\ reads < MaxReads /\ reads' = reads + 1
    /\ BeginCall(c, [NoCall EXCEPT !.pc = "secure", !.op = "get"])
    /\ UNCHANGED written

\* The call is over; a change leaves what it or one it overlapped wrote.
Over(c) ==
    /\ caller' = [caller EXCEPT ![c] = NoCall]
    /\ possible' = IF Changing(c) THEN caller[c].meets ELSE possible
    /\ UNCHANGED <<written, reads, whole>>

GoTo(c, pc) ==
    /\ caller' = [caller EXCEPT ![c].pc = pc]
    /\ UNCHANGED <<written, reads, possible, whole>>

-----------------------------------------------------------------------------
(* The steps of a call, each one access to a store.                        *)

\* getOrCreateStorageEncryptionKey: the promise is kept, also when it was rejected.
LoadKey(c) ==
    /\ caller[c].pc = "cipher"
    /\ cipher \in {"unset", "loaded"} /\ cipher' = "loaded"
    /\ GoTo(c, IF caller[c].op = "set" THEN "sqlite" ELSE "decrypt")
    /\ UNCHANGED <<secure, sqlite>>

\* Mutant: the pointer is written before the value it points to.
PointFirst(c) ==
    /\ caller[c].op = "set"
    /\ \/ /\ caller[c].pc = "sqlite" /\ secure' = (IF caller[c].long THEN Pointer ELSE caller[c].value)
          /\ GoTo(c, "secure") /\ UNCHANGED <<sqlite, cipher>>
       \/ /\ caller[c].pc = "secure" /\ sqlite' = (IF caller[c].long THEN caller[c].value ELSE 0)
          /\ Over(c) /\ UNCHANGED <<secure, cipher>>

SetStep(c) ==
    /\ caller[c].op = "set"
    /\ \/ /\ caller[c].pc = "sqlite" /\ sqlite' = (IF caller[c].long THEN caller[c].value ELSE 0)
          /\ GoTo(c, "secure") /\ UNCHANGED <<secure, cipher>>
       \/ /\ caller[c].pc = "secure" /\ secure' = (IF caller[c].long THEN Pointer ELSE caller[c].value)
          /\ Over(c) /\ UNCHANGED <<sqlite, cipher>>

DeleteStep(c) ==
    /\ caller[c].op = "delete"
    /\ \/ /\ caller[c].pc = "secure" /\ secure' = 0
          /\ GoTo(c, "sqlite") /\ UNCHANGED <<sqlite, cipher>>
       \/ /\ caller[c].pc = "sqlite" /\ sqlite' = 0
          /\ Over(c) /\ UNCHANGED <<secure, cipher>>

\* getSensitiveValue: a value is returned; a pointer is followed, and removed where it
\* leads to nothing.
GetStep(c) ==
    /\ caller[c].op = "get"
    /\ \/ /\ caller[c].pc = "secure" /\ UNCHANGED <<secure, sqlite, cipher>>
          /\ IF secure = Pointer THEN GoTo(c, "sqlite")
             ELSE /\ caller' = [caller EXCEPT ![c].pc = "return", ![c].value = secure]
                  /\ UNCHANGED <<written, reads, possible, whole>>
       \/ /\ caller[c].pc = "sqlite" /\ UNCHANGED <<secure, sqlite, cipher>>
          /\ IF sqlite = 0 THEN GoTo(c, "clean")
             ELSE /\ caller' = [caller EXCEPT ![c].pc = "cipher", ![c].value = sqlite]
                  /\ UNCHANGED <<written, reads, possible, whole>>
       \/ /\ caller[c].pc = "decrypt" /\ GoTo(c, "return") /\ UNCHANGED <<secure, sqlite, cipher>>
       \/ /\ caller[c].pc = "clean" /\ secure' = 0
          /\ GoTo(c, "return") /\ UNCHANGED <<sqlite, cipher>>
       \/ /\ caller[c].pc = "return"
          /\ Over(c) /\ UNCHANGED <<secure, sqlite, cipher>>

\* A short value that took the long one out of SQLite and has not replaced its pointer.
Shrinking(c) == caller[c].op = "set" /\ ~caller[c].long /\ caller[c].pc = "secure"

\* An access fails, and so does the call; what it wrote before stays.  The failed load of
\* the key is remembered until the process ends.
Fails(c) ==
    /\ caller[c].pc \notin {"rest", "return"}
    /\ caller[c].pc = "cipher" => cipher # "loaded"
    /\ cipher' = IF caller[c].pc = "cipher" THEN "rejected" ELSE cipher
    /\ caller' = [caller EXCEPT ![c] = NoCall]
    /\ whole' = (whole /\ ~Shrinking(c))
    /\ UNCHANGED <<secure, sqlite, written, reads, possible>>

\* The process dies.
Crash ==
    /\ caller' = [c \in Caller |-> NoCall]
    /\ cipher' = "unset"
    /\ whole' = (whole /\ \A c \in Caller : ~Shrinking(c))
    /\ UNCHANGED <<secure, sqlite, written, reads, possible>>

StorageNext ==
    \/ \E c \in Caller :
          \/ BeginDelete(c) \/ BeginGet(c) \/ (\E long \in BOOLEAN : BeginSet(c, long))
          \/ LoadKey(c) \/ SetStep(c) \/ DeleteStep(c) \/ GetStep(c) \/ Fails(c)
    \/ Crash

StorageSpec == StorageInit /\ [][StorageNext]_storageVars

-----------------------------------------------------------------------------
StorageTypeOK ==
    /\ secure \in 0..Pointer /\ sqlite \in {0} \cup Value
    /\ cipher \in {"unset", "loaded", "rejected"}
    /\ possible \subseteq {0} \cup Value

\* biometricSecureStorage.ts:101 - whatever overlapped, failed or died between the two
\* stores, a read returns what the last complete call or one it may overlap left there,
\* never a deleted or replaced value; and it finds nothing only where something was
\* deleted, unless calls overlapped or a short value stopped half-way over a long one.
ReadsAreRegular ==
    \A c \in Caller : caller[c].op = "get" /\ caller[c].pc = "return" =>
        caller[c].value \in caller[c].meets \cup (IF whole THEN {} ELSE {0})
=============================================================================
