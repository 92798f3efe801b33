------------------------------ MODULE KeyVault ------------------------------
(***************************************************************************)
(* The key vault of the PurrivacyApp mobile app                            *)
(* (src/apps/mobile/src/features/keys): every mutation reads the whole     *)
(* vault from the server, lets the PGP engine work and writes single       *)
(* records back, one call after the other.  Any call may fail and end the  *)
(* mutation where it is; a mutation of another screen or device may run at *)
(* the same time.                                                          *)
(*                                                                         *)
(* A key is its fingerprint.  Of a record the module keeps what the        *)
(* mutations decide by: the two armored halves, whether they carry the     *)
(* revocation signature, the default flag and the stored passphrase.       *)
(***************************************************************************)
EXTENDS Naturals, Sequences, FiniteSets

CONSTANTS
    Fingerprint,  \* the keys the user works with
    Mutation,     \* mutations that may be under way at once
    NoFingerprint, \* model value
    MaxRecords    \* bound: records created in one behaviour

ASSUME VaultAssumption == MaxRecords \in Nat /\ NoFingerprint \notin Fingerprint

VARIABLES
    vault,      \* the records on the server: by record id, in the order of creation
    listed,     \* the halves of each key as the screen last loaded them
    consented,  \* isPassphraseStorageEnabled
    mutation,   \* the local variables of every mutation
    owned,      \* history: keys whose private half was stored, and neither deleted
                \* nor overwritten by the import of a public key the screen did not know
    mingled     \* history: two mutations were under way at once

vaultVars == <<vault, listed, consented, mutation, owned, mingled>>

Record == 1..MaxRecords
Half == {"none", "sound", "revoked"}
NoKey == [fp |-> NoFingerprint, private |-> "none", public |-> "none", isDefault |-> FALSE, passphrase |-> FALSE]
Unlisted == [private |-> "none", public |-> "none"]
AtRest == [pc |-> "rest", kind |-> "none", fp |-> NoFingerprint, key |-> NoKey, asDefault |-> FALSE,
           asked |-> FALSE, writes |-> <<>>]

VaultInit ==
    /\ vault = <<>>
    /\ listed = [k \in Fingerprint |-> Unlisted]
    /\ consented = FALSE
    /\ mutation = [m \in Mutation |-> AtRest]
    /\ owned = {} /\ mingled = FALSE

-----------------------------------------------------------------------------
(* What the mutations compute from the vault they read.                    *)

Present == {r \in DOMAIN vault : vault[r] # NoKey}

\* findKeyByFingerprint: the first record of that key, or 0.
RecordOf(fp) ==
    LET rs == {r \in Present : vault[r].fp = fp}
    IN  IF rs = {} THEN 0 ELSE CHOOSE r \in rs : \A q \in rs : r <= q

InOrder(rs) == [i \in 1..Cardinality(rs) |-> CHOOSE r \in rs : Cardinality({q \in rs : q < r}) = i - 1]
Put(r, key) == [op |-> "put", at |-> r, key |-> key]

\* clearDefaultKeyRecords: one update per default.
ClearDefaults(except) ==
    LET rs == InOrder({r \in Present \ {except} : vault[r].isDefault})
    IN  [i \in DOMAIN rs |-> Put(rs[i], [vault[rs[i]] EXCEPT !.isDefault = FALSE])]

\* upsertKeyPair: a record of the same key is overwritten, not merged; its default flag
\* and its passphrase are kept.
\* Mutant: the new default is saved before the old ones are cleared.
UpsertFirst(key, asDefault) ==
    LET r == RecordOf(key.fp)
        pair == key.private # "none"
        saved == [key EXCEPT
            !.isDefault  = (r # 0 /\ vault[r].isDefault) \/ (pair /\ asDefault),
            !.passphrase = pair /\ (@ \/ (r # 0 /\ vault[r].passphrase))]
        save == IF r # 0 THEN Put(r, saved) ELSE [op |-> "add", at |-> 0, key |-> saved]
    IN  <<save>> \o (IF pair /\ asDefault THEN ClearDefaults(r) ELSE <<>>)

Upsert(key, asDefault) ==
    LET r == RecordOf(key.fp)
        pair == key.private # "none"
        saved == [key EXCEPT
            !.isDefault  = (r # 0 /\ vault[r].isDefault) \/ (pair /\ asDefault),
            !.passphrase = pair /\ (@ \/ (r # 0 /\ vault[r].passphrase))]
        save == IF r # 0 THEN Put(r, saved) ELSE [op |-> "add", at |-> 0, key |-> saved]
    IN  (IF pair /\ asDefault THEN ClearDefaults(r) ELSE <<>>) \o <<save>>

\* deleteKey: the next complete pair becomes the default after the deletion.
DeleteKey(fp) ==
    LET r == RecordOf(fp)
        heirs == {q \in Present \ {r} : vault[r].isDefault /\ vault[q].private # "none"}
        heir == CHOOSE q \in heirs : \A p \in heirs : q <= p
    IN  IF r = 0 THEN <<>>
        ELSE <<[op |-> "delete", at |-> r, key |-> vault[r]]>>
             \o (IF heirs = {} THEN <<>> ELSE <<Put(heir, [vault[heir] EXCEPT !.isDefault = TRUE])>>)

SetDefault(fp) ==
    LET r == RecordOf(fp)
    IN  IF r = 0 \/ vault[r].private = "none" THEN <<>>
        ELSE ClearDefaults(r)
             \o (IF vault[r].isDefault THEN <<>> ELSE <<Put(r, [vault[r] EXCEPT !.isDefault = TRUE])>>)

\* changePassphrase, changeExpiration and revokeKey replace the armored pair; what
\* becomes of the passphrase is settled later (shouldSyncPassphrase).
Revise(fp, half) ==
    LET rs == {r \in Present : vault[r].fp = fp /\ vault[r].private # "none"}
        r == CHOOSE q \in rs : \A p \in rs : q <= p
    IN  IF rs = {} \/ (half = "revoked" /\ vault[r].private = "revoked") THEN <<>>
        ELSE <<Put(r, IF half = "revoked"
                      THEN [vault[r] EXCEPT !.private = half, !.public = half] ELSE vault[r])>>

\* setKeyVerified writes the record back as it was read, but for a flag.
Rewrite(fp) == IF RecordOf(fp) = 0 THEN <<>> ELSE <<Put(RecordOf(fp), vault[RecordOf(fp)])>>

\* forgetStoredPassphrases: record after record, then the switch.
ForgetKeys ==
    LET rs == InOrder({r \in Present : vault[r].private # "none" /\ vault[r].passphrase})
    IN  [i \in DOMAIN rs |-> Put(rs[i], [vault[rs[i]] EXCEPT !.passphrase = FALSE])]
        \o <<[op |-> "withdraw", at |-> 0, key |-> NoKey]>>

Plan(m) ==
    LET t == mutation[m] IN
    CASE t.kind \in {"create", "import"} -> Upsert(t.key, t.asDefault)
      [] t.kind = "delete"     -> DeleteKey(t.fp)
      [] t.kind = "setDefault" -> SetDefault(t.fp)
      [] t.kind = "revise"     -> Revise(t.fp, "sound")
      [] t.kind = "revoke"     -> Revise(t.fp, "revoked")
      [] t.kind = "verify"     -> Rewrite(t.fp)
      [] t.kind = "forget"     -> ForgetKeys

-----------------------------------------------------------------------------
Begin(m, local) ==
    /\ mutation[m].pc = "rest"
    /\ mutation' = [mutation EXCEPT ![m] = local]
    /\ mingled' = (mingled \/ \E o \in Mutation : mutation[o].pc # "rest")
    /\ UNCHANGED <<vault, listed, consented, owned>>

\* onCreateKey: a key nobody has yet, with the passphrase it was made with.
BeginCreate(m, fp, asDefault, passphrase) ==
    /\ \A r \in Present : vault[r].fp # fp
    /\ \A o \in Mutation : mutation[o].fp # fp
    /\ Begin(m, [AtRest EXCEPT !.pc = "read", !.kind = "create", !.fp = fp, !.asDefault = asDefault,
          !.key = [NoKey EXCEPT !.fp = fp, !.private = "sound", !.public = "sound",
                                !.passphrase = passphrase]])

\* onImportKey: the half that is not imported is taken from the list on the screen; an
\* armored key the user kept may be older than its revocation.
BeginImportPrivate(m, fp, asDefault, passphrase) ==
    Begin(m, [AtRest EXCEPT !.pc = "read", !.kind = "import", !.fp = fp, !.asDefault = asDefault,
        !.key = [NoKey EXCEPT !.fp = fp, !.private = "sound", !.passphrase = passphrase,
            !.public = IF listed[fp].public = "none" THEN "sound" ELSE listed[fp].public]])
BeginImportPublic(m, fp, asDefault) ==
    Begin(m, [AtRest EXCEPT !.pc = "read", !.kind = "import", !.fp = fp, !.asDefault = asDefault,
        !.key = [NoKey EXCEPT !.fp = fp, !.private = listed[fp].private, !.public = "sound"]])

\* The other commands of the list of keys and of the settings.
BeginCommand(m, kind, fp) ==
    /\ kind = "forget" \/ listed[fp] # Unlisted
    /\ kind \in {"revise", "revoke", "setDefault"} => listed[fp].private # "none"
    /\ Begin(m, [AtRest EXCEPT !.pc = "read", !.kind = kind, !.fp = fp,
                               !.asked = kind \in {"revise", "revoke"}])

\* getUserDecrypted, and what follows from it; without a plan the mutation ends.
ReadVault(m) ==
    LET plan == Plan(m) IN
    /\ mutation[m].pc = "read"
    /\ mutation' = [mutation EXCEPT ![m] =
          IF plan = <<>> THEN AtRest
          ELSE [@ EXCEPT !.pc = IF mutation[m].asked THEN "engine" ELSE "write", !.writes = plan]]
    /\ UNCHANGED <<vault, listed, consented, owned, mingled>>

\* The PGP engine has revised the pair; isPassphraseStorageEnabled says what becomes of
\* the passphrase.
EngineAnswers(m) ==
    /\ mutation[m].pc = "engine"
    /\ mutation' = [mutation EXCEPT ![m].pc = "write",
          ![m].writes = <<[@[1] EXCEPT !.key.passphrase = consented]>>]
    /\ UNCHANGED <<vault, listed, consented, owned, mingled>>

\* One call to the server (or to the settings); an update of a record that is gone fails.
WriteRecord(m) ==
    LET t == mutation[m]
        w == Head(t.writes)
        blind == t.kind = "import" /\ w.op = "put" /\ w.key.private = "none"
    IN
    /\ t.pc = "write"
    /\ w.op = "add" => Len(vault) < MaxRecords
    /\ \/ /\ w.op \in {"put", "delete"} /\ vault[w.at] = NoKey
          /\ mutation' = [mutation EXCEPT ![m] = AtRest]
          /\ UNCHANGED <<vault, owned, consented>>
       \/ /\ w.op \in {"put", "delete"} => vault[w.at] # NoKey
          /\ vault' = CASE w.op = "put" -> [vault EXCEPT ![w.at] = w.key]
                        [] w.op = "delete" -> [vault EXCEPT ![w.at] = NoKey]
                        [] w.op = "add" -> Append(vault, w.key)
                        [] w.op = "withdraw" -> vault
          /\ owned' = CASE w.op = "delete" \/ blind -> owned \ {w.key.fp}
                        [] w.op \in {"put", "add"} /\ w.key.private # "none" -> owned \cup {w.key.fp}
                        [] OTHER -> owned
          /\ consented' = (consented /\ w.op # "withdraw")
          /\ mutation' = [mutation EXCEPT ![m] =
                IF Len(t.writes) = 1 THEN AtRest ELSE [t EXCEPT !.writes = Tail(@)]]
    /\ UNCHANGED <<listed, mingled>>

\* A call fails, or its answer is lost: the mutation reports it and ends.
MutationFails(m) ==
    /\ mutation[m].pc # "rest"
    /\ mutation' = [mutation EXCEPT ![m] = AtRest]
    /\ UNCHANGED <<vault, listed, consented, owned, mingled>>

\* The event 'user' has the list loaded anew; a load that fails leaves none.
ReloadKeys ==
    /\ \/ listed' = [k \in Fingerprint |->
              IF RecordOf(k) = 0 THEN Unlisted
              ELSE [private |-> vault[RecordOf(k)].private, public |-> vault[RecordOf(k)].public]]
       \/ listed' = [k \in Fingerprint |-> Unlisted]
    /\ UNCHANGED <<vault, consented, mutation, owned, mingled>>

Consent ==
    /\ ~consented
    /\ consented' = TRUE
    /\ UNCHANGED <<vault, listed, mutation, owned, mingled>>

VaultNext ==
    \/ ReloadKeys \/ Consent
    \/ \E m \in Mutation :
          \/ ReadVault(m) \/ EngineAnswers(m) \/ WriteRecord(m) \/ MutationFails(m)
          \/ \E fp \in Fingerprint, asDefault \in BOOLEAN :
                \/ BeginImportPublic(m, fp, asDefault)
                \/ \E given \in BOOLEAN : \/ BeginCreate(m, fp, asDefault, given)
                                          \/ BeginImportPrivate(m, fp, asDefault, given)
          \/ \E fp \in Fingerprint, kind \in {"delete", "setDefault", "revise", "revoke", "verify", "forget"} :
                BeginCommand(m, kind, fp)

VaultSpec == VaultInit /\ [][VaultNext]_vaultVars

-----------------------------------------------------------------------------
VaultTypeOK ==
    /\ Len(vault) <= MaxRecords
    /\ \A r \in Present : vault[r].fp \in Fingerprint /\ vault[r].public # "none"
    /\ listed \in [Fingerprint -> [private : Half, public : Half]]
    /\ owned \subseteq Fingerprint

Defaults == {r \in Present : vault[r].isDefault}

\* keyMutationService.ts - mutations that run one after the other, any of which may stop
\* half-way, never leave two default keys (the list would hide one of them), and lose a
\* private key only by deleting it or by importing a public key the screen did not know.
QuietVaultIsSound ==
    ~mingled =>
        /\ Cardinality(Defaults) <= 1
        /\ \A k \in owned : \E r \in Present : vault[r].fp = k /\ vault[r].private # "none"

\* docs/roadmap-ideas.md:49 - "passphrase sync is consent-gated".
PassphrasesAreConsented ==
    \A m \in Mutation : mutation[m].pc = "write" /\ Head(mutation[m].writes).op \in {"put", "add"} =>
        (Head(mutation[m].writes).key.passphrase => consented
            \/ \E r \in Present : vault[r].passphrase /\ vault[r].fp = mutation[m].fp)

\* KeyManagementForm.tsx:122 - revoking "cannot be undone".
RevokedKeysStayRevoked ==
    [][\A r \in DOMAIN vault : vault[r].private = "revoked" => vault'[r].private # "sound"]_vaultVars
=============================================================================
