------------------------ MODULE ServerRecordsProofs -------------------------
(***************************************************************************)
(* Theorems about the records the API server keeps of an account, for any  *)
(* requests and any interleaving of their database calls: the recovery     *)
(* codes (MfaCodes), the key records and the deletion of the account       *)
(* (UserRecords), the push-token registry (PushTokens) and the pages of    *)
(* the list of keys (KeyPages).                                            *)
(***************************************************************************)
EXTENDS UserRecords, PushTokens, MfaCodes, KeyPages, FiniteSetTheorems, WellFoundedInduction,
        TLAPS

-----------------------------------------------------------------------------
(* Recovery codes: a code that was accepted does not come back unless a    *)
(* setup enables MFA twice, and the secret and the codes belong together.  *)

Op == Sensitive \cup {"mint", "setup", "enable", "none"}
Pc == Op \cup {"idle", "verify", "consume", "totp", "store", "nonce", "write", "drop", "commit", "reread"}
AskState == [pc : Pc, op : Op, login : SessionFamily \cup {Absent},
             proof : (Nat \X Nat) \cup {Absent}, read : Nat \cup {Absent}]

CodesType ==
    /\ ask \in [Ask -> AskState]
    /\ batch \in Nat
    /\ \A c \in codes \cup spent : c \in Nat \X Nat /\ c[1] <= batch
    /\ IsFiniteSet(codes)

\* The setup s enabled MFA already, or none of its codes was ever in a document.
Intact(s) ==
    /\ s \in Nat /\ s <= batch
    /\ s \in enabled \/ \A c \in codes \cup spent : c[1] # s

\* The setups that may still enable MFA: the one of the document, and those that a
\* request has read and not committed.
SetupsIntact ==
    /\ setupDoc # Absent => Intact(setupDoc.batch)
    /\ \A a \in Ask : ask[a].pc = "commit" => Intact(ask[a].read)

\* The inductive invariant.
CodesInv == CodesType /\ SetupsIntact /\ SpentCodesStayGone /\ EnrolmentIsWhole

-----------------------------------------------------------------------------
(* The codes of a batch.                                                   *)

LEMMA BatchFacts ==
    ASSUME NEW b \in Nat
    PROVE  /\ IsFiniteSet(Batch(b)) /\ Cardinality(Batch(b)) = CodeCount
           /\ \A c \in Batch(b) : c \in Nat \X Nat /\ c[1] = b
           /\ \E c \in Batch(b) : TRUE
  <1>1. CodeCount \in Nat /\ CodeCount > 0
    BY CodesAssumption
  <1>2. IsFiniteSet(1..CodeCount) /\ Cardinality(1..CodeCount) = CodeCount
    BY <1>1, FS_Interval
  <1>3. IsFiniteSet({b}) /\ Cardinality({b}) = 1
    BY FS_Singleton
  <1>4. /\ IsFiniteSet({b} \X (1..CodeCount))
        /\ Cardinality({b} \X (1..CodeCount)) = Cardinality({b}) * Cardinality(1..CodeCount)
    BY <1>2, <1>3, FS_Product
  <1>5. <<b, 1>> \in Batch(b)
    BY <1>1 DEF Batch
  <1>6. \A c \in Batch(b) : c \in Nat \X Nat /\ c[1] = b
    BY <1>1 DEF Batch
  <1> QED BY <1>1, <1>2, <1>3, <1>4, <1>5, <1>6 DEF Batch

-----------------------------------------------------------------------------
(* The requests.                                                           *)

\* No request is on its way to commit that was not before.
Quiet ==
    /\ ask' \in [Ask -> AskState]
    /\ \A b \in Ask : ask'[b].pc = "commit" => ask[b].pc = "commit" /\ ask'[b].read = ask[b].read

LEMMA OneAsk ==
    ASSUME ask \in [Ask -> AskState], NEW a \in Ask, NEW t \in AskState, t.pc # "commit",
           ask' = [ask EXCEPT ![a] = t]
    PROVE  Quiet
  BY DEF Quiet

LEMMA NoAskType == NoAsk \in AskState /\ NoAsk.pc = "idle"
  BY DEF NoAsk, AskState, Pc, Op

LEMMA FinishQuiet ==
    ASSUME ask \in [Ask -> AskState], NEW a \in Ask, Finish(a)
    PROVE  Quiet
  <1>1. PICK t \in AskState : t = NoAsk /\ t.pc # "commit"
    BY NoAskType
  <1> QED BY <1>1, OneAsk DEF Finish

LEMMA ContinueQuiet ==
    ASSUME ask \in [Ask -> AskState], NEW a \in Ask, NEW pc \in Pc \ {"commit"}, Continue(a, pc)
    PROVE  Quiet
  <1>1. PICK u \in AskState : u = ask[a]
    OBVIOUS
  <1>2. PICK t \in AskState : t = [u EXCEPT !.pc = pc] /\ t.pc # "commit"
    <2> DEFINE y == [u EXCEPT !.pc = pc]
    <2>1. y \in AskState /\ y.pc # "commit"
      BY DEF AskState
    <2> QED BY <2>1, Zenon
  <1>3. ask' = [ask EXCEPT ![a] = t]
    BY <1>1, <1>2 DEF Continue
  <1> QED BY <1>3, <1>2, OneAsk

LEMMA NextPc == \A op \in Op : Verified(op) \in Pc \ {"commit"}
  BY DEF Verified, Op, Pc, Sensitive

LEMMA AcceptQuiet ==
    ASSUME ask \in [Ask -> AskState], NEW a \in Ask, Accept(a)
    PROVE  Quiet
  <1>1. PICK pc \in Pc \ {"commit"}, l \in SessionFamily \cup {Absent} :
            pc = Verified(ask[a].op) /\ l = ask[a].login
    BY NextPc DEF AskState
  <1>2. PICK t \in AskState : t = [NoAsk EXCEPT !.pc = pc, !.login = l] /\ t.pc # "commit"
    <2> DEFINE y == [NoAsk EXCEPT !.pc = pc, !.login = l]
    <2>1. y \in AskState /\ y.pc # "commit"
      BY NoAskType DEF AskState
    <2> QED BY <2>1, Zenon
  <1>3. ask' = [ask EXCEPT ![a] = t]
    BY <1>1, <1>2 DEF Accept
  <1> QED BY <1>3, <1>2, OneAsk

LEMMA PresentQuiet ==
    ASSUME ask \in [Ask -> AskState], NEW a \in Ask, NEW op \in Sensitive \cup {"mint", "setup", "enable"},
           NEW l \in SessionFamily, NEW proof \in Proofs(op), Present(a, op, l, proof)
    PROVE  Quiet
  <1>1. op \in Op /\ op \in Pc \ {"commit"} /\ "verify" \in Pc
    BY DEF Op, Pc, Sensitive
  <1>2. proof \in (Nat \X Nat) \cup {Absent}
    BY CodesAssumption DEF Proofs, Totp
  <1>3. CASE op \in Sensitive /\ ~mfaOn
    <2>1. PICK pc \in Pc \ {"commit"} : pc = Verified(op)
      BY <1>1, NextPc
    <2>2. PICK t \in AskState : t = [NoAsk EXCEPT !.pc = pc] /\ t.pc # "commit"
      <3> DEFINE y == [NoAsk EXCEPT !.pc = pc]
      <3>1. y \in AskState /\ y.pc # "commit"
        BY NoAskType DEF AskState
      <3> QED BY <3>1, Zenon
    <2>3. ask' = [ask EXCEPT ![a] = t]
      BY <1>3, <2>1, <2>2 DEF Present
    <2> QED BY <2>2, <2>3, OneAsk
  <1>4. CASE ~(op \in Sensitive /\ ~mfaOn)
    <2>1. PICK pc \in Pc \ {"commit"} : pc = IF op \in Sensitive THEN "verify" ELSE op
      BY <1>1
    <2>2. PICK t \in AskState : /\ t = [pc |-> pc, op |-> op, login |-> l, proof |-> proof, read |-> Absent]
                                /\ t.pc # "commit"
      <3> DEFINE y == [pc |-> pc, op |-> op, login |-> l, proof |-> proof, read |-> Absent]
      <3>1. y \in AskState /\ y.pc # "commit"
        BY <1>1, <1>2 DEF AskState
      <3> QED BY <3>1, Zenon
    <2>3. ask' = [ask EXCEPT ![a] = t]
      BY <1>4, <2>1, <2>2 DEF Present
    <2> QED BY <2>2, <2>3, OneAsk
  <1> QED BY <1>3, <1>4

-----------------------------------------------------------------------------
(* The documents.                                                          *)

LEMMA CodesInitInv == CodesInit => CodesInv
  <1> SUFFICES ASSUME CodesInit PROVE CodesInv
    OBVIOUS
  <1>1. CodesType
    BY NoAskType, FS_EmptySet DEF CodesInit, CodesType
  <1>2. SetupsIntact
    BY NoAskType DEF CodesInit, SetupsIntact
  <1> QED BY <1>1, <1>2 DEF CodesInit, CodesInv, SpentCodesStayGone, EnrolmentIsWhole

\* A step that leaves the security document and its history alone.
LEMMA SecurityKept ==
    ASSUME CodesInv, Quiet, setupDoc' # Absent => setupDoc' = setupDoc,
           UNCHANGED <<security, batch, past>>
    PROVE  CodesInv'
  <1>1. UNCHANGED <<mfaOn, secret, codes, batch, spent, enabled, again>>
    BY DEF security, past
  <1>2. CodesType'
    BY <1>1 DEF CodesInv, CodesType, Quiet
  <1>3. \A s : Intact(s) => Intact(s)'
    BY <1>1 DEF Intact
  <1>4. SetupsIntact'
    BY <1>3 DEF CodesInv, SetupsIntact, Quiet
  <1>5. SpentCodesStayGone' /\ EnrolmentIsWhole'
    BY <1>1 DEF CodesInv, SpentCodesStayGone, EnrolmentIsWhole
  <1> QED BY <1>2, <1>4, <1>5 DEF CodesInv

\* Only codes of a batch that was just generated are new in the document or the history:
\* no setup loses its standing.
LEMMA SetupsKept ==
    ASSUME CodesInv, Quiet, UNCHANGED setupDoc, batch' \in Nat, batch <= batch',
           enabled \subseteq enabled',
           \A c \in codes' \cup spent' : c \in codes \cup spent \/ c[1] = batch + 1
    PROVE  SetupsIntact'
  <1>1. ASSUME NEW s, Intact(s) PROVE Intact(s)'
    <2>1. s \in Nat /\ s <= batch /\ batch \in Nat
      BY <1>1 DEF Intact, CodesInv, CodesType
    <2>2. s # batch + 1 /\ s <= batch'
      BY <2>1
    <2> QED BY <1>1, <2>1, <2>2 DEF Intact
  <1> QED BY <1>1 DEF CodesInv, SetupsIntact, Quiet

LEMMA ConsumeOK ==
    ASSUME CodesInv, NEW a \in Ask, ConsumeCode(a)
    PROVE  CodesInv'
  <1> DEFINE code == ask[a].proof
  <1>0. ask \in [Ask -> AskState] /\ batch \in Nat /\ batch + 1 \in Nat
    BY DEF CodesInv, CodesType
  <1>1. CASE code \notin codes
    BY <1>0, <1>1, FinishQuiet, SecurityKept DEF ConsumeCode, security, past
  <1>2. CASE code \in codes
    <2>1. /\ codes' = Left(code) /\ spent' = spent \cup {code} /\ Accept(a)
          /\ batch' = IF codes' = codes \ {code} THEN batch ELSE batch + 1
          /\ UNCHANGED <<mfaOn, secret, setupDoc, enabled>>
      BY <1>2 DEF ConsumeCode
    <2>2. again' = again
      BY Zenon DEF ConsumeCode
    <2>3. Quiet
      BY <1>0, <2>1, AcceptQuiet
    <2>4. /\ \/ codes' = codes \ {code} /\ batch' = batch
             \/ codes' = Batch(batch + 1) /\ batch' = batch + 1
          /\ IsFiniteSet(codes') /\ Cardinality(codes') > Threshold
      <3>1. CASE Cardinality(codes \ {code}) <= Threshold
        <4>1. codes' = Batch(batch + 1)
          BY <2>1, <3>1 DEF Left
        <4>2. \A c \in codes \ {code} : c[1] <= batch
          BY DEF CodesInv, CodesType
        <4>3. PICK c \in Batch(batch + 1) : c[1] = batch + 1
          BY <1>0, BatchFacts
        <4>4. codes' # codes \ {code}
          BY <1>0, <4>1, <4>2, <4>3
        <4>5. IsFiniteSet(codes') /\ Cardinality(codes') = CodeCount
          BY <1>0, <4>1, BatchFacts
        <4>6. CodeCount > Threshold
          BY CodesAssumption
        <4> QED BY <2>1, <4>1, <4>4, <4>5, <4>6
      <3>2. CASE ~(Cardinality(codes \ {code}) <= Threshold)
        <4>1. codes' = codes \ {code}
          BY <2>1, <3>2 DEF Left
        <4>2. IsFiniteSet(codes \ {code})
          BY FS_RemoveElement DEF CodesInv, CodesType
        <4>3. Cardinality(codes \ {code}) \in Nat /\ Threshold \in Nat
          BY <4>2, FS_CardinalityType, CodesAssumption
        <4> QED BY <2>1, <3>2, <4>1, <4>2, <4>3
      <3> QED BY <3>1, <3>2
    <2>5. \A c \in Batch(batch + 1) : c \in Nat \X Nat /\ c[1] = batch + 1
      BY <1>0, BatchFacts
    <2>6. \A c \in codes' \cup spent' : c \in codes \cup spent \/ c \in Batch(batch + 1)
      BY <1>2, <2>1, <2>4
    <2>7. CodesType'
      <3>1. batch' \in Nat /\ batch <= batch' /\ (codes' = Batch(batch + 1) => batch' = batch + 1)
        BY <1>0, <2>4, <2>5, BatchFacts DEF CodesInv, CodesType
      <3>2. ASSUME NEW c \in codes' \cup spent' PROVE c \in Nat \X Nat /\ c[1] <= batch'
        <4>1. CASE c \in codes \cup spent
          <5>1. c \in Nat \X Nat /\ c[1] <= batch /\ c[1] \in Nat
            BY <4>1 DEF CodesInv, CodesType
          <5> QED BY <1>0, <3>1, <5>1
        <4>2. CASE c \notin codes \cup spent
          <5>1. c \in codes' /\ c \notin codes
            BY <1>2, <2>1, <4>2
          <5>2. c \in Batch(batch + 1) /\ batch' = batch + 1
            BY <2>4, <5>1
          <5> QED BY <1>0, <2>5, <5>2
        <4> QED BY <4>1, <4>2
      <3> QED BY <2>3, <2>4, <3>1, <3>2 DEF CodesType, Quiet
    <2>8. SetupsIntact'
      <3>1. batch' \in Nat /\ batch <= batch'
        BY <1>0, <2>4
      <3> QED BY <2>1, <2>3, <2>5, <2>6, <3>1, SetupsKept
    <2>9. SpentCodesStayGone'
      <3> SUFFICES ASSUME ~again' PROVE spent' \cap codes' = {}
        BY DEF SpentCodesStayGone
      <3>1. spent \cap codes = {}
        BY <2>2 DEF CodesInv, SpentCodesStayGone
      <3>2. \A c \in spent' : c[1] \in Nat /\ c[1] <= batch
        BY <1>2, <2>1 DEF CodesInv, CodesType
      <3>3. spent' \cap Batch(batch + 1) = {}
        BY <1>0, <2>5, <3>2
      <3> QED BY <2>1, <2>4, <3>1, <3>3
    <2>10. EnrolmentIsWhole'
      <3>1. mfaOn
        BY <1>2 DEF CodesInv, EnrolmentIsWhole
      <3> QED BY <2>1, <2>4, <3>1 DEF CodesInv, EnrolmentIsWhole
    <2> QED BY <2>7, <2>8, <2>9, <2>10 DEF CodesInv
  <1> QED BY <1>1, <1>2

LEMMA SetupStoreOK ==
    ASSUME CodesInv, NEW a \in Ask, SetupStore(a)
    PROVE  CodesInv'
  <1>0. ask \in [Ask -> AskState] /\ batch \in Nat /\ batch' = batch + 1 /\ batch + 1 \in Nat
    BY DEF CodesInv, CodesType, SetupStore
  <1>1. UNCHANGED <<mfaOn, secret, codes, spent, enabled, again>>
    BY DEF SetupStore, security, past
  <1>2. Quiet
    BY <1>0, FinishQuiet DEF SetupStore
  <1>3. \A c \in codes \cup spent : c \in Nat \X Nat /\ c[1] \in Nat /\ c[1] <= batch
    BY DEF CodesInv, CodesType
  <1>4. CodesType'
    BY <1>0, <1>1, <1>2, <1>3 DEF CodesInv, CodesType, Quiet
  <1>5. \A s : Intact(s) => Intact(s)'
    BY <1>0, <1>1 DEF Intact
  <1>6. PICK s \in Nat : s = batch + 1 /\ setupDoc'.batch = s
    BY <1>0 DEF SetupStore
  <1>7. Intact(s)'
    BY <1>0, <1>1, <1>3, <1>6 DEF Intact
  <1>8. SetupsIntact'
    BY <1>0, <1>2, <1>5, <1>6, <1>7 DEF CodesInv, SetupsIntact, Quiet, Intact
  <1>9. SpentCodesStayGone' /\ EnrolmentIsWhole'
    BY <1>1 DEF CodesInv, SpentCodesStayGone, EnrolmentIsWhole
  <1> QED BY <1>4, <1>8, <1>9 DEF CodesInv

LEMMA EnableStoreOK ==
    ASSUME CodesInv, NEW a \in Ask, EnableStore(a)
    PROVE  CodesInv'
  <1>0. ask \in [Ask -> AskState]
    BY DEF CodesInv, CodesType
  <1>1. PICK s \in Nat : s = ask[a].read /\ Intact(s)
    BY DEF CodesInv, SetupsIntact, Intact, EnableStore
  <1>2. /\ mfaOn' = TRUE /\ secret' = s /\ codes' = Batch(s) /\ enabled' = enabled \cup {s}
        /\ UNCHANGED <<setupDoc, batch, spent>>
    BY <1>1 DEF EnableStore
  <1>3. ~again' => ~again /\ s \notin enabled
    BY <1>1, Zenon DEF EnableStore
  <1>4. Quiet
    <2>1. PICK t \in AskState : t = [NoAsk EXCEPT !.pc = "drop"] /\ t.pc # "commit"
      <3> DEFINE y == [NoAsk EXCEPT !.pc = "drop"]
      <3>1. y \in AskState /\ y.pc # "commit"
        BY NoAskType DEF AskState, Pc
      <3> QED BY <3>1, Zenon
    <2>2. ask' = [ask EXCEPT ![a] = t]
      BY <2>1 DEF EnableStore
    <2> QED BY <1>0, <2>1, <2>2, OneAsk
  <1>5. /\ IsFiniteSet(Batch(s)) /\ Cardinality(Batch(s)) = CodeCount
        /\ \A c \in Batch(s) : c \in Nat \X Nat /\ c[1] = s
    BY BatchFacts
  <1>6. CodesType'
    BY <1>1, <1>2, <1>4, <1>5 DEF CodesInv, CodesType, Quiet, Intact
  <1>7. \A r : Intact(r) => Intact(r)'
    BY <1>2, <1>5 DEF Intact
  <1>8. SetupsIntact'
    BY <1>2, <1>4, <1>7 DEF CodesInv, SetupsIntact, Quiet
  <1>9. SpentCodesStayGone'
    <2> SUFFICES ASSUME ~again' PROVE spent' \cap codes' = {}
      BY DEF SpentCodesStayGone
    <2>1. \A c \in spent : c[1] # s
      BY <1>1, <1>3 DEF Intact
    <2> QED BY <1>2, <1>5, <2>1
  <1>10. EnrolmentIsWhole'
    <2>1. s # Absent /\ CodeCount > Threshold
      BY CodesAssumption
    <2> QED BY <1>2, <1>5, <2>1 DEF EnrolmentIsWhole
  <1> QED BY <1>6, <1>8, <1>9, <1>10 DEF CodesInv

LEMMA DisableStoreOK ==
    ASSUME CodesInv, NEW a \in Ask, DisableStore(a)
    PROVE  CodesInv'
  <1>0. ask \in [Ask -> AskState] /\ batch \in Nat
    BY DEF CodesInv, CodesType
  <1>1. /\ mfaOn' = FALSE /\ secret' = Absent /\ codes' = {}
        /\ UNCHANGED <<setupDoc, batch, spent, enabled, again>>
    BY DEF DisableStore, past
  <1>2. Quiet
    BY <1>0, FinishQuiet DEF DisableStore
  <1>3. CodesType'
    BY <1>0, <1>1, <1>2, FS_EmptySet DEF CodesInv, CodesType, Quiet
  <1>4. SetupsIntact'
    BY <1>0, <1>1, <1>2, SetupsKept
  <1>5. SpentCodesStayGone' /\ EnrolmentIsWhole'
    BY <1>1 DEF SpentCodesStayGone, EnrolmentIsWhole
  <1> QED BY <1>3, <1>4, <1>5 DEF CodesInv

LEMMA RegenerateStoreOK ==
    ASSUME CodesInv, NEW a \in Ask, RegenerateStore(a)
    PROVE  CodesInv'
  <1>0. ask \in [Ask -> AskState] /\ batch \in Nat /\ batch + 1 \in Nat
    BY DEF CodesInv, CodesType
  <1>1. UNCHANGED <<mfaOn, secret, setupDoc, spent, enabled, again>>
    BY DEF RegenerateStore, past
  <1>2. Quiet
    BY <1>0, FinishQuiet DEF RegenerateStore
  <1>3. CASE secret = Absent
    BY <1>1, <1>2, <1>3, SecurityKept DEF RegenerateStore, security, past
  <1>4. CASE secret # Absent
    <2>1. batch' = batch + 1 /\ codes' = Batch(batch + 1)
      BY <1>4 DEF RegenerateStore
    <2>2. /\ IsFiniteSet(codes') /\ Cardinality(codes') = CodeCount
          /\ \A c \in codes' : c \in Nat \X Nat /\ c[1] = batch + 1
      BY <1>0, <2>1, BatchFacts
    <2>3. \A c \in spent : c \in Nat \X Nat /\ c[1] \in Nat /\ c[1] <= batch
      BY DEF CodesInv, CodesType
    <2>4. CodesType'
      BY <1>0, <1>1, <1>2, <2>1, <2>2, <2>3 DEF CodesType, Quiet
    <2>5. SetupsIntact'
      BY <1>0, <1>1, <1>2, <2>1, <2>2, SetupsKept
    <2>6. SpentCodesStayGone'
      BY <1>0, <1>1, <2>2, <2>3 DEF SpentCodesStayGone
    <2>7. EnrolmentIsWhole'
      <3>1. mfaOn /\ CodeCount > Threshold
        BY <1>4, CodesAssumption DEF CodesInv, EnrolmentIsWhole
      <3> QED BY <1>1, <1>4, <2>2, <3>1 DEF EnrolmentIsWhole
    <2> QED BY <2>4, <2>5, <2>6, <2>7 DEF CodesInv
  <1> QED BY <1>3, <1>4

LEMMA EnableSetupOK ==
    ASSUME CodesInv, NEW a \in Ask, EnableSetup(a)
    PROVE  CodesInv'
  <1>0. ask \in [Ask -> AskState] /\ "drop" \in Pc \ {"commit"}
    BY DEF CodesInv, CodesType, Pc
  <1>1. UNCHANGED <<security, setupDoc, batch, past>>
    BY DEF EnableSetup, stores
  <1>2. CASE Finish(a) \/ Continue(a, "drop")
    BY <1>0, <1>1, <1>2, FinishQuiet, ContinueQuiet, SecurityKept
  <1>3. CASE ~(Finish(a) \/ Continue(a, "drop"))
    <2>1. /\ setupDoc # Absent
          /\ ask' = [ask EXCEPT ![a] = [NoAsk EXCEPT !.pc = "commit", !.read = setupDoc.batch]]
      BY <1>3 DEF EnableSetup
    <2>2. PICK s \in Nat : s = setupDoc.batch /\ Intact(s)
      BY <2>1 DEF CodesInv, SetupsIntact, Intact
    <2>3. PICK t \in AskState : t = [NoAsk EXCEPT !.pc = "commit", !.read = s] /\ t.read = s
      <3> DEFINE y == [NoAsk EXCEPT !.pc = "commit", !.read = s]
      <3>1. y \in AskState /\ y.read = s
        BY NoAskType DEF AskState, Pc
      <3> QED BY <3>1, Zenon
    <2>4. ask' = [ask EXCEPT ![a] = t]
      BY <2>1, <2>2, <2>3
    <2>5. \A r : Intact(r) => Intact(r)'
      BY <1>1 DEF Intact, security, past
    <2>6. CodesType'
      BY <1>0, <1>1, <2>4 DEF CodesInv, CodesType, security, past
    <2>7. SetupsIntact'
      BY <1>0, <1>1, <2>2, <2>3, <2>4, <2>5 DEF CodesInv, SetupsIntact
    <2>8. SpentCodesStayGone' /\ EnrolmentIsWhole'
      BY <1>1 DEF CodesInv, SpentCodesStayGone, EnrolmentIsWhole, security, past
    <2> QED BY <2>6, <2>7, <2>8 DEF CodesInv
  <1> QED BY <1>2, <1>3

-----------------------------------------------------------------------------
\* The steps of a request that read, or write only nonces and the setup document.
LEMMA ReadingSteps ==
    ASSUME CodesInv, NEW a \in Ask,
           \/ VerifyRead(a) \/ CheckTotp(a) \/ MintCheck(a) \/ MintStore(a) \/ SetupCheck(a)
           \/ SpendNonce(a) \/ SetupDrop(a) \/ TrustStore(a) \/ RegenerateRead(a) \/ AskDies(a)
    PROVE  CodesInv'
  <1>0. ask \in [Ask -> AskState]
    BY DEF CodesInv, CodesType
  <1>1. UNCHANGED <<security, batch, past>> /\ (setupDoc' # Absent => setupDoc' = setupDoc)
    BY DEF VerifyRead, CheckTotp, MintCheck, MintStore, SetupCheck, SpendNonce, SetupDrop,
           TrustStore, RegenerateRead, AskDies, stores
  <1>2. Quiet
    <2>1. {"consume", "totp", "verify", "nonce", "regenerate"} \subseteq Pc \ {"commit"}
      BY DEF Pc, Op, Sensitive
    <2>2. CASE Finish(a)
      BY <1>0, <2>2, FinishQuiet
    <2>3. CASE Accept(a)
      BY <1>0, <2>3, AcceptQuiet
    <2>4. CASE \E pc \in {"consume", "totp", "verify", "nonce", "regenerate"} : Continue(a, pc)
      BY <1>0, <2>1, <2>4, ContinueQuiet
    <2>5. CASE ask' = [ask EXCEPT ![a] = [NoAsk EXCEPT !.pc = "write"]]
      <3>1. PICK t \in AskState : t = [NoAsk EXCEPT !.pc = "write"] /\ t.pc # "commit"
        <4> DEFINE y == [NoAsk EXCEPT !.pc = "write"]
        <4>1. y \in AskState /\ y.pc # "commit"
          BY NoAskType DEF AskState, Pc
        <4> QED BY <4>1, Zenon
      <3> QED BY <1>0, <2>5, <3>1, OneAsk
    <2>6. \/ Finish(a) \/ Accept(a)
          \/ \E pc \in {"consume", "totp", "verify", "nonce", "regenerate"} : Continue(a, pc)
          \/ ask' = [ask EXCEPT ![a] = [NoAsk EXCEPT !.pc = "write"]]
      BY DEF VerifyRead, CheckTotp, MintCheck, MintStore, SetupCheck, SpendNonce, SetupDrop,
             TrustStore, RegenerateRead, AskDies
    <2> QED BY <2>2, <2>3, <2>4, <2>5, <2>6
  <1> QED BY <1>1, <1>2, SecurityKept

LEMMA CodesNextInv == CodesInv /\ [CodesNext]_codeVars => CodesInv'
  <1> SUFFICES ASSUME CodesInv, [CodesNext]_codeVars PROVE CodesInv'
    OBVIOUS
  <1>0. ask \in [Ask -> AskState]
    BY DEF CodesInv, CodesType
  <1>1. CASE UNCHANGED codeVars
    BY <1>0, <1>1, SecurityKept DEF codeVars, stores, Quiet
  <1>2. CASE DayPasses \/ CleanExpired
    <2>1. Quiet /\ UNCHANGED <<security, batch, past>>
      BY <1>0, <1>2 DEF DayPasses, CleanExpired, Quiet
    <2>2. setupDoc' # Absent => setupDoc' = setupDoc
      BY <1>2 DEF DayPasses, CleanExpired
    <2> QED BY <2>1, <2>2, SecurityKept
  <1>3. ASSUME NEW a \in Ask, NEW op \in Sensitive \cup {"mint", "setup", "enable"},
               NEW l \in SessionFamily, NEW proof \in Proofs(op), Present(a, op, l, proof)
        PROVE  CodesInv'
    <2>1. Quiet
      BY <1>0, <1>3, PresentQuiet
    <2>2. UNCHANGED <<security, setupDoc, batch, past>>
      BY <1>3 DEF Present, stores
    <2> QED BY <2>1, <2>2, SecurityKept
  <1>4. ASSUME NEW a \in Ask,
               \/ VerifyRead(a) \/ CheckTotp(a) \/ MintCheck(a) \/ MintStore(a) \/ SetupCheck(a)
               \/ SpendNonce(a) \/ SetupDrop(a) \/ TrustStore(a) \/ RegenerateRead(a) \/ AskDies(a)
        PROVE  CodesInv'
    BY <1>4, ReadingSteps
  <1>5. ASSUME NEW a \in Ask,
               \/ ConsumeCode(a) \/ SetupStore(a) \/ EnableSetup(a) \/ EnableStore(a)
               \/ DisableStore(a) \/ RegenerateStore(a)
        PROVE  CodesInv'
    BY <1>5, ConsumeOK, SetupStoreOK, EnableSetupOK, EnableStoreOK, DisableStoreOK, RegenerateStoreOK
  <1> QED BY <1>1, <1>2, <1>3, <1>4, <1>5 DEF CodesNext

\* MfaSessionService.ts:90 - the setup document, and every enabling that is under way,
\* names a batch of codes nobody was ever given, unless that setup enabled MFA before.
THEOREM CodesInvariant == CodesSpec => []CodesInv
  BY CodesInitInv, CodesNextInv, PTL DEF CodesSpec

\* mfaRecoveryCodes.ts:54 - an accepted recovery code never becomes valid again, however
\* many requests consume, regenerate, set up and disable, unless a setup enables twice.
THEOREM AcceptedCodesStayGone == CodesSpec => []SpentCodesStayGone
  <1>1. CodesInv => SpentCodesStayGone
    BY DEF CodesInv
  <1> QED BY <1>1, CodesInvariant, PTL

\* mfaRecoveryCodes.ts:71 - with MFA on there are a secret and more codes than the
\* threshold, with MFA off neither, whatever requests overlap.
THEOREM SecretAndCodesTogether == CodesSpec => []EnrolmentIsWhole
  <1>1. CodesInv => EnrolmentIsWhole
    BY DEF CodesInv
  <1> QED BY <1>1, CodesInvariant, PTL

-----------------------------------------------------------------------------
(* Key records: an update that reports success has landed.  The deletion of *)
(* the account: its phases complete each other however often it is repeated. *)

Places == {"rest", "cRead", "cCommit", "cKeys", "cRollback", "lRead", "lStub", "aCommit", "uRead",
           "rRead", "uCommit", "rCommit", "uVerify", "pSave", "wRead", "wUpdate"} \cup Deleting
Answers == {"none", "conflict", "created", "failed", "listed", "added", "quota", "missing",
            "updated", "removed", "saved", "changed", "deleted"}
HandlerVars == [pc : Places, key : Key \cup {NoKey}, landed : BOOLEAN, told : Answers]

\* The locals r, given the ids that are stored and those that are still fresh.
HandlerOK(r, ids, free) ==
    /\ r.pc # "rest" => r.told = "none"
    /\ r.told = "updated" => r.landed
    /\ r.pc = "uVerify" /\ ~r.landed => r.key \notin ids
    /\ r.pc \in {"aCommit", "uRead", "uCommit", "uVerify"} => r.key \notin free

\* The record an update names is not one that an addition has yet to store.
Apart(r, s) ==
    r.pc \in {"uRead", "uCommit", "uVerify"} /\ s.pc = "aCommit" => r.key # s.key

UpdateInv ==
    /\ handler \in [Handler -> HandlerVars]
    /\ hasSet \in BOOLEAN /\ (items # {} => hasSet)
    /\ \A h \in Handler : HandlerOK(handler[h], items, fresh)
    /\ \A h, o \in Handler : Apart(handler[h], handler[o])

LEMMA HandlerStep ==
    ASSUME UpdateInv, NEW h \in Handler, NEW r \in HandlerVars,
           handler' = [handler EXCEPT ![h] = r],
           hasSet' \in BOOLEAN, items' # {} => hasSet', fresh' \subseteq fresh,
           HandlerOK(r, items', fresh'),
           \A o \in Handler \ {h} : /\ HandlerOK(handler[o], items', fresh')
                                    /\ Apart(r, handler[o]) /\ Apart(handler[o], r)
    PROVE  UpdateInv'
  <1>1. \A o \in Handler : handler'[o] = IF o = h THEN r ELSE handler[o]
    BY DEF UpdateInv
  <1>2. handler' \in [Handler -> HandlerVars]
    BY DEF UpdateInv
  <1>3. \A o \in Handler : HandlerOK(handler'[o], items', fresh')
    BY <1>1
  <1>4. Apart(r, r)
    BY DEF Apart
  <1>5. ASSUME NEW o \in Handler, NEW p \in Handler PROVE Apart(handler'[o], handler'[p])
    BY <1>1, <1>4 DEF UpdateInv
  <1> QED BY <1>2, <1>3, <1>5 DEF UpdateInv

\* Most steps store no id that was not stored, and move on with the same key.
LEMMA HandlerMove ==
    ASSUME UpdateInv, NEW h \in Handler, NEW x \in HandlerVars, x = handler[h],
           NEW r \in HandlerVars, handler' = [handler EXCEPT ![h] = r],
           r.pc # "rest" => r.told = "none", r.told = "updated" => r.landed,
           r.pc = "uVerify" /\ ~r.landed => r.key \notin items', r.pc # "aCommit",
           r.pc \in {"uRead", "uCommit", "uVerify"} =>
                r.key = x.key /\ x.pc \in {"uRead", "uCommit", "uVerify"},
           hasSet' \in BOOLEAN, items' # {} => hasSet', items' \subseteq items, fresh' = fresh
    PROVE  UpdateInv'
  <1>1. HandlerOK(r, items', fresh')
    BY DEF UpdateInv, HandlerOK
  <1>2. ASSUME NEW o \in Handler \ {h}
        PROVE  /\ HandlerOK(handler[o], items', fresh')
               /\ Apart(r, handler[o]) /\ Apart(handler[o], r)
    BY DEF UpdateInv, HandlerOK, Apart
  <1> QED BY <1>1, <1>2, HandlerStep

LEMMA BeginUpdates ==
    ASSUME UpdateInv, NEW h \in Handler, NEW r \in HandlerVars,
           handler[h].pc = "rest", handler' = [handler EXCEPT ![h] = r], r.told = "none",
           UNCHANGED <<hasSet, items>>, fresh' \subseteq fresh, r.pc # "uVerify",
           r.pc \in {"aCommit", "uRead", "uCommit"} => r.key \notin fresh',
           r.pc = "aCommit" => r.key \in fresh,
           r.pc \in {"uRead", "uCommit"} => Given(r.key)
    PROVE  UpdateInv'
  <1>1. HandlerOK(r, items', fresh')
    BY DEF HandlerOK
  <1>2. ASSUME NEW o \in Handler \ {h}
        PROVE  /\ HandlerOK(handler[o], items', fresh')
               /\ Apart(r, handler[o]) /\ Apart(handler[o], r)
    BY DEF UpdateInv, HandlerOK, Apart, Given, Doing
  <1> QED BY <1>1, <1>2, HandlerStep DEF UpdateInv

LEMMA ArriveUpdates ==
    ASSUME UpdateInv, NEW h \in Handler, Arrive(h)
    PROVE  UpdateInv'
  <1> USE DEF records, keySet
  <1>1. ASSUME NEW pc \in Places, NEW k \in Key \cup {NoKey}, Begin(h, pc, k),
               fresh' \subseteq fresh, pc # "uVerify",
               pc \in {"aCommit", "uRead", "uCommit"} => k \notin fresh',
               pc = "aCommit" => k \in fresh,
               pc \in {"uRead", "uCommit"} => Given(k)
        PROVE  UpdateInv'
    <2> DEFINE r == [Rest EXCEPT !.pc = pc, !.key = k]
    <2>1. r \in HandlerVars /\ r.pc = pc /\ r.key = k /\ r.told = "none"
      BY DEF Rest, HandlerVars, Answers
    <2>2. /\ handler' = [handler EXCEPT ![h] = r] /\ handler[h].pc = "rest"
          /\ UNCHANGED <<hasSet, items>>
      BY <1>1 DEF Begin, Doing
    <2> HIDE DEF r
    <2> QED BY <1>1, <2>1, <2>2, BeginUpdates
  <1>2. CASE BeginDelete(h)
    <2> DEFINE r == [Rest EXCEPT !.pc = "dRevoke"]
    <2>1. r \in HandlerVars /\ r.pc = "dRevoke" /\ r.told = "none"
      BY DEF Rest, HandlerVars, Answers, Places, Deleting
    <2>2. /\ handler' = [handler EXCEPT ![h] = r] /\ handler[h].pc = "rest"
          /\ UNCHANGED <<hasSet, items, fresh>>
      BY <1>2 DEF BeginDelete, Doing
    <2> HIDE DEF r
    <2> QED BY <1>2, <2>1, <2>2, BeginUpdates
  <1>3. CASE BeginCreate(h) \/ BeginList(h) \/ BeginPush(h) \/ BeginPassword(h) \/ BeginSwitch(h)
    BY <1>1, <1>3 DEF BeginCreate, BeginList, BeginPush, BeginPassword, BeginSwitch, Places
  <1>4. ASSUME NEW k \in Key, BeginAdd(h, k) PROVE UpdateInv'
    BY <1>1, <1>4 DEF BeginAdd, Places
  <1>5. ASSUME NEW k \in Key, BeginUpdate(h, k) PROVE UpdateInv'
    BY <1>1, <1>5 DEF BeginUpdate, Given, Places
  <1>6. ASSUME NEW k \in Key, BeginRemove(h, k) PROVE UpdateInv'
    BY <1>1, <1>6 DEF BeginRemove, Places
  <1> QED BY <1>2, <1>3, <1>4, <1>5, <1>6 DEF Arrive

LEMMA ReplyUpdates ==
    ASSUME UpdateInv, NEW h \in Handler, NEW told \in Answers \ {"updated"}, Reply(h, told),
           hasSet' \in BOOLEAN, items' # {} => hasSet', items' \subseteq items, fresh' = fresh
    PROVE  UpdateInv'
  <1>1. PICK x \in HandlerVars : x = handler[h]
    BY DEF UpdateInv
  <1> DEFINE r == [x EXCEPT !.pc = "rest", !.told = told]
  <1>2. r \in HandlerVars /\ r.pc = "rest" /\ r.told = told
    BY DEF HandlerVars, Places
  <1>3. handler' = [handler EXCEPT ![h] = r]
    BY <1>1 DEF Reply, UpdateInv
  <1> HIDE DEF r
  <1> QED BY <1>1, <1>2, <1>3, HandlerMove

LEMMA GoOnUpdates ==
    ASSUME UpdateInv, NEW h \in Handler, NEW pc \in Places, GoOn(h, pc), handler[h].pc # "rest",
           pc \notin {"aCommit", "uVerify"},
           pc \in {"uRead", "uCommit"} => handler[h].pc \in {"uRead", "uCommit"},
           hasSet' \in BOOLEAN, items' # {} => hasSet', items' \subseteq items, fresh' = fresh
    PROVE  UpdateInv'
  <1>1. PICK x \in HandlerVars : x = handler[h]
    BY DEF UpdateInv
  <1>2. x.told = "none"
    BY <1>1 DEF UpdateInv, HandlerOK
  <1> DEFINE r == [x EXCEPT !.pc = pc]
  <1>3. r \in HandlerVars /\ r.pc = pc /\ r.told = "none" /\ r.key = x.key
    BY <1>2 DEF HandlerVars
  <1>4. handler' = [handler EXCEPT ![h] = r]
    BY <1>1 DEF GoOn, UpdateInv
  <1> HIDE DEF r
  <1> QED BY <1>1, <1>3, <1>4, HandlerMove

LEMMA AddUpdates ==
    ASSUME UpdateInv, NEW h \in Handler, AddCommit(h)
    PROVE  UpdateInv'
  <1> DEFINE k == handler[h].key
  <1>1. CASE Reply(h, "quota") /\ UNCHANGED keySet
    BY <1>1, ReplyUpdates DEF AddCommit, keySet, Answers, UpdateInv
  <1>2. CASE /\ hasSet' = TRUE /\ items' = items \cup {k}
             /\ Reply(h, "added")
    <2>1. PICK x \in HandlerVars : x = handler[h]
      BY DEF UpdateInv
    <2> DEFINE r == [x EXCEPT !.pc = "rest", !.told = "added"]
    <2>2. r \in HandlerVars /\ r.pc = "rest" /\ r.told = "added" /\ x.pc = "aCommit" /\ fresh' = fresh
      BY <2>1 DEF HandlerVars, Places, Answers, AddCommit, Doing
    <2>3. handler' = [handler EXCEPT ![h] = r]
      BY <1>2, <2>1 DEF Reply, UpdateInv
    <2> HIDE DEF r
    <2>4. HandlerOK(r, items', fresh')
      BY <2>2 DEF HandlerOK
    <2>5. ASSUME NEW o \in Handler \ {h}
          PROVE  /\ HandlerOK(handler[o], items', fresh')
                 /\ Apart(r, handler[o]) /\ Apart(handler[o], r)
      <3>1. HandlerOK(handler[o], items, fresh) /\ Apart(handler[o], handler[h])
        BY DEF UpdateInv
      <3> QED BY <1>2, <2>1, <2>2, <3>1 DEF HandlerOK, Apart
    <2> QED BY <1>2, <2>2, <2>3, <2>4, <2>5, HandlerStep
  <1> QED BY <1>1, <1>2 DEF AddCommit

LEMMA CreateUpdates ==
    ASSUME UpdateInv, NEW h \in Handler, NEW new \in SUBSET fresh, CreateKeys(h, new)
    PROVE  UpdateInv'
  <1>1. PICK x \in HandlerVars : x = handler[h]
    BY DEF UpdateInv
  <1> DEFINE r == [x EXCEPT !.pc = "rest", !.told = "created"]
  <1>2. /\ r \in HandlerVars /\ r.pc = "rest" /\ r.told = "created"
        /\ hasSet' = TRUE /\ items' = new /\ fresh' = fresh \ new
    BY <1>1 DEF HandlerVars, Places, Answers, CreateKeys, Overwrite
  <1>3. handler' = [handler EXCEPT ![h] = r]
    BY <1>1 DEF CreateKeys, Reply, UpdateInv
  <1> HIDE DEF r
  <1>4. HandlerOK(r, items', fresh')
    BY <1>2 DEF HandlerOK
  <1>5. ASSUME NEW o \in Handler \ {h}
        PROVE  /\ HandlerOK(handler[o], items', fresh')
               /\ Apart(r, handler[o]) /\ Apart(handler[o], r)
    BY <1>2 DEF UpdateInv, HandlerOK, Apart
  <1> QED BY <1>2, <1>3, <1>4, <1>5, HandlerStep

LEMMA UpdateUpdates ==
    ASSUME UpdateInv, NEW h \in Handler, UpdateCommit(h) \/ UpdateVerify(h)
    PROVE  UpdateInv'
  <1>1. PICK x \in HandlerVars : x = handler[h] /\ HandlerOK(x, items, fresh)
    BY DEF UpdateInv
  <1>2. CASE UpdateCommit(h)
    <2>1. CASE Reply(h, "missing")
      BY <1>2, <2>1, ReplyUpdates DEF UpdateCommit, Answers, UpdateInv
    <2>2. CASE handler' = [handler EXCEPT ![h].pc = "uVerify", ![h].landed = hasSet]
      <3> DEFINE r == [x EXCEPT !.pc = "uVerify", !.landed = hasSet]
      <3>1. x.pc = "uCommit" /\ x.told = "none" /\ items' = items /\ hasSet' = TRUE /\ fresh' = fresh
        BY <1>1, <1>2 DEF UpdateCommit, HandlerOK, Doing
      <3>2. /\ r \in HandlerVars /\ r.pc = "uVerify" /\ r.landed = hasSet /\ r.told = "none"
            /\ r.key = x.key
        BY <3>1 DEF HandlerVars, Places, UpdateInv
      <3>3. handler' = [handler EXCEPT ![h] = r]
        BY <1>1, <2>2, <3>1 DEF UpdateInv
      <3>4. ~hasSet => items = {}
        BY DEF UpdateInv
      <3> HIDE DEF r
      <3> QED BY <1>1, <3>1, <3>2, <3>3, <3>4, HandlerMove DEF UpdateInv
    <2> QED BY <1>2, <2>1, <2>2 DEF UpdateCommit
  <1>3. CASE UpdateVerify(h)
    <2> DEFINE told == IF x.key \in items THEN "updated" ELSE "missing"
               r == [x EXCEPT !.pc = "rest", !.told = told]
    <2>1. x.pc = "uVerify" /\ UNCHANGED <<hasSet, items, fresh>> /\ handler' = [handler EXCEPT ![h] = r]
      BY <1>1, <1>3 DEF UpdateVerify, Reply, Doing, records, UpdateInv
    <2>2. told \in Answers /\ (told = "updated" => x.landed)
      BY <1>1, <2>1 DEF HandlerOK, Answers
    <2> HIDE DEF told
    <2>3. /\ r \in HandlerVars /\ r.pc = "rest" /\ r.landed = x.landed /\ r.told = told
          /\ r.key = x.key
      BY <2>2 DEF HandlerVars, Places
    <2> HIDE DEF r
    <2> QED BY <1>1, <2>1, <2>2, <2>3, HandlerMove DEF UpdateInv
  <1> QED BY <1>2, <1>3

LEMMA StepUpdates ==
    ASSUME UpdateInv, NEW h \in Handler, Step(h)
    PROVE  UpdateInv'
  <1> USE DEF records, keySet
  <1>0. hasSet \in BOOLEAN /\ (items # {} => hasSet)
    BY DEF UpdateInv
  <1>1. CASE CreateRead(h) \/ UserCommit(h)
    BY <1>0, <1>1, ReplyUpdates, GoOnUpdates DEF CreateRead, UserCommit, Doing, Answers, Places
  <1>2. CASE ListRead(h) \/ ListStub(h) \/ CreateRollback(h) \/ PushSave(h)
    BY <1>0, <1>2, ReplyUpdates, GoOnUpdates
       DEF ListRead, ListStub, CreateRollback, PushSave, Overwrite, Doing, Answers, Places
  <1>3. CASE Precheck(h) \/ RemoveCommit(h)
    <2>1. CASE Precheck(h)
      BY <1>0, <2>1, ReplyUpdates, GoOnUpdates DEF Precheck, Doing, Answers, Places
    <2>2. CASE RemoveCommit(h)
      BY <1>0, <2>2, ReplyUpdates DEF RemoveCommit, Doing, Answers
    <2> QED BY <1>3, <2>1, <2>2
  <1>4. CASE PasswordRead(h) \/ DocumentUpdate(h)
    BY <1>0, <1>4, ReplyUpdates, GoOnUpdates DEF PasswordRead, DocumentUpdate, Doing, Answers, Places
  <1>5. CASE DeleteSessions(h) \/ DeleteDocuments(h) \/ DeleteKeys(h) \/ DeletePush(h)
    BY <1>0, <1>5, GoOnUpdates
       DEF DeleteSessions, DeleteDocuments, DeleteKeys, DeletePush, Overwrite, Doing, Places, Deleting
  <1>6. CASE DeleteIdentity(h)
    BY <1>0, <1>6, ReplyUpdates DEF DeleteIdentity, Answers
  <1> QED BY <1>1, <1>2, <1>3, <1>4, <1>5, <1>6, AddUpdates, CreateUpdates, UpdateUpdates DEF Step

LEMMA NextUpdates == UpdateInv /\ [RecNext]_recVars => UpdateInv'
  <1> SUFFICES ASSUME UpdateInv, [RecNext]_recVars PROVE UpdateInv'
    OBVIOUS
  <1> USE DEF records, keySet
  <1>0. hasSet \in BOOLEAN /\ (items # {} => hasSet)
    BY DEF UpdateInv
  <1>1. CASE Login \/ LoginLost \/ UNCHANGED recVars
    BY <1>1 DEF Login, LoginLost, recVars, UpdateInv
  <1>2. ASSUME NEW h \in Handler, CreateKeysFail(h) PROVE UpdateInv'
    BY <1>0, <1>2, GoOnUpdates DEF CreateKeysFail, Doing, Places
  <1>3. ASSUME NEW h \in Handler, Throws(h) PROVE UpdateInv'
    BY <1>0, <1>3, ReplyUpdates DEF Throws, Answers
  <1> QED BY <1>1, <1>2, <1>3, StepUpdates, ArriveUpdates DEF RecNext

LEMMA InitUpdates == RecInit => UpdateInv
  <1>1. Rest \in HandlerVars /\ Rest.pc = "rest" /\ Rest.told = "none"
    BY DEF Rest, HandlerVars, Places, Answers
  <1> QED BY <1>1 DEF RecInit, UpdateInv, HandlerOK, Apart

\* UserKeyRepository.ts:208 - for any number of requests, an update reports success only
\* for a write that landed.
THEOREM UpdatesLand == RecSpec => []ReportedUpdatesLanded
  <1>1. UpdateInv => ReportedUpdatesLanded
    BY DEF UpdateInv, HandlerOK, ReportedUpdatesLanded
  <1> QED BY InitUpdates, <1>1, NextUpdates, PTL DEF RecSpec


-----------------------------------------------------------------------------
\* As long as no other handler ran beside a deletion: a deletion is alone, what its
\* earlier steps deleted stays deleted, and nothing follows the end of the identity.
Alone == \A h, o \in Handler :
    handler[h].pc \in Deleting /\ handler[o].pc # "rest" => h = o

DoneSoFar == \A h \in Handler :
    /\ handler[h].pc \in {"dKeys", "dPush", "dIdentity"} => ~userDoc
    /\ handler[h].pc \in {"dPush", "dIdentity"} => ~hasSet
    /\ handler[h].pc = "dIdentity" => ~pushed

Ended ==
    /\ ~userDoc /\ ~hasSet /\ ~pushed
    /\ \A h \in Handler : handler[h].pc = "rest"

DeletionInv == ~overlap => Alone /\ DoneSoFar /\ (~identity => Ended)

\* Handler h moves to q, and no other handler moves.
Goes(h, q) == \A o \in Handler : handler'[o].pc = IF o = h THEN q ELSE handler[o].pc

LEMMA Moves ==
    ASSUME UpdateInv, NEW h \in Handler, NEW x
    PROVE  (Reply(h, x) => Goes(h, "rest")) /\ (GoOn(h, x) => Goes(h, x))
  BY DEF UpdateInv, HandlerVars, Reply, GoOn, Goes

\* A handler other than a deletion may do what it likes to the stores: no deletion is in
\* progress beside it.
LEMMA OthersDelete ==
    ASSUME DeletionInv, NEW h \in Handler, NEW q, Goes(h, q), q \notin Deleting,
           handler[h].pc # "rest", handler[h].pc \notin Deleting,
           identity' = identity, overlap' = overlap
    PROVE  DeletionInv'
  BY DEF DeletionInv, Alone, DoneSoFar, Ended, Goes, Deleting

LEMMA ArriveDeletes ==
    ASSUME UpdateInv, DeletionInv, NEW h \in Handler, Arrive(h)
    PROVE  DeletionInv'
  <1> USE DEF records, keySet
  <1>1. ASSUME NEW pc, NEW k, Begin(h, pc, k), pc \notin Deleting, identity \/ userDoc
        PROVE  DeletionInv'
    <2>1. Goes(h, pc)
      BY <1>1 DEF Begin, Goes, Rest, UpdateInv
    <2>2. /\ overlap' = (overlap \/ \E o \in Handler : handler[o].pc \in Deleting)
          /\ UNCHANGED <<identity, userDoc, hasSet, pushed>> /\ handler[h].pc = "rest"
      BY <1>1 DEF Begin, Doing
    <2> QED BY <1>1, <2>1, <2>2 DEF DeletionInv, Alone, DoneSoFar, Ended, Goes, Deleting
  <1>2. CASE BeginDelete(h)
    <2>1. Goes(h, "dRevoke")
      BY <1>2 DEF BeginDelete, Goes, Rest, UpdateInv
    <2>2. /\ overlap' = (overlap \/ \E o \in Handler : handler[o].pc # "rest")
          /\ UNCHANGED <<identity, userDoc, hasSet, pushed>> /\ userDoc
      BY <1>2 DEF BeginDelete, Doing
    <2> QED BY <2>1, <2>2 DEF DeletionInv, Alone, DoneSoFar, Ended, Goes, Deleting
  <1>3. CASE BeginCreate(h) \/ BeginList(h) \/ BeginPush(h) \/ BeginPassword(h) \/ BeginSwitch(h)
    BY <1>1, <1>3 DEF BeginCreate, BeginList, BeginPush, BeginPassword, BeginSwitch, Deleting
  <1>4. ASSUME NEW k \in Key, BeginAdd(h, k) \/ BeginUpdate(h, k) \/ BeginRemove(h, k)
        PROVE  DeletionInv'
    BY <1>1, <1>4 DEF BeginAdd, BeginUpdate, BeginRemove, Deleting
  <1> QED BY <1>2, <1>3, <1>4 DEF Arrive

LEMMA DeletionSteps ==
    ASSUME UpdateInv, DeletionInv, NEW h \in Handler,
           \/ DeleteSessions(h) \/ DeleteDocuments(h) \/ DeleteKeys(h)
           \/ DeletePush(h) \/ DeleteIdentity(h)
    PROVE  DeletionInv'
  <1> USE DEF DeletionInv, Alone, DoneSoFar, Ended, Goes, Deleting, Doing, history
  <1>1. CASE DeleteSessions(h)
    <2>1. Goes(h, "dDocuments")
      BY <1>1, Moves DEF DeleteSessions
    <2> QED BY <1>1, <2>1 DEF DeleteSessions
  <1>2. CASE DeleteDocuments(h)
    <2>1. Goes(h, "dKeys")
      BY <1>2, Moves DEF DeleteDocuments
    <2> QED BY <1>2, <2>1 DEF DeleteDocuments
  <1>3. CASE DeleteKeys(h)
    <2>1. Goes(h, "dPush")
      BY <1>3, Moves DEF DeleteKeys
    <2> QED BY <1>3, <2>1 DEF DeleteKeys, Overwrite
  <1>4. CASE DeletePush(h)
    <2>1. Goes(h, "dIdentity")
      BY <1>4, Moves DEF DeletePush
    <2> QED BY <1>4, <2>1 DEF DeletePush
  <1>5. CASE DeleteIdentity(h)
    <2>1. Goes(h, "rest")
      BY <1>5, Moves DEF DeleteIdentity
    <2> QED BY <1>5, <2>1 DEF DeleteIdentity
  <1> QED BY <1>1, <1>2, <1>3, <1>4, <1>5

LEMMA StepDeletes ==
    ASSUME UpdateInv, DeletionInv, NEW h \in Handler, Step(h)
    PROVE  DeletionInv'
  <1> USE DEF records, keySet, history
  <1>1. CASE CreateRead(h) \/ UserCommit(h) \/ CreateRollback(h) \/ ListRead(h) \/ ListStub(h)
    BY <1>1, Moves, OthersDelete
       DEF CreateRead, UserCommit, CreateRollback, ListRead, ListStub, Doing, Deleting
  <1>2. ASSUME NEW new \in SUBSET fresh, CreateKeys(h, new) PROVE DeletionInv'
    BY <1>2, Moves, OthersDelete DEF CreateKeys, Doing, Deleting
  <1>3. CASE AddCommit(h) \/ RemoveCommit(h) \/ UpdateVerify(h)
    BY <1>3, Moves, OthersDelete DEF AddCommit, RemoveCommit, UpdateVerify, Doing, Deleting
  <1>4. CASE Precheck(h)
    BY <1>4, Moves, OthersDelete DEF Precheck, Doing, Deleting
  <1>5. CASE UpdateCommit(h)
    <2>1. \/ Goes(h, "rest")
          \/ Goes(h, "uVerify")
      BY <1>5, Moves DEF UpdateCommit, UpdateInv, HandlerVars, Goes
    <2> QED BY <1>5, <2>1, OthersDelete DEF UpdateCommit, Doing, Deleting
  <1>6. CASE PushSave(h) \/ PasswordRead(h) \/ DocumentUpdate(h)
    BY <1>6, Moves, OthersDelete DEF PushSave, PasswordRead, DocumentUpdate, Doing, Deleting
  <1> QED BY <1>1, <1>2, <1>3, <1>4, <1>5, <1>6, DeletionSteps DEF Step

LEMMA NextDeletes == UpdateInv /\ DeletionInv /\ [RecNext]_recVars => DeletionInv'
  <1> SUFFICES ASSUME UpdateInv, DeletionInv, [RecNext]_recVars PROVE DeletionInv'
    OBVIOUS
  <1> USE DEF records, keySet, history
  <1>1. CASE Login \/ LoginLost \/ UNCHANGED recVars
    BY <1>1 DEF Login, LoginLost, recVars, DeletionInv, Alone, DoneSoFar, Ended
  <1>2. ASSUME NEW h \in Handler, CreateKeysFail(h) PROVE DeletionInv'
    BY <1>2, Moves, OthersDelete DEF CreateKeysFail, Doing, Deleting
  <1>3. ASSUME NEW h \in Handler, Throws(h) PROVE DeletionInv'
    <2>1. Goes(h, "rest") /\ UNCHANGED <<identity, userDoc, hasSet, pushed, overlap>>
      BY <1>3, Moves DEF Throws
    <2> QED BY <2>1 DEF DeletionInv, Alone, DoneSoFar, Ended, Goes, Deleting
  <1> QED BY <1>1, <1>2, <1>3, StepDeletes, ArriveDeletes DEF RecNext

\* userWrites.ts:85 - for any number of requests, failures and repeated deletions, when
\* the identity is gone so is every other record, unless a handler ran beside a deletion.
THEOREM DeletionsFinish == RecSpec => []FinishedDeletionIsComplete
  <1>1. RecInit => UpdateInv /\ DeletionInv
    BY InitUpdates DEF RecInit, DeletionInv, Alone, DoneSoFar, Ended, Rest, Deleting
  <1>2. DeletionInv => FinishedDeletionIsComplete
    BY DEF DeletionInv, Ended, FinishedDeletionIsComplete
  <1> QED BY <1>1, <1>2, NextUpdates, NextDeletes, PTL DEF RecSpec

-----------------------------------------------------------------------------
(* Push tokens: a request only removes what it owns, and no request owns the *)
(* registration made last.                                                 *)

Removing3 == {"rmToken", "rmDevice", "rmIndex"}
CallRec == [op : Removing3 \cup {"getDevice", "getToken", "probeDevice", "probeIndex"},
            user : Account, device : Device \cup {Nobody}, token : PushToken \cup {Nobody}]
TokenEntry  == (Account \X Device) \cup {Nobody}
DeviceEntry == (Account \X PushToken) \cup {Nobody}
WorkerVars == [job : Job, user : Account \cup {Nobody}, device : Device \cup {Nobody},
               token : PushToken \cup {Nobody}, dev : DeviceEntry, tok : TokenEntry,
               chains : SUBSET Seq(CallRec), left : SUBSET (Device \X PushToken)]

\* The calls that the chains still hold.
Pending(chains, c) == \E ch \in chains : \E i \in 1..Len(ch) : ch[i] = c

\* What the calls of a request x are about, in each of its phases.
Owns(x, c) ==
    /\ x.job \in {"save", "check"} =>
          c \in {Call(op, x.user, x.device, x.token) : op \in {"getDevice", "getToken"}}
    /\ x.job = "delete" => c.op = "getToken" /\ c.token = x.token
    /\ x.job = "drop" => c.user = x.user /\ c.device \in Device /\ c.op \notin {"getDevice", "getToken"}
    /\ x.job = "notify" => c.user = x.user /\ c.op \in Removing3
    /\ x.job = "clean" =>
          /\ c.op \in Removing3
          /\ \/ c.device = x.device /\ x.dev = <<c.user, c.token>>
             \/ c.token = x.token /\ x.tok = <<c.user, c.device>>

WorkerOK(x) ==
    /\ x \in WorkerVars
    /\ \A ch \in x.chains : Len(ch) # 0
    /\ \A c \in CallRec : Pending(x.chains, c) => Owns(x, c)
    /\ x.job # "idle" => x.user \in Account
    /\ x.job \in {"save", "check"} => x.device \in Device /\ x.token \in PushToken
    /\ x.job = "delete" => x.token \in PushToken
    /\ x.job = "idle" => x.chains = {}

\* The request x will not take the registration of t to device d of user u away.
Spares(x, u, d, t) ==
    /\ \A c \in CallRec : Pending(x.chains, c) /\ c.op \in Removing3 =>
          <<c.user, c.device, c.token>> # <<u, d, t>>
    /\ x.job = "drop" => x.user # u
    /\ x.job = "delete" => ~(x.user = u /\ x.token = t)
    /\ x.job = "check" /\ x.user = u /\ x.device = d /\ x.token = t =>
          /\ Pending(x.chains, Call("getToken", u, d, t)) \/ x.tok = <<u, d>>
          /\ Pending(x.chains, Call("getDevice", u, d, t)) \/ x.dev = <<u, t>>

Treed ==
    /\ tokenOf \in [PushToken -> TokenEntry]
    /\ deviceOf \in [Device -> DeviceEntry]
    /\ indexOf \in [Account -> [Device -> PushToken \cup {Nobody}]]
    /\ latest \in [Device -> DeviceEntry]

Holds(u, d, t) == ~twice /\ latest[d] = <<u, t>>

PushInv ==
    /\ Treed
    /\ DOMAIN worker = Worker /\ worker = [w \in Worker |-> worker[w]]
    /\ \A w \in Worker : WorkerOK(worker[w])
    /\ \A u \in Account, d \in Device, t \in PushToken : Holds(u, d, t) =>
          /\ Current(u, d, t)
          /\ \A w \in Worker : Spares(worker[w], u, d, t)

-----------------------------------------------------------------------------
LEMMA OneWorker ==
    ASSUME PushInv, NEW w \in Worker, NEW y, WorkerOK(y), worker' = [worker EXCEPT ![w] = y],
           Treed', twice => twice',
           \A u \in Account, d \in Device, t \in PushToken : Holds(u, d, t)' =>
              Holds(u, d, t) /\ Current(u, d, t)' /\ Spares(y, u, d, t)
    PROVE  PushInv'
  <1>1. \A o \in Worker : worker'[o] = IF o = w THEN y ELSE worker[o]
    BY DEF PushInv
  <1>2. DOMAIN worker' = Worker /\ worker' = [o \in Worker |-> worker'[o]]
    BY DEF PushInv
  <1>3. \A o \in Worker : WorkerOK(worker'[o])
    BY <1>1 DEF PushInv
  <1>4. ASSUME NEW u \in Account, NEW d \in Device, NEW t \in PushToken, Holds(u, d, t)'
        PROVE  Current(u, d, t)' /\ \A o \in Worker : Spares(worker'[o], u, d, t)
    BY <1>1, <1>4 DEF PushInv
  <1> QED BY <1>2, <1>3, <1>4 DEF PushInv

\* Once a call was made, the chains of its request hold it no longer, and all the others.
LEMMA RemainingCalls ==
    ASSUME NEW chains \in SUBSET Seq(CallRec), NEW chain \in chains, Len(chain) # 0,
           \A ch \in chains : Len(ch) # 0,
           NEW rest, rest = (chains \ {chain}) \cup (IF Len(chain) = 1 THEN {} ELSE {Tail(chain)})
    PROVE  /\ rest \in SUBSET Seq(CallRec) /\ \A ch \in rest : Len(ch) # 0
           /\ \A c : Pending(rest, c) => Pending(chains, c)
           /\ \A c : Pending(chains, c) /\ c # chain[1] => Pending(rest, c)
           /\ chain[1] \in CallRec /\ Pending(chains, chain[1])
  <1>1. chain \in Seq(CallRec) /\ Len(chain) \in Nat /\ Len(chain) # 0
    OBVIOUS
  <1>2. chain[1] \in CallRec /\ 1 \in 1..Len(chain)
    BY <1>1
  <1>3. ASSUME Len(chain) # 1
        PROVE  /\ Tail(chain) \in Seq(CallRec) /\ Len(Tail(chain)) = Len(chain) - 1
               /\ Len(Tail(chain)) # 0
               /\ \A i \in 1..Len(Tail(chain)) : i + 1 \in 1..Len(chain) /\ Tail(chain)[i] = chain[i + 1]
    <2>1. Tail(chain) \in Seq(CallRec) /\ Len(Tail(chain)) = Len(chain) - 1
      BY <1>1
    <2>2. Len(Tail(chain)) # 0
      BY <1>1, <1>3, <2>1
    <2>3. ASSUME NEW i \in 1..Len(Tail(chain))
          PROVE  i + 1 \in 1..Len(chain) /\ Tail(chain)[i] = chain[i + 1]
      BY <1>1, <2>1, <2>3
    <2> QED BY <2>1, <2>2, <2>3
  <1>4. rest \in SUBSET Seq(CallRec) /\ \A ch \in rest : Len(ch) # 0
    BY <1>1, <1>3
  <1>5. ASSUME NEW c, Pending(rest, c) PROVE Pending(chains, c)
    BY <1>1, <1>3, <1>5 DEF Pending
  <1>6. ASSUME NEW c, Pending(chains, c), c # chain[1] PROVE Pending(rest, c)
    <2>0. PICK ch \in chains : \E i \in 1..Len(ch) : ch[i] = c
      BY <1>6 DEF Pending
    <2>1. PICK i \in 1..Len(ch) : ch[i] = c
      BY <2>0
    <2>2. CASE ch # chain
      BY <2>1, <2>2 DEF Pending
    <2>3. CASE ch = chain
      <3>1. i # 1 /\ Len(chain) # 1
        BY <1>1, <1>6, <2>1, <2>3
      <3>2. i - 1 \in 1..Len(Tail(chain)) /\ Tail(chain)[i - 1] = c
        BY <1>1, <1>3, <2>1, <2>3, <3>1
      <3> QED BY <3>1, <3>2 DEF Pending
    <2> QED BY <2>2, <2>3
  <1> QED BY <1>2, <1>4, <1>5, <1>6 DEF Pending

LEMMA CallsLeft ==
    ASSUME PushInv, NEW w \in Worker, NEW chain \in worker[w].chains,
           NEW x, x = worker[w]
    PROVE  /\ Remaining(w, chain) \in SUBSET Seq(CallRec)
           /\ \A ch \in Remaining(w, chain) : Len(ch) # 0
           /\ \A c : Pending(Remaining(w, chain), c) => Pending(x.chains, c)
           /\ \A c : Pending(x.chains, c) /\ c # chain[1] => Pending(Remaining(w, chain), c)
           /\ chain[1] \in CallRec /\ Pending(x.chains, chain[1])
  <1>1. x.chains \in SUBSET Seq(CallRec) /\ chain \in x.chains /\ (\A ch \in x.chains : Len(ch) # 0)
    BY DEF PushInv, WorkerOK, WorkerVars
  <1>2. Len(chain) # 0
    BY <1>1
  <1>3. PICK chains \in SUBSET Seq(CallRec) : chains = x.chains
    BY <1>1
  <1>4. PICK rest : rest = (chains \ {chain}) \cup (IF Len(chain) = 1 THEN {} ELSE {Tail(chain)})
    OBVIOUS
  <1>5. Remaining(w, chain) = rest
    BY <1>3, <1>4 DEF Remaining
  <1> QED BY <1>1, <1>2, <1>3, <1>4, <1>5, RemainingCalls

\* A check of the registration keeps what it has read of it, and call c reads the rest.
ReadsOn(x, y, c, u, d, t) ==
    x.job = "check" /\ x.user = u /\ x.device = d /\ x.token = t =>
        /\ x.tok = <<u, d>> \/ c = Call("getToken", u, d, t) => y.tok = <<u, d>>
        /\ x.dev = <<u, t>> \/ c = Call("getDevice", u, d, t) => y.dev = <<u, t>>

\* What one call does to its request, of which y is the new state.
LEMMA CallMade ==
    ASSUME PushInv, NEW w \in Worker, NEW chain \in worker[w].chains,
           NEW x, x = worker[w], NEW y, y \in WorkerVars, worker' = [worker EXCEPT ![w] = y],
           y.job = x.job, y.user = x.user, y.device = x.device, y.token = x.token,
           y.chains = Remaining(w, chain),
           x.job = "clean" => y.dev = x.dev /\ y.tok = x.tok,
           Treed', UNCHANGED <<latest, twice>>,
           \A u \in Account, d \in Device, t \in PushToken : Holds(u, d, t) /\ Current(u, d, t) =>
              Current(u, d, t)' /\ ReadsOn(x, y, chain[1], u, d, t)
    PROVE  PushInv'
  <1>1. WorkerOK(x)
    BY DEF PushInv
  <1>2. /\ \A ch \in y.chains : Len(ch) # 0
        /\ \A c : Pending(y.chains, c) => Pending(x.chains, c)
        /\ \A c : Pending(x.chains, c) /\ c # chain[1] => Pending(y.chains, c)
        /\ chain[1] \in CallRec /\ Pending(x.chains, chain[1])
    BY CallsLeft
  <1>3. WorkerOK(y)
    <2>1. \A c \in CallRec : Pending(y.chains, c) => Owns(y, c)
      BY <1>1, <1>2 DEF WorkerOK, Owns
    <2>2. x.job # "idle"
      BY <1>1 DEF WorkerOK
    <2> QED BY <1>1, <1>2, <2>1, <2>2 DEF WorkerOK
  <1>4. ASSUME NEW u \in Account, NEW d \in Device, NEW t \in PushToken, Holds(u, d, t)'
        PROVE  Holds(u, d, t) /\ Current(u, d, t)' /\ Spares(y, u, d, t)
    <2>1. Holds(u, d, t) /\ Current(u, d, t) /\ Spares(x, u, d, t)
      BY <1>4 DEF PushInv, Holds
    <2>2. Spares(y, u, d, t)
      BY <1>2, <2>1 DEF Spares, ReadsOn
    <2> QED BY <2>1, <2>2
  <1> QED BY <1>3, <1>4, OneWorker

LEMMA RemoveCallOK ==
    ASSUME PushInv, NEW w \in Worker, NEW chain \in worker[w].chains, RemoveCall(w, chain),
           UNCHANGED <<requests, latest, twice>>
    PROVE  PushInv'
  <1>1. PICK x \in WorkerVars : x = worker[w] /\ WorkerOK(x)
    BY DEF PushInv, WorkerOK
  <1>2. Remaining(w, chain) \in SUBSET Seq(CallRec) /\ chain[1] \in CallRec /\ Pending(x.chains, chain[1])
    BY <1>1, CallsLeft
  <1>3. PICK y \in WorkerVars : y = [x EXCEPT !.chains = Remaining(w, chain)]
    BY <1>2 DEF WorkerVars
  <1>4. worker' = [worker EXCEPT ![w] = y]
    BY <1>1, <1>3 DEF RemoveCall, PushInv
  <1>5. /\ y.job = x.job /\ y.user = x.user /\ y.device = x.device /\ y.token = x.token
        /\ y.chains = Remaining(w, chain) /\ y.dev = x.dev /\ y.tok = x.tok
    BY <1>3 DEF WorkerVars
  <1>6. PICK c \in CallRec : c = chain[1] /\ c.op \in Removing3
    BY <1>2 DEF RemoveCall, Removing3
  <1>7. \A e, g : Without(e, g) \in {e, Nobody}
    BY DEF Without
  <1>8. Treed'
    <2>1. CASE c.op = "rmToken"
      BY <1>6, <1>7, <2>1 DEF RemoveCall, PushInv, Treed, TokenEntry
    <2>2. CASE c.op = "rmDevice"
      BY <1>6, <1>7, <2>2 DEF RemoveCall, PushInv, Treed, DeviceEntry
    <2>3. CASE c.op = "rmIndex"
      <3>1. PICK f \in [Device -> PushToken \cup {Nobody}] : f = indexOf[c.user]
        BY DEF PushInv, Treed, CallRec
      <3>2. [f EXCEPT ![c.device] = Without(@, c.token)] \in [Device -> PushToken \cup {Nobody}]
        BY <1>7
      <3>3. /\ indexOf' = [indexOf EXCEPT ![c.user] = [f EXCEPT ![c.device] = Without(@, c.token)]]
            /\ UNCHANGED <<tokenOf, deviceOf>>
        BY <1>6, <2>3, <3>1 DEF RemoveCall, PushInv, Treed, CallRec
      <3> QED BY <3>2, <3>3 DEF PushInv, Treed
    <2> QED BY <1>6, <2>1, <2>2, <2>3 DEF Removing3
  <1>9. x.job # "check"
    BY <1>1, <1>2, <1>6 DEF WorkerOK, Owns, Call, Removing3
  <1>10. ASSUME NEW u \in Account, NEW d \in Device, NEW t \in PushToken,
               Holds(u, d, t), Current(u, d, t)
        PROVE  Current(u, d, t)' /\ ReadsOn(x, y, chain[1], u, d, t)
    <2>0. ReadsOn(x, y, chain[1], u, d, t)
      BY <1>9 DEF ReadsOn
    <2>1. <<c.user, c.device, c.token>> # <<u, d, t>>
      BY <1>1, <1>2, <1>6, <1>10 DEF PushInv, Spares
    <2>2. CASE c.op = "rmToken"
      BY <1>6, <1>10, <2>0, <2>1, <2>2 DEF RemoveCall, Current, Without, PushInv, Treed
    <2>3. CASE c.op = "rmDevice"
      BY <1>6, <1>10, <2>0, <2>1, <2>3 DEF RemoveCall, Current, Without, PushInv, Treed
    <2>4. CASE c.op = "rmIndex"
      BY <1>6, <1>10, <2>0, <2>1, <2>4 DEF RemoveCall, Current, Without, PushInv, Treed
    <2> QED BY <1>6, <2>2, <2>3, <2>4 DEF Removing3
  <1> QED BY <1>1, <1>4, <1>5, <1>3, <1>8, <1>10, CallMade

LEMMA ReadCallOK ==
    ASSUME PushInv, NEW w \in Worker, NEW chain \in worker[w].chains, ReadCall(w, chain),
           UNCHANGED <<requests, latest, twice>>
    PROVE  PushInv'
  <1>1. PICK x \in WorkerVars : x = worker[w] /\ WorkerOK(x)
    BY DEF PushInv, WorkerOK
  <1>2. Remaining(w, chain) \in SUBSET Seq(CallRec) /\ chain[1] \in CallRec /\ Pending(x.chains, chain[1])
    BY <1>1, CallsLeft
  <1>3. PICK c \in CallRec : c = chain[1] /\ c.op \in {"getDevice", "getToken"}
    BY <1>2 DEF ReadCall
  <1>4. x.job \in {"save", "check", "delete"}
    BY <1>1, <1>2, <1>3 DEF WorkerOK, Owns, Call, Removing3, WorkerVars, Job
  <1>5. c.token \in PushToken /\ (c.op = "getDevice" => c.device \in Device)
    BY <1>1, <1>2, <1>3, <1>4 DEF WorkerOK, Owns, Call
  <1>6. Treed'
    BY DEF ReadCall, PushInv, Treed, trees
  <1>7. CASE c.op = "getDevice"
    <2>1. PICK y \in WorkerVars : y = [x EXCEPT !.dev = deviceOf[c.device], !.chains = Remaining(w, chain)]
      BY <1>2, <1>5, <1>7 DEF WorkerVars, PushInv, Treed
    <2>2. worker' = [worker EXCEPT ![w] = y]
      BY <1>1, <1>3, <1>7, <2>1 DEF ReadCall, PushInv
    <2>3. /\ y.job = x.job /\ y.user = x.user /\ y.device = x.device /\ y.token = x.token
          /\ y.chains = Remaining(w, chain) /\ y.dev = deviceOf[c.device] /\ y.tok = x.tok
      BY <2>1 DEF WorkerVars
    <2>4. x.job = "check" => c.device = x.device
      BY <1>1, <1>2, <1>3 DEF WorkerOK, Owns, Call
    <2>5. ASSUME NEW u \in Account, NEW d \in Device, NEW t \in PushToken,
                 Holds(u, d, t), Current(u, d, t)
          PROVE  Current(u, d, t)' /\ ReadsOn(x, y, chain[1], u, d, t)
      BY <1>3, <1>7, <2>3, <2>4, <2>5 DEF ReadCall, Current, trees, Call, ReadsOn
    <2>6. x.job = "clean" => y.dev = x.dev /\ y.tok = x.tok
      BY <1>4
    <2> QED BY <1>1, <1>6, <2>1, <2>2, <2>3, <2>5, <2>6, CallMade
  <1>8. CASE c.op = "getToken"
    <2>1. PICK y \in WorkerVars : y = [x EXCEPT !.tok = tokenOf[c.token], !.chains = Remaining(w, chain)]
      BY <1>2, <1>5 DEF WorkerVars, PushInv, Treed
    <2>2. worker' = [worker EXCEPT ![w] = y]
      BY <1>1, <1>3, <1>8, <2>1 DEF ReadCall, PushInv
    <2>3. /\ y.job = x.job /\ y.user = x.user /\ y.device = x.device /\ y.token = x.token
          /\ y.chains = Remaining(w, chain) /\ y.tok = tokenOf[c.token] /\ y.dev = x.dev
      BY <2>1 DEF WorkerVars
    <2>4. x.job = "check" => c.token = x.token
      BY <1>1, <1>2, <1>3 DEF WorkerOK, Owns, Call
    <2>5. ASSUME NEW u \in Account, NEW d \in Device, NEW t \in PushToken,
                 Holds(u, d, t), Current(u, d, t)
          PROVE  Current(u, d, t)' /\ ReadsOn(x, y, chain[1], u, d, t)
      BY <1>3, <1>8, <2>3, <2>4, <2>5 DEF ReadCall, Current, trees, Call, ReadsOn
    <2>6. x.job = "clean" => y.dev = x.dev /\ y.tok = x.tok
      BY <1>4
    <2> QED BY <1>1, <1>6, <2>1, <2>2, <2>3, <2>5, <2>6, CallMade
  <1> QED BY <1>3, <1>7, <1>8

\* A set of chains of one call each.
LEMMA Singles ==
    ASSUME NEW chains, \A ch \in chains : \E e \in CallRec : ch = <<e>>
    PROVE  /\ chains \in SUBSET Seq(CallRec) /\ \A ch \in chains : Len(ch) # 0
           /\ \A c : Pending(chains, c) <=> c \in CallRec /\ <<c>> \in chains
  <1>1. \A e \in CallRec : <<e>> \in Seq(CallRec) /\ Len(<<e>>) = 1 /\ <<e>>[1] = e
    OBVIOUS
  <1>2. chains \in SUBSET Seq(CallRec) /\ \A ch \in chains : Len(ch) = 1
    BY <1>1
  <1>3. ASSUME NEW c, Pending(chains, c) PROVE c \in CallRec /\ <<c>> \in chains
    <2>1. PICK ch \in chains : \E i \in 1..Len(ch) : ch[i] = c
      BY <1>3 DEF Pending
    <2>2. PICK e \in CallRec : ch = <<e>>
      BY <2>1
    <2>3. c = e
      BY <1>1, <2>1, <2>2
    <2> QED BY <2>1, <2>2, <2>3
  <1>4. ASSUME NEW c \in CallRec, <<c>> \in chains PROVE Pending(chains, c)
    BY <1>1, <1>4 DEF Pending
  <1> QED BY <1>2, <1>3, <1>4

LEMMA ProbeCallOK ==
    ASSUME PushInv, NEW w \in Worker, NEW chain \in worker[w].chains, ProbeCall(w, chain),
           UNCHANGED <<requests, latest, twice>>
    PROVE  PushInv'
  <1>1. PICK x \in WorkerVars : x = worker[w] /\ WorkerOK(x)
    BY DEF PushInv, WorkerOK
  <1>2. /\ Remaining(w, chain) \in SUBSET Seq(CallRec)
        /\ \A ch \in Remaining(w, chain) : Len(ch) # 0
        /\ \A c : Pending(Remaining(w, chain), c) => Pending(x.chains, c)
        /\ chain[1] \in CallRec /\ Pending(x.chains, chain[1])
    BY <1>1, CallsLeft
  <1>3. PICK c \in CallRec : c = chain[1] /\ c.op \in {"probeDevice", "probeIndex"}
    BY <1>2 DEF ProbeCall
  <1>4. x.job = "drop" /\ c.user = x.user /\ c.user \in Account /\ c.device \in Device
    BY <1>1, <1>2, <1>3 DEF WorkerOK, Owns, Call, WorkerVars, Job, Removing3, Pending
  <1> DEFINE owner == deviceOf[c.device]
             token == IF c.token # Nobody THEN c.token ELSE indexOf[c.user][c.device]
             found == IF owner # Nobody /\ owner[1] = c.user THEN owner[2] ELSE Nobody
             next  == IF c.op = "probeDevice"
                      THEN {<<Call("probeIndex", c.user, c.device, found)>>}
                      ELSE IF token = Nobody THEN {} ELSE Removals(c.user, c.device, token)
  <1>5. token \in PushToken \cup {Nobody} /\ found \in PushToken \cup {Nobody}
    BY <1>4 DEF PushInv, Treed, DeviceEntry, CallRec
  <1>6. \A ch \in next : \E e \in CallRec : /\ ch = <<e>> /\ e.user = x.user /\ e.device \in Device
                                            /\ e.op \notin {"getDevice", "getToken"}
    BY <1>4, <1>5 DEF Call, Removals, CallRec, Removing3
  <1> HIDE DEF next
  <1>7. /\ worker' = [worker EXCEPT ![w].chains = Remaining(w, chain) \cup next]
        /\ UNCHANGED trees
    BY <1>3 DEF ProbeCall, next, token, owner, found
  <1>8. next \in SUBSET Seq(CallRec) /\ \A ch \in next : Len(ch) # 0
    <2>1. \A ch \in next : \E e \in CallRec : ch = <<e>>
      BY <1>6
    <2> QED BY <2>1, Singles
  <1>9. PICK y \in WorkerVars : y = [x EXCEPT !.chains = Remaining(w, chain) \cup next]
    BY <1>2, <1>8 DEF WorkerVars
  <1>10. /\ y.job = "drop" /\ y.user = x.user /\ y.chains = Remaining(w, chain) \cup next
    BY <1>4, <1>9 DEF WorkerVars
  <1>11. worker' = [worker EXCEPT ![w] = y]
    BY <1>1, <1>7, <1>9 DEF PushInv
  <1>12. ASSUME NEW e \in CallRec, Pending(y.chains, e)
         PROVE  e.user = x.user /\ e.device \in Device /\ e.op \notin {"getDevice", "getToken"}
    <2>1. PICK ch \in y.chains : \E i \in 1..Len(ch) : ch[i] = e
      BY <1>12 DEF Pending
    <2>2. CASE ch \in next
      BY <1>6, <2>1, <2>2
    <2>3. CASE ch \in Remaining(w, chain)
      <3>1. Pending(x.chains, e)
        BY <1>2, <2>1, <2>3 DEF Pending
      <3> QED BY <1>1, <1>4, <3>1 DEF WorkerOK, Owns
    <2> QED BY <1>10, <2>1, <2>2, <2>3
  <1>13. WorkerOK(y)
    BY <1>1, <1>2, <1>4, <1>8, <1>10, <1>12 DEF WorkerOK, Owns
  <1>14. Treed'
    BY <1>7 DEF PushInv, Treed, trees
  <1>15. ASSUME NEW u \in Account, NEW d \in Device, NEW t \in PushToken, Holds(u, d, t)'
         PROVE  Holds(u, d, t) /\ Current(u, d, t)' /\ Spares(y, u, d, t)
    <2>1. Holds(u, d, t) /\ Current(u, d, t) /\ Spares(x, u, d, t)
      BY <1>1, <1>15 DEF PushInv, Holds
    <2>2. Current(u, d, t)'
      BY <1>7, <2>1 DEF Current, trees
    <2>3. Spares(y, u, d, t)
      BY <1>4, <1>10, <1>12, <2>1 DEF Spares
    <2> QED BY <2>1, <2>2, <2>3
  <1> QED BY <1>11, <1>13, <1>14, <1>15, OneWorker

\* The requests that begin, and those that go from one phase to the next.
LEMMA OneCall ==
    ASSUME NEW e \in CallRec
    PROVE  /\ <<e>> \in Seq(CallRec) /\ Len(<<e>>) = 1
           /\ \A c : Pending({<<e>>}, c) <=> c = e
  <1>1. <<e>> \in Seq(CallRec) /\ Len(<<e>>) = 1 /\ <<e>>[1] = e
    OBVIOUS
  <1>2. \A ch \in {<<e>>} : 1..Len(ch) = {1} /\ ch[1] = e
    BY <1>1
  <1> QED BY <1>1, <1>2 DEF Pending

LEMMA NoCalls == \A c : ~Pending({}, c)
  BY DEF Pending

LEMMA CallIs ==
    ASSUME NEW op, NEW u, NEW d, NEW t
    PROVE  LET c == Call(op, u, d, t) IN c.op = op /\ c.user = u /\ c.device = d /\ c.token = t
  BY DEF Call

LEMMA IdleOK == IdleWorker \in WorkerVars /\ IdleWorker.job = "idle" /\ IdleWorker.chains = {} /\ WorkerOK(IdleWorker)
  <1>1. IdleWorker \in WorkerVars /\ IdleWorker.job = "idle" /\ IdleWorker.chains = {}
    BY DEF IdleWorker, WorkerVars, Job, TokenEntry, DeviceEntry
  <1> QED BY <1>1, NoCalls DEF WorkerOK

\* A step that leaves the trees alone, and may let go of registrations.
LEMMA PhaseOK ==
    ASSUME PushInv, NEW w \in Worker, NEW y, WorkerOK(y), worker' = [worker EXCEPT ![w] = y],
           UNCHANGED <<trees, twice>>, latest' \in [Device -> DeviceEntry],
           \A d \in Device : latest'[d] \in {latest[d], Nobody},
           \A u \in Account, d \in Device, t \in PushToken :
              latest'[d] = <<u, t>> /\ Spares(worker[w], u, d, t) /\ Current(u, d, t) => Spares(y, u, d, t)
    PROVE  PushInv'
  <1>1. ASSUME NEW u \in Account, NEW d \in Device, NEW t \in PushToken, Holds(u, d, t)'
        PROVE  Holds(u, d, t) /\ Current(u, d, t)' /\ Spares(y, u, d, t)
    <2>1. latest'[d] = <<u, t>> /\ ~twice
      BY <1>1 DEF Holds
    <2>2. latest[d] = <<u, t>>
      BY <2>1, PushAssumption
    <2>3. Current(u, d, t) /\ Spares(worker[w], u, d, t)
      BY <2>1, <2>2 DEF PushInv, Holds
    <2>4. Current(u, d, t)'
      BY <2>3 DEF Current, trees
    <2> QED BY <2>1, <2>2, <2>3, <2>4 DEF Holds
  <1>2. Treed'
    BY DEF PushInv, Treed, trees
  <1> QED BY <1>1, <1>2, OneWorker

LEMMA RestOK ==
    ASSUME PushInv, NEW w \in Worker, worker' = [worker EXCEPT ![w] = IdleWorker],
           UNCHANGED <<trees, latest, twice>>
    PROVE  PushInv'
  <1>1. \A u, d, t : Spares(IdleWorker, u, d, t)
    BY IdleOK, NoCalls DEF Spares
  <1> QED BY <1>1, IdleOK, PhaseOK DEF PushInv, Treed

\* A request that begins.
Begun(job, u, d, t, chains) ==
    [IdleWorker EXCEPT !.job = job, !.user = u, !.device = d, !.token = t, !.chains = chains]

\* It first reads, with single calls that are its own, and knows of no registration it would remove.
Begins(job, u, d, t, chains) ==
    /\ \A ch \in chains : \E e \in CallRec : ch = <<e>> /\ e.op \notin Removing3
    /\ \A c \in CallRec : Pending(chains, c) => Owns(Begun(job, u, d, t, chains), c)

LetsGo(job, u, t) ==
    /\ latest' \in [Device -> DeviceEntry]
    /\ \A g \in Device : latest'[g] \in {latest[g], Nobody}
    /\ \A v \in Account, g \in Device, s \in PushToken : latest'[g] = <<v, s>> =>
          (job = "drop" => v # u) /\ (job = "delete" => ~(v = u /\ s = t))

LEMMA BegunIs ==
    ASSUME NEW job \in Job, NEW u \in Account, NEW d \in Device \cup {Nobody},
           NEW t \in PushToken \cup {Nobody}, NEW chains \in SUBSET Seq(CallRec)
    PROVE  LET y == Begun(job, u, d, t, chains)
           IN  /\ y \in WorkerVars /\ y.job = job /\ y.user = u /\ y.device = d /\ y.token = t
               /\ y.chains = chains
  BY IdleOK DEF Begun, WorkerVars

LEMMA StartOK ==
    ASSUME PushInv, NEW w \in Worker, NEW job \in Job, job \notin {"idle", "clean", "check"},
           NEW u \in Account, NEW d \in Device \cup {Nobody}, NEW t \in PushToken \cup {Nobody},
           NEW chains, Begins(job, u, d, t, chains), LetsGo(job, u, t),
           Starts(w, job, u, d, t, chains), UNCHANGED <<trees, twice>>,
           job = "save" => d \in Device, job \in {"save", "delete"} => t \in PushToken
    PROVE  PushInv'
  <1>1. /\ chains \in SUBSET Seq(CallRec) /\ \A ch \in chains : Len(ch) # 0
        /\ \A c : Pending(chains, c) => c \in CallRec /\ c.op \notin Removing3
    <2>1. \A ch \in chains : \E e \in CallRec : ch = <<e>>
      BY DEF Begins
    <2>2. /\ chains \in SUBSET Seq(CallRec) /\ \A ch \in chains : Len(ch) # 0
          /\ \A c : Pending(chains, c) <=> c \in CallRec /\ <<c>> \in chains
      BY <2>1, Singles
    <2>3. ASSUME NEW c \in CallRec, <<c>> \in chains PROVE c.op \notin Removing3
      <3>1. PICK e \in CallRec : <<c>> = <<e>> /\ e.op \notin Removing3
        BY <2>3 DEF Begins
      <3> QED BY <3>1
    <2> QED BY <2>2, <2>3
  <1>2. PICK y \in WorkerVars :
            /\ y = Begun(job, u, d, t, chains)
            /\ y.job = job /\ y.user = u /\ y.device = d /\ y.token = t /\ y.chains = chains
    BY <1>1, BegunIs
  <1>3. WorkerOK(y)
    BY <1>1, <1>2 DEF WorkerOK, Begins
  <1>4. worker' = [worker EXCEPT ![w] = y]
    BY <1>2 DEF Starts, Begun
  <1>5. ASSUME NEW v \in Account, NEW g \in Device, NEW s \in PushToken, latest'[g] = <<v, s>>
        PROVE  Spares(y, v, g, s)
    BY <1>1, <1>2, <1>5 DEF Spares, LetsGo
  <1> QED BY <1>3, <1>4, <1>5, PhaseOK DEF LetsGo

\* What a deletion lets go of.
LEMMA GivenUpIs ==
    ASSUME PushInv, NEW u \in Account, NEW tokens \in SUBSET PushToken, GivenUp(u, tokens)
    PROVE  /\ latest' \in [Device -> DeviceEntry]
           /\ \A g \in Device : latest'[g] \in {latest[g], Nobody}
           /\ \A g \in Device, t \in tokens : latest'[g] # <<u, t>>
  <1>1. latest \in [Device -> DeviceEntry]
    BY DEF PushInv, Treed
  <1>2. Nobody \in DeviceEntry /\ \A t \in PushToken : <<u, t>> # Nobody
    BY PushAssumption DEF DeviceEntry
  <1>3. \A g \in Device : latest'[g] = IF \E t \in tokens : latest[g] = <<u, t>> THEN Nobody ELSE latest[g]
    BY DEF GivenUp
  <1>4. \A g \in Device : latest'[g] \in {latest[g], Nobody}
    BY <1>3
  <1>5. latest' \in [Device -> DeviceEntry]
    BY <1>1, <1>2 DEF GivenUp
  <1>6. \A g \in Device, t \in tokens : latest'[g] # <<u, t>>
    BY <1>2, <1>3
  <1> QED BY <1>4, <1>5, <1>6

LEMMA CallsAre ==
    ASSUME NEW op \in Removing3 \cup {"getDevice", "getToken", "probeDevice", "probeIndex"},
           NEW u \in Account, NEW d \in Device \cup {Nobody}, NEW t \in PushToken \cup {Nobody}
    PROVE  Call(op, u, d, t) \in CallRec
  BY DEF Call, CallRec

LEMMA SaveOK ==
    ASSUME PushInv, NEW w \in Worker, NEW u \in Account, NEW d \in Device, NEW t \in PushToken, Save(w, u, d, t)
    PROVE  PushInv'
  <1> DEFINE chains == {<<Call("getDevice", u, d, t)>>, <<Call("getToken", u, d, t)>>}
  <1>1. Starts(w, "save", u, d, t, chains) /\ UNCHANGED <<trees, twice>>
    BY DEF Save
  <1>2. \A ch \in chains : \E e \in CallRec : ch = <<e>> /\ e.op \notin Removing3
    BY CallsAre, CallIs DEF Removing3
  <1> HIDE DEF chains
  <1>8. PICK y : y = Begun("save", u, d, t, chains)
    OBVIOUS
  <1>3. y.job = "save" /\ y.user = u /\ y.device = d /\ y.token = t
    BY <1>8 DEF Begun, IdleWorker
  <1>4. ASSUME NEW c \in CallRec, Pending(chains, c) PROVE Owns(y, c)
    <2>1. <<c>> \in chains
      BY <1>2, <1>4, Singles
    <2>2. c \in {Call(op, u, d, t) : op \in {"getDevice", "getToken"}}
      BY <2>1 DEF chains
    <2> QED BY <1>3, <2>2, CallIs DEF Owns
  <1>5. LetsGo("save", u, t)
    BY DEF LetsGo, Save, PushInv, Treed
  <1>6. Begins("save", u, d, t, chains)
    BY <1>2, <1>8, <1>4 DEF Begins
  <1>7. "save" \in Job
    BY DEF Job
  <1> QED BY <1>1, <1>5, <1>6, <1>7, StartOK

LEMMA DeleteTokenOK ==
    ASSUME PushInv, NEW w \in Worker, NEW u \in Account, NEW t \in PushToken, DeleteToken(w, u, t)
    PROVE  PushInv'
  <1> DEFINE chains == {<<Call("getToken", u, Nobody, t)>>}
  <1>1. Starts(w, "delete", u, Nobody, t, chains) /\ UNCHANGED <<trees, twice>>
    BY DEF DeleteToken
  <1>2. \A ch \in chains : \E e \in CallRec : ch = <<e>> /\ e.op \notin Removing3
    BY CallsAre, CallIs DEF Removing3
  <1> HIDE DEF chains
  <1>8. PICK y : y = Begun("delete", u, Nobody, t, chains)
    OBVIOUS
  <1>3. y.job = "delete" /\ y.user = u /\ y.device = Nobody /\ y.token = t
    BY <1>8 DEF Begun, IdleWorker
  <1>4. ASSUME NEW c \in CallRec, Pending(chains, c) PROVE Owns(y, c)
    <2>1. <<c>> \in chains
      BY <1>2, <1>4, Singles
    <2>2. c = Call("getToken", u, Nobody, t)
      BY <2>1 DEF chains
    <2> QED BY <1>3, <2>2, CallIs DEF Owns
  <1>5. LetsGo("delete", u, t)
    BY GivenUpIs DEF LetsGo, DeleteToken
  <1>6. Begins("delete", u, Nobody, t, chains)
    BY <1>2, <1>8, <1>4 DEF Begins
  <1>7. "delete" \in Job
    BY DEF Job
  <1> QED BY <1>1, <1>5, <1>6, <1>7, StartOK

LEMMA DropUserOK ==
    ASSUME PushInv, NEW w \in Worker, NEW u \in Account, DropUser(w, u)
    PROVE  PushInv'
  <1> DEFINE chains == {<<Call("probeDevice", u, d, Nobody)>> : d \in {e \in Device : indexOf[u][e] # Nobody}}
  <1>1. Starts(w, "drop", u, Nobody, Nobody, chains) /\ UNCHANGED <<trees, twice>>
    BY DEF DropUser
  <1>2. \A ch \in chains : \E e \in CallRec : ch = <<e>> /\ e.op \notin Removing3
    BY CallsAre, CallIs DEF Removing3
  <1> HIDE DEF chains
  <1>8. PICK y : y = Begun("drop", u, Nobody, Nobody, chains)
    OBVIOUS
  <1>3. y.job = "drop" /\ y.user = u /\ y.device = Nobody /\ y.token = Nobody
    BY <1>8 DEF Begun, IdleWorker
  <1>4. ASSUME NEW c \in CallRec, Pending(chains, c) PROVE Owns(y, c)
    <2>1. <<c>> \in chains
      BY <1>2, <1>4, Singles
    <2>2. PICK d \in Device : c = Call("probeDevice", u, d, Nobody)
      BY <2>1 DEF chains
    <2> QED BY <1>3, <2>2, CallIs DEF Owns
  <1>5. LetsGo("drop", u, Nobody)
    BY GivenUpIs DEF LetsGo, DropUser
  <1>6. Begins("drop", u, Nobody, Nobody, chains)
    BY <1>2, <1>8, <1>4 DEF Begins
  <1>7. "drop" \in Job
    BY DEF Job
  <1> QED BY <1>1, <1>5, <1>6, <1>7, StartOK

LEMMA NotifyOK ==
    ASSUME PushInv, NEW w \in Worker, NEW u \in Account, Notify(w, u)
    PROVE  PushInv'
  <1> DEFINE left == {<<d, indexOf[u][d]>> : d \in {e \in Device : indexOf[u][e] # Nobody}}
  <1>1. left \in SUBSET (Device \X PushToken)
    BY DEF PushInv, Treed
  <1>2. PICK y : y = [IdleWorker EXCEPT !.job = "notify", !.user = u, !.left = left]
    OBVIOUS
  <1>3. y \in WorkerVars /\ y.job = "notify" /\ y.user = u /\ y.chains = {}
    BY <1>1, <1>2, IdleOK DEF WorkerVars, Job
  <1>4. worker' = [worker EXCEPT ![w] = y] /\ UNCHANGED <<trees, latest, twice>>
    BY <1>2 DEF Notify
  <1>5. WorkerOK(y)
    BY <1>3, NoCalls DEF WorkerOK
  <1>6. \A v, g, s : Spares(y, v, g, s)
    BY <1>3, NoCalls DEF Spares
  <1> QED BY <1>4, <1>5, <1>6, PhaseOK DEF PushInv, Treed

LEMMA DeleteFoundOK ==
    ASSUME PushInv, NEW w \in Worker, DeleteFound(w)
    PROVE  PushInv'
  <1>1. PICK x \in WorkerVars : x = worker[w] /\ WorkerOK(x)
    BY DEF PushInv, WorkerOK
  <1> DEFINE chains == IF x.tok = Nobody \/ x.tok[1] # x.user THEN {}
                       ELSE Removals(x.user, x.tok[2], x.token)
  <1>2. x.job = "delete" /\ x.user \in Account /\ x.token \in PushToken
    BY <1>1 DEF DeleteFound, WorkerOK
  <1>3. \A ch \in chains : \E e \in CallRec : /\ ch = <<e>> /\ e.op \in Removing3 /\ e.token = x.token
                                              /\ e.user = x.user /\ x.tok = <<e.user, e.device>>
    <2> SUFFICES ASSUME x.tok # Nobody, x.tok[1] = x.user, NEW ch \in Removals(x.user, x.tok[2], x.token)
                 PROVE  \E e \in CallRec : /\ ch = <<e>> /\ e.op \in Removing3 /\ e.token = x.token
                                           /\ e.user = x.user /\ x.tok = <<e.user, e.device>>
      OBVIOUS
    <2>1. x.tok[2] \in Device /\ x.tok = <<x.user, x.tok[2]>>
      BY DEF WorkerVars, TokenEntry
    <2>2. PICK op \in Removing3 : ch = <<Call(op, x.user, x.tok[2], x.token)>>
      BY DEF Removals, Removing3
    <2>3. Call(op, x.user, x.tok[2], x.token) \in CallRec
      BY <1>2, <2>1, CallsAre
    <2> QED BY <2>1, <2>2, <2>3, CallIs
  <1> HIDE DEF chains
  <1>4. /\ chains \in SUBSET Seq(CallRec) /\ \A ch \in chains : Len(ch) # 0
        /\ \A c : Pending(chains, c) => c \in CallRec /\ <<c>> \in chains
    <2>1. \A ch \in chains : \E e \in CallRec : ch = <<e>>
      BY <1>3
    <2> QED BY <2>1, Singles
  <1>5. PICK y \in WorkerVars : y = [x EXCEPT !.job = "clean", !.chains = chains]
    BY <1>4 DEF WorkerVars, Job
  <1>6. /\ y.job = "clean" /\ y.user = x.user /\ y.token = x.token /\ y.tok = x.tok /\ y.chains = chains
    BY <1>5 DEF WorkerVars
  <1>7. worker' = [worker EXCEPT ![w] = y] /\ UNCHANGED <<trees, latest, twice>>
    BY <1>1, <1>5 DEF DeleteFound, PushInv, chains
  <1>8. ASSUME NEW c \in CallRec, Pending(y.chains, c)
        PROVE  /\ c.op \in Removing3 /\ c.token = x.token /\ c.user = x.user
               /\ x.tok = <<c.user, c.device>>
    <2>1. PICK e \in CallRec : /\ <<c>> = <<e>> /\ e.op \in Removing3 /\ e.token = x.token
                               /\ e.user = x.user /\ x.tok = <<e.user, e.device>>
      BY <1>3, <1>4, <1>6, <1>8
    <2> QED BY <2>1
  <1>9. WorkerOK(y)
    BY <1>2, <1>4, <1>6, <1>8 DEF WorkerOK, Owns
  <1>10. \A v, g, s : Spares(x, v, g, s) => Spares(y, v, g, s)
    BY <1>2, <1>6, <1>8 DEF Spares
  <1> QED BY <1>1, <1>7, <1>9, <1>10, PhaseOK DEF PushInv, Treed

LEMMA EndsOK ==
    ASSUME PushInv, NEW w \in Worker, EndRequest(w) \/ RequestFails(w)
    PROVE  PushInv'
  BY RestOK DEF EndRequest, RequestFails

LEMMA DropIndexOK ==
    ASSUME PushInv, NEW w \in Worker, DropIndex(w)
    PROVE  PushInv'
  <1>1. PICK x \in WorkerVars : x = worker[w] /\ WorkerOK(x) /\ x.job = "drop" /\ x.user \in Account
    BY DEF PushInv, WorkerOK, DropIndex
  <1>2. indexOf' = [indexOf EXCEPT ![x.user] = [d \in Device |-> Nobody]]
        /\ UNCHANGED <<tokenOf, deviceOf, latest, twice>>
    BY <1>1 DEF DropIndex
  <1>3. Treed'
    BY <1>1, <1>2 DEF PushInv, Treed
  <1>4. ASSUME NEW u \in Account, NEW d \in Device, NEW t \in PushToken, Holds(u, d, t)'
        PROVE  Holds(u, d, t) /\ Current(u, d, t)' /\ Spares(IdleWorker, u, d, t)
    <2>1. Holds(u, d, t) /\ Current(u, d, t) /\ x.user # u
      BY <1>1, <1>2, <1>4 DEF PushInv, Holds, Spares
    <2>2. Current(u, d, t)'
      BY <1>1, <1>2, <2>1 DEF PushInv, Treed, Current
    <2>3. Spares(IdleWorker, u, d, t)
      BY IdleOK, NoCalls DEF Spares
    <2> QED BY <2>1, <2>2, <2>3
  <1>5. worker' = [worker EXCEPT ![w] = IdleWorker] /\ (twice => twice')
    BY <1>2 DEF DropIndex
  <1> QED BY <1>3, <1>4, <1>5, IdleOK, OneWorker

LEMMA CheckNextOK ==
    ASSUME PushInv, NEW w \in Worker, CheckNext(w)
    PROVE  PushInv'
  <1>1. PICK x \in WorkerVars : x = worker[w] /\ WorkerOK(x) /\ x.job = "notify" /\ x.user \in Account
    BY DEF PushInv, WorkerOK, CheckNext
  <1>2. PICK e \in x.left :
          worker' = [worker EXCEPT
              ![w].job = "check", ![w].device = e[1], ![w].token = e[2], ![w].left = x.left \ {e},
              ![w].chains = {<<Call("getToken", x.user, e[1], e[2])>>,
                             <<Call("getDevice", x.user, e[1], e[2])>>}]
    BY <1>1 DEF CheckNext
  <1>3. PICK d \in Device, t \in PushToken : e[1] = d /\ e[2] = t
    BY DEF WorkerVars
  <1> DEFINE chains == {<<Call("getToken", x.user, d, t)>>, <<Call("getDevice", x.user, d, t)>>}
  <1>4. \A ch \in chains : \E c \in CallRec : ch = <<c>>
    BY <1>1, CallsAre
  <1>5. /\ chains \in SUBSET Seq(CallRec) /\ \A ch \in chains : Len(ch) # 0
        /\ \A c : Pending(chains, c) <=> c \in CallRec /\ <<c>> \in chains
    BY <1>4, Singles
  <1>6. \A op \in {"getToken", "getDevice"} : Call(op, x.user, d, t) \in CallRec
    BY <1>1, CallsAre
  <1>7. \A c : Pending(chains, c) <=> c \in {Call(op, x.user, d, t) : op \in {"getDevice", "getToken"}}
    BY <1>5, <1>6
  <1>8. worker' = [worker EXCEPT ![w].job = "check", ![w].device = d, ![w].token = t,
                                 ![w].left = x.left \ {e}, ![w].chains = chains]
    BY <1>2, <1>3
  <1> HIDE DEF chains
  <1>9. PICK y \in WorkerVars : y = [x EXCEPT !.job = "check", !.device = d, !.token = t,
                                              !.left = x.left \ {e}, !.chains = chains]
    BY <1>5 DEF WorkerVars, Job
  <1>10. /\ y.job = "check" /\ y.user = x.user /\ y.device = d /\ y.token = t /\ y.chains = chains
    BY <1>9 DEF WorkerVars
  <1>11. worker' = [worker EXCEPT ![w] = y]
    BY <1>1, <1>8, <1>9 DEF PushInv
  <1>12. WorkerOK(y)
    BY <1>1, <1>5, <1>7, <1>10 DEF WorkerOK, Owns
  <1>13. \A c : Pending(chains, c) => c.op \notin Removing3
    BY <1>7, CallIs DEF Removing3
  <1>14. \A v, g, s : Spares(y, v, g, s)
    BY <1>7, <1>10, <1>13 DEF Spares
  <1>15. UNCHANGED <<trees, latest, twice>>
    BY DEF CheckNext
  <1> QED BY <1>11, <1>12, <1>14, <1>15, PhaseOK DEF PushInv, Treed

LEMMA CheckDoneOK ==
    ASSUME PushInv, NEW w \in Worker, CheckDone(w)
    PROVE  PushInv'
  <1>1. PICK x \in WorkerVars : /\ x = worker[w] /\ WorkerOK(x) /\ x.job = "check" /\ x.user \in Account
                                /\ x.device \in Device /\ x.token \in PushToken /\ x.chains = {}
    BY DEF PushInv, WorkerOK, CheckDone
  <1> DEFINE c == Call("rmIndex", x.user, x.device, x.token)
             current == x.tok = <<x.user, x.device>> /\ x.dev = <<x.user, x.token>>
             chains == IF current THEN {} ELSE {<<c>>}
  <1>2. c \in CallRec /\ c.op \in Removing3 /\ c.user = x.user /\ c.device = x.device /\ c.token = x.token
    BY <1>1, CallsAre, CallIs DEF Removing3
  <1> HIDE DEF c
  <1>3. /\ chains \in SUBSET Seq(CallRec) /\ \A ch \in chains : Len(ch) # 0
        /\ \A e : Pending(chains, e) => e = c /\ ~current
    <2>1. CASE current
      BY <2>1, NoCalls
    <2>2. CASE ~current
      <3>1. chains = {<<c>>} /\ <<c>> \in Seq(CallRec) /\ Len(<<c>>) = 1
        BY <1>2, <2>2, OneCall
      <3>2. \A e : Pending({<<c>>}, e) <=> e = c
        BY <1>2, OneCall
      <3> HIDE DEF chains, current
      <3>3. \A e : Pending(chains, e) => e = c
        BY <3>1, <3>2
      <3>4. chains \in SUBSET Seq(CallRec) /\ \A ch \in chains : Len(ch) # 0
        BY <3>1
      <3> QED BY <2>2, <3>3, <3>4
    <2> QED BY <2>1, <2>2
  <1>4. worker' = [worker EXCEPT ![w].job = "notify", ![w].chains = chains]
        /\ UNCHANGED <<trees, latest, twice>>
    BY <1>1 DEF CheckDone, c
  <1> HIDE DEF chains
  <1>5. PICK y \in WorkerVars : y = [x EXCEPT !.job = "notify", !.chains = chains]
    BY <1>3 DEF WorkerVars, Job
  <1>6. y.job = "notify" /\ y.user = x.user /\ y.chains = chains
    BY <1>5 DEF WorkerVars
  <1>7. worker' = [worker EXCEPT ![w] = y]
    BY <1>1, <1>4, <1>5 DEF PushInv
  <1>8. WorkerOK(y)
    BY <1>1, <1>2, <1>3, <1>6 DEF WorkerOK, Owns
  <1>9. ASSUME NEW v, NEW g, NEW s, Spares(x, v, g, s) PROVE Spares(y, v, g, s)
    BY <1>1, <1>2, <1>3, <1>6, <1>9, NoCalls DEF Spares
  <1> QED BY <1>1, <1>4, <1>7, <1>8, <1>9, PhaseOK DEF PushInv, Treed

\* What is removed after a registration was written: entries of its device or of
\* its token, never its own.
Replaced(x, c) ==
    /\ c.op \in Removing3
    /\ \/ c.device = x.device /\ x.dev = <<c.user, c.token>>
       \/ c.token = x.token /\ x.tok = <<c.user, c.device>>
    /\ <<c.user, c.device, c.token>> # <<x.user, x.device, x.token>>

LEMMA PreviousCalls ==
    ASSUME NEW w \in Worker, NEW x \in WorkerVars, x = worker[w],
           x.user \in Account, x.device \in Device, x.token \in PushToken,
           NEW chains, chains = PreviousDevice(w) \cup PreviousToken(w)
    PROVE  /\ chains \in SUBSET Seq(CallRec) /\ \A ch \in chains : Len(ch) # 0
           /\ \A c : Pending(chains, c) => Replaced(x, c)
  <1> DEFINE Fit == {c \in CallRec : Replaced(x, c)}
  <1>1. ASSUME NEW p, p \in Fit
        PROVE  <<p>> \in Seq(CallRec) /\ Len(<<p>>) # 0 /\ \A i \in 1..Len(<<p>>) : <<p>>[i] \in Fit
    <2>1. p \in CallRec
      BY <1>1
    <2>2. <<p>> \in Seq(CallRec) /\ Len(<<p>>) = 1 /\ <<p>>[1] = p
      BY <2>1
    <2>3. \A i \in 1..Len(<<p>>) : <<p>>[i] = p
      BY <2>2
    <2> HIDE DEF Fit
    <2> QED BY <1>1, <2>2, <2>3
  <1>2. ASSUME NEW p, NEW q, p \in Fit, q \in Fit
        PROVE  /\ <<p>> \o <<q>> \in Seq(CallRec) /\ Len(<<p>> \o <<q>>) # 0
               /\ \A i \in 1..Len(<<p>> \o <<q>>) : (<<p>> \o <<q>>)[i] \in Fit
    <2>1. p \in CallRec /\ q \in CallRec
      BY <1>2
    <2>2. <<p>> \o <<q>> \in Seq(CallRec) /\ Len(<<p>> \o <<q>>) = 2
          /\ (<<p>> \o <<q>>)[1] = p /\ (<<p>> \o <<q>>)[2] = q
      BY <2>1
    <2>3. \A i \in 1..Len(<<p>> \o <<q>>) : (<<p>> \o <<q>>)[i] \in {p, q}
      BY <2>2
    <2> HIDE DEF Fit
    <2> QED BY <1>2, <2>2, <2>3
  <1>3. ASSUME NEW ch \in PreviousToken(w)
        PROVE  \E p : p \in Fit /\ ch = <<p>>
    <2>1. x.tok # Nobody /\ x.tok # <<x.user, x.device>>
      BY <1>3 DEF PreviousToken
    <2>2. PICK u \in Account, d \in Device : x.tok = <<u, d>>
      BY <2>1 DEF WorkerVars, TokenEntry
    <2>3. PICK op \in {"rmDevice", "rmIndex"} : ch = <<Call(op, u, d, x.token)>>
      BY <1>3, <2>1, <2>2 DEF PreviousToken
    <2>4. PICK p : p = Call(op, u, d, x.token)
      OBVIOUS
    <2>5. p \in CallRec /\ p.op = op /\ p.user = u /\ p.device = d /\ p.token = x.token
      BY <2>4, CallsAre, CallIs DEF Removing3
    <2>6. p \in Fit
      BY <2>1, <2>2, <2>5 DEF Removing3, Replaced
    <2> QED BY <2>3, <2>4, <2>6
  <1>4. ASSUME NEW ch \in PreviousDevice(w)
        PROVE  \E p, q : p \in Fit /\ q \in Fit /\ (ch = <<p>> \/ ch = <<p>> \o <<q>>)
    <2>1. x.dev # Nobody
      BY <1>4 DEF PreviousDevice
    <2>2. PICK u \in Account, t \in PushToken : x.dev = <<u, t>>
      BY <2>1 DEF WorkerVars, DeviceEntry
    <2>3. PICK p, q : p = Call("rmToken", u, x.device, t) /\ q = Call("rmIndex", u, x.device, t)
      OBVIOUS
    <2>4. /\ p \in CallRec /\ p.op \in Removing3 /\ p.user = u /\ p.device = x.device /\ p.token = t
          /\ q \in CallRec /\ q.op \in Removing3 /\ q.user = u /\ q.device = x.device /\ q.token = t
      BY <2>3, CallsAre, CallIs DEF Removing3
    <2>5. /\ ch = (IF t # x.token THEN <<p>> ELSE <<>>) \o (IF u # x.user THEN <<q>> ELSE <<>>)
          /\ ch # <<>>
      BY <1>4, <2>1, <2>2, <2>3 DEF PreviousDevice
    <2>6. t # x.token => p \in Fit
      BY <2>2, <2>4 DEF Replaced
    <2>7. u # x.user => q \in Fit
      BY <2>2, <2>4 DEF Replaced
    <2>8. <<p>> \o <<>> = <<p>> /\ <<>> \o <<q>> = <<q>>
      BY <2>4
    <2> HIDE DEF Fit
    <2>9. CASE t # x.token /\ u # x.user
      BY <2>5, <2>6, <2>7, <2>9
    <2>10. CASE t # x.token /\ u = x.user
      BY <2>5, <2>6, <2>8, <2>10
    <2>11. CASE t = x.token /\ u # x.user
      BY <2>5, <2>7, <2>8, <2>11
    <2>12. CASE t = x.token /\ u = x.user
      BY <2>5, <2>12
    <2> QED BY <2>9, <2>10, <2>11, <2>12
  <1>5. ASSUME NEW ch \in chains
        PROVE  ch \in Seq(CallRec) /\ Len(ch) # 0 /\ \A i \in 1..Len(ch) : ch[i] \in Fit
    <2> HIDE DEF Fit
    <2>1. PICK p, q : p \in Fit /\ q \in Fit /\ (ch = <<p>> \/ ch = <<p>> \o <<q>>)
      BY <1>3, <1>4, Zenon
    <2> QED BY <1>1, <1>2, <2>1, Zenon
  <1>6. \A c : Pending(chains, c) => c \in Fit
    <2> HIDE DEF Fit
    <2> QED BY <1>5, Zenon DEF Pending
  <1> QED BY <1>5, <1>6 DEF Fit

LEMMA WriteRegistrationOK ==
    ASSUME PushInv, NEW w \in Worker, WriteRegistration(w)
    PROVE  PushInv'
  <1>1. PICK x \in WorkerVars : /\ x = worker[w] /\ WorkerOK(x) /\ x.job = "save" /\ x.user \in Account
                                /\ x.device \in Device /\ x.token \in PushToken
    BY DEF PushInv, WorkerOK, WriteRegistration
  <1>2. PICK chains : chains = PreviousDevice(w) \cup PreviousToken(w)
    OBVIOUS
  <1>3. /\ chains \in SUBSET Seq(CallRec) /\ \A ch \in chains : Len(ch) # 0
        /\ \A c : Pending(chains, c) => Replaced(x, c)
    BY <1>1, <1>2, PreviousCalls
  <1>4. /\ tokenOf' = [tokenOf EXCEPT ![x.token] = <<x.user, x.device>>]
        /\ deviceOf' = [deviceOf EXCEPT ![x.device] = <<x.user, x.token>>]
        /\ indexOf' = [indexOf EXCEPT ![x.user][x.device] = x.token]
        /\ worker' = [worker EXCEPT ![w].job = "clean", ![w].chains = chains]
        /\ latest' = [d \in Device |->
                        IF d = x.device THEN <<x.user, x.token>>
                        ELSE IF latest[d] # Nobody /\ latest[d][2] = x.token THEN Nobody
                        ELSE latest[d]]
        /\ twice' = (twice \/ Removing(w, x.user, x.device, x.token))
    BY <1>1, <1>2 DEF WriteRegistration
  <1>5. PICK y \in WorkerVars : y = [x EXCEPT !.job = "clean", !.chains = chains]
    BY <1>3 DEF WorkerVars, Job
  <1>6. /\ y.job = "clean" /\ y.user = x.user /\ y.device = x.device /\ y.token = x.token
        /\ y.dev = x.dev /\ y.tok = x.tok /\ y.chains = chains
    BY <1>5 DEF WorkerVars
  <1>7. worker' = [worker EXCEPT ![w] = y]
    BY <1>1, <1>4, <1>5 DEF PushInv
  <1>8. WorkerOK(y)
    BY <1>1, <1>3, <1>6 DEF WorkerOK, Owns, Replaced
  <1>9. Treed'
    <2>1. tokenOf' \in [PushToken -> TokenEntry] /\ deviceOf' \in [Device -> DeviceEntry]
      BY <1>1, <1>4 DEF PushInv, Treed, TokenEntry, DeviceEntry
    <2>2. indexOf' \in [Account -> [Device -> PushToken \cup {Nobody}]]
      BY <1>1, <1>4 DEF PushInv, Treed
    <2>3. latest' \in [Device -> DeviceEntry]
      BY <1>1, <1>4 DEF PushInv, Treed, DeviceEntry
    <2> QED BY <2>1, <2>2, <2>3 DEF Treed
  <1>10. \A o \in Worker : worker'[o] = IF o = w THEN y ELSE worker[o]
    BY <1>7 DEF PushInv
  <1>11. ASSUME NEW u \in Account, NEW d \in Device, NEW t \in PushToken, Holds(u, d, t)'
         PROVE  Current(u, d, t)' /\ \A o \in Worker : Spares(worker'[o], u, d, t)
    <2>1. ~twice' /\ latest'[d] = <<u, t>>
      BY <1>11 DEF Holds
    <2>2. ~twice /\ ~Removing(w, x.user, x.device, x.token)
      BY <1>4, <2>1
    <2>3. CASE d = x.device
      <3>1. u = x.user /\ t = x.token
        BY <1>4, <2>1, <2>3
      <3>2. Current(u, d, t)'
        BY <1>1, <1>4, <2>3, <3>1 DEF Current, PushInv, Treed
      <3>3. Spares(y, u, d, t)
        BY <1>3, <1>6, <2>3, <3>1 DEF Spares, Replaced
      <3>4. ASSUME NEW o \in Worker \ {w} PROVE Spares(worker[o], u, d, t)
        <4>1. PICK z : z = worker[o] /\ WorkerOK(z)
          BY DEF PushInv
        <4>2. /\ ~(z.job \in {"delete", "drop", "notify", "check"} /\ z.user = u)
              /\ ~(z.job \in {"save", "clean"} /\ z.device = d /\ z.dev = <<u, t>>)
              /\ ~(z.job \in {"save", "clean"} /\ z.token = t /\ z.tok = <<u, d>>)
          BY <2>2, <2>3, <3>1, <4>1 DEF Removing
        <4>3. ASSUME NEW c \in CallRec, Pending(z.chains, c), c.op \in Removing3
              PROVE  <<c.user, c.device, c.token>> # <<u, d, t>>
          <5>1. Owns(z, c) /\ z.job \in Job /\ z.job # "idle"
            BY <4>1, <4>3, NoCalls DEF WorkerOK, WorkerVars
          <5>2. c.op \notin {"getDevice", "getToken"}
            BY <4>3 DEF Removing3
          <5>3. z.job \in {"drop", "notify", "clean"}
            BY <5>1, <5>2, CallIs DEF Owns, Job
          <5>4. CASE z.job \in {"drop", "notify"}
            BY <4>2, <5>1, <5>4 DEF Owns
          <5>5. CASE z.job = "clean"
            BY <4>2, <5>1, <5>5 DEF Owns
          <5> QED BY <5>3, <5>4, <5>5
        <4>4. Spares(z, u, d, t)
          BY <4>2, <4>3 DEF Spares
        <4> QED BY <4>1, <4>4
      <3> QED BY <1>10, <3>2, <3>3, <3>4
    <2>4. CASE d # x.device
      <3>0. <<u, t>> # Nobody /\ <<u, t>>[2] = t
        BY PushAssumption
      <3>1. latest[d] = <<u, t>> /\ t # x.token
        <4>1. latest'[d] = IF latest[d] # Nobody /\ latest[d][2] = x.token THEN Nobody ELSE latest[d]
          BY <1>4, <2>4
        <4> QED BY <2>1, <3>0, <4>1
      <3>2. Current(u, d, t) /\ \A o \in Worker : Spares(worker[o], u, d, t)
        BY <2>2, <3>1 DEF PushInv, Holds
      <3>3. Current(u, d, t)'
        BY <1>1, <1>4, <2>4, <3>1, <3>2 DEF Current, PushInv, Treed
      <3>4. Spares(y, u, d, t)
        BY <1>3, <1>6, <2>4, <3>1 DEF Spares, Replaced
      <3> QED BY <1>10, <3>2, <3>3, <3>4
    <2> QED BY <2>3, <2>4
  <1>12. \A o \in Worker : WorkerOK(worker'[o])
    BY <1>8, <1>10 DEF PushInv
  <1>13. DOMAIN worker' = Worker /\ worker' = [o \in Worker |-> worker'[o]]
    BY <1>7 DEF PushInv
  <1> QED BY <1>9, <1>11, <1>12, <1>13 DEF PushInv

LEMMA PushNextInv == PushInv /\ [PushNext]_pushVars => PushInv'
  <1> SUFFICES ASSUME PushInv, [PushNext]_pushVars PROVE PushInv'
    OBVIOUS
  <1>1. CASE UNCHANGED pushVars
    BY <1>1 DEF pushVars, trees, PushInv, Treed, Holds, Current
  <1>2. CASE PushNext
    <2>1. PICK w \in Worker :
        \/ \E u \in Account, d \in Device, t \in PushToken : Save(w, u, d, t)
        \/ \E u \in Account, t \in PushToken : DeleteToken(w, u, t)
        \/ \E u \in Account : DropUser(w, u) \/ Notify(w, u)
        \/ DatabaseCall(w) \/ WriteRegistration(w) \/ DeleteFound(w) \/ DropIndex(w)
        \/ CheckNext(w) \/ CheckDone(w) \/ EndRequest(w) \/ RequestFails(w)
      BY <1>2 DEF PushNext
    <2>2. CASE DatabaseCall(w)
      BY <2>2, RemoveCallOK, ReadCallOK, ProbeCallOK DEF DatabaseCall
    <2>3. CASE \E u \in Account, d \in Device, t \in PushToken : Save(w, u, d, t)
      BY <2>3, SaveOK
    <2>4. CASE \E u \in Account, t \in PushToken : DeleteToken(w, u, t)
      BY <2>4, DeleteTokenOK
    <2>5. CASE \E u \in Account : DropUser(w, u) \/ Notify(w, u)
      BY <2>5, DropUserOK, NotifyOK
    <2> QED BY <2>1, <2>2, <2>3, <2>4, <2>5, WriteRegistrationOK, DeleteFoundOK, DropIndexOK,
               CheckNextOK, CheckDoneOK, EndsOK
  <1> QED BY <1>1, <1>2

\* savePushToken.ts:38 - for any number of accounts, devices, tokens and requests, whatever
\* the conditional removals of other requests read before the write they follow, the
\* registration made last stays in all three trees until it is replaced or given up.
THEOREM LastRegistrationStays == PushSpec => []LastRegistrationHolds
  <1>1. PushInit => PushInv
    <2> SUFFICES ASSUME PushInit PROVE PushInv
      OBVIOUS
    <2>1. Treed
      BY DEF PushInit, Treed, TokenEntry, DeviceEntry
    <2>2. \A w \in Worker : WorkerOK(worker[w])
      BY IdleOK DEF PushInit
    <2>3. \A u \in Account, d \in Device, t \in PushToken : ~Holds(u, d, t)
      BY PushAssumption DEF PushInit, Holds
    <2> QED BY <2>1, <2>2, <2>3 DEF PushInit, PushInv
  <1>2. PushInv => LastRegistrationHolds
    <2> SUFFICES ASSUME PushInv, ~twice, NEW d \in Device, latest[d] # Nobody
                 PROVE  Current(latest[d][1], d, latest[d][2])
      BY DEF LastRegistrationHolds
    <2>1. PICK u \in Account, t \in PushToken : latest[d] = <<u, t>>
      BY DEF PushInv, Treed, DeviceEntry
    <2> QED BY <2>1 DEF PushInv, Holds
  <1> QED BY <1>1, <1>2, PushNextInv, PTL DEF PushSpec

-----------------------------------------------------------------------------
(* The pages of the list of keys.                                           *)

\* A finite set whose elements are ordered by some strict order has a last one.
LEMMA LastExists ==
    ASSUME NEW S, IsFiniteSet(S), S # {}, NEW R,
           \A x, y, z \in S : <<x, y>> \in R /\ <<y, z>> \in R => <<x, z>> \in R,
           \A x, y \in S : x # y => <<x, y>> \in R \/ <<y, x>> \in R
    PROVE  \E x \in S : \A y \in S \ {x} : <<y, x>> \in R
  <1> DEFINE Headed(T) == \E x \in T : \A y \in T \ {x} : <<y, x>> \in R
             Bad == {T \in SUBSET S : T # {} /\ ~Headed(T)}
  <1>1. SUFFICES ASSUME S \in Bad PROVE FALSE
    OBVIOUS
  <1>2. IsWellFoundedOn(StrictSubsetOrdering(S), FiniteSubsetsOf(S))
    BY FS_StrictSubsetOrderingWellFounded
  <1>3. Bad \subseteq FiniteSubsetsOf(S)
    BY FS_Subset DEF FiniteSubsetsOf
  <1>4. PICK T \in Bad : \A U \in Bad : ~ (<<U, T>> \in StrictSubsetOrdering(S))
    <2> HIDE DEF Bad
    <2> QED BY <1>1, <1>2, <1>3, WFMin
  <1>5. PICK t \in T : TRUE
    OBVIOUS
  <1>6. T \ {t} \notin Bad
    <2>1. T \ {t} \subseteq S /\ T \subseteq S /\ T \ {t} # T
      BY <1>4, <1>5
    <2>2. <<T \ {t}, T>> \in StrictSubsetOrdering(S)
      BY <2>1 DEF StrictSubsetOrdering
    <2> QED BY <1>4, <2>2
  <1>7. CASE T \ {t} = {}
    BY <1>5, <1>7
  <1>8. CASE Headed(T \ {t})
    <2>1. PICK x \in T \ {t} : \A y \in (T \ {t}) \ {x} : <<y, x>> \in R
      BY <1>8
    <2>2. {x, t} \subseteq S /\ T \subseteq S
      BY <2>1, <1>5
    <2>3. CASE <<t, x>> \in R
      BY <2>1, <2>3
    <2>4. CASE <<x, t>> \in R
      <3>1. \A y \in T \ {t} : <<y, t>> \in R
        BY <2>1, <2>2, <2>4
      <3> QED BY <3>1, <1>5
    <2> QED BY <2>1, <2>2, <2>3, <2>4
  <1> QED BY <1>6, <1>7, <1>8

-----------------------------------------------------------------------------
LEMMA EarlierOrders ==
    ASSUME NEW listing \in SUBSET RecordId, updatedAt \in [RecordId -> Nat]
    PROVE  /\ \A x, y, z \in listing : Earlier(x, y) /\ Earlier(y, z) => Earlier(x, z)
           /\ \A x, y \in listing : x # y => Earlier(x, y) \/ Earlier(y, x)
           /\ \A x, y \in listing : Earlier(x, y) => ~Earlier(y, x)
  <1>1. \A x \in listing : x \in Nat /\ updatedAt[x] \in Nat
    BY PagesAssumption
  <1> QED BY <1>1 DEF Earlier

LEMMA EndsOfListing ==
    ASSUME NEW listing \in SUBSET RecordId, IsFiniteSet(listing), listing # {},
           updatedAt \in [RecordId -> Nat]
    PROVE  /\ \E x \in listing : \A y \in listing \ {x} : Earlier(x, y)
           /\ LastOf(listing) \in listing
           /\ \A y \in listing \ {LastOf(listing)} : Earlier(y, LastOf(listing))
  <1> DEFINE Later  == {p \in listing \X listing : Earlier(p[2], p[1])}
             Before == {p \in listing \X listing : Earlier(p[1], p[2])}
  <1>1. /\ \A x, y \in listing : (<<x, y>> \in Later) <=> Earlier(y, x)
        /\ \A x, y \in listing : (<<x, y>> \in Before) <=> Earlier(x, y)
    OBVIOUS
  <1> HIDE DEF Later, Before
  <1>2. \E x \in listing : \A y \in listing \ {x} : <<y, x>> \in Later
    <2>1. /\ \A x, y, z \in listing : <<x, y>> \in Later /\ <<y, z>> \in Later => <<x, z>> \in Later
          /\ \A x, y \in listing : x # y => <<x, y>> \in Later \/ <<y, x>> \in Later
      BY <1>1, EarlierOrders
    <2> QED BY <2>1, LastExists
  <1>3. \E x \in listing : \A y \in listing \ {x} : <<y, x>> \in Before
    <2>1. /\ \A x, y, z \in listing : <<x, y>> \in Before /\ <<y, z>> \in Before => <<x, z>> \in Before
          /\ \A x, y \in listing : x # y => <<x, y>> \in Before \/ <<y, x>> \in Before
      BY <1>1, EarlierOrders
    <2> QED BY <2>1, LastExists
  <1>4. \E x \in listing : \A y \in listing \ {x} : Earlier(x, y)
    BY <1>1, <1>2
  <1>5. \E x \in listing : \A y \in listing \ {x} : Earlier(y, x)
    BY <1>1, <1>3
  <1> QED BY <1>4, <1>5 DEF LastOf

\* A page that does not hold everything ahead ends before the rest of it.
LEMMA PageSplits ==
    ASSUME NEW ahead \in SUBSET RecordId, IsFiniteSet(ahead), updatedAt \in [RecordId -> Nat],
           FirstOf(ahead) # ahead
    PROVE  /\ LastOf(FirstOf(ahead)) \in FirstOf(ahead)
           /\ \A r \in ahead \ FirstOf(ahead) : Earlier(LastOf(FirstOf(ahead)), r)
  <1> DEFINE Ahead(r) == {s \in ahead : Earlier(s, r)}
  <1>1. FirstOf(ahead) = {r \in ahead : Cardinality(Ahead(r)) < PageSize}
    BY DEF FirstOf
  <1>2. \A r \in ahead : IsFiniteSet(Ahead(r)) /\ Cardinality(Ahead(r)) \in Nat
    BY FS_Subset, FS_CardinalityType
  <1>3. ahead # {}
    BY DEF FirstOf
  <1>4. PICK x \in ahead : \A y \in ahead \ {x} : Earlier(x, y)
    BY <1>3, EndsOfListing
  <1>5. Ahead(x) = {}
    BY <1>4, EarlierOrders
  <1>6. x \in FirstOf(ahead)
    BY <1>1, <1>5, FS_EmptySet, PagesAssumption
  <1>7. FirstOf(ahead) \subseteq ahead /\ IsFiniteSet(FirstOf(ahead))
    BY <1>1, FS_Subset
  <1> DEFINE last == LastOf(FirstOf(ahead))
  <1>8. last \in FirstOf(ahead)
    BY <1>6, <1>7, EndsOfListing
  <1>9. ASSUME NEW r \in ahead \ FirstOf(ahead) PROVE Earlier(last, r)
    <2>1. last \in ahead /\ last # r
      BY <1>7, <1>8, <1>9
    <2>2. CASE Earlier(r, last)
      <3>1. Ahead(r) \subseteq Ahead(last)
        BY <2>1, <2>2, EarlierOrders
      <3>2. Cardinality(Ahead(r)) <= Cardinality(Ahead(last))
        BY <3>1, <2>1, <1>2, FS_Subset
      <3>3. Cardinality(Ahead(last)) < PageSize /\ ~(Cardinality(Ahead(r)) < PageSize)
        BY <1>1, <1>8, <1>9
      <3> HIDE DEF Ahead, last
      <3> QED BY <3>2, <3>3, <2>1, <1>2, PagesAssumption
    <2> QED BY <2>1, <2>2, EarlierOrders
  <1> QED BY <1>8, <1>9

-----------------------------------------------------------------------------
\* Cursor d stands before cursor c in the order of the listing.
Past(d, c) == d.at < c.at \/ (d.at = c.at /\ d.id < c.id)

PageTypes ==
    /\ stored \subseteq RecordId /\ IsFiniteSet(stored)
    /\ tick \in Nat
    /\ updatedAt \in [RecordId -> Nat] /\ \A r \in RecordId : updatedAt[r] <= tick
    /\ since \in Nat /\ since <= tick
    /\ cursor \in Cursor \cup {NoCursor} /\ seenCursors \subseteq Cursor
    /\ pages \in Nat /\ present \subseteq stored

\* What is still to be listed lies beyond the cursor, and the cursors seen before it.
Loading ==
    loop = "on" =>
        /\ present \subseteq Filtered(since)
        /\ cursor = NoCursor => seenCursors = {}
        /\ cursor # NoCursor => \A r \in present \ keys : Beyond(r, cursor)
        /\ present \subseteq keys \/ \A d \in seenCursors : d = cursor \/ Past(d, cursor)

PageInv == PageTypes /\ Loading /\ PresentKeysAreListed

LEMMA PageInitially == PageInit => PageInv
  <1> SUFFICES ASSUME PageInit PROVE PageInv
    OBVIOUS
  <1>1. PageTypes
    BY DEF PageInit, PageTypes
  <1> QED BY <1>1 DEF PageInit, PageInv, Loading, PresentKeysAreListed

\* What is still missing comes after the cursor, and so does the page.
LEMMA PageComesNext ==
    ASSUME PageInv, FetchPage
    PROVE  PageInv'
  <1> DEFINE ahead == From(Filtered(since), cursor)
             page == Page(since, cursor)
             last == LastOf(page.keys)
             beyond == {r \in Filtered(since) : Beyond(r, cursor)}
  <1> USE DEF PageInv
  <1>1. /\ page.keys = FirstOf(ahead)
        /\ page.next = IF page.keys = ahead THEN NoCursor ELSE [at |-> updatedAt[last], id |-> last]
    BY DEF Page
  <1>2. /\ loop = "on" /\ keys' = keys \cup page.keys /\ cursor' = page.next /\ pages' = pages + 1
        /\ IF page.next = NoCursor \/ StopsEarly(page.next)
           THEN loop' = "over" /\ seenCursors' = seenCursors
           ELSE seenCursors' = seenCursors \cup {page.next} /\ loop' = loop
        /\ stored' = stored /\ updatedAt' = updatedAt /\ tick' = tick /\ since' = since /\ present' = present
    BY DEF FetchPage, setVars
  <1>3. Filtered(since) \subseteq stored /\ ahead \subseteq Filtered(since)
    BY DEF Filtered, From
  <1>4. ahead \subseteq RecordId /\ IsFiniteSet(ahead)
    BY <1>3, FS_Subset DEF PageTypes
  <1>5. present \ keys \subseteq ahead
    BY <1>2 DEF Loading, From
  <1>6. present \subseteq keys \/ cursor = NoCursor \/ ahead = beyond
    BY <1>2 DEF Loading, From
  <1>t. PageTypes' /\ (page.next = NoCursor <=> page.keys = ahead)
    <2>1. CASE page.keys = ahead
      <3> HIDE DEF page, last, ahead
      <3> QED BY <1>1, <1>2, <2>1 DEF PageTypes
    <2>2. CASE page.keys # ahead
      <3>1. last \in RecordId /\ updatedAt[last] \in Nat
        <4>1. last \in FirstOf(ahead)
          BY <1>1, <1>4, <2>2, PageSplits DEF PageTypes
        <4> QED BY <4>1, <1>4 DEF FirstOf, PageTypes
      <3>2. page.next \in Cursor /\ page.next # NoCursor
        <4> HIDE DEF page, last, ahead
        <4> QED BY <1>1, <2>2, <3>1, PagesAssumption DEF Cursor
      <3> HIDE DEF page, last, ahead
      <3> QED BY <1>1, <1>2, <2>2, <3>2 DEF PageTypes
    <2> QED BY <2>1, <2>2
  <1>7. CASE page.keys = ahead
    <2>1. present' \subseteq keys' /\ loop' = "over"
      <3> HIDE DEF page, last, ahead, beyond
      <3> QED BY <1>1, <1>2, <1>5, <1>7
    <2> QED BY <2>1, <1>t DEF Loading, PresentKeysAreListed
  <1>8. CASE page.keys # ahead
    <2>1. /\ last \in page.keys /\ last \in ahead
          /\ \A r \in ahead \ page.keys : Earlier(last, r)
      BY <1>1, <1>4, <1>8, PageSplits DEF PageTypes, FirstOf
    <2>2. page.next.at = updatedAt[last] /\ page.next.id = last /\ page.next # NoCursor /\ page.next \in Cursor
      <3> HIDE DEF page, last, ahead, beyond
      <3> QED BY <1>1, <1>2, <1>8, <1>t DEF PageTypes
    <2>3. \A r \in present' \ keys' : Beyond(r, page.next)
      <3> SUFFICES ASSUME NEW r \in present \ keys, r \notin page.keys PROVE Beyond(r, page.next)
        BY <1>2
      <3>1. Earlier(last, r)
        BY <1>5, <2>1
      <3> HIDE DEF page, last, ahead, beyond
      <3> QED BY <3>1, <2>2 DEF Earlier, Beyond
    <2>4. present \subseteq keys \/ \A d \in seenCursors : Past(d, page.next)
      <3>1. SUFFICES ASSUME ~(present \subseteq keys), NEW d \in seenCursors PROVE Past(d, page.next)
        OBVIOUS
      <3>2. cursor # NoCursor /\ cursor \in Cursor /\ d \in Cursor /\ (d = cursor \/ Past(d, cursor))
        BY <1>2, <3>1 DEF Loading, PageTypes
      <3>3. Beyond(last, cursor)
        BY <1>6, <2>1, <3>1, <3>2
      <3>4. last \in Nat /\ updatedAt[last] \in Nat
        BY <2>1, <1>4, PagesAssumption DEF PageTypes
      <3>5. cursor.at \in Nat /\ cursor.id \in Nat /\ d.at \in Nat /\ d.id \in Nat
        BY <3>2, PagesAssumption DEF Cursor
      <3> HIDE DEF page, last, ahead, beyond
      <3> QED BY <3>2, <3>3, <3>4, <3>5, <2>2 DEF Beyond, Past
    <2>5. Loading'
      <3> HIDE DEF page, last, ahead, beyond
      <3>1. present' \subseteq Filtered(since)'
        BY <1>2 DEF Loading, Filtered
      <3>2. cursor' # NoCursor
        BY <1>2, <2>2
      <3>3. \A r \in present' \ keys' : Beyond(r, cursor)'
        BY <1>2, <2>3 DEF Beyond
      <3>4. loop' = "on" => present' \subseteq keys' \/ \A d \in seenCursors' : d = cursor' \/ Past(d, cursor')
        BY <1>2, <2>4, <2>2
      <3> QED BY <3>1, <3>2, <3>3, <3>4 DEF Loading
    <2>6. PresentKeysAreListed'
      <3>1. SUFFICES ASSUME loop' = "over", pages' < MaxPages PROVE present' \subseteq keys'
        BY DEF PresentKeysAreListed
      <3> HIDE DEF page, last, ahead, beyond
      <3>2. page.next \in seenCursors
        BY <1>2, <2>2, <3>1, PagesAssumption DEF StopsEarly, PageTypes
      <3>3. ~Past(page.next, page.next)
        <4>1. page.next.at \in Nat /\ page.next.id \in Nat
          BY <2>2, PagesAssumption DEF Cursor
        <4> QED BY <4>1 DEF Past
      <3> QED BY <1>2, <2>4, <3>2, <3>3
    <2> QED BY <1>t, <2>5, <2>6
  <1> QED BY <1>7, <1>8

\* A record that is written moves behind every cursor.
LEMMA WritesKeepPages ==
    ASSUME PageInv, NEW r \in RecordId, WriteRecord(r)
    PROVE  PageInv'
  <1> USE DEF PageInv
  <1>1. /\ stored' = stored \cup {r} /\ updatedAt' = [updatedAt EXCEPT ![r] = tick]
        /\ UNCHANGED <<tick, loop, since, cursor, seenCursors, pages, keys, present>>
    BY DEF WriteRecord, loopVars
  <1>2. PageTypes'
    <2>1. IsFiniteSet(stored')
      BY <1>1, FS_AddElement DEF PageTypes
    <2> QED BY <1>1, <2>1 DEF PageTypes
  <1>3. Loading'
    <2>1. present \subseteq Filtered(since) => present' \subseteq Filtered(since)'
      BY <1>1 DEF Filtered, PageTypes
    <2>2. \A s \in present, c \in Cursor : Beyond(s, c) => Beyond(s, c)'
      <3> SUFFICES ASSUME NEW s \in present, NEW c \in Cursor, Beyond(s, c) PROVE Beyond(s, c)'
        OBVIOUS
      <3>1. /\ s \in RecordId /\ updatedAt[s] \in Nat /\ updatedAt[s] <= tick /\ tick \in Nat
            /\ updatedAt'[s] \in {updatedAt[s], tick}
        BY <1>1 DEF PageTypes
      <3>2. c.at \in Nat
        BY DEF Cursor
      <3> QED BY <3>1, <3>2 DEF Beyond
    <2>3. cursor \in Cursor \cup {NoCursor}
      BY DEF PageTypes
    <2> QED BY <1>1, <2>1, <2>2, <2>3 DEF Loading
  <1> QED BY <1>1, <1>2, <1>3 DEF PresentKeysAreListed

LEMMA DropsKeepPages ==
    ASSUME PageInv, NEW r \in RecordId, DropRecord(r)
    PROVE  PageInv'
  <1> USE DEF PageInv
  <1>1. /\ stored' = stored \ {r} /\ present' = present \ {r}
        /\ UNCHANGED <<updatedAt, tick, loop, since, cursor, seenCursors, pages, keys>>
    BY DEF DropRecord, loopVars
  <1>2. PageTypes'
    <2>1. IsFiniteSet(stored')
      BY <1>1, FS_Subset DEF PageTypes
    <2> QED BY <1>1, <2>1 DEF PageTypes
  <1>3. Loading'
    BY <1>1 DEF Loading, Filtered, Beyond
  <1> QED BY <1>1, <1>2, <1>3 DEF PresentKeysAreListed

LEMMA PageSteps == PageInv /\ [PageNext]_pageVars => PageInv'
  <1> SUFFICES ASSUME PageInv, [PageNext]_pageVars PROVE PageInv'
    OBVIOUS
  <1> USE DEF PageInv
  <1>1. CASE TimePasses
    <2>1. tick' = tick + 1 /\ UNCHANGED <<stored, updatedAt, loopVars, present>>
      BY <1>1 DEF TimePasses
    <2> QED BY <2>1 DEF loopVars, PageTypes, Loading, PresentKeysAreListed, Filtered, Beyond
  <1>2. ASSUME NEW from \in 0..tick, StartLoading(from) PROVE PageInv'
    <2>1. PageTypes'
      BY <1>2 DEF StartLoading, PageTypes, setVars, Filtered
    <2> QED BY <1>2, <2>1 DEF StartLoading, Loading, PresentKeysAreListed, setVars, Filtered
  <1>3. CASE FetchFails \/ TakeKeys
    <2>1. LoadEnds
      BY <1>3 DEF FetchFails, TakeKeys
    <2> QED BY <2>1 DEF LoadEnds, PageTypes, Loading, PresentKeysAreListed, setVars
  <1>4. CASE UNCHANGED pageVars
    BY <1>4 DEF pageVars, setVars, loopVars, PageTypes, Loading, PresentKeysAreListed, Filtered, Beyond
  <1> QED BY <1>1, <1>2, <1>3, <1>4, WritesKeepPages, DropsKeepPages, PageComesNext DEF PageNext

\* userApi.ts:86 - for any records, page size, number of pages and clock, a load of the
\* key list that ended by itself holds every record that was there all along, whatever
\* other devices wrote or deleted between two of its pages.
THEOREM ListingsAreComplete == PageSpec => []PresentKeysAreListed
  <1>1. PageInv => PresentKeysAreListed
    BY DEF PageInv
  <1> QED BY PageInitially, PageSteps, <1>1, PTL DEF PageSpec
=============================================================================
