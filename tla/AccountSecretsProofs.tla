------------------------ MODULE AccountSecretsProofs ------------------------
(***************************************************************************)
(* Theorems about AccountSecrets, for any devices, passwords, identities   *)
(* and failures: the password that signs in opens the vault, and a taken   *)
(* username belongs to an account with documents.                          *)
(***************************************************************************)
EXTENDS AccountSecrets, TLAPS

Secret == Password \cup {NoPassword}
Pc == {"rest", "identity", "register", "undo", "reauth", "unwrap",
       "enter", "rewrap", "update", "revoke", "erase", "dismiss"}
Act == [pc : Pc, uid : 0..MaxUid, old : Secret, new : Secret, wrap : Secret, alone : BOOLEAN]

TypesOK ==
    /\ holder \in 0..MaxUid /\ uids \in 0..MaxUid /\ holder <= uids
    /\ password \in Secret /\ wrapped \in [Uid -> Secret]
    /\ signed \in [Phone -> 0..MaxUid] /\ trusted \subseteq Phone /\ copy \in [Phone -> Secret]
    /\ act \in [Phone -> Act]
    /\ split \in BOOLEAN /\ stray \in BOOLEAN /\ cuts \in 0..MaxCuts

\* Uids are given out in order, and what was not given out has no documents.
UidsOK ==
    /\ \A u \in Uid : u > uids => wrapped[u] = NoPassword
    /\ \A p \in Phone : act[p].uid <= uids /\ signed[p] <= uids

\* What a place in a call has ready.
PlaceOK(p) ==
    /\ act[p].pc \notin {"rest", "reauth", "erase", "dismiss"} => act[p].new \in Password
    /\ act[p].pc \notin {"rest", "identity"} => act[p].uid \in Uid
    /\ act[p].pc \in {"identity", "register", "undo"} => copy[p] = NoPassword
    /\ signed[p] = 0 => copy[p] = NoPassword

\* A new identity is its creator's alone until it is registered.
PendingOK(p) ==
    act[p].pc = "register" =>
        /\ holder = act[p].uid /\ password = act[p].new /\ wrapped[act[p].uid] = NoPassword
        /\ signed[p] = act[p].uid
        /\ \A q \in Phone \ {p} : /\ act[q].uid # act[p].uid
                                  /\ copy[q] = NoPassword \/ signed[q] # act[p].uid

\* The password that signs in opens the vault.
Agree == holder # 0 /\ wrapped[holder] # NoPassword => wrapped[holder] = password

\* A first write that may yet be followed by the second is the last one.
LastWrite(p) == wrapped[act[p].uid] \in {act[p].new, NoPassword}

ChangeOK(p) ==
    /\ act[p].pc = "update" /\ act[p].alone => wrapped[act[p].uid] = act[p].new
    /\ act[p].pc = "update" /\ ~split /\ p \in trusted => LastWrite(p)
    /\ act[p].pc = "revoke" /\ act[p].alone =>
          /\ Agree
          /\ \A q \in Phone : act[q].pc = "update" /\ q \in trusted => LastWrite(q)

Settled == ~split /\ (\A p \in Phone : act[p].pc # "update") => Agree

\* The inductive invariant.
SecretsInv ==
    /\ TypesOK /\ UidsOK /\ TakenNamesAreUsable /\ Settled
    /\ \A p \in Phone : PlaceOK(p) /\ PendingOK(p) /\ ChangeOK(p)

-----------------------------------------------------------------------------
LEMMA SecretTypes ==
    /\ NoPassword \notin Password /\ MaxUid \in Nat /\ MaxCuts \in Nat
    /\ \A u \in Uid : u \in Nat /\ u # 0 /\ u \in 0..MaxUid
    /\ \A u \in 0..MaxUid : u # 0 => u \in Uid
  BY SecretsAssumption DEF Uid

LEMMA RestingType == Resting \in Act
  BY SecretTypes DEF Resting, Act, Pc, Secret

LEMMA SecretsInitInv == SecretsInit => SecretsInv
  <1> SUFFICES ASSUME SecretsInit PROVE SecretsInv
    OBVIOUS
  <1>1. TypesOK
    <2>1. 0 \in 0..MaxUid /\ 0 \in 0..MaxCuts /\ NoPassword \in Secret
      BY SecretTypes DEF Secret
    <2>2. act \in [Phone -> Act]
      BY RestingType DEF SecretsInit
    <2>3. split \in BOOLEAN /\ stray \in BOOLEAN
      BY DEF SecretsInit
    <2> QED BY <2>1, <2>2, <2>3 DEF SecretsInit, TypesOK
  <1>2. \A p \in Phone : act[p] = Resting /\ act[p].pc = "rest" /\ act[p].uid = 0
    BY DEF SecretsInit, Resting
  <1>3. UidsOK /\ TakenNamesAreUsable /\ Settled
    BY <1>1, <1>2, SecretTypes DEF SecretsInit, UidsOK, TakenNamesAreUsable, Settled, Agree
  <1>4. \A p \in Phone : PlaceOK(p) /\ PendingOK(p) /\ ChangeOK(p)
    BY <1>1, <1>2 DEF SecretsInit, PlaceOK, PendingOK, ChangeOK
  <1> QED BY <1>1, <1>3, <1>4 DEF SecretsInv

-----------------------------------------------------------------------------
(* Steps that write to neither place.                                      *)

Special == {"register", "undo", "update", "revoke", "dismiss"}

\* The call of p moves between places that no property is about.
Moves(p, x) ==
    /\ UNCHANGED <<accounts, split, stray, cuts>>
    /\ act' = [act EXCEPT ![p] = x] /\ act[p].pc \notin Special /\ x.pc \notin Special
    /\ signed' \in [Phone -> 0..MaxUid] /\ copy' \in [Phone -> Secret] /\ trusted' \subseteq Phone
    /\ \A q \in Phone \ {p} : /\ signed'[q] = signed[q] /\ copy'[q] = copy[q]
                              /\ q \in trusted' => q \in trusted
    /\ x.uid <= uids /\ signed'[p] <= uids
    /\ x.pc \notin {"rest", "reauth", "erase"} => x.new \in Password
    /\ x.pc \notin {"rest", "identity"} => x.uid # 0
    /\ x.pc = "identity" => copy'[p] = NoPassword
    /\ signed'[p] = 0 => copy'[p] = NoPassword
    /\ \A q \in Phone \ {p} : act[q].pc = "register" =>
           x.uid # act[q].uid /\ (copy'[p] = NoPassword \/ signed'[p] # act[q].uid)

LEMMA QuietStep ==
    ASSUME SecretsInv, NEW p \in Phone, NEW x \in Act, Moves(p, x)
    PROVE  SecretsInv'
  <1>0. /\ UNCHANGED <<accounts, split, stray, cuts>>
        /\ act' = [act EXCEPT ![p] = x] /\ act[p].pc \notin Special /\ x.pc \notin Special
        /\ signed' \in [Phone -> 0..MaxUid] /\ copy' \in [Phone -> Secret] /\ trusted' \subseteq Phone
        /\ \A q \in Phone \ {p} : /\ signed'[q] = signed[q] /\ copy'[q] = copy[q]
                                  /\ q \in trusted' => q \in trusted
        /\ x.uid <= uids /\ signed'[p] <= uids
        /\ x.pc \notin {"rest", "reauth", "erase"} => x.new \in Password
        /\ x.pc \notin {"rest", "identity"} => x.uid # 0
        /\ x.pc = "identity" => copy'[p] = NoPassword
        /\ signed'[p] = 0 => copy'[p] = NoPassword
        /\ \A q \in Phone \ {p} : act[q].pc = "register" =>
               x.uid # act[q].uid /\ (copy'[p] = NoPassword \/ signed'[p] # act[q].uid)
    BY DEF Moves
  <1>x. x.pc \notin {"rest", "identity"} => x.uid \in Uid
    BY <1>0, SecretTypes DEF Act
  <1>1. TypesOK'
    BY <1>0 DEF SecretsInv, TypesOK, accounts
  <1>2. /\ act'[p] = x /\ (\A q \in Phone \ {p} : act'[q] = act[q])
        /\ \A q \in Phone : act'[q].pc \in Special => act'[q] = act[q] /\ q # p
        /\ \A q \in Phone : act[q].pc \in Special => act'[q] = act[q] /\ q # p
    BY <1>0 DEF SecretsInv, TypesOK
  <1>3. UidsOK'
    BY <1>0, <1>2 DEF SecretsInv, UidsOK, accounts
  <1>4. TakenNamesAreUsable'
    BY <1>0, <1>2 DEF SecretsInv, TakenNamesAreUsable, accounts, Special
  <1>5. Agree' = Agree
    BY <1>0 DEF Agree, accounts
  <1>6. Settled'
    BY <1>0, <1>2, <1>5 DEF SecretsInv, Settled, Special
  <1>7. \A q \in Phone : PlaceOK(q)'
    BY <1>0, <1>x, <1>2 DEF SecretsInv, PlaceOK, Special
  <1>8. \A q \in Phone : PendingOK(q)'
    <2> SUFFICES ASSUME NEW q \in Phone, act'[q].pc = "register" PROVE PendingOK(q)'
      BY DEF PendingOK
    <2>1. act'[q] = act[q] /\ q # p /\ PendingOK(q)
      BY <1>0, <1>2 DEF SecretsInv, Special
    <2> QED BY <1>0, <1>2, <2>1 DEF PendingOK, accounts
  <1>9. \A q \in Phone : ChangeOK(q)'
    <2>1. \A q \in Phone : act'[q].pc = "update" /\ q \in trusted' =>
                act[q].pc = "update" /\ q \in trusted /\ LastWrite(q)' = LastWrite(q)
      BY <1>0, <1>2 DEF LastWrite, accounts, Special
    <2> SUFFICES ASSUME NEW q \in Phone, act'[q].pc \in Special PROVE ChangeOK(q)'
      BY DEF ChangeOK, Special
    <2>2. act'[q] = act[q] /\ ChangeOK(q)
      BY <1>0, <1>2 DEF SecretsInv
    <2> QED BY <1>0, <1>5, <2>1, <2>2 DEF ChangeOK, accounts
  <1> QED BY <1>1, <1>3, <1>4, <1>6, <1>7, <1>8, <1>9 DEF SecretsInv

Quiet(p) ==
    \/ \E new \in Password : BeginSignUp(p, new) \/ BeginRecover(p, new) \/ BeginErasure(p, new)
    \/ \E old, new \in Password : BeginChange(p, old, new)
    \/ NameTaken(p) \/ SignIn(p) \/ Reload(p) \/ LeaveAccount(p)
    \/ Reauth(p) \/ Unwrap(p) \/ Enter(p) \/ NobodyToEnter(p) \/ Refused(p) \/ NotErased(p)

\* Locking drops a copy, wherever the call of p is, and reloading renews one.
LEMMA CopyStep ==
    ASSUME SecretsInv, NEW p \in Phone, NEW w \in Secret,
           UNCHANGED <<accounts, signed, trusted, act, split, stray, cuts>>,
           copy' = [copy EXCEPT ![p] = w], w = NoPassword \/ copy[p] # NoPassword
    PROVE  SecretsInv'
  <1>1. TypesOK'
    BY DEF SecretsInv, TypesOK, accounts
  <1>2. \A q \in Phone : copy'[q] = copy[q] \/ copy'[q] = NoPassword \/ copy[q] # NoPassword
    BY DEF SecretsInv, TypesOK
  <1>3. UidsOK' /\ TakenNamesAreUsable' /\ Settled'
    BY DEF SecretsInv, UidsOK, TakenNamesAreUsable, Settled, Agree, accounts
  <1>4. \A q \in Phone : PlaceOK(q)'
    BY <1>2 DEF SecretsInv, PlaceOK
  <1>5. \A q \in Phone : PendingOK(q)'
    BY <1>2 DEF SecretsInv, PendingOK, accounts
  <1>6. \A q \in Phone : ChangeOK(q)'
    BY DEF SecretsInv, ChangeOK, Agree, LastWrite, accounts
  <1> QED BY <1>1, <1>3, <1>4, <1>5, <1>6 DEF SecretsInv

\* What the phones know of an account that is being registered: nothing.
LEMMA PendingIsUnknown ==
    ASSUME SecretsInv, NEW p \in Phone, act[p].pc # "register"
    PROVE  \A q \in Phone \ {p} : act[q].pc = "register" =>
              /\ act[q].uid # 0 /\ act[p].uid # act[q].uid
              /\ copy[p] = NoPassword \/ signed[p] # act[q].uid
              /\ holder = act[q].uid /\ wrapped[holder] = NoPassword
  BY SecretTypes DEF SecretsInv, PendingOK, PlaceOK

LEMMA QuietOK ==
    ASSUME SecretsInv, NEW p \in Phone, Quiet(p)
    PROVE  SecretsInv'
  <1>0. /\ act[p] \in Act /\ signed[p] \in 0..MaxUid /\ copy[p] \in Secret /\ holder \in 0..MaxUid
        /\ holder <= uids /\ uids \in 0..MaxUid /\ act[p].uid <= uids /\ signed[p] <= uids
        /\ PlaceOK(p)
        /\ copy \in [Phone -> Secret] /\ signed \in [Phone -> 0..MaxUid] /\ trusted \subseteq Phone
        /\ act \in [Phone -> Act] /\ wrapped \in [Uid -> Secret] /\ password \in Secret
    BY DEF SecretsInv, TypesOK, UidsOK
  <1>i. NoPassword \in Secret /\ 0 \in 0..MaxUid /\ 0 <= uids
    BY <1>0, SecretTypes DEF Secret
  <1>u. act[p].pc \notin Special => \A q \in Phone \ {p} : act[q].pc = "register" =>
              /\ act[q].uid # 0 /\ act[p].uid # act[q].uid
              /\ copy[p] = NoPassword \/ signed[p] # act[q].uid
              /\ holder = act[q].uid /\ wrapped[holder] = NoPassword
    BY PendingIsUnknown DEF Special
  \* A step that changes only the place of the call.
  <1>m. ASSUME NEW x \in Act, UNCHANGED <<accounts, signed, copy, split, stray, cuts>>,
               trusted' \in {trusted, trusted \cup {p}},
               act' = [act EXCEPT ![p] = x], act[p].pc \notin Special, x.pc \notin Special,
               x.uid <= uids,
               x.pc \notin {"rest", "reauth", "erase"} => x.new \in Password,
               x.pc \notin {"rest", "identity"} => x.uid # 0,
               x.pc = "identity" => copy[p] = NoPassword,
               \/ x.uid = 0 \/ x.uid = act[p].uid
               \/ x.uid = signed[p] /\ copy[p] # NoPassword
               \/ x.uid = holder /\ wrapped[holder] # NoPassword
        PROVE  SecretsInv'
    <2>1. Moves(p, x)
      BY <1>0, <1>u, <1>m DEF Moves, PlaceOK
    <2> QED BY <2>1, QuietStep
  <1>1. ASSUME NEW new \in Password, BeginSignUp(p, new) PROVE SecretsInv'
    <2>1. PICK x \in Act : /\ x = [Resting EXCEPT !.pc = "identity", !.new = new]
                           /\ x.pc = "identity" /\ x.uid = 0 /\ x.new = new
      <3> DEFINE y == [Resting EXCEPT !.pc = "identity", !.new = new]
      <3>1. y \in Act /\ y.pc = "identity" /\ y.uid = 0 /\ y.new = new
        BY RestingType DEF Resting, Act, Pc, Secret
      <3> QED BY <3>1, Zenon
    <2>2. /\ act' = [act EXCEPT ![p] = x] /\ act[p].pc = "rest" /\ signed[p] = 0
          /\ UNCHANGED <<accounts, signed, copy, trusted, split, stray, cuts>>
      BY <1>1, <2>1 DEF BeginSignUp, AtStep, phones
    <2>3. copy[p] = NoPassword
      BY <1>0, <2>2 DEF PlaceOK
    <2> QED BY <1>i, <1>m, <2>1, <2>2, <2>3 DEF Special
  <1>2. ASSUME NEW new \in Password, BeginRecover(p, new) PROVE SecretsInv'
    <2>1. PICK x \in Act : /\ x = [Resting EXCEPT !.pc = "enter", !.uid = holder, !.new = new]
                           /\ x.pc = "enter" /\ x.uid = holder /\ x.new = new
      <3> DEFINE y == [Resting EXCEPT !.pc = "enter", !.uid = holder, !.new = new]
      <3>1. y \in Act /\ y.pc = "enter" /\ y.uid = holder /\ y.new = new
        BY <1>0, RestingType DEF Resting, Act, Pc, Secret
      <3> QED BY <3>1, Zenon
    <2>2. /\ act' = [act EXCEPT ![p] = x] /\ act[p].pc = "rest"
          /\ holder # 0 /\ wrapped[holder] # NoPassword
          /\ UNCHANGED <<accounts, signed, copy, trusted, split, stray, cuts>>
      BY <1>2, <2>1 DEF BeginRecover, AtStep, phones
    <2> QED BY <1>0, <1>m, <2>1, <2>2 DEF Special
  <1>3. ASSUME NEW old \in Password,
               BeginErasure(p, old) \/ \E new \in Password : BeginChange(p, old, new)
        PROVE  SecretsInv'
    <2>1. PICK new \in Secret, wrap \in Secret :
              /\ act' = [act EXCEPT ![p] = [Resting EXCEPT !.pc = "reauth", !.uid = signed[p],
                                  !.old = old, !.new = new, !.wrap = wrap]]
              /\ act[p].pc = "rest" /\ signed[p] # 0 /\ copy[p] # NoPassword
              /\ UNCHANGED <<accounts, signed, copy, trusted, split, stray, cuts>>
      <3>1. CASE BeginErasure(p, old)
        <4>1. Resting.new = NoPassword /\ Resting.wrap = NoPassword
              /\ Resting = [pc |-> "rest", uid |-> 0, old |-> NoPassword, new |-> NoPassword,
                            wrap |-> NoPassword, alone |-> FALSE]
          BY DEF Resting
        <4>2. [Resting EXCEPT !.pc = "reauth", !.uid = signed[p], !.old = old]
              = [Resting EXCEPT !.pc = "reauth", !.uid = signed[p], !.old = old,
                                !.new = NoPassword, !.wrap = NoPassword]
          BY <4>1
        <4>3. /\ act' = [act EXCEPT ![p] = [Resting EXCEPT !.pc = "reauth", !.uid = signed[p],
                                  !.old = old, !.new = NoPassword, !.wrap = NoPassword]]
              /\ act[p].pc = "rest" /\ signed[p] # 0 /\ copy[p] # NoPassword
              /\ UNCHANGED <<accounts, signed, copy, trusted, split, stray, cuts>>
          BY <3>1, <4>2 DEF BeginErasure, AtStep, phones
        <4> QED BY <1>i, <4>3
      <3>2. CASE \E new \in Password : BeginChange(p, old, new)
        BY <1>0, <3>2 DEF BeginChange, AtStep, phones, Secret
      <3> QED BY <1>3, <3>1, <3>2
    <2>2. PICK x \in Act : /\ x = [Resting EXCEPT !.pc = "reauth", !.uid = signed[p],
                                  !.old = old, !.new = new, !.wrap = wrap]
                           /\ x.pc = "reauth" /\ x.uid = signed[p]
      <3> DEFINE y == [Resting EXCEPT !.pc = "reauth", !.uid = signed[p],
                                  !.old = old, !.new = new, !.wrap = wrap]
      <3>1. y \in Act /\ y.pc = "reauth" /\ y.uid = signed[p]
        BY <1>0, RestingType DEF Resting, Act, Pc, Secret
      <3> QED BY <3>1, Zenon
    <2> QED BY <1>0, <1>m, <2>1, <2>2 DEF Special
  <1>5. ASSUME \/ NameTaken(p) \/ NobodyToEnter(p) \/ Refused(p) \/ NotErased(p)
               \/ Unwrap(p) /\ act[p].wrap # act[p].old
               \/ Reauth(p) /\ ~(holder = act[p].uid /\ password = act[p].old)
        PROVE  SecretsInv'
    <2>1. PICK x \in Act : x = Resting /\ x.pc = "rest" /\ x.uid = 0
      BY RestingType DEF Resting
    <2>2. act' = [act EXCEPT ![p] = x] /\ act[p].pc \notin Special
      BY <1>5, <2>1 DEF NameTaken, NobodyToEnter, Refused, NotErased, Unwrap, Reauth, Ends, AtStep,
                        Special
    <2>3. UNCHANGED <<accounts, signed, copy, trusted, split, stray, cuts>>
      BY <1>5 DEF NameTaken, NobodyToEnter, Refused, NotErased, Unwrap, Reauth, phones
    <2> QED BY <1>i, <1>m, <2>1, <2>2, <2>3 DEF Special
  <1>6. ASSUME \/ Unwrap(p) /\ act[p].wrap = act[p].old
               \/ Reauth(p) /\ holder = act[p].uid /\ password = act[p].old
        PROVE  SecretsInv'
    <2>1. PICK pc \in {"erase", "unwrap", "rewrap"} :
              /\ act' = [act EXCEPT ![p].pc = pc] /\ act[p].pc \in {"unwrap", "reauth"}
              /\ pc # "erase" => act[p].pc = "unwrap" \/ act[p].new # NoPassword
              /\ UNCHANGED <<accounts, signed, copy, split, stray, cuts>>
              /\ trusted' \in {trusted, trusted \cup {p}}
      BY <1>6 DEF Unwrap, Reauth, GoesOn, AtStep, phones
    <2>2. PICK x \in Act : /\ x = [act[p] EXCEPT !.pc = pc]
                           /\ x.pc = pc /\ x.uid = act[p].uid /\ x.new = act[p].new
      BY <1>0, <2>1 DEF Act, Pc
    <2>3. act' = [act EXCEPT ![p] = x] /\ act[p].pc \notin Special /\ x.pc \notin Special
      BY <1>0, <2>1, <2>2 DEF Special
    <2>4. x.pc # "erase" => x.new \in Password
      BY <1>0, <2>1, <2>2 DEF PlaceOK, Act, Secret
    <2>5. x.uid # 0
      BY <1>0, <2>1, <2>2, SecretTypes DEF PlaceOK
    <2>6. x.pc # "identity"
      BY <2>2
    <2> QED BY <1>0, <1>m, <2>1, <2>2, <2>3, <2>4, <2>5, <2>6
  <1>7. ASSUME Enter(p) PROVE SecretsInv'
    <2>1. PICK x \in Act : /\ x = [act[p] EXCEPT !.pc = "rewrap"]
                           /\ x.pc = "rewrap" /\ x.uid = act[p].uid /\ x.new = act[p].new
      <3> DEFINE y == [act[p] EXCEPT !.pc = "rewrap"]
      <3>1. y \in Act /\ y.pc = "rewrap" /\ y.uid = act[p].uid /\ y.new = act[p].new
        BY <1>0 DEF Act, Pc
      <3> QED BY <3>1, Zenon
    <2>2. /\ UNCHANGED <<accounts, copy, split, stray, cuts>>
          /\ act[p].pc = "enter" /\ holder = act[p].uid /\ act' = [act EXCEPT ![p] = x]
          /\ signed' = [signed EXCEPT ![p] = holder] /\ trusted' = trusted \cup {p}
      BY <1>7, <2>1 DEF Enter, AtStep, GoesOn
    <2>3. act[p].uid # 0 /\ act[p].new \in Password
      BY <1>0, <2>2, SecretTypes DEF PlaceOK
    <2>4. Moves(p, x)
      BY <1>0, <1>u, <2>1, <2>2, <2>3 DEF Moves, Special
    <2> QED BY <2>4, QuietStep
  <1>8. ASSUME SignIn(p) \/ LeaveAccount(p) PROVE SecretsInv'
    <2>1. PICK x \in Act : x = act[p]
      BY <1>0
    <2>2. /\ act' = [act EXCEPT ![p] = x] /\ x.pc = "rest" /\ UNCHANGED <<accounts, split, stray, cuts>>
          /\ trusted' \subseteq trusted \cup {p}
      BY <1>0, <1>8, <2>1 DEF SignIn, LeaveAccount, LeavePhone, AtStep
    <2>3. copy' \in [Phone -> Secret] /\ \A q \in Phone \ {p} : copy'[q] = copy[q]
      BY <1>0, <1>i, <1>8 DEF SignIn, LeaveAccount, LeavePhone
    <2>4. /\ signed' \in [Phone -> 0..MaxUid] /\ \A q \in Phone \ {p} : signed'[q] = signed[q]
          /\ signed'[p] <= uids
          /\ \/ signed'[p] = holder /\ holder # 0 /\ wrapped[holder] # NoPassword
             \/ copy'[p] = NoPassword
      BY <1>0, <1>i, <1>8 DEF SignIn, LeaveAccount, LeavePhone
    <2>5. Moves(p, x)
      BY <1>0, <1>u, <2>1, <2>2, <2>3, <2>4 DEF Moves, Special
    <2> QED BY <2>5, QuietStep
  <1>9. ASSUME Reload(p) PROVE SecretsInv'
    <2>1. signed[p] \in Uid
      BY <1>0, <1>9, SecretTypes DEF Reload, PlaceOK
    <2>2. PICK w \in Secret : w = wrapped[signed[p]]
      BY <1>0, <2>1
    <2> QED BY <1>9, <2>2, CopyStep DEF Reload
  <1> QED
    BY <1>1, <1>2, <1>3, <1>5, <1>6, <1>7, <1>8, <1>9 DEF Quiet

-----------------------------------------------------------------------------
(* Steps that write.                                                       *)

\* What a step of p that ends at x leaves of the other calls: at most they are
\* no longer alone.
Others(p, x) ==
    /\ act' \in [Phone -> Act] /\ act'[p] = x
    /\ \A q \in Phone \ {p} :
          /\ act'[q].pc = act[q].pc /\ act'[q].uid = act[q].uid /\ act'[q].new = act[q].new
          /\ act'[q].alone => act[q].alone

LEMMA OthersKeep ==
    ASSUME SecretsInv, NEW p \in Phone, NEW x \in Act, act' = [act EXCEPT ![p] = x]
    PROVE  Others(p, x)
  BY DEF SecretsInv, TypesOK, Others

LEMMA OthersLoseAlone ==
    ASSUME SecretsInv, NEW p \in Phone, NEW x \in Act,
           act' = [q \in Phone |-> IF q = p THEN x ELSE [act[q] EXCEPT !.alone = FALSE]]
    PROVE  Others(p, x) /\ \A q \in Phone \ {p} : ~act'[q].alone
  BY DEF SecretsInv, TypesOK, Others, Act

\* What the state offers to a step of p.
LEMMA Base ==
    ASSUME SecretsInv, NEW p \in Phone
    PROVE  /\ act \in [Phone -> Act] /\ act[p] \in Act /\ act[p].uid \in 0..MaxUid
           /\ signed \in [Phone -> 0..MaxUid] /\ copy \in [Phone -> Secret] /\ trusted \subseteq Phone
           /\ wrapped \in [Uid -> Secret] /\ password \in Secret
           /\ holder \in 0..MaxUid /\ holder <= uids /\ uids \in 0..MaxUid /\ cuts \in 0..MaxCuts
           /\ act[p].uid <= uids /\ signed[p] <= uids
           /\ PlaceOK(p) /\ PendingOK(p) /\ ChangeOK(p)
           /\ NoPassword \in Secret /\ Password \subseteq Secret /\ 0 \in 0..MaxUid /\ 0 <= uids
  BY SecretTypes DEF SecretsInv, TypesOK, UidsOK, Secret, Act

\* A new identity has no documents: its maker goes on to register it, or hears nothing.
LEMMA IdentityOK ==
    ASSUME SecretsInv, NEW p \in Phone, CreateIdentity(p) \/ IdentityUnheard(p)
    PROVE  SecretsInv'
  <1>a. /\ act[p].pc = "identity" /\ holder = 0 /\ uids < MaxUid /\ uids' = uids + 1
        /\ holder' = uids + 1 /\ password' = act[p].new
        /\ UNCHANGED <<wrapped, copy, split>>
    BY DEF CreateIdentity, IdentityUnheard, IdentityMade, AtStep, phones
  <1>b. /\ uids \in Nat /\ MaxUid \in Nat /\ MaxCuts \in Nat
        /\ \A q \in Phone : /\ act[q].uid \in Nat /\ act[q].uid <= uids
                            /\ signed[q] \in Nat /\ signed[q] <= uids
    BY Base, SecretTypes
  <1>c. uids + 1 \in 0..MaxUid /\ uids + 1 \in Uid
    BY <1>a, <1>b DEF Uid
  <1>0. /\ act[p].pc = "identity" /\ holder = 0 /\ uids < MaxUid /\ uids' = uids + 1
        /\ holder' = uids + 1 /\ password' = act[p].new
        /\ UNCHANGED <<wrapped, copy, split>>
        /\ uids \in Nat /\ uids + 1 \in Uid /\ uids + 1 \in 0..MaxUid /\ act[p].new \in Password
    BY <1>a, <1>b, <1>c, Base DEF PlaceOK
  <1>1. PICK x \in Act :
            /\ act' = [act EXCEPT ![p] = x]
            /\ \/ /\ x.pc = "register" /\ x.uid = uids + 1 /\ x.new = act[p].new
                  /\ signed' = [signed EXCEPT ![p] = uids + 1] /\ trusted' = trusted \cup {p}
                  /\ UNCHANGED <<stray, cuts>>
               \/ /\ x.pc = "rest" /\ x.uid = 0 /\ UNCHANGED <<signed, trusted>>
                  /\ stray' = TRUE /\ cuts' = cuts + 1 /\ cuts < MaxCuts
    <2>1. CASE CreateIdentity(p)
      <3> DEFINE y == [act[p] EXCEPT !.pc = "register", !.uid = uids + 1]
      <3>1. y \in Act /\ y.pc = "register" /\ y.uid = uids + 1 /\ y.new = act[p].new
        BY <1>0, Base DEF Act, Pc
      <3>2. act' = [act EXCEPT ![p] = y]
        BY <2>1, Base DEF CreateIdentity
      <3>3. /\ signed' = [signed EXCEPT ![p] = uids + 1] /\ trusted' = trusted \cup {p}
            /\ UNCHANGED <<stray, cuts>>
        BY <2>1 DEF CreateIdentity
      <3> HIDE DEF y
      <3> QED BY <3>1, <3>2, <3>3, Zenon
    <2>2. CASE IdentityUnheard(p)
      BY <2>2, RestingType DEF IdentityUnheard, Ends, Resting, phones
    <2> QED BY <2>1, <2>2
  <1>2. Others(p, x)
    BY <1>1, OthersKeep
  <1>3. TypesOK'
    <2>1. signed' \in [Phone -> 0..MaxUid] /\ trusted' \subseteq Phone
      BY <1>0, <1>1, Base
    <2>c. cuts \in 0..MaxCuts /\ stray \in BOOLEAN
      BY DEF SecretsInv, TypesOK
    <2>d. stray' = stray \/ stray' = TRUE
      BY <1>1
    <2>e. cuts' = cuts \/ (cuts' = cuts + 1 /\ cuts < MaxCuts)
      BY <1>1
    <2>f. stray' \in BOOLEAN
      BY <2>c, <2>d, Zenon
    <2>g. cuts' \in 0..MaxCuts
      BY <1>b, <2>c, <2>e
    <2>2. cuts' \in 0..MaxCuts /\ stray' \in BOOLEAN
      BY <2>f, <2>g
    <2>3. password' \in Secret
      BY <1>0 DEF Secret
    <2> QED BY <1>0, <1>2, <2>1, <2>2, <2>3 DEF SecretsInv, TypesOK, Others
  <1>4. UidsOK'
    <2>1. \A u \in Uid : u > uids + 1 => u > uids
      BY <1>b DEF Uid
    <2>2. \A q \in Phone : act'[q].uid = act[q].uid \/ act'[q].uid = uids + 1 \/ act'[q].uid = 0
      BY <1>1, <1>2 DEF Others
    <2>3. \A q \in Phone : signed'[q] = signed[q] \/ signed'[q] = uids + 1
      BY <1>1, Base
    <2> QED BY <1>0, <1>b, <2>1, <2>2, <2>3 DEF SecretsInv, UidsOK
  <1>5. wrapped'[holder'] = NoPassword /\ Agree'
    BY <1>0 DEF SecretsInv, UidsOK, Agree
  <1>6. TakenNamesAreUsable'
    BY <1>0, <1>1, <1>2 DEF Others, TakenNamesAreUsable
  <1>7. \A q \in Phone : PlaceOK(q)'
    BY <1>0, <1>1, <1>2, Base DEF SecretsInv, PlaceOK, Others
  <1>8. ASSUME NEW q \in Phone PROVE PendingOK(q)'
    <2>1. CASE q = p
      BY <1>0, <1>1, <1>2, <1>5, <2>1, Base DEF PendingOK, SecretsInv, UidsOK, Others
    <2>2. CASE q # p
      <3>1. act[q].pc # "register"
        BY <1>0, Base, SecretTypes DEF SecretsInv, PendingOK, PlaceOK
      <3> QED BY <1>2, <2>2, <3>1 DEF PendingOK, Others
    <2> QED BY <2>1, <2>2
  <1>9. \A q \in Phone : act'[q].pc \in {"update", "revoke"} => q # p
    BY <1>1, <1>2 DEF Others
  <1>10. \A q \in Phone : act'[q].pc = "update" /\ q \in trusted' =>
              act[q].pc = "update" /\ q \in trusted /\ (LastWrite(q) => LastWrite(q)')
    BY <1>0, <1>1, <1>2, <1>9 DEF LastWrite, Others
  <1>11. \A q \in Phone : ChangeOK(q)'
    BY <1>0, <1>2, <1>5, <1>9, <1>10 DEF SecretsInv, ChangeOK, Others
  <1> QED BY <1>3, <1>4, <1>5, <1>6, <1>7, <1>8, <1>11 DEF SecretsInv, Settled

\* The registration stores the wrapping of the password the identity was made with.
LEMMA RegisterOK ==
    ASSUME SecretsInv, NEW p \in Phone, Register(p) \/ NotRegistered(p)
    PROVE  SecretsInv'
  <1>0. /\ act[p].pc = "register" /\ holder = act[p].uid /\ password = act[p].new
        /\ act[p].uid \in Uid /\ act[p].new \in Password /\ wrapped[act[p].uid] = NoPassword
        /\ UNCHANGED <<holder, password, uids, signed, trusted, split, stray>>
        /\ copy[p] = NoPassword /\ signed[p] = act[p].uid
        /\ \A q \in Phone \ {p} : act[q].uid # act[p].uid
    BY Base DEF Register, NotRegistered, AtStep, PlaceOK, PendingOK, phones
  <1>1. PICK x \in Act :
            /\ act' = [act EXCEPT ![p] = x]
            /\ \/ /\ x.pc = "rest" /\ x.uid = 0 /\ UNCHANGED cuts
                  /\ wrapped' = [wrapped EXCEPT ![act[p].uid] = act[p].new]
                  /\ copy' = [copy EXCEPT ![p] = act[p].new]
               \/ /\ x.pc = "undo" /\ x.uid = act[p].uid /\ x.new = act[p].new /\ UNCHANGED copy
                  /\ cuts' = cuts + 1 /\ cuts < MaxCuts
                  /\ wrapped' \in {wrapped, [wrapped EXCEPT ![act[p].uid] = act[p].new]}
    <2>1. CASE NotRegistered(p)
      <3> DEFINE y == [act[p] EXCEPT !.pc = "undo"]
      <3>1. y \in Act /\ y.pc = "undo" /\ y.uid = act[p].uid /\ y.new = act[p].new
        BY Base DEF Act, Pc
      <3>2. act' = [act EXCEPT ![p] = y]
        BY <2>1, Base DEF NotRegistered, GoesOn
      <3>3. /\ cuts' = cuts + 1 /\ cuts < MaxCuts /\ UNCHANGED copy
            /\ wrapped' \in {wrapped, [wrapped EXCEPT ![act[p].uid] = act[p].new]}
        BY <2>1 DEF NotRegistered, phones
      <3> HIDE DEF y
      <3> QED BY <3>1, <3>2, <3>3
    <2>2. CASE Register(p)
      BY <2>2, RestingType DEF Register, Ends, Resting
    <2> QED BY <2>1, <2>2
  <1>2. Others(p, x)
    BY <1>1, OthersKeep
  <1>3. TypesOK'
    BY <1>0, <1>1, <1>2, Base, SecretTypes DEF SecretsInv, TypesOK, Others
  <1>4. /\ \A u \in Uid : u # act[p].uid => wrapped'[u] = wrapped[u]
        /\ wrapped'[act[p].uid] \in {NoPassword, act[p].new}
        /\ x.pc = "rest" => wrapped'[act[p].uid] = act[p].new
    BY <1>0, <1>1, Base
  <1>5. UidsOK'
    BY <1>0, <1>1, <1>2, <1>4, Base, SecretTypes DEF SecretsInv, UidsOK, Others
  <1>6. Agree'
    BY <1>0, <1>4 DEF Agree
  <1>7. TakenNamesAreUsable'
    BY <1>0, <1>1, <1>2, <1>4, SecretTypes DEF Others, TakenNamesAreUsable
  <1>8. \A q \in Phone : PlaceOK(q)'
    BY <1>0, <1>1, <1>2, Base, SecretTypes DEF SecretsInv, PlaceOK, Others
  <1>9. \A q \in Phone : PendingOK(q)'
    BY <1>0, <1>1, <1>2, Base DEF SecretsInv, PendingOK, Others
  <1>10. \A q \in Phone : act'[q].pc \in {"update", "revoke"} =>
              q # p /\ act[q].uid \in Uid /\ wrapped'[act[q].uid] = wrapped[act[q].uid]
    BY <1>0, <1>1, <1>2, <1>4, Base DEF Others, PlaceOK
  <1>11. \A q \in Phone : ChangeOK(q)'
    BY <1>0, <1>2, <1>6, <1>10 DEF SecretsInv, ChangeOK, LastWrite, Others
  <1> QED BY <1>3, <1>5, <1>6, <1>7, <1>8, <1>9, <1>11 DEF SecretsInv, Settled

\* An identity that goes takes nothing from another.
LEMMA RemovalOK ==
    ASSUME SecretsInv, NEW p \in Phone, Undo(p) \/ Dismiss(p)
    PROVE  SecretsInv'
  <1>0. /\ act[p].pc \in {"undo", "dismiss"} /\ act[p].uid \in Uid
        /\ act' = [act EXCEPT ![p] = Resting]
        /\ UNCHANGED <<uids, wrapped, copy, split, stray, cuts>>
        /\ \/ holder = act[p].uid /\ holder' = 0 /\ password' = NoPassword
           \/ holder # act[p].uid /\ UNCHANGED <<holder, password>>
        /\ \/ UNCHANGED <<signed, trusted>>
           \/ /\ act[p].pc = "undo"
              /\ signed' = [signed EXCEPT ![p] = 0] /\ trusted' = trusted \ {p}
    BY Base DEF Undo, Dismiss, AtStep, PlaceOK, Removed, Ends, phones
  <1>1. Resting.pc = "rest" /\ Resting.uid = 0
    BY DEF Resting
  <1>2. Others(p, Resting)
    BY <1>0, RestingType, OthersKeep
  <1>3. TypesOK'
    BY <1>0, <1>2, Base, SecretTypes DEF SecretsInv, TypesOK, Others
  <1>4. UidsOK'
    BY <1>0, <1>1, <1>2, Base DEF SecretsInv, UidsOK, Others
  <1>5. Agree => Agree'
    BY <1>0 DEF Agree
  <1>6. TakenNamesAreUsable'
    BY <1>0, <1>2 DEF SecretsInv, TakenNamesAreUsable, Others
  <1>7. Settled'
    BY <1>0, <1>1, <1>2, <1>5 DEF SecretsInv, Settled, Others
  <1>8. \A q \in Phone : PlaceOK(q)'
    BY <1>0, <1>1, <1>2, Base DEF SecretsInv, PlaceOK, Others
  <1>9. ASSUME NEW q \in Phone, act'[q].pc = "register" PROVE PendingOK(q)'
    <2>1. q # p /\ act[q].pc = "register" /\ PendingOK(q) /\ act[q].uid # 0
      BY <1>1, <1>2, <1>9, Base, SecretTypes DEF SecretsInv, PlaceOK, Others
    <2>2. holder = act[q].uid /\ act[q].uid # act[p].uid
      BY <1>0, <2>1 DEF PendingOK
    <2>3. /\ \A r \in Phone : act'[r].uid = act[r].uid \/ act'[r].uid = 0
          /\ \A r \in Phone \ {p} : signed'[r] = signed[r]
          /\ act'[q].uid = act[q].uid /\ act'[q].new = act[q].new
      BY <1>0, <1>1, <1>2, <2>1, Base DEF Others
    <2>4. copy[p] = NoPassword \/ signed'[p] = signed[p]
      BY <1>0, Base DEF PlaceOK
    <2> QED BY <1>0, <2>1, <2>2, <2>3, <2>4 DEF PendingOK
  <1>10. \A q \in Phone : act'[q].pc \in {"update", "revoke"} => q # p
    BY <1>1, <1>2 DEF Others
  <1>11. \A q \in Phone : ChangeOK(q)'
    BY <1>0, <1>2, <1>5, <1>10, Base DEF SecretsInv, ChangeOK, LastWrite, Others
  <1> QED BY <1>3, <1>4, <1>6, <1>7, <1>8, <1>9, <1>11 DEF SecretsInv, PendingOK

\* The first write: only a change that nobody overlaps can settle.
LEMMA RewrapOK ==
    ASSUME SecretsInv, NEW p \in Phone, Rewrap(p) \/ RewrapUnheard(p)
    PROVE  SecretsInv'
  <1>0. /\ act[p].pc = "rewrap" /\ act[p].uid \in Uid /\ act[p].new \in Password
        /\ wrapped[act[p].uid] # NoPassword
        /\ wrapped' = [wrapped EXCEPT ![act[p].uid] = act[p].new]
        /\ UNCHANGED <<holder, password, uids, signed, trusted, copy, stray>>
    BY Base DEF Rewrap, RewrapUnheard, AtStep, Accepted, Rewrapped, PlaceOK, phones
  <1>1. PICK x \in Act :
            /\ act' = [q \in Phone |-> IF q = p THEN x ELSE [act[q] EXCEPT !.alone = FALSE]]
            /\ \/ /\ x.pc = "update" /\ x.uid = act[p].uid /\ x.new = act[p].new /\ UNCHANGED cuts
                  /\ ~split' => ~split /\ \A q \in Phone \ {p} : act[q].pc # "update"
               \/ x.pc = "rest" /\ x.uid = 0 /\ split' = TRUE /\ cuts' = cuts + 1 /\ cuts < MaxCuts
    <2>1. CASE Rewrap(p)
      <3> DEFINE y == [act[p] EXCEPT !.pc = "update", !.alone = TRUE]
      <3>1. y \in Act /\ y.pc = "update" /\ y.uid = act[p].uid /\ y.new = act[p].new
        BY Base DEF Act, Pc
      <3>2. act' = [q \in Phone |-> IF q = p THEN y ELSE [act[q] EXCEPT !.alone = FALSE]]
        BY <2>1 DEF Rewrap, Wrote
      <3>3. UNCHANGED cuts /\ (~split' => ~split /\ \A q \in Phone \ {p} : act[q].pc # "update")
        BY <2>1 DEF Rewrap, Overlaps, AtStep
      <3> HIDE DEF y
      <3> QED BY <3>1, <3>2, <3>3, Zenon
    <2>2. CASE RewrapUnheard(p)
      <3>1. act' = [q \in Phone |-> IF q = p THEN Resting ELSE [act[q] EXCEPT !.alone = FALSE]]
        BY <2>2 DEF RewrapUnheard
      <3>2. split' = TRUE /\ cuts' = cuts + 1 /\ cuts < MaxCuts
        BY <2>2 DEF RewrapUnheard
      <3>3. Resting.pc = "rest" /\ Resting.uid = 0
        BY DEF Resting
      <3> QED BY <3>1, <3>2, <3>3, RestingType, Zenon
    <2> QED BY <2>1, <2>2
  <1>2. Others(p, x) /\ \A q \in Phone \ {p} : ~act'[q].alone
    BY <1>1, OthersLoseAlone
  <1>3. TypesOK'
    <2>1. wrapped' \in [Uid -> Secret]
      BY <1>0, Base
    <2>2. split' \in BOOLEAN
      BY Zenon DEF Rewrap, RewrapUnheard, SecretsInv, TypesOK
    <2>c. cuts' = cuts \/ (cuts' = cuts + 1 /\ cuts < MaxCuts)
      BY <1>1
    <2>d. cuts' \in 0..MaxCuts
      BY <2>c, Base, SecretTypes
    <2> QED BY <1>0, <1>2, <2>1, <2>2, <2>d DEF SecretsInv, TypesOK, Others
  <1>4. /\ \A u \in Uid : u # act[p].uid => wrapped'[u] = wrapped[u]
        /\ wrapped'[act[p].uid] = act[p].new
    BY <1>0, Base
  <1>5. UidsOK'
    BY <1>0, <1>1, <1>2, <1>4, Base, SecretTypes DEF SecretsInv, UidsOK, Others
  <1>6. TakenNamesAreUsable'
    <2>1. wrapped'[holder] = NoPassword /\ holder # 0 => wrapped[holder] = NoPassword
      BY <1>0, <1>4, Base, SecretTypes
    <2> QED BY <1>0, <1>2, <2>1 DEF SecretsInv, TakenNamesAreUsable, Others
  <1>7. Settled'
    BY <1>1, <1>2 DEF Settled, Others
  <1>8. \A q \in Phone : PlaceOK(q)'
    BY <1>0, <1>1, <1>2, Base DEF SecretsInv, PlaceOK, Others
  <1>9. ASSUME NEW q \in Phone, act'[q].pc = "register" PROVE PendingOK(q)'
    <2>1. q # p /\ act[q].pc = "register" /\ act[q].uid \in Uid /\ act[q].uid # act[p].uid
      BY <1>0, <1>1, <1>2, <1>9, Base DEF PendingOK, PlaceOK, Others
    <2>2. act'[q].uid = act[q].uid /\ act'[q].new = act[q].new /\ wrapped'[act[q].uid] = wrapped[act[q].uid]
      BY <1>2, <1>4, <2>1 DEF Others
    <2>3. \A r \in Phone : act'[r].uid = act[r].uid \/ act'[r].uid = 0
      BY <1>1, <1>2 DEF Others
    <2>4. PendingOK(q)
      BY DEF SecretsInv
    <2> QED BY <1>0, <2>1, <2>2, <2>3, <2>4, SecretTypes DEF PendingOK
  <1>10. ASSUME NEW q \in Phone PROVE ChangeOK(q)'
    <2>1. CASE q = p
      BY <1>1, <1>2, <1>4, <2>1 DEF ChangeOK, LastWrite, Others
    <2>2. CASE q # p
      BY <1>1, <1>2, <2>2 DEF ChangeOK, Others
    <2> QED BY <2>1, <2>2
  <1> QED BY <1>3, <1>5, <1>6, <1>7, <1>8, <1>9, <1>10 DEF SecretsInv, PendingOK

\* The second write follows the first one that still stands.
LEMMA UpdateOK ==
    ASSUME SecretsInv, NEW p \in Phone, Update(p) \/ UpdateUnheard(p)
    PROVE  SecretsInv'
  <1>0. /\ act[p].pc = "update" /\ act[p].uid \in Uid /\ act[p].new \in Password
        /\ p \in trusted /\ holder = act[p].uid
        /\ password' = act[p].new /\ trusted' = {p}
        /\ UNCHANGED <<holder, uids, wrapped, signed, copy, split, stray>>
    BY Base DEF Update, UpdateUnheard, AtStep, Updated, PlaceOK
  <1>1. PICK x \in Act :
            /\ act' = [q \in Phone |-> IF q = p THEN x ELSE [act[q] EXCEPT !.alone = FALSE]]
            /\ \/ /\ x.pc = "revoke" /\ x.uid = act[p].uid /\ x.new = act[p].new
                  /\ x.alone = act[p].alone /\ UNCHANGED cuts
               \/ x.pc = "rest" /\ x.uid = 0 /\ cuts' = cuts + 1 /\ cuts < MaxCuts
    <2>1. CASE Update(p)
      <3> DEFINE y == [act[p] EXCEPT !.pc = "revoke"]
      <3>1. /\ y \in Act /\ y.pc = "revoke" /\ y.uid = act[p].uid /\ y.new = act[p].new
            /\ y.alone = act[p].alone
        BY Base DEF Act, Pc
      <3>2. /\ act' = [q \in Phone |-> IF q = p THEN y ELSE [act[q] EXCEPT !.alone = FALSE]]
            /\ UNCHANGED cuts
        BY <2>1 DEF Update
      <3> HIDE DEF y
      <3> QED BY <3>1, <3>2, Zenon
    <2>2. CASE UpdateUnheard(p)
      <3>1. /\ act' = [q \in Phone |-> IF q = p THEN Resting ELSE [act[q] EXCEPT !.alone = FALSE]]
            /\ cuts' = cuts + 1 /\ cuts < MaxCuts
        BY <2>2 DEF UpdateUnheard
      <3>2. Resting.pc = "rest" /\ Resting.uid = 0
        BY DEF Resting
      <3> QED BY <3>1, <3>2, RestingType, Zenon
    <2> QED BY <2>1, <2>2
  <1>2. Others(p, x) /\ \A q \in Phone \ {p} : ~act'[q].alone
    BY <1>1, OthersLoseAlone
  <1>3. TypesOK'
    <2>1. password' \in Secret /\ trusted' \subseteq Phone
      BY <1>0 DEF Secret
    <2>2. cuts' = cuts \/ (cuts' = cuts + 1 /\ cuts < MaxCuts)
      BY <1>1
    <2>3. cuts' \in 0..MaxCuts
      BY <2>2, Base, SecretTypes
    <2> QED BY <1>0, <1>2, <2>1, <2>3 DEF SecretsInv, TypesOK, Others
  <1>4. UidsOK'
    BY <1>0, <1>1, <1>2, Base DEF SecretsInv, UidsOK, Others
  <1>5. TakenNamesAreUsable'
    BY <1>0, <1>2 DEF SecretsInv, TakenNamesAreUsable, Others
  <1>6. LastWrite(p) => Agree'
    BY <1>0 DEF LastWrite, Agree
  <1>7. Settled'
    BY <1>0, <1>6, Base DEF ChangeOK, Settled
  <1>8. \A q \in Phone : PlaceOK(q)'
    BY <1>0, <1>1, <1>2, Base DEF SecretsInv, PlaceOK, Others
  <1>9. \A q \in Phone : act'[q].pc # "register"
    BY <1>0, <1>1, <1>2 DEF SecretsInv, PendingOK, Others
  <1>10. \A q \in Phone : act'[q].pc = "update" => q # p /\ q \notin trusted' /\ ~act'[q].alone
    BY <1>0, <1>1, <1>2 DEF Others
  <1>11. act[p].alone => LastWrite(p)
    BY <1>0, Base DEF ChangeOK, LastWrite
  <1>12. ASSUME NEW q \in Phone, act'[q].pc = "revoke", act'[q].alone PROVE Agree'
    BY <1>1, <1>2, <1>6, <1>11, <1>12 DEF Others
  <1>13. \A q \in Phone : ChangeOK(q)'
    BY <1>10, <1>12 DEF ChangeOK
  <1> QED BY <1>3, <1>4, <1>5, <1>7, <1>8, <1>9, <1>13 DEF SecretsInv, PendingOK

\* A change that ends: half-way it leaves a split, alone it has repaired one.
LEMMA ChangeEnds ==
    ASSUME SecretsInv, NEW p \in Phone, Outdated(p) \/ Succeed(p)
    PROVE  SecretsInv'
  <1>0. /\ act[p].pc \in {"update", "revoke"} /\ act' = [act EXCEPT ![p] = Resting]
        /\ UNCHANGED <<holder, password, uids, wrapped, stray, cuts>>
        /\ \/ UNCHANGED <<signed, trusted, copy>>
           \/ /\ signed' = [signed EXCEPT ![p] = 0] /\ trusted' = trusted \ {p}
              /\ copy' = [copy EXCEPT ![p] = NoPassword]
        /\ ~split' => /\ act[p].pc = "revoke"
                      /\ ~split \/ act[p].alone
    BY DEF Outdated, Succeed, AtStep, Ends, LeavePhone, accounts, phones
  <1>1. Resting.pc = "rest" /\ Resting.uid = 0
    BY DEF Resting
  <1>2. Others(p, Resting)
    BY <1>0, RestingType, OthersKeep
  <1>3. TypesOK'
    <2>1. split' \in BOOLEAN
      BY Zenon DEF Outdated, Succeed, SecretsInv, TypesOK
    <2> QED BY <1>0, <1>2, <2>1, Base, SecretTypes DEF SecretsInv, TypesOK, Others
  <1>4. UidsOK'
    BY <1>0, <1>1, <1>2, Base DEF SecretsInv, UidsOK, Others
  <1>5. TakenNamesAreUsable'
    BY <1>0, <1>2 DEF SecretsInv, TakenNamesAreUsable, Others
  <1>6. Agree' <=> Agree
    BY <1>0 DEF Agree
  <1>7. \A q \in Phone : act'[q].pc \in {"update", "revoke", "register"} =>
            q # p /\ act'[q].pc = act[q].pc
    BY <1>1, <1>2 DEF Others
  <1>8. \A q \in Phone : act'[q].pc = "update" /\ q \in trusted' =>
            act[q].pc = "update" /\ q \in trusted /\ (LastWrite(q)' <=> LastWrite(q))
    BY <1>0, <1>2, <1>7 DEF LastWrite, Others
  <1>9. ~split' => /\ \A q \in Phone : act'[q].pc = "update" /\ q \in trusted' => LastWrite(q)'
                   /\ (\A q \in Phone : act'[q].pc # "update") => Agree'
    <2>1. CASE ~split /\ act[p].pc = "revoke"
      <3>1. (\A q \in Phone : act'[q].pc # "update") => \A q \in Phone : act[q].pc # "update"
        BY <1>2, <2>1 DEF Others
      <3> QED BY <1>6, <1>8, <2>1, <3>1 DEF SecretsInv, Settled, ChangeOK
    <2>2. CASE act[p].alone /\ act[p].pc = "revoke"
      BY <1>6, <1>8, <2>2, Base DEF ChangeOK
    <2> QED BY <1>0, <2>1, <2>2
  <1>10. Settled'
    BY <1>9 DEF Settled
  <1>11. \A q \in Phone : PlaceOK(q)'
    BY <1>0, <1>1, <1>2, Base DEF SecretsInv, PlaceOK, Others
  <1>12. ASSUME NEW q \in Phone, act'[q].pc = "register" PROVE PendingOK(q)'
    <2>1. q # p /\ act[q].pc = "register" /\ PendingOK(q) /\ act[q].uid # 0
      BY <1>7, <1>12, Base, SecretTypes DEF SecretsInv, PlaceOK
    <2>2. /\ \A r \in Phone : act'[r].uid = act[r].uid \/ act'[r].uid = 0
          /\ \A r \in Phone \ {p} : signed'[r] = signed[r] /\ copy'[r] = copy[r]
          /\ act'[q].uid = act[q].uid /\ act'[q].new = act[q].new
          /\ copy'[p] = NoPassword \/ (copy'[p] = copy[p] /\ signed'[p] = signed[p])
      BY <1>0, <1>1, <1>2, <2>1, Base DEF Others
    <2> QED BY <1>0, <2>1, <2>2 DEF PendingOK
  <1>13. ASSUME NEW q \in Phone PROVE ChangeOK(q)'
    <2>1. act'[q].pc = "update" /\ act'[q].alone => wrapped'[act'[q].uid] = act'[q].new
      BY <1>0, <1>2, <1>7 DEF SecretsInv, ChangeOK, Others
    <2>2. ASSUME act'[q].pc = "revoke", act'[q].alone
          PROVE  Agree' /\ \A r \in Phone : act'[r].pc = "update" /\ r \in trusted' => LastWrite(r)'
      BY <1>2, <1>6, <1>7, <1>8, <2>2 DEF SecretsInv, ChangeOK, Others
    <2> QED BY <1>9, <2>1, <2>2 DEF ChangeOK
  <1> QED BY <1>3, <1>4, <1>5, <1>10, <1>11, <1>12, <1>13 DEF SecretsInv, PendingOK

\* A deletion takes the documents, and trust in every phone.
LEMMA EraseOK ==
    ASSUME SecretsInv, NEW p \in Phone, Erase(p)
    PROVE  SecretsInv'
  <1>0. /\ act[p].pc = "erase" /\ act[p].uid \in Uid /\ wrapped[act[p].uid] # NoPassword
        /\ wrapped' = [wrapped EXCEPT ![act[p].uid] = NoPassword]
        /\ trusted' = {} /\ signed' = [signed EXCEPT ![p] = 0]
        /\ copy' = [copy EXCEPT ![p] = NoPassword]
        /\ UNCHANGED <<holder, password, uids, split, stray, cuts>>
    BY Base DEF Erase, AtStep, Accepted, PlaceOK
  <1>1. PICK x \in Act :
            /\ act' = [q \in Phone |-> IF q = p THEN x ELSE [act[q] EXCEPT !.alone = FALSE]]
            /\ x.pc = "dismiss" /\ x.uid = act[p].uid
    <2> DEFINE y == [act[p] EXCEPT !.pc = "dismiss", !.alone = TRUE]
    <2>1. y \in Act /\ y.pc = "dismiss" /\ y.uid = act[p].uid
      BY Base DEF Act, Pc
    <2>2. act' = [q \in Phone |-> IF q = p THEN y ELSE [act[q] EXCEPT !.alone = FALSE]]
      BY DEF Erase, Wrote
    <2> HIDE DEF y
    <2> QED BY <2>1, <2>2, Zenon
  <1>2. Others(p, x) /\ \A q \in Phone \ {p} : ~act'[q].alone
    BY <1>1, OthersLoseAlone
  <1>3. TypesOK'
    <2>1. wrapped' \in [Uid -> Secret] /\ copy' \in [Phone -> Secret]
      BY <1>0, Base
    <2>2. signed' \in [Phone -> 0..MaxUid]
      BY <1>0, Base
    <2> QED BY <1>0, <1>2, <2>1, <2>2 DEF SecretsInv, TypesOK, Others
  <1>4. /\ \A u \in Uid : u # act[p].uid => wrapped'[u] = wrapped[u]
        /\ wrapped'[act[p].uid] = NoPassword
    BY <1>0, Base
  <1>5. UidsOK'
    BY <1>0, <1>1, <1>2, <1>4, Base DEF SecretsInv, UidsOK, Others
  <1>6. TakenNamesAreUsable'
    <2>1. CASE holder = act[p].uid
      BY <1>0, <1>1, <1>2, <2>1 DEF TakenNamesAreUsable, Others
    <2>2. CASE holder # act[p].uid /\ holder # 0
      <3>1. wrapped'[holder] = wrapped[holder]
        BY <1>4, <2>2, Base, SecretTypes
      <3> QED BY <1>0, <1>2, <3>1 DEF SecretsInv, TakenNamesAreUsable, Others
    <2>3. CASE holder = 0
      BY <1>0, <2>3 DEF TakenNamesAreUsable
    <2> QED BY <2>1, <2>2, <2>3
  <1>7. Agree => Agree'
    BY <1>0, <1>4, Base, SecretTypes DEF Agree
  <1>8. Settled'
    <2>1. (\A q \in Phone : act'[q].pc # "update") => \A q \in Phone : act[q].pc # "update"
      BY <1>0, <1>2 DEF Others
    <2> QED BY <1>0, <1>7, <2>1 DEF SecretsInv, Settled
  <1>9. \A q \in Phone : PlaceOK(q)'
    BY <1>0, <1>1, <1>2, Base DEF SecretsInv, PlaceOK, Others
  <1>10. ASSUME NEW q \in Phone, act'[q].pc = "register" PROVE PendingOK(q)'
    <2>1. q # p /\ act[q].pc = "register" /\ PendingOK(q)
      BY <1>1, <1>2, <1>10 DEF SecretsInv, Others
    <2>2. act[q].uid # act[p].uid /\ act[q].uid \in Uid /\ act[q].uid # 0
      BY <2>1, Base, SecretTypes DEF PendingOK, PlaceOK
    <2>3. /\ \A r \in Phone : act'[r].uid = act[r].uid
          /\ \A r \in Phone \ {p} : signed'[r] = signed[r] /\ copy'[r] = copy[r]
          /\ act'[q].new = act[q].new /\ copy'[p] = NoPassword
          /\ wrapped'[act[q].uid] = wrapped[act[q].uid]
      BY <1>0, <1>1, <1>2, <1>4, <2>1, <2>2, Base DEF Others
    <2> QED BY <1>0, <2>1, <2>2, <2>3 DEF PendingOK
  <1>11. \A q \in Phone : act'[q].pc \in {"update", "revoke"} => q # p
    BY <1>1, <1>2 DEF Others
  <1>12. \A q \in Phone : ChangeOK(q)'
    BY <1>0, <1>2, <1>11 DEF ChangeOK
  <1> QED BY <1>3, <1>5, <1>6, <1>8, <1>9, <1>10, <1>12 DEF SecretsInv, PendingOK

\* A call that is cut off leaves what it wrote, and is remembered where that matters.
LEMMA CutOK ==
    ASSUME SecretsInv, NEW p \in Phone, Cut(p)
    PROVE  SecretsInv'
  <1>0. /\ act' = [act EXCEPT ![p] = Resting]
        /\ UNCHANGED <<holder, password, uids, wrapped, signed>>
        /\ ~split' => ~split /\ act[p].pc # "update"
        /\ act[p].pc \in {"register", "undo", "dismiss"} => stray'
        /\ stray => stray'
        /\ trusted' \subseteq trusted /\ cuts' = cuts + 1 /\ cuts < MaxCuts
    BY DEF Cut, AtStep, Ends, accounts
  <1>a. copy' = copy \/ copy' = [copy EXCEPT ![p] = NoPassword]
    BY DEF Cut
  <1>1. Resting.pc = "rest" /\ Resting.uid = 0
    BY DEF Resting
  <1>2. Others(p, Resting)
    BY <1>0, RestingType, OthersKeep
  <1>b. /\ copy' \in [Phone -> Secret]
        /\ \A q \in Phone : copy'[q] = copy[q] \/ copy'[q] = NoPassword
    BY <1>a, Base
  <1>3. TypesOK'
    <2>1. split' \in BOOLEAN /\ stray' \in BOOLEAN
      BY Zenon DEF Cut, SecretsInv, TypesOK
    <2>2. cuts' \in 0..MaxCuts
      BY <1>0, Base, SecretTypes
    <2> QED BY <1>0, <1>2, <1>b, <2>1, <2>2 DEF SecretsInv, TypesOK, Others
  <1>4. UidsOK'
    BY <1>0, <1>1, <1>2, Base DEF SecretsInv, UidsOK, Others
  <1>5. TakenNamesAreUsable'
    BY <1>0, <1>2 DEF SecretsInv, TakenNamesAreUsable, Others
  <1>6. Agree' <=> Agree
    BY <1>0 DEF Agree
  <1>7. \A q \in Phone : act'[q].pc \in {"update", "revoke", "register"} =>
            q # p /\ act'[q].pc = act[q].pc
    BY <1>1, <1>2 DEF Others
  <1>8. \A q \in Phone : act'[q].pc = "update" /\ q \in trusted' =>
            act[q].pc = "update" /\ q \in trusted /\ (LastWrite(q)' <=> LastWrite(q))
    BY <1>0, <1>2, <1>7 DEF LastWrite, Others
  <1>9. Settled'
    <2>1. ~split' /\ (\A q \in Phone : act'[q].pc # "update") =>
              ~split /\ \A q \in Phone : act[q].pc # "update"
      BY <1>0, <1>2 DEF Others
    <2> QED BY <1>6, <2>1 DEF SecretsInv, Settled
  <1>10. \A q \in Phone : PlaceOK(q)'
    BY <1>0, <1>1, <1>2, <1>b DEF SecretsInv, PlaceOK, Others
  <1>11. ASSUME NEW q \in Phone, act'[q].pc = "register" PROVE PendingOK(q)'
    <2>1. q # p /\ act[q].pc = "register" /\ PendingOK(q) /\ act[q].uid # 0
      BY <1>7, <1>11, Base, SecretTypes DEF SecretsInv, PlaceOK
    <2>2. /\ \A r \in Phone : act'[r].uid = act[r].uid \/ act'[r].uid = 0
          /\ act'[q].uid = act[q].uid /\ act'[q].new = act[q].new
      BY <1>1, <1>2, <2>1 DEF Others
    <2> QED BY <1>0, <1>b, <2>1, <2>2 DEF PendingOK
  <1>12. ASSUME NEW q \in Phone PROVE ChangeOK(q)'
    <2>1. act'[q].pc = "update" /\ act'[q].alone => wrapped'[act'[q].uid] = act'[q].new
      BY <1>0, <1>2, <1>7 DEF SecretsInv, ChangeOK, Others
    <2>2. act'[q].pc = "update" /\ ~split' /\ q \in trusted' => LastWrite(q)'
      BY <1>0, <1>8 DEF SecretsInv, ChangeOK
    <2>3. ASSUME act'[q].pc = "revoke", act'[q].alone
          PROVE  Agree' /\ \A r \in Phone : act'[r].pc = "update" /\ r \in trusted' => LastWrite(r)'
      BY <1>2, <1>6, <1>7, <1>8, <2>3 DEF SecretsInv, ChangeOK, Others
    <2> QED BY <2>1, <2>2, <2>3 DEF ChangeOK
  <1> QED BY <1>3, <1>4, <1>5, <1>9, <1>10, <1>11, <1>12 DEF SecretsInv, PendingOK

-----------------------------------------------------------------------------
LEMMA SecretsNextInv == SecretsInv /\ [SecretsNext]_secretVars => SecretsInv'
  <1> SUFFICES ASSUME SecretsInv, [SecretsNext]_secretVars PROVE SecretsInv'
    OBVIOUS
  <1>1. CASE UNCHANGED secretVars
    BY <1>1 DEF secretVars, SecretsInv, TypesOK, UidsOK, TakenNamesAreUsable, Settled, Agree,
                PlaceOK, PendingOK, ChangeOK, LastWrite
  <1>2. CASE SecretsNext
    <2>1. PICK p \in Phone :
              \/ Quiet(p) \/ Locked(p) \/ CreateIdentity(p) \/ IdentityUnheard(p)
              \/ Register(p) \/ NotRegistered(p) \/ Undo(p) \/ Dismiss(p)
              \/ Rewrap(p) \/ RewrapUnheard(p) \/ Update(p) \/ UpdateUnheard(p)
              \/ Outdated(p) \/ Succeed(p) \/ Erase(p) \/ Cut(p)
      BY <1>2 DEF SecretsNext, Quiet
    <2>2. CASE Quiet(p)
      BY <2>2, QuietOK
    <2>3. CASE Locked(p)
      BY <2>3, CopyStep, Base DEF Locked
    <2>4. CASE CreateIdentity(p) \/ IdentityUnheard(p)
      BY <2>4, IdentityOK
    <2>5. CASE Register(p) \/ NotRegistered(p)
      BY <2>5, RegisterOK
    <2>6. CASE Undo(p) \/ Dismiss(p)
      BY <2>6, RemovalOK
    <2>7. CASE Rewrap(p) \/ RewrapUnheard(p)
      BY <2>7, RewrapOK
    <2>8. CASE Update(p) \/ UpdateUnheard(p)
      BY <2>8, UpdateOK
    <2>9. CASE Outdated(p) \/ Succeed(p)
      BY <2>9, ChangeEnds
    <2>10. CASE Erase(p)
      BY <2>10, EraseOK
    <2>11. CASE Cut(p)
      BY <2>11, CutOK
    <2> QED BY <2>1, <2>2, <2>3, <2>4, <2>5, <2>6, <2>7, <2>8, <2>9, <2>10, <2>11
  <1> QED BY <1>1, <1>2

\* Every call finds the account and the phones as its place in the code expects,
\* however many devices sign up, change, recover, delete and are cut off.
THEOREM SecretsInvariant == SecretsSpec => []SecretsInv
  BY SecretsInitInv, SecretsNextInv, PTL DEF SecretsSpec

\* authService.ts:134, useSecurityActions.ts:84 - for any number of devices, the
\* password Firebase accepts opens the vault unless a change was cut in half.
THEOREM VaultOpens == SecretsSpec => []PasswordOpensVault
  <1>1. SecretsInv => PasswordOpensVault
    BY DEF SecretsInv, Settled, Agree, PasswordOpensVault, AtStep
  <1> QED BY <1>1, SecretsInvariant, PTL

\* userAuthService.ts:24, userWrites.ts:80 - a username that is taken has an account
\* with documents, or one under way, unless an identity was lost.
THEOREM NamesAreUsable == SecretsSpec => []TakenNamesAreUsable
  <1>1. SecretsInv => TakenNamesAreUsable
    BY DEF SecretsInv
  <1> QED BY <1>1, SecretsInvariant, PTL
=============================================================================
