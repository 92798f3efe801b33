---------------------------- MODULE MCServerParts ----------------------------
(***************************************************************************)
(* Model checking parts of the API server, and of what the app does with   *)
(* the accounts, that share no state: a behaviour runs one of them.        *)
(***************************************************************************)
EXTENDS UserRecords, KeyPages, PushTokens, MfaCodes, MfaTransitions, AccountSecrets, TLC

VARIABLE part  \* the part that runs

partVars == <<recVars, pageVars, pushVars, codeVars, vars, secretVars, part>>

PartsInit ==
    /\ part \in {"records", "pages", "tokens", "codes", "switches", "secrets"}
    /\ RecInit /\ PageInit /\ PushInit /\ CodesInit /\ Init /\ SecretsInit
    \* what a part that does not run starts with makes no difference
    /\ part # "pages" => stored = {}

PartsNext ==
    /\ UNCHANGED part
    /\ \/ part = "records" /\ RecNext /\ UNCHANGED <<pageVars, pushVars, codeVars, vars, secretVars>>
       \/ part = "pages" /\ PageNext /\ UNCHANGED <<recVars, pushVars, codeVars, vars, secretVars>>
       \/ part = "tokens" /\ PushNext /\ UNCHANGED <<recVars, pageVars, codeVars, vars, secretVars>>
       \/ part = "codes" /\ ~again /\ CodesNext /\ UNCHANGED <<recVars, pageVars, pushVars, vars, secretVars>>
       \/ part = "switches" /\ Next /\ UNCHANGED <<recVars, pageVars, pushVars, codeVars, secretVars>>
       \/ part = "secrets" /\ SecretsNext /\ UNCHANGED <<recVars, pageVars, pushVars, codeVars, vars>>

PartsSpec == PartsInit /\ [][PartsNext]_partVars

\* Requests are interchangeable, and so are users and the key records of a user.
PartsSymmetry == Permutations(Handler) \cup Permutations(Key)
=============================================================================
