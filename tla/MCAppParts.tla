----------------------------- MODULE MCAppParts -----------------------------
(***************************************************************************)
(* Model checking parts of the mobile app that share no state: a behaviour *)
(* runs one of them.                                                       *)
(***************************************************************************)
EXTENDS MCSessionClient, KeyVault, PgpBridge, OperationCenter, AppUpdates,
        SecureStorage, SecureClipboard, ModalPrompts, TLC

VARIABLE part  \* the part that runs

partVars == <<vars, vaultVars, bridgeVars, centerVars, updateVars, storageVars, clipVars, modalVars,
              part>>

PartsInit ==
    /\ part \in {"session", "vault", "engine", "operations", "updates", "storage", "clipboard",
                "prompts"}
    /\ Init /\ VaultInit /\ BridgeInit /\ CenterInit /\ UpdatesInit /\ StorageInit /\ ClipInit
    /\ ModalInit
    \* what a part that does not run starts with makes no difference
    /\ mfaOn => part = "session"
    /\ native => part = "clipboard"

PartsNext ==
    /\ UNCHANGED part
    /\ \/ part = "session" /\ Next
          /\ UNCHANGED <<vaultVars, bridgeVars, centerVars, updateVars, storageVars, clipVars, modalVars>>
       \/ part = "vault" /\ VaultNext
          /\ UNCHANGED <<vars, bridgeVars, centerVars, updateVars, storageVars, clipVars, modalVars>>
       \/ part = "engine" /\ BridgeNext
          /\ UNCHANGED <<vars, vaultVars, centerVars, updateVars, storageVars, clipVars, modalVars>>
       \/ part = "operations" /\ CenterNext
          /\ UNCHANGED <<vars, vaultVars, bridgeVars, updateVars, storageVars, clipVars, modalVars>>
       \/ part = "updates" /\ UpdatesNext
          /\ UNCHANGED <<vars, vaultVars, bridgeVars, centerVars, storageVars, clipVars, modalVars>>
       \/ part = "storage" /\ StorageNext
          /\ UNCHANGED <<vars, vaultVars, bridgeVars, centerVars, updateVars, clipVars, modalVars>>
       \/ part = "clipboard" /\ ClipNext
          /\ UNCHANGED <<vars, vaultVars, bridgeVars, centerVars, updateVars, storageVars, modalVars>>
       \/ part = "prompts" /\ ModalNext
          /\ UNCHANGED <<vars, vaultVars, bridgeVars, centerVars, updateVars, storageVars, clipVars>>

PartsSpec == PartsInit /\ [][PartsNext]_partVars

\* Keys are interchangeable.
PartsSymmetry == Permutations(Fingerprint)
=============================================================================
