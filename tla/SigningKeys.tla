----------------------------- MODULE SigningKeys -----------------------------
(***************************************************************************)
(* The signing keys of Identra: how a process finds its key at startup     *)
(* (buildTokenKeys and the private-key file, internal/app/tokens.go), the  *)
(* key ring with its rotation operations (KeyManager,                      *)
(* internal/security/jwks.go), and the copy of the key in the service's    *)
(* TokenConfig with which every token is signed and validated.             *)
(*                                                                         *)
(* The KeyManager's operations hold its mutex, so each is one step.  The   *)
(* startup is not atomic: processes interleave between its file operations *)
(* and may crash between them.  A private key is named by its key ID.  An  *)
(* inline auth.rsa_private_key is a key file that exists from the start.   *)
(***************************************************************************)
EXTENDS Naturals

CONSTANTS Procs,     \* processes that share one key file
          KeyIDs,    \* RSA key pairs
          NoKey,     \* no key: an absent file, nil fields
          Torn       \* file content that is no complete PEM block

ASSUME KeyAssumption == NoKey \notin KeyIDs /\ Torn \notin KeyIDs /\ NoKey # Torn

VARIABLES
  file,      \* what is at auth.rsa_private_key_file
  temp,      \* temp[p]: the temporary file p created last
  generated, \* key pairs that rsa.GenerateKey has returned
  stage,     \* stage[p]: where p is in its startup
  keys,      \* keys[p][k]: state of k in p's ring
  keyID,     \* keyID[p]: the KeyManager's privateKey, publicKey and keyID
  cfgKey,    \* cfgKey[p]: tokenCfg's PrivateKey, PublicKey and KeyID
  started,   \* history: keys with which a process has gone up
  overlap    \* history: two first starts have overlapped

history == <<started, overlap>>
keyVars == <<file, temp, generated, stage, keys, keyID, cfgKey, history>>

Stages == {"down", "generate", "create", "write", "rename", "loaded", "up"}
FirstStart == {"generate", "create", "write", "rename"}
KeyStates == {"absent", "ACTIVE", "PASSIVE"}
EmptyRing == [k \in KeyIDs |-> "absent"]

\* Every variable has its type: RetireKey removes an entry, so a ring holds
\* ACTIVE and PASSIVE keys only.
KeyTypeOK ==
  /\ file \in KeyIDs \cup {NoKey, Torn}
  /\ temp \in [Procs -> KeyIDs \cup {NoKey, Torn}]
  /\ generated \subseteq KeyIDs
  /\ stage \in [Procs -> Stages]
  /\ keys \in [Procs -> [KeyIDs -> KeyStates]]
  /\ keyID \in [Procs -> KeyIDs \cup {NoKey}]
  /\ cfgKey \in [Procs -> KeyIDs \cup {NoKey}]
  /\ started \subseteq KeyIDs
  /\ overlap \in BOOLEAN

\* A first start, or one with a key the operator or an earlier process left.
KeyInit ==
  /\ file \in KeyIDs \cup {NoKey}
  /\ temp = [p \in Procs |-> NoKey]
  /\ generated = {file} \ {NoKey}
  /\ stage = [p \in Procs |-> "down"]
  /\ keys = [p \in Procs |-> EmptyRing]
  /\ keyID = [p \in Procs |-> NoKey]
  /\ cfgKey = [p \in Procs |-> NoKey]
  /\ started = {}
  /\ overlap = FALSE

-----------------------------------------------------------------------------
(* The key ring.                                                           *)

ToStage(p, s) == stage' = [stage EXCEPT ![p] = s]

\* ring with its ACTIVE keys demoted and k, new or not, ACTIVE.
Activate(ring, k) ==
  [j \in KeyIDs |-> IF j = k THEN "ACTIVE"
                    ELSE IF ring[j] = "ACTIVE" THEN "PASSIVE" ELSE ring[j]]

\* k becomes p's ACTIVE key and the key of its single-key fields.
Install(p, k) ==
  /\ keys' = [keys EXCEPT ![p] = Activate(keys[p], k)]
  /\ keyID' = [keyID EXCEPT ![p] = k]

\* rsa.GenerateKey returns a key pair nobody has had before.
Fresh(k) ==
  /\ k \notin generated
  /\ generated' = generated \cup {k}

\* The public keys that KeyService.ListSigningKeys publishes.
ListSigningKeys(p) == {k \in KeyIDs : keys[p][k] \in {"ACTIVE", "PASSIVE"}}

GenerateKeyPair(p, k) ==
  /\ stage[p] = "up"
  /\ Fresh(k)
  /\ Install(p, k)
  /\ UNCHANGED <<file, temp, stage, cfgKey, history>>

InitializeFromPEM(p, k) ==
  /\ stage[p] = "up"
  /\ k \in generated
  /\ Install(p, k)
  /\ UNCHANGED <<file, temp, generated, stage, cfgKey, history>>

AddKeyPassive(p, k) ==
  /\ stage[p] = "up"
  /\ Fresh(k)
  /\ keys' = [keys EXCEPT ![p][k] = "PASSIVE"]
  /\ UNCHANGED <<file, temp, stage, keyID, cfgKey, history>>

PromoteKey(p, k) ==
  /\ stage[p] = "up"
  /\ keys[p][k] = "PASSIVE"
  /\ Install(p, k)
  /\ UNCHANGED <<file, temp, generated, stage, cfgKey, history>>

\* Mutant: the single-key fields keep the demoted key.
DemoteKey_KeepsFields(p, k) ==
  /\ stage[p] = "up"
  /\ keys[p][k] = "ACTIVE"
  /\ keys' = [keys EXCEPT ![p][k] = "PASSIVE"]
  /\ UNCHANGED <<file, temp, generated, stage, keyID, cfgKey, history>>

\* The single-key fields are cleared when they hold the demoted key.
DemoteKey(p, k) ==
  /\ stage[p] = "up"
  /\ keys[p][k] = "ACTIVE"
  /\ keys' = [keys EXCEPT ![p][k] = "PASSIVE"]
  /\ keyID' = [keyID EXCEPT ![p] = IF keyID[p] = k THEN NoKey ELSE keyID[p]]
  /\ UNCHANGED <<file, temp, generated, stage, cfgKey, history>>

RetireKey(p, k) ==
  /\ stage[p] = "up"
  /\ keys[p][k] \notin {"absent", "ACTIVE"}
  /\ keys' = [keys EXCEPT ![p][k] = "absent"]
  /\ UNCHANGED <<file, temp, generated, stage, keyID, cfgKey, history>>

-----------------------------------------------------------------------------
(* Startup: initializeKeyManagerFromFile, writePrivateKeyFile and the rest *)
(* of buildTokenKeys.                                                      *)

\* os.ReadFile found a key and InitializeFromPEM loads it.
LoadKeyFile(p) ==
  /\ stage[p] = "down"
  /\ file \in KeyIDs
  /\ Install(p, file)
  /\ ToStage(p, "loaded")
  /\ UNCHANGED <<file, temp, generated, cfgKey, history>>

\* p is going to create a key; another process may be about to as well.
CreatesKey(p) ==
  /\ ToStage(p, "generate")
  /\ overlap' = (overlap \/ \E q \in Procs \ {p} : stage[q] \in FirstStart)
  /\ UNCHANGED <<file, temp, generated, keys, keyID, cfgKey, started>>

\* Mutant: any error of os.ReadFile counts as a missing file.
MissKeyFile_AnyError(p) == stage[p] = "down" /\ CreatesKey(p)

\* os.ReadFile found no file.
MissKeyFile(p) == stage[p] = "down" /\ file = NoKey /\ CreatesKey(p)

\* Mutant: the generated key is used without being written.
GenerateFirstKey_Ephemeral(p, k) ==
  /\ stage[p] = "generate"
  /\ Fresh(k)
  /\ Install(p, k)
  /\ ToStage(p, "loaded")
  /\ UNCHANGED <<file, temp, cfgKey, history>>

GenerateFirstKey(p, k) ==
  /\ stage[p] = "generate"
  /\ Fresh(k)
  /\ Install(p, k)
  /\ ToStage(p, "create")
  /\ UNCHANGED <<file, temp, cfgKey, history>>

\* MkdirAll, CreateTemp and Chmod: an empty file under a name of its own.
CreateTemp(p) ==
  /\ stage[p] = "create"
  /\ temp' = [temp EXCEPT ![p] = Torn]
  /\ ToStage(p, "write")
  /\ UNCHANGED <<file, generated, keys, keyID, cfgKey, history>>

\* Write, Sync and Close: the exported key is on disk.
WriteTemp(p) ==
  /\ stage[p] = "write"
  /\ temp' = [temp EXCEPT ![p] = keyID[p]]
  /\ ToStage(p, "rename")
  /\ UNCHANGED <<file, generated, keys, keyID, cfgKey, history>>

RenameTemp(p) ==
  /\ stage[p] = "rename"
  /\ file' = temp[p]
  /\ temp' = [temp EXCEPT ![p] = NoKey]
  /\ ToStage(p, "loaded")
  /\ UNCHANGED <<generated, keys, keyID, cfgKey, history>>

\* tokenCfg takes its copy of the single-key fields, once; the server runs.
BuildTokenConfig(p) ==
  /\ stage[p] = "loaded"
  /\ cfgKey' = [cfgKey EXCEPT ![p] = keyID[p]]
  /\ started' = started \cup {keyID[p]}
  /\ ToStage(p, "up")
  /\ UNCHANGED <<file, temp, generated, keys, keyID, overlap>>

\* GenerateToken: the key that signs, which "kid" names, is tokenCfg's.
SigningKey(p) == cfgKey[p]

\* A file operation fails and startup gives up (its deferred Remove takes the
\* temporary file away), or the process ends or is killed (a temporary file
\* stays behind): either way the next startup begins with an empty ring.
Stop(p, left) ==
  /\ stage[p] # "down"
  /\ left \in {NoKey, temp[p]}
  /\ temp' = [temp EXCEPT ![p] = left]
  /\ keys' = [keys EXCEPT ![p] = EmptyRing]
  /\ keyID' = [keyID EXCEPT ![p] = NoKey]
  /\ cfgKey' = [cfgKey EXCEPT ![p] = NoKey]
  /\ ToStage(p, "down")
  /\ UNCHANGED <<file, generated, history>>

KeyNext ==
  \E p \in Procs :
    \/ LoadKeyFile(p)
    \/ MissKeyFile(p)
    \/ CreateTemp(p)
    \/ WriteTemp(p)
    \/ RenameTemp(p)
    \/ BuildTokenConfig(p)
    \/ \E left \in KeyIDs \cup {NoKey, Torn} : Stop(p, left)
    \/ \E k \in KeyIDs :
         \/ GenerateFirstKey(p, k)
         \/ GenerateKeyPair(p, k)
         \/ InitializeFromPEM(p, k)
         \/ AddKeyPassive(p, k)
         \/ PromoteKey(p, k)
         \/ DemoteKey(p, k)
         \/ RetireKey(p, k)

KeySpec == KeyInit /\ [][KeyNext]_keyVars

-----------------------------------------------------------------------------
(* Properties.                                                             *)

\* The ring and the single-key fields that GetPrivateKey, GetPublicKey and
\* GetKeyID return never disagree: the fields hold the one ACTIVE key, and are
\* nil exactly when no key is ACTIVE, after any sequence of operations.
SignerInSync ==
  \A p \in Procs, k \in KeyIDs : keys[p][k] = "ACTIVE" <=> keyID[p] = k

\* A crash at any point of a first start, of any number of processes, never
\* leaves something at the key file's path that the next start cannot load.
KeyFileIntact == file # Torn

\* "Identra creates a private key once ... and reuses it across restarts"
\* (README.md:206): whatever crashed, whatever was promoted or retired in some
\* ring, every process goes up with the key that all before it went up with,
\* so that it validates the tokens they have signed.  This holds for any number
\* of processes, unless two of them found no key at the same time.
KeyIsReused == ~overlap => started \subseteq {file}

\* "ACTIVE: signs new tokens" (docs/KEY_ROTATION.md:8) and "After promotion,
\* confirm new tokens contain the new key ID" (:29).  Refuted: a token
\* config keeps the key it was built with.
ActiveKeySigns ==
  \A p \in Procs, k \in KeyIDs :
    stage[p] = "up" /\ keys[p][k] = "ACTIVE" => SigningKey(p) = k

\* No server serves without a signing key, or before a key is on disk for the
\* next start to find, however its startup was interrupted or raced.
UpWithPersistedKey ==
  \A p \in Procs : stage[p] = "up" => SigningKey(p) \in KeyIDs /\ file \in KeyIDs

-----------------------------------------------------------------------------
(* The inductive invariant behind them (proved in SessionsProofs).         *)

\* What a process has got hold of, and put on disk, at each stage.
StartupProgress ==
  \A p \in Procs :
    /\ stage[p] \in {"create", "write", "rename", "loaded"} => keyID[p] \in KeyIDs
    /\ stage[p] = "rename" => temp[p] = keyID[p]
    /\ stage[p] \in {"loaded", "up"} => file \in KeyIDs
    /\ stage[p] = "up" => cfgKey[p] \in KeyIDs

\* A key in a ring or on disk came from rsa.GenerateKey, so a new one is not.
KnownKeys ==
  /\ \A p \in Procs, k \in KeyIDs : keys[p][k] # "absent" => k \in generated
  /\ file \in KeyIDs => file \in generated

\* The parts together: preserved by every file operation, crash and key-ring
\* operation, of any process.
KeyInv == KeyTypeOK /\ SignerInSync /\ KeyFileIntact /\ StartupProgress /\ KnownKeys
=============================================================================
