-------------------------------- MODULE KeyStore --------------------------------
(***************************************************************************)
(* The master key of the edge service and what is encrypted with it: where *)
(* it is kept and looked up (services/security/encryption.py), the face    *)
(* template (services/storage/repo_templates.py), the audit payloads       *)
(* (repo_audit.py), key rotation (api/v1/admin.py) and the deletion of the *)
(* identity (api/v1/settings.py).                                          *)
(*                                                                         *)
(* A handler runs without interruption, but it can raise at each step, and *)
(* the process can die, after the database commit and before the key is    *)
(* stored.  A blob is named by the master key it was encrypted with.  The  *)
(* only caller of store_template deletes every row first, so there is one  *)
(* template at most.  The hash links of the audit rows never break, since  *)
(* rows are appended or deleted all together; only their payloads count.   *)
(***************************************************************************)
EXTENDS Naturals, Sequences

CONSTANTS
  NoKey,             \* no entry, no file, nothing cached, no template
  EnvKey,            \* the value of SENTINELID_MASTER_KEY, where it is set
  MaxKey,            \* bound: keys generated
  MaxAudit           \* bound: audit events kept

ASSUME KeyConstants ==
  /\ MaxKey \in Nat /\ MaxAudit \in Nat
  /\ NoKey \notin Nat /\ EnvKey \notin Nat /\ NoKey # EnvKey

VARIABLES
  prod,              \* EDGE_ENV = prod without ALLOW_KEYCHAIN_FALLBACK
  envKey,            \* SENTINELID_MASTER_KEY
  access,            \* how the OS keychain answers at present
  keychain, file,    \* the key in the OS keychain, and in master_key.hex
  cache,             \* MasterKeyProvider._cached_key
  generated,         \* keys generated so far, which numbers them
  template, audit    \* the keys the stored blobs are encrypted with

environment == <<prod, envKey>>
stored == <<keychain, file>>
blobs == <<template, audit>>
vars == <<environment, access, stored, cache, generated, blobs>>

\* Every access is answered; or a lookup's probe is answered, and the read that
\* follows it is not; or none is.  (A read that is answered after a probe that was
\* not finds what it finds if both are.)
Access == {"answers", "falters", "locked"}
Reachable == access # "locked"

Key == 1..MaxKey \union {EnvKey}

TypeOK ==
  /\ prod \in BOOLEAN /\ envKey \in {EnvKey, NoKey}
  /\ access \in Access
  /\ keychain \in Key \union {NoKey} /\ file \in Key \union {NoKey}
  /\ cache \in Key \union {NoKey}
  /\ generated \in 0..MaxKey
  /\ template \in Key \union {NoKey}
  /\ audit \in Seq(Key)

Init ==
  /\ prod \in BOOLEAN /\ envKey \in {EnvKey, NoKey}
  /\ access \in Access
  /\ keychain = NoKey /\ file = NoKey /\ cache = NoKey
  /\ generated = 0
  /\ template = NoKey /\ audit = <<>>

-----------------------------------------------------------------------------
(* The master key provider *)

\* What is found beside the keychain: the environment's key, then the file's.
Fallback == IF envKey # NoKey THEN envKey ELSE file

\* What a process that just started finds while the keychain answers.
Persistent == IF keychain # NoKey THEN keychain ELSE Fallback

\* The key get_master_key finds, if any, before it generates one.  A read that
\* raises finds as little as one of an empty keychain.
Loaded ==
  IF cache # NoKey THEN cache
  ELSE IF access = "answers" THEN Persistent ELSE Fallback

\* Mutant: a keychain that cannot be reached is passed over in production, too.
GuardedMutant == FALSE

\* _prod_keychain_guard raises: it goes by the probe alone.
Guarded == cache = NoKey /\ ~Reachable /\ prod

\* _store_key: the keychain, or the file when it refuses (it may, even if it
\* answered the probe).  In production the refusal is an error instead.
StoreKey(k) ==
  \/ Reachable /\ keychain' = k /\ UNCHANGED file
  \/ ~prod /\ file' = k /\ UNCHANGED keychain

\* get_master_key returns k.
GetKey(k) ==
  /\ ~Guarded
  /\ \/ Loaded # NoKey /\ k = Loaded /\ UNCHANGED <<stored, generated>>
     \/ /\ Loaded = NoKey /\ generated < MaxKey
        /\ k = generated + 1 /\ generated' = k
        /\ StoreKey(k)
  /\ cache' = k

-----------------------------------------------------------------------------
(* Handlers *)

\* Reading a template or the audit log, and rotating while there is neither
\* key nor template, only touch the key.
UseKey ==
  /\ \E k \in Key : GetKey(k)
  /\ UNCHANGED <<environment, access, blobs>>

\* Enrolment commits: the old template is deleted, then the new one stored.
CommitTemplate ==
  /\ \E k \in Key : GetKey(k) /\ template' = k
  /\ UNCHANGED <<environment, access, audit>>

\* The deletion was committed and store_template raised.
CommitFails ==
  /\ template' = NoKey
  /\ UNCHANGED <<environment, access, stored, cache, generated, audit>>

\* Mutant: without a key the payload is written as it is.
WriteAuditMutant ==
  /\ Len(audit) < MaxAudit
  /\ \/ \E k \in Key : GetKey(k) /\ audit' = Append(audit, k)
     \/ Guarded /\ audit' = Append(audit, NoKey) /\ UNCHANGED <<stored, cache, generated>>
  /\ UNCHANGED <<environment, access, template>>

WriteAudit ==
  /\ Len(audit) < MaxAudit
  /\ \E k \in Key : GetKey(k) /\ audit' = Append(audit, k)
  /\ UNCHANGED <<environment, access, template>>

\* Mutant: the blobs are rewrapped with the key they already have.
RewrappedMutant(k) == template

\* rewrap_all_blobs: the template, if there is one, is encrypted with k.
Rewrapped(k) == IF template = NoKey THEN NoKey ELSE k

\* The transaction of a rotation to the fresh key k commits.
Rewrap(k) ==
  /\ ~Guarded /\ Loaded # NoKey
  /\ template \in {NoKey, Loaded}
  /\ generated < MaxKey /\ k = generated + 1 /\ generated' = k
  /\ template' = Rewrapped(k)

Rotate ==
  /\ \E k \in Key : Rewrap(k) /\ StoreKey(k) /\ cache' = k
  /\ UNCHANGED <<environment, access, audit>>

\* In production the new key cannot be stored: the request answers 500.
RotateUnstored ==
  /\ prod
  /\ \E k \in Key : Rewrap(k)
  /\ cache' = Loaded
  /\ UNCHANGED <<environment, access, stored, audit>>

\* The process dies after the commit.
RotateCrash ==
  /\ \E k \in Key : Rewrap(k)
  /\ cache' = NoKey
  /\ UNCHANGED <<environment, access, stored, audit>>

\* Mutant: the deleted key stays in the cache.
ForgetKeyMutant ==
  /\ cache' = cache
  /\ keychain' \in {keychain} \union (IF Reachable THEN {NoKey} ELSE {})
  /\ file' \in {file, NoKey}

\* _delete_master_key; what the keychain raises is ignored.
ForgetKey ==
  /\ cache' = NoKey
  /\ keychain' \in {keychain} \union (IF Reachable THEN {NoKey} ELSE {})
  /\ file' \in {file, NoKey}

\* Every step of delete_identity is tried on its own; the audit log is
\* cleared on demand.  The device key pair is in DeviceKeys.
DeleteIdentity ==
  /\ template' \in {template, NoKey}
  /\ audit' \in {audit, <<>>}
  /\ ForgetKey
  /\ UNCHANGED <<environment, access, generated>>

-----------------------------------------------------------------------------
(* The keychain is locked, unlocked and falters; the process restarts. *)

KeychainChanges ==
  /\ access' \in Access \ {access}
  /\ UNCHANGED <<environment, stored, cache, generated, blobs>>

Restart ==
  /\ cache' = NoKey
  /\ UNCHANGED <<environment, access, stored, generated, blobs>>

Next ==
  \/ UseKey \/ CommitTemplate \/ CommitFails \/ WriteAudit
  \/ Rotate \/ RotateUnstored \/ RotateCrash
  \/ DeleteIdentity
  \/ KeychainChanges \/ Restart

Spec == Init /\ [][Next]_vars

-----------------------------------------------------------------------------
(***************************************************************************)
(* Properties.                                                             *)
(***************************************************************************)

\* The key the process encrypts with is kept somewhere it can be found again:
\* it is never only in memory, also after a rotation that could not store its
\* key and after a deletion that was refused.  In production it is the one a new
\* process loads; where a read faltered, it may be the environment's instead.
KeyInUseSurvives ==
  /\ cache # NoKey => cache \in {keychain, file, envKey}
  /\ prod => cache \in {NoKey, Persistent, envKey}

\* A restart that finds the keychain open changes nothing.
RestartKeepsKey == cache \in {NoKey, Persistent}

\* In production it stays so, however often the keychain is locked, refuses a
\* write, or a rotation or deletion is interrupted: only a lookup whose read is
\* lost after its probe was answered can take another key.
KeyStaysInUse ==
  [][prod /\ access # "falters" /\ RestartKeepsKey => RestartKeepsKey']_vars

AuditReadable == \A i \in DOMAIN audit : audit[i] = Persistent

\* Under the same conditions what a new process could read stays so.  A template
\* is lost only to a rotation cut off between commit and key, or to the deletion
\* of the identity.  The audit log, new entries included, survives that rotation,
\* which leaves its key where it was, and is lost to the one that succeeds: it
\* rewraps the templates and not the log.
ReadableStaysReadable ==
  [][prod /\ access # "falters" /\ RestartKeepsKey =>
       /\ template = Persistent /\ template' # NoKey =>
            template' = Persistent' \/ RotateUnstored \/ RotateCrash \/ DeleteIdentity
       /\ AuditReadable => AuditReadable' \/ Rotate \/ DeleteIdentity]_vars

-----------------------------------------------------------------------------
(* What the documents say, and the code does not do. *)

\* threat-model T6: when a rotation fails "the old key remains active and all
\* templates remain readable".
RotationKeepsTemplate ==
  [][prod /\ template = Persistent /\ template' \notin {template, NoKey}
       => template' = Persistent']_vars

=============================================================================
