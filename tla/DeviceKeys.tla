------------------------------- MODULE DeviceKeys -------------------------------
(***************************************************************************)
(* The key pair the device signs telemetry with                            *)
(* (services/security/keychain.py) and the file that names the device      *)
(* after it (device_binding.py), next to the master key of KeyStore: one   *)
(* OS keychain serves both, and one handler deletes both.                  *)
(*                                                                         *)
(* Nothing is cached: each signature looks the pair up again.  A device id *)
(* is the hash of a public key, and is written here as the pair's number.  *)
(***************************************************************************)
EXTENDS KeyStore

CONSTANT MaxPair     \* bound: key pairs generated

ASSUME PairConstants == MaxPair \in Nat

VARIABLES
  pairKeychain,      \* the pair in the OS keychain, NoPair when there is none
  pairFile,          \* the pair in device_keys.json
  deviceId,          \* the pair device_id.json is named after
  pairs,             \* pairs generated so far, which numbers them
  known              \* history: the pair last used since the identity was last
                     \* deleted

pairStored == <<pairKeychain, pairFile>>
device == <<pairStored, deviceId, pairs, known>>
identityVars == <<vars, device>>

NoPair == 0
Pair == 1..MaxPair

IdentityTypeOK ==
  /\ TypeOK
  /\ pairKeychain \in Pair \union {NoPair} /\ pairFile \in Pair \union {NoPair}
  /\ deviceId \in Pair \union {NoPair}
  /\ pairs \in 0..MaxPair
  /\ known \in Pair \union {NoPair}

IdentityInit ==
  /\ Init
  /\ pairKeychain = NoPair /\ pairFile = NoPair /\ deviceId = NoPair
  /\ pairs = 0 /\ known = NoPair

-----------------------------------------------------------------------------
(* The pair *)

\* What load_or_generate finds while the keychain answers.
StoredPair == IF pairKeychain # NoPair THEN pairKeychain ELSE pairFile

NewPair(p) == pairs < MaxPair /\ p = pairs + 1 /\ pairs' = p

\* Mutant: a keychain that does not answer is passed over in production, too.
LoadPairMutant(p) ==
  /\ \/ /\ access = "answers" /\ pairKeychain # NoPair /\ p = pairKeychain
        /\ UNCHANGED <<pairStored, pairs>>
     \/ /\ access = "answers" => pairKeychain = NoPair
        /\ \/ /\ pairFile # NoPair /\ p = pairFile
              /\ pairKeychain' \in {pairKeychain} \union (IF Reachable THEN {p} ELSE {})
              /\ UNCHANGED <<pairFile, pairs>>
           \/ /\ pairFile = NoPair /\ NewPair(p)
              /\ \/ Reachable /\ pairKeychain' = p /\ pairFile' = NoPair
                 \/ pairFile' = p /\ UNCHANGED pairKeychain
  /\ known' = p

\* load_or_generate returns p: from the keychain; from the file, which is then
\* copied to the keychain if that takes it; or a new one.  In production it
\* raises when the probe is not answered, but not when the read after it or the
\* write is refused.
LoadPair(p) ==
  /\ \/ /\ access = "answers" /\ pairKeychain # NoPair /\ p = pairKeychain
        /\ UNCHANGED <<pairStored, pairs>>
     \/ /\ access = "answers" => pairKeychain = NoPair
        /\ prod => Reachable
        /\ \/ /\ pairFile # NoPair /\ p = pairFile
              /\ pairKeychain' \in {pairKeychain} \union (IF Reachable THEN {p} ELSE {})
              /\ UNCHANGED <<pairFile, pairs>>
           \/ /\ pairFile = NoPair /\ NewPair(p)
              /\ \/ Reachable /\ pairKeychain' = p /\ pairFile' = NoPair
                 \/ pairFile' = p /\ UNCHANGED pairKeychain
  /\ known' = p

\* Mutant: a rotation the keychain refuses goes to the file in production, too.
RotatePairMutant(p) ==
  /\ NewPair(p)
  /\ \/ Reachable /\ pairKeychain' = p /\ pairFile' = NoPair
     \/ pairFile' = p /\ UNCHANGED pairKeychain

\* rotate_keypair returns p.  In production it raises when the keychain refuses.
RotatePair(p) ==
  /\ NewPair(p)
  /\ \/ Reachable /\ pairKeychain' = p /\ pairFile' = NoPair
     \/ ~prod /\ pairFile' = p /\ UNCHANGED pairKeychain

-----------------------------------------------------------------------------
(* Signing, and the device id *)

Sign ==
  /\ \E p \in Pair : LoadPair(p)
  /\ UNCHANGED <<vars, deviceId>>

\* get_device_id, when there is no file yet.
CreateDeviceId ==
  /\ deviceId = NoPair
  /\ \E p \in Pair : LoadPair(p) /\ deviceId' = p
  /\ UNCHANGED vars

-----------------------------------------------------------------------------
(* delete_identity *)

RotateDevice ==
  /\ \E p \in Pair : RotatePair(p) /\ deviceId' = p
  /\ known' = NoPair

\* The keychain has no entry to delete, or does not delete it, or does; what it
\* raises is ignored.
DeleteDevice ==
  /\ pairKeychain' \in {pairKeychain} \union (IF Reachable THEN {NoPair} ELSE {})
  /\ pairFile' = NoPair /\ deviceId' = NoPair
  /\ known' = NoPair /\ UNCHANGED pairs

\* One of the two is cut off by an exception or the end of the process: the
\* pair is replaced or removed, from one of its places at least, and
\* device_id.json is as it was.
DeviceCutOff ==
  /\ \/ \E p \in Pair : RotatePair(p)
     \/ /\ Reachable /\ \E p \in Pair : NewPair(p) /\ pairKeychain' = p
        /\ UNCHANGED pairFile
     \/ /\ pairKeychain' \in {pairKeychain} \union (IF Reachable THEN {NoPair} ELSE {})
        /\ pairFile' \in {pairFile, NoPair}
        /\ UNCHANGED pairs
  /\ known' = NoPair /\ UNCHANGED deviceId

\* Each store is tried on its own.  In production the rotation of a pair the
\* keychain refuses changes nothing.
DeleteKeys ==
  /\ DeleteIdentity
  /\ RotateDevice \/ DeleteDevice \/ DeviceCutOff \/ UNCHANGED device

-----------------------------------------------------------------------------
\* What the master key alone is concerned with.
KeyStoreAlone ==
  /\ \/ UseKey \/ CommitTemplate \/ CommitFails \/ WriteAudit
     \/ Rotate \/ RotateUnstored \/ RotateCrash
     \/ KeychainChanges \/ Restart
  /\ UNCHANGED device

IdentityNext == KeyStoreAlone \/ Sign \/ CreateDeviceId \/ DeleteKeys

IdentitySpec == IdentityInit /\ [][IdentityNext]_identityVars

-----------------------------------------------------------------------------
(***************************************************************************)
(* Properties.                                                             *)
(***************************************************************************)

\* The pair the device last signed with is the one an open keychain leads to,
\* and the device id names that one.
PairInUseIsStored == known \in {NoPair, StoredPair}
IdNamesPair == deviceId \in {NoPair, StoredPair}

\* In production the device goes on signing with its pair until its identity is
\* deleted, however often the keychain is locked, unlocked or refuses to be
\* written: only a lookup whose read is lost after its probe was answered takes
\* another.
OnePairInUse ==
  [][prod /\ access # "falters" /\ PairInUseIsStored =>
       /\ PairInUseIsStored'
       /\ known # NoPair => known' \in {known, NoPair}]_identityVars

\* Under the same condition only a deletion of the identity that is cut off takes
\* the device id from the pair the device signs with.
IdKeepsNaming ==
  [][prod /\ access # "falters" /\ IdNamesPair
       => IdNamesPair' \/ (DeleteKeys /\ DeviceCutOff)]_identityVars

=============================================================================
