---------------------------- MODULE KeyStore_proofs ----------------------------
(***************************************************************************)
(* Proofs about KeyStore, for any number of keys and audit events, and     *)
(* about DeviceKeys, for any number of key pairs.  The invariant of the    *)
(* master key is inductive once it is known that production never writes   *)
(* the fallback file; DeviceKeys only adds steps that leave it alone, so   *)
(* it holds there too.                                                     *)
(***************************************************************************)
EXTENDS DeviceKeys, TLAPS

NoFileInProd == prod => file = NoKey

IInv == TypeOK /\ KeyInUseSurvives /\ NoFileInProd

\* NoKey is no key; the environment's key and the generated ones are.
LEMMA KeysAreKeys == NoKey \notin Key /\ EnvKey \in Key /\ \A n \in 1..MaxKey : n \in Key
  BY KeyConstants DEF Key

\* The initial states satisfy the inductive invariant.
LEMMA InitIInv == Init => IInv
  BY KeyConstants
  DEF Init, IInv, TypeOK, KeyInUseSurvives, NoFileInProd, Key

\* Whatever get_master_key does, the key it returns is cached and stored.
LEMMA GetKeyKeeps ==
  ASSUME IInv, NEW k \in Key, GetKey(k), UNCHANGED environment
  PROVE  /\ keychain' \in Key \union {NoKey} /\ file' \in Key \union {NoKey}
         /\ cache' \in Key /\ generated' \in 0..MaxKey
         /\ KeyInUseSurvives' /\ NoFileInProd'
<1> USE DEF environment, stored
<1>1. prod' = prod /\ envKey' = envKey /\ cache' = k
  BY DEF GetKey
<1>2. CASE Loaded # NoKey /\ k = Loaded /\ UNCHANGED <<stored, generated>>
  <2>1. k \in {keychain, file, envKey}
    BY <1>2 DEF IInv, KeyInUseSurvives, Loaded, Persistent, Fallback
  <2>2. prod => k \in {Persistent, envKey}
    BY <1>2 DEF IInv, KeyInUseSurvives, NoFileInProd, Loaded, Fallback
  <2> QED BY <1>1, <1>2, <2>1, <2>2
          DEF IInv, TypeOK, KeyInUseSurvives, NoFileInProd, Persistent, Fallback
<1>3. CASE /\ Loaded = NoKey /\ generated < MaxKey
           /\ k = generated + 1 /\ generated' = k
           /\ StoreKey(k)
  <2>1. generated' \in 0..MaxKey /\ k # NoKey
    BY <1>3, KeyConstants DEF IInv, TypeOK
  <2>2. KeyInUseSurvives' /\ NoFileInProd'
    BY <1>1, <1>3, <2>1 DEF StoreKey, IInv, KeyInUseSurvives, NoFileInProd, Persistent
  <2> QED BY <1>1, <1>3, <2>1, <2>2 DEF StoreKey, IInv, TypeOK
<1> QED BY <1>2, <1>3 DEF GetKey

\* The new key of a rotation is a key, and fresh.
LEMMA RewrapKey ==
  ASSUME IInv, NEW k \in Key, Rewrap(k)
  PROVE  /\ generated' \in 0..MaxKey /\ template' \in Key \union {NoKey}
         /\ Loaded \in Key \ {NoKey} /\ k # NoKey
<1>1. generated' \in 0..MaxKey
  BY KeyConstants DEF Rewrap, IInv, TypeOK
<1>2. Loaded \in Key \ {NoKey}
  BY KeysAreKeys DEF Rewrap, Loaded, Persistent, Fallback, IInv, TypeOK
<1> QED BY <1>1, <1>2, KeysAreKeys DEF Rewrap, Rewrapped

\* The handlers that only ask for the key keep the invariant.
LEMMA KeyStep ==
  IInv /\ (UseKey \/ CommitTemplate \/ WriteAudit) => IInv'
<1>1. SUFFICES ASSUME IInv, UseKey \/ CommitTemplate \/ WriteAudit PROVE IInv'
  OBVIOUS
<1>2. PICK k \in Key :
        /\ GetKey(k) /\ UNCHANGED <<environment, access>>
        /\ template' \in {template, k}
        /\ audit' \in {audit, Append(audit, k)}
  BY <1>1 DEF UseKey, CommitTemplate, WriteAudit, blobs
<1>3. audit' \in Seq(Key)
  BY <1>1, <1>2 DEF IInv, TypeOK
<1> QED BY <1>1, <1>2, <1>3, GetKeyKeeps DEF IInv, TypeOK, environment

\* A rotation keeps it, finished, refused or cut off.
LEMMA RotateStep ==
  IInv /\ (Rotate \/ RotateUnstored \/ RotateCrash) => IInv'
<1>1. SUFFICES ASSUME IInv, Rotate \/ RotateUnstored \/ RotateCrash PROVE IInv'
  OBVIOUS
<1> USE DEF environment, stored
<1>2. CASE Rotate
  <2>1. PICK k \in Key : Rewrap(k) /\ StoreKey(k) /\ cache' = k
    BY <1>2 DEF Rotate
  <2>2. prod' = prod /\ envKey' = envKey /\ access' = access /\ audit' = audit
    BY <1>2 DEF Rotate
  <2>3. TypeOK'
    BY <1>1, <2>1, <2>2, RewrapKey DEF StoreKey, IInv, TypeOK
  <2>4. KeyInUseSurvives' /\ NoFileInProd'
    BY <1>1, <2>1, <2>2, RewrapKey
    DEF StoreKey, IInv, KeyInUseSurvives, NoFileInProd, Persistent
  <2> QED BY <2>3, <2>4 DEF IInv
<1>3. CASE RotateUnstored
  <2>1. PICK k \in Key : Rewrap(k)
    BY <1>3 DEF RotateUnstored
  <2>2. TypeOK'
    BY <1>1, <1>3, <2>1, RewrapKey DEF RotateUnstored, IInv, TypeOK
  <2>3. KeyInUseSurvives' /\ NoFileInProd'
    BY <1>1, <1>3
    DEF RotateUnstored, IInv, KeyInUseSurvives, NoFileInProd, Loaded, Persistent, Fallback
  <2> QED BY <2>2, <2>3 DEF IInv
<1>4. CASE RotateCrash
  <2>1. PICK k \in Key : Rewrap(k)
    BY <1>4 DEF RotateCrash
  <2> QED BY <1>1, <1>4, <2>1, RewrapKey
          DEF RotateCrash, IInv, TypeOK, KeyInUseSurvives, NoFileInProd
<1> QED BY <1>1, <1>2, <1>3, <1>4

\* Deletion, the keychain and a restart keep it.
LEMMA OtherStep ==
  IInv /\ ( \/ CommitFails \/ DeleteIdentity \/ KeychainChanges \/ Restart
            \/ UNCHANGED vars ) => IInv'
<1>1. SUFFICES ASSUME IInv,
                      \/ CommitFails \/ DeleteIdentity \/ KeychainChanges \/ Restart
                      \/ UNCHANGED vars
               PROVE IInv'
  OBVIOUS
<1> USE DEF environment, stored, blobs, vars, CommitFails, DeleteIdentity, ForgetKey,
            KeychainChanges, Restart
<1>2. << >> \in Seq(Key)
  OBVIOUS
<1>3. TypeOK'
  BY <1>1, <1>2 DEF IInv, TypeOK
<1>4. KeyInUseSurvives' /\ NoFileInProd'
  BY <1>1 DEF IInv, KeyInUseSurvives, NoFileInProd, Persistent, Fallback
<1> QED BY <1>3, <1>4 DEF IInv

\* Every step keeps the inductive invariant.
LEMMA NextStep == IInv /\ [Next]_vars => IInv'
  BY KeyStep, RotateStep, OtherStep DEF Next

\* The invariant holds in every state, whatever the environment.
THEOREM Inductive == Spec => []IInv
BY InitIInv, NextStep, PTL DEF Spec

\* Type correctness.
THEOREM TypeCorrect == Spec => []TypeOK
BY Inductive, PTL DEF IInv

\* The key in use is never only in memory, and in production no restart loads
\* another, but where the environment's key was taken.
THEOREM KeySurvives == Spec => []KeyInUseSurvives
BY Inductive, PTL DEF IInv

-----------------------------------------------------------------------------
(* What the lost read of a lookup apart, production keeps. *)

\* A production in which no read falters and whose key is the one a restart loads.
Steady == prod /\ access # "falters" /\ RestartKeepsKey

\* Then the key a handler gets is the one a new process would load, and where
\* there was one already it is the same.
LEMMA GetKeyPersists ==
  ASSUME IInv, Steady, NEW k \in Key, GetKey(k), UNCHANGED environment
  PROVE  k = Persistent' /\ (Persistent # NoKey => Persistent' = Persistent)
<1> USE DEF environment, stored, Steady
<1>1. k # NoKey
  BY KeysAreKeys
<1>2. Loaded = Persistent
  BY DEF GetKey, Guarded, Reachable, IInv, TypeOK, Access, Loaded, RestartKeepsKey
<1>3. CASE Loaded # NoKey /\ k = Loaded /\ UNCHANGED <<stored, generated>>
  BY <1>2, <1>3 DEF Persistent, Fallback
<1>4. CASE Loaded = NoKey /\ StoreKey(k)
  BY <1>1, <1>2, <1>4 DEF StoreKey, Persistent
<1> QED BY <1>3, <1>4 DEF GetKey

\* One step at a time: the key in use goes on being the one a restart loads.
LEMMA KeyStaysStep ==
  ASSUME IInv, [Next]_vars, Steady
  PROVE  RestartKeepsKey'
<1> USE DEF environment, stored, blobs, Steady
<1>1. CASE UseKey \/ CommitTemplate \/ WriteAudit
  <2>1. PICK k \in Key : GetKey(k) /\ UNCHANGED environment
    BY <1>1 DEF UseKey, CommitTemplate, WriteAudit
  <2> QED BY <2>1, GetKeyPersists DEF GetKey, RestartKeepsKey
<1>2. CASE Rotate
  <2>1. PICK k \in Key : Rewrap(k) /\ StoreKey(k) /\ cache' = k
    BY <1>2 DEF Rotate
  <2> QED BY <2>1, RewrapKey DEF StoreKey, RestartKeepsKey, Persistent
<1>3. CASE RotateUnstored
  <2>1. PICK k \in Key : Rewrap(k)
    BY <1>3 DEF RotateUnstored
  <2>2. Loaded = Persistent
    BY <2>1 DEF Rewrap, Guarded, Reachable, IInv, TypeOK, Access, Loaded, RestartKeepsKey
  <2> QED BY <1>3, <2>2 DEF RotateUnstored, RestartKeepsKey, Persistent, Fallback
<1>4. CASE RotateCrash \/ DeleteIdentity \/ Restart
  BY <1>4 DEF RotateCrash, DeleteIdentity, ForgetKey, Restart, RestartKeepsKey
<1>5. CASE CommitFails \/ KeychainChanges \/ UNCHANGED vars
  BY <1>5 DEF CommitFails, KeychainChanges, vars, RestartKeepsKey, Persistent, Fallback
<1> QED BY <1>1, <1>2, <1>3, <1>4, <1>5 DEF Next

\* In production the key in use stays the one a restart loads, through locked
\* keychains, refused writes and interrupted rotations and deletions; only a
\* lookup whose read is lost can change that.
THEOREM KeyStays == Spec => KeyStaysInUse
<1>1. IInv /\ [Next]_vars =>
        [prod /\ access # "falters" /\ RestartKeepsKey => RestartKeepsKey']_vars
  BY KeyStaysStep DEF Steady
<1> QED BY <1>1, Inductive, PTL DEF Spec, KeyStaysInUse

\* One step at a time: only a rotation cut off, or the
\* deletion of the identity, makes a readable template unreadable.
LEMMA ReadableStep ==
  ASSUME IInv, [Next]_vars, Steady,
         template = Persistent, template' # NoKey
  PROVE  template' = Persistent' \/ RotateUnstored \/ RotateCrash \/ DeleteIdentity
<1> USE DEF environment, stored, blobs, Steady
<1>1. CASE UseKey \/ CommitTemplate \/ WriteAudit
  <2>1. PICK k \in Key : GetKey(k) /\ UNCHANGED environment /\ template' \in {template, k}
    BY <1>1 DEF UseKey, CommitTemplate, WriteAudit
  <2>2. k = Persistent' /\ (template # NoKey => template = Persistent')
    BY <2>1, GetKeyPersists
  <2> QED BY <2>1, <2>2
<1>2. CASE Rotate
  <2>1. PICK k \in Key : Rewrap(k) /\ StoreKey(k)
    BY <1>2 DEF Rotate
  <2>2. Persistent' = k
    BY <2>1, RewrapKey DEF StoreKey, Persistent
  <2> QED BY <2>1, <2>2 DEF Rewrap, Rewrapped
<1>3. CASE CommitFails \/ KeychainChanges \/ Restart \/ UNCHANGED vars
  BY <1>3 DEF CommitFails, KeychainChanges, Restart, vars, Persistent, Fallback
<1> QED BY <1>1, <1>2, <1>3 DEF Next

\* One step at a time: an audit log that can be read stays so, unless its key is
\* replaced or deleted.
LEMMA AuditStep ==
  ASSUME IInv, [Next]_vars, Steady, AuditReadable
  PROVE  AuditReadable' \/ Rotate \/ DeleteIdentity
<1> USE DEF environment, stored, blobs
<1>1. audit \in Seq(Key) /\ (audit # <<>> => Persistent # NoKey)
  <2>1. audit \in Seq(Key)
    BY DEF IInv, TypeOK
  <2>2. audit # <<>> => 1 \in DOMAIN audit /\ audit[1] \in Key
    BY <2>1
  <2> QED BY <2>1, <2>2, KeysAreKeys DEF AuditReadable
<1>2. ASSUME NEW k \in Key, GetKey(k), UNCHANGED environment,
             audit' \in {audit, Append(audit, k)}
      PROVE  AuditReadable'
  <2>1. k = Persistent' /\ (audit # <<>> => Persistent' = Persistent)
    BY <1>1, <1>2, GetKeyPersists
  <2>2. \A i \in DOMAIN audit : audit[i] = Persistent'
    BY <1>1, <2>1 DEF AuditReadable
  <2>3. \A i \in DOMAIN audit' : audit'[i] = k \/ (i \in DOMAIN audit /\ audit'[i] = audit[i])
    BY <1>1, <1>2
  <2> QED BY <2>1, <2>2, <2>3 DEF AuditReadable
<1>3. CASE UseKey \/ CommitTemplate \/ WriteAudit
  BY <1>2, <1>3 DEF UseKey, CommitTemplate, WriteAudit
<1>4. CASE \/ RotateUnstored \/ RotateCrash \/ CommitFails \/ KeychainChanges \/ Restart
           \/ UNCHANGED vars
  <2>1. audit' = audit /\ Persistent' = Persistent
    BY <1>4 DEF RotateUnstored, RotateCrash, CommitFails, KeychainChanges, Restart,
                vars, Persistent, Fallback
  <2> QED BY <2>1 DEF AuditReadable
<1> QED BY <1>3, <1>4 DEF Next

\* In production a template that can be read stays so, but for a rotation cut
\* off between commit and key and for the deletion of the identity; the audit log
\* stays so, but for a rotation that succeeds and the deletion.
THEOREM ReadableAlways == Spec => ReadableStaysReadable
<1>1. IInv /\ [Next]_vars =>
        [prod /\ access # "falters" /\ RestartKeepsKey =>
           /\ template = Persistent /\ template' # NoKey =>
                template' = Persistent' \/ RotateUnstored \/ RotateCrash \/ DeleteIdentity
           /\ AuditReadable => AuditReadable' \/ Rotate \/ DeleteIdentity]_vars
  BY ReadableStep, AuditStep DEF Steady
<1> QED BY <1>1, Inductive, PTL DEF Spec, ReadableStaysReadable

-----------------------------------------------------------------------------
(* The device key pair next to the master key. *)

DeviceInv ==
  /\ pairKeychain \in Pair \union {NoPair} /\ pairFile \in Pair \union {NoPair}
  /\ deviceId \in Pair \union {NoPair}
  /\ pairs \in 0..MaxPair
  /\ known \in Pair \union {NoPair}

\* Every step of the two stores together is one of the master key or leaves it
\* alone.
LEMMA KeyPart == [IdentityNext]_identityVars => [Next]_vars
  BY DEF IdentityNext, KeyStoreAlone, Sign, CreateDeviceId, DeleteKeys, Next,
         identityVars

\* What is proved about the master key holds next to the device key pair.
THEOREM KeysAreKept == IdentitySpec => Spec
<1>1. IdentityInit => Init
  BY DEF IdentityInit
<1> QED BY <1>1, KeyPart, PTL DEF IdentitySpec, Spec

\* A fresh pair is a pair.
LEMMA NewPairType ==
  ASSUME DeviceInv, NEW p \in Pair, NewPair(p)
  PROVE  pairs' \in 0..MaxPair /\ p # NoPair
  BY PairConstants DEF DeviceInv, NewPair, Pair, NoPair

\* load_or_generate returns a pair.  While the keychain answers, or in production
\* while it does not falter, that is the pair an open keychain leads to, and the
\* one in use if there was one.
LEMMA LoadPairKeeps ==
  ASSUME DeviceInv, NEW p \in Pair, LoadPair(p)
  PROVE  /\ pairKeychain' \in Pair \union {NoPair} /\ pairFile' \in Pair \union {NoPair}
         /\ pairs' \in 0..MaxPair /\ known' = p /\ p # NoPair
         /\ prod /\ access \in Access \ {"falters"} =>
              /\ StoredPair' = p
              /\ StoredPair # NoPair => p = StoredPair
<1> USE DEF pairStored
<1>1. p # NoPair /\ known' = p
  BY DEF LoadPair, Pair, NoPair
<1>2. CASE access = "answers" /\ pairKeychain # NoPair /\ p = pairKeychain
           /\ UNCHANGED <<pairStored, pairs>>
  BY <1>1, <1>2 DEF DeviceInv, StoredPair
<1>3. CASE /\ access = "answers" => pairKeychain = NoPair
           /\ prod => Reachable
           /\ pairFile # NoPair /\ p = pairFile
           /\ pairKeychain' \in {pairKeychain} \union (IF Reachable THEN {p} ELSE {})
           /\ UNCHANGED <<pairFile, pairs>>
  BY <1>1, <1>3 DEF DeviceInv, StoredPair, Reachable, Access
<1>4. CASE /\ access = "answers" => pairKeychain = NoPair
           /\ prod => Reachable
           /\ pairFile = NoPair /\ NewPair(p)
           /\ \/ Reachable /\ pairKeychain' = p /\ pairFile' = NoPair
              \/ pairFile' = p /\ UNCHANGED pairKeychain
  <2>1. pairs' \in 0..MaxPair
    BY <1>4, NewPairType
  <2> QED BY <1>1, <1>4, <2>1 DEF DeviceInv, StoredPair, Reachable, Access
<1> QED BY <1>2, <1>3, <1>4 DEF LoadPair

\* A rotation that is not refused stores the pair it returns; in production,
\* where it is looked for first.
LEMMA RotatePairKeeps ==
  ASSUME DeviceInv, NEW p \in Pair, RotatePair(p)
  PROVE  /\ pairKeychain' \in Pair \union {NoPair} /\ pairFile' \in Pair \union {NoPair}
         /\ pairs' \in 0..MaxPair
         /\ prod => StoredPair' = p
<1>1. pairs' \in 0..MaxPair /\ p # NoPair
  BY NewPairType DEF RotatePair
<1>2. prod => pairKeychain' = p
  BY DEF RotatePair
<1> QED BY <1>1, <1>2 DEF RotatePair, DeviceInv, StoredPair

LEMMA DeviceInit == IdentityInit => DeviceInv
  BY PairConstants
  DEF IdentityInit, DeviceInv, NoPair

\* Every step keeps the device part of the invariant.
LEMMA DeviceStep == DeviceInv /\ [IdentityNext]_identityVars => DeviceInv'
<1> SUFFICES ASSUME DeviceInv, [IdentityNext]_identityVars PROVE DeviceInv'
  OBVIOUS
<1> USE DEF pairStored, device
<1>2. CASE UNCHANGED device
  BY <1>2 DEF DeviceInv
<1>3. ASSUME NEW p \in Pair, LoadPair(p), deviceId' \in {deviceId, p} PROVE DeviceInv'
  BY <1>3, LoadPairKeeps DEF DeviceInv
<1>4. CASE Sign
  BY <1>3, <1>4 DEF Sign
<1>5. CASE CreateDeviceId
  BY <1>3, <1>5 DEF CreateDeviceId
<1>6. CASE RotateDevice
  <2>1. PICK p \in Pair : RotatePair(p) /\ deviceId' = p
    BY <1>6 DEF RotateDevice
  <2> QED BY <1>6, <2>1, RotatePairKeeps
          DEF RotateDevice, DeviceInv
<1>7. CASE DeleteDevice
  BY <1>7 DEF DeleteDevice, DeviceInv
<1>8. CASE DeviceCutOff
  <2>1. /\ pairKeychain' \in Pair \union {NoPair} /\ pairFile' \in Pair \union {NoPair}
        /\ pairs' \in 0..MaxPair
    BY <1>8, RotatePairKeeps, NewPairType DEF DeviceCutOff, DeviceInv
  <2> QED BY <1>8, <2>1 DEF DeviceCutOff, DeviceInv
<1> QED BY <1>2, <1>4, <1>5, <1>6, <1>7, <1>8
        DEF IdentityNext, KeyStoreAlone, DeleteKeys, identityVars

\* The stores of the device satisfy their invariant in every state.
THEOREM DeviceInductive == IdentitySpec => []DeviceInv
BY DeviceInit, DeviceStep, PTL DEF IdentitySpec

\* Type correctness of the two stores together.
THEOREM IdentityTypeCorrect == IdentitySpec => []IdentityTypeOK
<1>1. TypeOK /\ DeviceInv => IdentityTypeOK
  BY DEF DeviceInv, IdentityTypeOK
<1> QED BY <1>1, KeysAreKept, TypeCorrect, DeviceInductive, PTL

\* One step at a time: a lookup whose read is not lost leaves the pair in use
\* where an open keychain leads to it, and takes no other.
LEMMA PairStep ==
  ASSUME DeviceInv, access \in Access, [IdentityNext]_identityVars,
         prod, access # "falters", PairInUseIsStored
  PROVE  PairInUseIsStored' /\ (known # NoPair => known' \in {known, NoPair})
<1> USE DEF pairStored, device
<1>1. CASE UNCHANGED device
  BY <1>1 DEF PairInUseIsStored, StoredPair
<1>2. CASE \E p \in Pair : LoadPair(p)
  BY <1>2, LoadPairKeeps DEF PairInUseIsStored
<1>3. CASE RotateDevice \/ DeleteDevice \/ DeviceCutOff
  BY <1>3 DEF RotateDevice, DeleteDevice, DeviceCutOff, PairInUseIsStored
<1> QED BY <1>1, <1>2, <1>3
        DEF IdentityNext, KeyStoreAlone, Sign, CreateDeviceId, DeleteKeys, identityVars

\* In production, but for a lookup whose read is lost, the device signs with one
\* pair until its identity is deleted, and an open keychain leads to that pair.
THEOREM OnePair == IdentitySpec => OnePairInUse
<1>1. DeviceInv /\ TypeOK /\ [IdentityNext]_identityVars =>
        [prod /\ access # "falters" /\ PairInUseIsStored =>
           /\ PairInUseIsStored'
           /\ known # NoPair => known' \in {known, NoPair}]_identityVars
  BY PairStep DEF TypeOK
<1> QED BY <1>1, DeviceInductive, KeysAreKept, TypeCorrect, PTL
        DEF IdentitySpec, OnePairInUse

\* One step at a time: the device id goes on naming the stored pair.
LEMMA NamingStep ==
  ASSUME DeviceInv, access \in Access, [IdentityNext]_identityVars,
         prod, access # "falters", IdNamesPair
  PROVE  IdNamesPair' \/ (DeleteKeys /\ DeviceCutOff)
<1> USE DEF pairStored, device
<1>1. CASE UNCHANGED device
  BY <1>1 DEF IdNamesPair, StoredPair
<1>2. CASE Sign
  <2>1. PICK p \in Pair : LoadPair(p)
    BY <1>2 DEF Sign
  <2> QED BY <1>2, <2>1, LoadPairKeeps DEF Sign, IdNamesPair
<1>3. CASE CreateDeviceId
  <2>1. PICK p \in Pair : LoadPair(p) /\ deviceId' = p
    BY <1>3 DEF CreateDeviceId
  <2> QED BY <2>1, LoadPairKeeps DEF IdNamesPair
<1>4. CASE RotateDevice
  <2>1. PICK p \in Pair : RotatePair(p) /\ deviceId' = p
    BY <1>4 DEF RotateDevice
  <2> QED BY <2>1, RotatePairKeeps DEF DeviceInv, IdNamesPair
<1>5. CASE DeleteDevice
  BY <1>5 DEF DeleteDevice, IdNamesPair
<1> QED BY <1>1, <1>2, <1>3, <1>4, <1>5
        DEF IdentityNext, KeyStoreAlone, DeleteKeys, identityVars

\* In production, but for a lookup whose read is lost, only a deletion of the
\* identity that is cut off takes the device id from the stored pair.
THEOREM IdNaming == IdentitySpec => IdKeepsNaming
<1>1. DeviceInv /\ TypeOK /\ [IdentityNext]_identityVars =>
        [prod /\ access # "falters" /\ IdNamesPair
           => IdNamesPair' \/ (DeleteKeys /\ DeviceCutOff)]_identityVars
  BY NamingStep DEF TypeOK
<1> QED BY <1>1, DeviceInductive, KeysAreKept, TypeCorrect, PTL
        DEF IdentitySpec, IdKeepsNaming

=============================================================================
