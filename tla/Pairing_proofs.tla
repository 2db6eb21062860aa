---------------------------- MODULE Pairing_proofs ----------------------------
(***************************************************************************)
(* Proofs about Pairing, for any connections, apps, keypairs and faults.   *)
(***************************************************************************)
EXTENDS Pairing, TLAPS

\* A connection has an app, a handshake past its third message a client key, and what is
\* shown to the user comes from a handshake.
Bound ==
    \A c \in Conns :
        /\ pc[c] # "closed" => who[c] \in Clients
        /\ pc[c] \in Shaking => client \in Clients
        /\ pc[c] = "await" => hash \in Clients
        /\ pc[c] = "confirm" => shown[c] \in Clients

TypeInv == TypeOK /\ Bound

\* The values a handshake works with are its own, or it overlapped with another one.
OwnValues ==
    \A c \in Conns :
        /\ pc[c] \in Shaking => client = who[c] \/ client \in cleared
        /\ pc[c] = "await" => hash = who[c] \/ who[c] \in cleared
        /\ pc[c] = "confirm" => shown[c] = who[c] \/ who[c] \in cleared
        /\ pc[c] \in {"addopen", "addwrite"} => who[c] \in cleared
        /\ \A d \in Conns \ {c} : pc[c] \in Shaking /\ pc[d] \in Shaking => who[c] \in cleared

\* What is stored, and what is about to be.
OnlyCleared == file.pubkeys \subseteq cleared /\ \A c \in Conns : conf[c].pubkeys \subseteq cleared

\* The connection that has the ciphers, past its third message.
Holds(c) == cipher = c /\ pc[c] \in Shaking \cup {"open"} /\ who[c] \notin cleared

\* While its app is not accepted, it is alone in its handshake and must be verified.
Unverified ==
    \A c \in Conns : Holds(c) =>
        /\ At(Shaking) \subseteq {c} /\ client = who[c]
        /\ pc[c] = "assign" => ~found[c]
        /\ pc[c] \in {"reply", "await", "confirm", "open"} => required

PairInv == TypeInv /\ OwnValues /\ OnlyCleared /\ Unverified

\* Stores one at a time, each of which keeps what was stored before it.
OneStore ==
    \A c \in At(Storing) :
        /\ At(Storing) = {c}
        /\ pc[c] \in {"keygen", "keyopen", "keywrite"} => kept.keypair = 0
        /\ pc[c] # "keygen" => /\ kept.pubkeys \subseteq conf[c].pubkeys
                               /\ kept.keypair \in {0, conf[c].keypair}

StoreInv == TypeInv /\ (~clash => OneStore) /\ StoredIsKept

LEMMA EmptyType == Empty \in Configuration
  BY PairingAssumption DEF Empty, Configuration

LEMMA InitType == Init => TypeInv
  <1> SUFFICES ASSUME Init PROVE TypeInv
    OBVIOUS
  <1> USE PairingAssumption, HsmAssumption, EmptyType DEF Init, BootInit
  <1>a. second \in 0..(BootTimeout - 1) /\ faults \in 0..MaxFaults /\ generated \in 0..MaxKeys
    BY SMT
  <1>b. fell \in BOOLEAN /\ required \in BOOLEAN /\ clash \in BOOLEAN
    OBVIOUS
  <1>c. hsm \in Modes /\ boot \in Decided \cup {"probe", "init", "reboot", "blocked"}
    BY DEF Modes
  <1>1. HsmTypeOK
    <2> HIDE DEF Init, BootInit
    <2> QED
      BY <1>a, <1>b, <1>c DEF HsmTypeOK
  <1>d. /\ pc \in [Conns -> {"closed", "hand", "open"} \cup Storing \cup Shaking]
        /\ who \in [Conns -> Clients \cup {None}] /\ found \in [Conns -> BOOLEAN]
        /\ shown \in [Conns -> Clients \cup {None}] /\ conf \in [Conns -> Configuration]
    OBVIOUS
  <1>e. /\ cipher \in Conns \cup {None} /\ client \in Clients \cup {None}
        /\ hash \in Clients \cup {None} /\ file \in Configuration /\ kept \in Configuration
        /\ cleared \subseteq Clients
    OBVIOUS
  <1>2. TypeOK
    <2> HIDE DEF Init, BootInit
    <2> QED
      BY <1>a, <1>b, <1>1, <1>d, <1>e DEF TypeOK
  <1>3. Bound
    BY DEF Bound, Shaking
  <1> QED
    BY <1>2, <1>3 DEF TypeInv

LEMMA HsmType == ASSUME HsmTypeOK, HsmStep PROVE HsmTypeOK'
  <1> USE HsmAssumption DEF HsmTypeOK, Modes, Decided
  <1>1. ASSUME NextAttempt
        PROVE  boot' \in {"absent", "probe"} /\ second' \in 0..(BootTimeout - 1)
    BY <1>1 DEF NextAttempt
  <1>2. CASE Probe
    BY <1>1, <1>2 DEF Probe
  <1>3. CASE GetFirmware
    BY <1>3 DEF GetFirmware
  <1>4. CASE RebootHsm
    BY <1>1, <1>4 DEF RebootHsm
  <1>5. CASE ExchangeFails
    BY <1>5 DEF ExchangeFails, Fault
  <1>6. CASE HsmFalls
    <2>1. fell' \in BOOLEAN
      BY <1>6 DEF HsmFalls
    <2> QED
      BY <1>6, <2>1 DEF HsmFalls, Fault
  <1>7. ASSUME NEW mode \in {"bootloader", "firmware"}, HsmAnswers(mode) PROVE HsmTypeOK'
    BY <1>7 DEF HsmAnswers
  <1> QED
    BY <1>2, <1>3, <1>4, <1>5, <1>6, <1>7 DEF HsmStep, WaitForFirmware

\* The slot of a new connection is a free one.
LEMMA FreeSlot ==
    ASSUME At({"closed"}) # {}
    PROVE  (CHOOSE d \in Conns : pc[d] = "closed") \in {d \in Conns : pc[d] = "closed"}
  BY DEF At

LEMMA ConnType == ASSUME TypeInv, NEW c \in Conns, ConnStep(c) PROVE TypeInv'
  <1> USE PairingAssumption, HsmAssumption, EmptyType
      DEF TypeInv, TypeOK, Bound, noiseVars, connVars, histVars, hsmVars, Shaking, Storing, Goto
  <1>1. ASSUME Fault, UNCHANGED <<hsm, boot, second, fell>> PROVE HsmTypeOK'
    BY <1>1 DEF Fault, HsmTypeOK
  <1>2. ASSUME UNCHANGED <<hsm, boot, second, fell, faults>> PROVE HsmTypeOK'
    BY <1>2 DEF HsmTypeOK
  <1>3. ASSUME NEW now \in BOOLEAN, Clashes(now)
        PROVE  clash' \in BOOLEAN /\ kept' \in Configuration
    BY <1>3 DEF Clashes
  <1>4. CASE GenerateKeypair(c)
    <2>1. [file EXCEPT !.keypair = generated + 1] \in Configuration /\ generated' \in 0..MaxKeys
      BY <1>4 DEF GenerateKeypair, Configuration
    <2> QED
      BY <1>2, <1>4, <2>1 DEF GenerateKeypair
  <1>5. CASE ThirdMessage(c)
    <2>1. cleared' \subseteq Clients
      BY <1>5 DEF ThirdMessage, Cross, At
    <2> QED
      BY <1>2, <1>5, <2>1 DEF ThirdMessage
  <1>6. CASE Lookup(c) \/ AssignRequired(c)
    <2>a. ContainsClientStaticPubkey \in BOOLEAN /\ (~found[c]) \in BOOLEAN /\ FALSE \in BOOLEAN
      BY DEF ContainsClientStaticPubkey
    <2>1. found' \in [Conns -> BOOLEAN] /\ required' \in BOOLEAN
      BY <1>6, <2>a, Zenon DEF Lookup, AssignRequired
    <2> QED
      BY <1>2, <1>6, <2>1 DEF Lookup, AssignRequired
  <1>7. CASE Reply(c) \/ RequestVerification(c) \/ SkipVerification(c)
    BY <1>2, <1>7 DEF Reply, RequestVerification, SkipVerification
  <1>8. CASE Fails(c)
    BY <1>1, <1>8 DEF Fails, End, None
  <1>9. CASE Accept(c)
    <2>1. WithClientStaticPubkey \in Configuration
      BY <1>9 DEF Accept, WithClientStaticPubkey, Configuration
    <2>2. (At(Storing) # {}) \in BOOLEAN
      OBVIOUS
    <2>3. clash' \in BOOLEAN /\ kept' \in Configuration
      <3>1. CASE ContainsClientStaticPubkey
        BY <1>9, <3>1 DEF Accept
      <3>2. CASE ~ContainsClientStaticPubkey
        BY <1>3, <1>9, <2>2, <3>2 DEF Accept, StartsStoring
      <3> QED
        BY <3>1, <3>2
    <2>4. cleared' \subseteq Clients
      BY <1>9 DEF Accept
    <2>5. required' \in BOOLEAN /\ conf' \in [Conns -> Configuration]
      BY <1>9, <2>1 DEF Accept
    <2>6. shown' = [shown EXCEPT ![c] = None]
          /\ pc' \in {[pc EXCEPT ![c] = "open"], [pc EXCEPT ![c] = "addopen"]}
      BY <1>9 DEF Accept
    <2>7. pc[c] = "confirm" /\ UNCHANGED <<cipher, client, hash, file, who, found, generated, hsmVars>>
      BY <1>9 DEF Accept
    <2>8. TypeOK'
      BY <1>2, <2>3, <2>4, <2>5, <2>6, <2>7 DEF None
    <2>9. Bound'
      BY <2>6, <2>7
    <2> QED
      BY <2>8, <2>9
  <1>10. CASE Refuse(c) \/ OpenFile(c)
    BY <1>2, <1>10 DEF Refuse, OpenFile, None
  <1>11. CASE WriteFile(c)
    <2>1. kept' \in Configuration
      BY <1>11 DEF WriteFile, Configuration
    <2> QED
      BY <1>2, <1>11, <2>1 DEF WriteFile, AfterStore, Writing
  <1>12. CASE StoreFails(c)
    <2>1. (pc[c] \in Writing) \in BOOLEAN
      OBVIOUS
    <2>2. clash' \in BOOLEAN /\ kept' \in Configuration
      BY <1>3, <1>12, <2>1 DEF StoreFails
    <2> QED
      BY <1>1, <1>12, <2>2 DEF StoreFails, AfterStore
  <1>13. CASE Receive(c) \/ Disconnect(c)
    <2>1. UNCHANGED connVars \/ End(c)
      BY <1>13 DEF Receive, Disconnect
    <2>2. UNCHANGED <<noiseVars, file, generated, cleared, kept, clash, hsmVars>>
      BY <1>13 DEF Receive, Disconnect
    <2>3. CASE UNCHANGED connVars
      BY <1>2, <2>2, <2>3
    <2>4. CASE End(c)
      BY <1>2, <2>2, <2>4 DEF End, None
    <2> QED
      BY <2>1, <2>3, <2>4
  <1> QED
    BY <1>4, <1>5, <1>6, <1>7, <1>8, <1>9, <1>10, <1>11, <1>12, <1>13 DEF ConnStep

LEMMA TypeStep == TypeInv /\ [Next]_vars => TypeInv'
  <1> SUFFICES ASSUME TypeInv, [Next]_vars PROVE TypeInv'
    OBVIOUS
  <1> USE PairingAssumption, HsmAssumption, EmptyType
      DEF TypeInv, TypeOK, Bound, noiseVars, connVars, histVars
  <1>1. ASSUME NEW c \in Conns, ConnStep(c) PROVE TypeInv'
    BY <1>1, ConnType
  <1>2. CASE HsmStep /\ UNCHANGED <<noiseVars, file, connVars, generated, histVars>>
    BY <1>2, HsmType
  <1>3. CASE Restart
    <2>a. faults' \in 0..MaxFaults /\ hsm' \in Modes
      BY <1>3 DEF Restart, HsmTypeOK, Fault
    <2>c. boot' = "probe" /\ second' = 0 /\ fell' = FALSE
      BY <1>3 DEF Restart
    <2>b. second' \in 0..(BootTimeout - 1)
      BY <2>c, SMT
    <2>1. HsmTypeOK'
      BY <2>a, <2>b, <2>c DEF HsmTypeOK
    <2>2. clash' \in BOOLEAN /\ kept' \in Configuration
      BY <1>3 DEF Restart, Clashes
    <2> QED
      BY <1>3, <2>1, <2>2 DEF Restart, FreshNoise, None, Shaking
  <1>4. ASSUME NEW k \in Clients, Connect(k) PROVE TypeInv'
    <2> DEFINE c == CHOOSE d \in Conns : pc[d] = "closed"
    <2>1. c \in Conns /\ pc[c] = "closed"
      BY <1>4, FreeSlot DEF Connect
    <2>2. clash' \in BOOLEAN /\ kept' \in Configuration
      BY <1>4 DEF Connect, StartsStoring, Clashes
    <2>3. /\ who' = [who EXCEPT ![c] = k] /\ pc' \in {[pc EXCEPT ![c] = "keygen"], [pc EXCEPT ![c] = "hand"]}
          /\ UNCHANGED <<noiseVars, file, found, shown, conf, generated, cleared, hsmVars>>
      BY <1>4 DEF Connect, Goto
    <2> HIDE DEF c
    <2> QED
      BY <2>1, <2>2, <2>3 DEF hsmVars, HsmTypeOK, Shaking, Storing
  <1>5. CASE UNCHANGED vars
    BY <1>5 DEF vars, hsmVars, HsmTypeOK
  <1> QED
    BY <1>1, <1>2, <1>3, <1>4, <1>5 DEF Next

\* The noise configuration, the connections and the HSM have their types, whatever fails.
THEOREM TypeCorrect == Spec => []TypeOK
  <1>1. TypeInv => TypeOK
    BY DEF TypeInv
  <1> QED
    BY <1>1, InitType, TypeStep, PTL DEF Spec

--------------------------------------------------------------------------------
\* Accepted clients.

LEMMA OwnStep == ASSUME TypeInv, OwnValues, NEW c \in Conns, ConnStep(c) PROVE OwnValues'
  <1> USE DEF TypeInv, TypeOK, OwnValues, noiseVars, connVars, histVars, Shaking, Goto
  <1>1. CASE GenerateKeypair(c)
    BY <1>1 DEF GenerateKeypair
  <1>2. CASE ThirdMessage(c)
    <2>1. \A d \in Conns \ {c} : pc[d] \in Shaking => who[c] \in cleared' /\ who[d] \in cleared'
      BY <1>2 DEF ThirdMessage, Cross, At
    <2>2. cleared \subseteq cleared'
      BY <1>2 DEF ThirdMessage, Cross
    <2>3. /\ client' = who[c] /\ pc' = [pc EXCEPT ![c] = "lookup"]
          /\ UNCHANGED <<hash, who, shown>>
      BY <1>2 DEF ThirdMessage
    <2> QED
      BY <2>1, <2>2, <2>3
  <1>3. CASE Lookup(c) \/ AssignRequired(c)
    BY <1>3 DEF Lookup, AssignRequired
  <1>4. CASE Reply(c)
    BY <1>4 DEF Reply
  <1>5. CASE RequestVerification(c) \/ SkipVerification(c)
    BY <1>5 DEF RequestVerification, SkipVerification
  <1>6. CASE Fails(c)
    BY <1>6 DEF Fails, End
  <1>7. CASE Accept(c)
    <2>1. cleared' = cleared \cup {shown[c]} /\ who[c] \in cleared'
      BY <1>7 DEF Accept
    <2>2. /\ pc' \in {[pc EXCEPT ![c] = "open"], [pc EXCEPT ![c] = "addopen"]}
          /\ shown' = [shown EXCEPT ![c] = None] /\ pc[c] = "confirm"
          /\ UNCHANGED <<client, hash, who>>
      BY <1>7 DEF Accept
    <2> QED
      BY <2>1, <2>2
  <1>8. CASE Refuse(c) \/ OpenFile(c)
    BY <1>8 DEF Refuse, OpenFile
  <1>9. CASE WriteFile(c) \/ StoreFails(c)
    BY <1>9 DEF WriteFile, StoreFails, AfterStore, Writing
  <1>10. CASE Receive(c) \/ Disconnect(c)
    <2>1. UNCHANGED connVars \/ End(c)
      BY <1>10 DEF Receive, Disconnect
    <2>2. UNCHANGED <<client, hash, cleared>>
      BY <1>10 DEF Receive, Disconnect
    <2> QED
      BY <2>1, <2>2 DEF End
  <1> QED
    BY <1>1, <1>2, <1>3, <1>4, <1>5, <1>6, <1>7, <1>8, <1>9, <1>10 DEF ConnStep

LEMMA ClearedStep ==
    ASSUME TypeInv, OwnValues, OnlyCleared, NEW c \in Conns, ConnStep(c)
    PROVE  OnlyCleared'
  <1> USE DEF TypeInv, TypeOK, OnlyCleared, noiseVars, connVars, histVars, Goto
  <1>0. Empty.pubkeys = {}
    BY DEF Empty
  <1>1. CASE GenerateKeypair(c)
    <2>1. [file EXCEPT !.keypair = generated + 1].pubkeys = file.pubkeys
      BY DEF Configuration
    <2> QED
      BY <1>1, <2>1 DEF GenerateKeypair
  <1>2. CASE ThirdMessage(c)
    BY <1>2 DEF ThirdMessage, Cross
  <1>3. CASE Lookup(c) \/ AssignRequired(c)
    BY <1>3 DEF Lookup, AssignRequired
  <1>4. CASE Reply(c) \/ RequestVerification(c) \/ SkipVerification(c) \/ Refuse(c)
    BY <1>4 DEF Reply, RequestVerification, SkipVerification, Refuse
  <1>5. CASE Fails(c)
    BY <1>0, <1>5 DEF Fails, End
  <1>6. CASE Accept(c)
    <2>1. cleared' = cleared \cup {shown[c]} /\ who[c] \in cleared' /\ client \in cleared'
      BY <1>6 DEF Accept, OwnValues, Shaking
    <2>2. WithClientStaticPubkey.pubkeys = file.pubkeys \cup {client}
      BY DEF WithClientStaticPubkey, Configuration
    <2>3. /\ conf' = conf \/ conf' = [conf EXCEPT ![c] = WithClientStaticPubkey]
          /\ UNCHANGED file
      BY <1>6 DEF Accept
    <2> QED
      BY <2>1, <2>2, <2>3
  <1>7. CASE OpenFile(c)
    BY <1>0, <1>7 DEF OpenFile
  <1>8. CASE WriteFile(c) \/ StoreFails(c)
    BY <1>0, <1>8 DEF WriteFile, StoreFails, AfterStore
  <1>9. CASE Receive(c) \/ Disconnect(c)
    <2>1. UNCHANGED connVars \/ End(c)
      BY <1>9 DEF Receive, Disconnect
    <2>2. UNCHANGED <<file, cleared>>
      BY <1>9 DEF Receive, Disconnect
    <2> QED
      BY <1>0, <2>1, <2>2 DEF End
  <1> QED
    BY <1>1, <1>2, <1>3, <1>4, <1>5, <1>6, <1>7, <1>8, <1>9 DEF ConnStep

LEMMA UnverifiedStep ==
    ASSUME TypeInv, OwnValues, OnlyCleared, Unverified, NEW c \in Conns, ConnStep(c)
    PROVE  Unverified'
  <1> USE DEF TypeInv, TypeOK, Unverified, Holds, At, noiseVars, connVars, histVars, Shaking, Goto
  <1>1. CASE GenerateKeypair(c)
    BY <1>1 DEF GenerateKeypair
  <1>2. CASE ThirdMessage(c)
    <2>1. \A d \in Conns \ {c} : pc[d] \in Shaking => who[c] \in cleared'
      BY <1>2 DEF ThirdMessage, Cross
    <2>2. cipher' = c /\ client' = who[c] /\ pc' = [pc EXCEPT ![c] = "lookup"] /\ who' = who
      BY <1>2 DEF ThirdMessage
    <2> QED
      BY <2>1, <2>2
  <1>3. CASE Lookup(c)
    <2>1. /\ pc[c] = "lookup" /\ pc' = [pc EXCEPT ![c] = "assign"]
          /\ UNCHANGED <<cipher, client, required, file, who, cleared>>
      BY <1>3 DEF Lookup
    <2>2. found'[c] => client \in cleared
      BY <1>3 DEF Lookup, ContainsClientStaticPubkey, OnlyCleared
    <2>3. \A d \in Conns \ {c} : found'[d] = found[d]
      BY <1>3 DEF Lookup
    <2> QED
      BY <2>1, <2>2, <2>3
  <1>4. CASE AssignRequired(c)
    BY <1>4 DEF AssignRequired
  <1>5. CASE Reply(c) \/ RequestVerification(c) \/ SkipVerification(c) \/ Refuse(c)
    BY <1>5 DEF Reply, RequestVerification, SkipVerification, Refuse
  <1>6. CASE Fails(c)
    BY <1>6, PairingAssumption DEF Fails, End, None
  <1>7. CASE Accept(c)
    <2>1. cleared' = cleared \cup {shown[c]} /\ who[c] \in cleared'
      BY <1>7 DEF Accept, OwnValues
    <2>2. /\ pc' \in {[pc EXCEPT ![c] = "open"], [pc EXCEPT ![c] = "addopen"]}
          /\ pc[c] = "confirm" /\ UNCHANGED <<cipher, client, who, found>>
      BY <1>7 DEF Accept
    <2> QED
      BY <2>1, <2>2
  <1>8. CASE OpenFile(c)
    BY <1>8 DEF OpenFile, OwnValues
  <1>9. CASE WriteFile(c) \/ StoreFails(c)
    BY <1>9 DEF WriteFile, StoreFails, AfterStore, Writing, OwnValues
  <1>10. CASE Receive(c) \/ Disconnect(c)
    <2>1. UNCHANGED connVars \/ End(c)
      BY <1>10 DEF Receive, Disconnect
    <2>2. UNCHANGED <<cipher, client, required, cleared>>
      BY <1>10 DEF Receive, Disconnect
    <2> QED
      BY <2>1, <2>2 DEF End
  <1> QED
    BY <1>1, <1>2, <1>3, <1>4, <1>5, <1>6, <1>7, <1>8, <1>9, <1>10 DEF ConnStep

LEMMA PairStep == PairInv /\ [Next]_vars => PairInv'
  <1> SUFFICES ASSUME PairInv, [Next]_vars PROVE PairInv'
    OBVIOUS
  <1> USE DEF PairInv
  <1>0. TypeInv'
    BY TypeStep
  <1>1. ASSUME NEW c \in Conns, ConnStep(c) PROVE PairInv'
    BY <1>0, <1>1, OwnStep, ClearedStep, UnverifiedStep
  <1>2. CASE UNCHANGED <<noiseVars, file, connVars, generated, histVars>>
    BY <1>0, <1>2 DEF OwnValues, OnlyCleared, Unverified, Holds, At, noiseVars, connVars, histVars
  <1>3. CASE Restart
    <2>1. \A c \in Conns : pc'[c] = "closed" /\ conf'[c].pubkeys = {}
      BY <1>3 DEF Restart, FreshNoise, Empty
    <2>2. UNCHANGED <<file, cleared>>
      BY <1>3 DEF Restart
    <2> QED
      BY <1>0, <2>1, <2>2 DEF OwnValues, OnlyCleared, Unverified, Holds, Shaking
  <1>4. ASSUME NEW k \in Clients, Connect(k) PROVE PairInv'
    <2> DEFINE c == CHOOSE d \in Conns : pc[d] = "closed"
    <2>1. c \in Conns /\ pc[c] = "closed"
      BY <1>4, FreeSlot DEF Connect
    <2>2. /\ who' = [who EXCEPT ![c] = k] /\ pc' \in {[pc EXCEPT ![c] = "keygen"], [pc EXCEPT ![c] = "hand"]}
          /\ UNCHANGED <<noiseVars, file, found, shown, conf, cleared>>
      BY <1>4 DEF Connect, Goto
    <2> HIDE DEF c
    <2> QED
      BY <1>0, <2>1, <2>2 DEF TypeInv, TypeOK, OwnValues, OnlyCleared, Unverified, Holds, At,
                              noiseVars, Shaking
  <1> QED
    BY <1>1, <1>2, <1>3, <1>4 DEF Next, vars

LEMMA PairInit == Init => PairInv
  <1> SUFFICES ASSUME Init PROVE PairInv
    OBVIOUS
  <1>1. (\A c \in Conns : pc[c] = "closed" /\ conf[c].pubkeys = {}) /\ file.pubkeys = {}
    BY DEF Init, Empty
  <1> QED
    BY <1>1, InitType DEF PairInv, OwnValues, OnlyCleared, Unverified, Holds, Shaking

LEMMA PairInvariance == Spec => []PairInv
  BY PairInit, PairStep, PTL DEF Spec

\* Only accepted clients are stored as paired, but for overlapping handshakes.
THEOREM PairedClientsWereAccepted == Spec => []PairedWasAccepted
  <1>1. PairInv => PairedWasAccepted
    BY DEF PairInv, OnlyCleared, PairedWasAccepted
  <1> QED
    BY <1>1, PairInvariance, PTL

\* Only connections of accepted clients pass on messages, but for overlapping handshakes.
THEOREM UsableConnectionsArePaired == Spec => []UsableIsPaired
  <1>1. PairInv => UsableIsPaired
    BY DEF PairInv, Unverified, Holds, UsableIsPaired, Decrypts
  <1> QED
    BY <1>1, PairInvariance, PTL

--------------------------------------------------------------------------------
\* base.json.

LEMMA StoreConnStep ==
    ASSUME StoreInv, NEW c \in Conns, ConnStep(c)
    PROVE  (~clash => OneStore)' /\ StoredIsKept'
  <1> USE DEF StoreInv, TypeInv, TypeOK, OneStore, StoredIsKept, At, Storing, Writing,
              noiseVars, connVars, histVars, Goto
  <1>1. CASE GenerateKeypair(c)
    <2>1. /\ [file EXCEPT !.keypair = generated + 1].pubkeys = file.pubkeys
      BY DEF Configuration
    <2> QED
      BY <1>1, <2>1 DEF GenerateKeypair
  <1>2. CASE ThirdMessage(c)
    BY <1>2 DEF ThirdMessage
  <1>3. CASE Lookup(c) \/ AssignRequired(c)
    BY <1>3 DEF Lookup, AssignRequired
  <1>4. CASE Reply(c) \/ RequestVerification(c) \/ SkipVerification(c) \/ Refuse(c)
    BY <1>4 DEF Reply, RequestVerification, SkipVerification, Refuse
  <1>5. CASE Fails(c)
    BY <1>5 DEF Fails, End
  <1>6. CASE Accept(c)
    <2>1. CASE ContainsClientStaticPubkey
      BY <1>6, <2>1 DEF Accept
    <2>2. CASE ~ContainsClientStaticPubkey
      <3>1. /\ WithClientStaticPubkey.pubkeys = file.pubkeys \cup {client}
            /\ WithClientStaticPubkey.keypair = file.keypair
        BY DEF WithClientStaticPubkey, Configuration
      <3>2. /\ conf' = [conf EXCEPT ![c] = WithClientStaticPubkey]
            /\ pc[c] = "confirm" /\ pc' = [pc EXCEPT ![c] = "addopen"]
            /\ UNCHANGED file
            /\ clash' = (clash \/ At(Storing) # {})
            /\ kept' = IF At(Storing) # {} THEN Empty ELSE kept
        BY <1>6, <2>2 DEF Accept, StartsStoring, Clashes
      <3>3. CASE ~clash /\ At(Storing) = {}
        BY <3>1, <3>2, <3>3
      <3>4. CASE clash'
        BY <3>4
      <3> QED
        BY <3>2, <3>3, <3>4
    <2> QED
      BY <2>1, <2>2
  <1>7. CASE OpenFile(c)
    BY <1>7 DEF OpenFile
  <1>8. CASE WriteFile(c)
    <2>1. CASE clash
      BY <1>8, <2>1 DEF WriteFile
    <2>2. CASE ~clash
      <3>1. At(Storing) = {c} /\ At(Storing)' = {}
        BY <1>8, <2>2 DEF WriteFile, AfterStore
      <3>2. kept'.pubkeys = kept.pubkeys \cup conf[c].pubkeys /\ kept'.keypair = conf[c].keypair
        BY <1>8, <2>2 DEF WriteFile
      <3>3. file' = conf[c] /\ clash' = clash
        BY <1>8 DEF WriteFile
      <3>4. kept.pubkeys \subseteq conf[c].pubkeys
        BY <1>8, <2>2 DEF WriteFile
      <3>5. kept'.pubkeys \subseteq file'.pubkeys /\ kept'.keypair = file'.keypair
        BY <3>2, <3>3, <3>4
      <3> HIDE DEF At, Storing, TypeInv, TypeOK, StoreInv
      <3> QED
        BY <3>1, <3>5
    <2> QED
      BY <2>1, <2>2
  <1>9. CASE StoreFails(c)
    <2>1. CASE clash'
      BY <2>1
    <2>2. CASE ~clash'
      <3>1. ~clash /\ kept' = kept /\ pc[c] \in Storing \ Writing
        BY <1>9, <2>2 DEF StoreFails, Clashes
      <3>2. At(Storing) = {c} /\ At(Storing)' = {}
        BY <1>9, <3>1 DEF StoreFails, AfterStore
      <3> QED
        BY <1>9, <3>1, <3>2 DEF StoreFails
    <2> QED
      BY <2>1, <2>2
  <1>10. CASE Receive(c) \/ Disconnect(c)
    <2>1. UNCHANGED connVars \/ (pc[c] = "open" /\ End(c))
      BY <1>10 DEF Receive, Disconnect
    <2>2. UNCHANGED <<file, kept, clash>>
      BY <1>10 DEF Receive, Disconnect
    <2> QED
      BY <2>1, <2>2 DEF End
  <1> QED
    BY <1>1, <1>2, <1>3, <1>4, <1>5, <1>6, <1>7, <1>8, <1>9, <1>10 DEF ConnStep

LEMMA StoreStep == StoreInv /\ [Next]_vars => StoreInv'
  <1> SUFFICES ASSUME StoreInv, [Next]_vars PROVE StoreInv'
    OBVIOUS
  <1> USE DEF StoreInv
  <1>0. TypeInv'
    BY TypeStep
  <1>1. ASSUME NEW c \in Conns, ConnStep(c) PROVE StoreInv'
    BY <1>0, <1>1, StoreConnStep
  <1>2. CASE UNCHANGED <<noiseVars, file, connVars, generated, histVars>>
    BY <1>0, <1>2 DEF OneStore, StoredIsKept, At, connVars, histVars
  <1>3. CASE Restart
    <2>1. At(Storing)' = {}
      BY <1>3 DEF Restart, FreshNoise, At, Storing
    <2>2. clash' = (clash \/ At(Writing) # {}) /\ (At(Writing) = {} => kept' = kept) /\ file' = file
      BY <1>3 DEF Restart, Clashes
    <2> QED
      BY <1>0, <2>1, <2>2 DEF OneStore, StoredIsKept
  <1>4. ASSUME NEW k \in Clients, Connect(k) PROVE StoreInv'
    <2> DEFINE c == CHOOSE d \in Conns : pc[d] = "closed"
    <2>1. c \in Conns /\ pc[c] = "closed"
      BY <1>4, FreeSlot DEF Connect
    <2>2. UNCHANGED <<file, conf>>
      BY <1>4 DEF Connect
    <2>3. CASE file.keypair = 0
      <3>1. /\ pc' = [pc EXCEPT ![c] = "keygen"]
            /\ clash' = (clash \/ At(Storing) # {})
            /\ At(Storing) = {} => kept' = kept
        BY <1>4, <2>3 DEF Connect, Goto, StartsStoring, Clashes
      <3> HIDE DEF c
      <3>2. CASE clash'
        BY <1>0, <3>2 DEF StoredIsKept
      <3>3. CASE ~clash /\ At(Storing) = {}
        BY <1>0, <2>1, <2>2, <2>3, <3>1, <3>3
           DEF OneStore, StoredIsKept, At, Storing, Writing, TypeInv, TypeOK
      <3> QED
        BY <3>1, <3>2, <3>3
    <2>4. CASE file.keypair # 0
      <3>1. pc' = [pc EXCEPT ![c] = "hand"] /\ UNCHANGED <<kept, clash>>
        BY <1>4, <2>4 DEF Connect, Goto
      <3> HIDE DEF c
      <3> QED
        BY <1>0, <2>1, <2>2, <3>1 DEF OneStore, StoredIsKept, At, Storing, Writing, TypeInv, TypeOK
    <2> QED
      BY <2>3, <2>4
  <1> QED
    BY <1>1, <1>2, <1>3, <1>4 DEF Next, vars

\* What was stored in base.json stays, but for overlapping or interrupted stores.
THEOREM StoredStays == Spec => []StoredIsKept
  <1>1. Init => StoreInv
    <2>1. Init => TypeInv
      BY InitType
    <2>2. Init => At(Storing) = {} /\ kept = file
      BY DEF Init, At, Storing
    <2> QED
      BY <2>1, <2>2 DEF StoreInv, OneStore, StoredIsKept
  <1>2. StoreInv => StoredIsKept
    BY DEF StoreInv
  <1> QED
    BY <1>1, <1>2, StoreStep, PTL DEF Spec
================================================================================
