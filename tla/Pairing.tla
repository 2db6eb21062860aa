-------------------------------- MODULE Pairing --------------------------------
(***************************************************************************)
(* middleware/src/noise: the handshake, pairing and encryption of the      *)
(* websocket connections, after the start of the HSM (module Hsm).  Every  *)
(* connection runs InitializeNoise in a goroutine of its own, all of them  *)
(* on ONE NoiseConfig, and the paired clients are kept in base.json by     *)
(* read-modify-write without a lock.  A write truncates the file first.    *)
(***************************************************************************)
EXTENDS Hsm

CONSTANTS Conns,     \* websocket connections that can be open at a time
          Clients,   \* static keys of the apps
          MaxKeys    \* bound on the Base's keypairs generated

ASSUME PairingAssumption == MaxKeys \in Nat \ {0} /\ "none" \notin Conns \cup Clients

VARIABLES cipher, client, hash, required,   \* the shared NoiseConfig
          file,                             \* base.json
          pc, who, found, shown, conf,      \* the connections' goroutines and locals
          generated,                        \* keypairs generated so far
          cleared,                          \* history: clients whose code was accepted, or
                                            \* whose handshake overlapped with another one
          kept,                             \* history: what was stored with success
          clash                             \* history: overlapping or interrupted stores

noiseVars == <<cipher, client, hash, required>>
histVars == <<cleared, kept, clash>>
connVars == <<pc, who, found, shown, conf>>
vars == <<noiseVars, file, connVars, generated, histVars, hsmVars>>

None == "none"
Empty == [keypair |-> 0, pubkeys |-> {}]
Configuration == [keypair : 0..MaxKeys, pubkeys : SUBSET Clients]

Storing == {"keygen", "keyopen", "keywrite", "addopen", "addwrite"}
Writing == {"keywrite", "addwrite"}
Shaking == {"lookup", "assign", "reply", "await", "confirm", "addopen", "addwrite"}
At(S) == {c \in Conns : pc[c] \in S}

TypeOK ==
    /\ HsmTypeOK
    /\ cipher \in Conns \cup {None} /\ client \in Clients \cup {None}
    /\ hash \in Clients \cup {None} /\ required \in BOOLEAN
    /\ file \in Configuration /\ kept \in Configuration
    /\ pc \in [Conns -> {"closed", "hand", "open"} \cup Storing \cup Shaking]
    /\ who \in [Conns -> Clients \cup {None}]
    /\ found \in [Conns -> BOOLEAN]
    /\ shown \in [Conns -> Clients \cup {None}]
    /\ conf \in [Conns -> Configuration]
    /\ generated \in 0..MaxKeys
    /\ cleared \subseteq Clients
    /\ clash \in BOOLEAN

\* NewNoiseConfig in a new process.
FreshNoise ==
    /\ cipher' = None /\ client' = None /\ hash' = None /\ required' = FALSE
    /\ pc' = [c \in Conns |-> "closed"] /\ who' = [c \in Conns |-> None]
    /\ found' = [c \in Conns |-> FALSE] /\ shown' = [c \in Conns |-> None]
    /\ conf' = [c \in Conns |-> Empty]

Init ==
    /\ hsm = "silent" /\ BootInit /\ faults = 0
    /\ cipher = None /\ client = None /\ hash = None /\ required = FALSE
    /\ file = Empty /\ kept = Empty /\ generated = 0
    /\ pc = [c \in Conns |-> "closed"] /\ who = [c \in Conns |-> None]
    /\ found = [c \in Conns |-> FALSE] /\ shown = [c \in Conns |-> None]
    /\ conf = [c \in Conns |-> Empty]
    /\ cleared = {} /\ clash = FALSE

Goto(c, l) == pc' = [pc EXCEPT ![c] = l]

\* The goroutine ends, with an error or with its websocket; locals are gone.
End(c) ==
    /\ Goto(c, "closed")
    /\ who' = [who EXCEPT ![c] = None]
    /\ found' = [found EXCEPT ![c] = FALSE]
    /\ shown' = [shown EXCEPT ![c] = None]
    /\ conf' = [conf EXCEPT ![c] = Empty]

--------------------------------------------------------------------------------
\* InitializeNoise.

\* From a clash on nothing is promised of base.json.
Clashes(now) ==
    /\ clash' = (clash \/ now)
    /\ kept' = IF now THEN Empty ELSE kept

\* A goroutine starts to read, modify and write base.json.
StartsStoring == Clashes(At(Storing) # {})

\* A new connection, in any free slot; getMiddlewareNoiseStaticKeypair.
Connect(k) == LET c == CHOOSE d \in Conns : pc[d] = "closed" IN
    /\ boot \in Decided /\ At({"closed"}) # {}
    /\ who' = [who EXCEPT ![c] = k]
    /\ IF file.keypair = 0
       THEN Goto(c, "keygen") /\ StartsStoring
       ELSE Goto(c, "hand") /\ UNCHANGED <<kept, clash>>
    /\ UNCHANGED <<noiseVars, file, found, shown, conf, generated, cleared, hsmVars>>

\* GenerateKeypair; setMiddlewareNoiseStaticKeypair reads the configuration.
GenerateKeypair(c) ==
    /\ pc[c] = "keygen" /\ generated < MaxKeys
    /\ generated' = generated + 1
    /\ conf' = [conf EXCEPT ![c] = [file EXCEPT !.keypair = generated + 1]]
    /\ Goto(c, "keyopen")
    /\ UNCHANGED <<noiseVars, file, who, found, shown, histVars, hsmVars>>

\* The shared values the end of a handshake replaces; others may be at work with them.
Cross(c) ==
    LET others == At(Shaking) \ {c}
        now == IF others = {} THEN {} ELSE others \cup {c} IN
    cleared' = cleared \cup {who[d] : d \in now}

\* The third message: new ciphers and client key in the shared configuration.
ThirdMessage(c) ==
    /\ pc[c] = "hand"
    /\ cipher' = c /\ client' = who[c]
    /\ Cross(c)
    /\ Goto(c, "lookup")
    /\ UNCHANGED <<hash, required, file, who, found, shown, conf, generated,
                   kept, clash, hsmVars>>

ContainsClientStaticPubkey == client \in file.pubkeys

Lookup(c) ==
    /\ pc[c] = "lookup"
    /\ found' = [found EXCEPT ![c] = ContainsClientStaticPubkey]
    /\ Goto(c, "assign")
    /\ UNCHANGED <<noiseVars, file, who, shown, conf, generated, histVars, hsmVars>>

AssignRequired(c) ==
    /\ pc[c] = "assign"
    /\ required' = ~found[c]
    /\ found' = [found EXCEPT ![c] = FALSE]
    /\ Goto(c, "reply")
    /\ UNCHANGED <<cipher, client, hash, file, who, shown, conf, generated, histVars, hsmVars>>

\* responseNeedsPairing or responseSuccess, by what the shared configuration says now.
Reply(c) ==
    /\ pc[c] = "reply"
    /\ hash' = who[c]
    /\ Goto(c, "await")
    /\ UNCHANGED <<cipher, client, required, file, who, found, shown, conf, generated, cleared, kept, clash, hsmVars>>

\* The app's next message: a request to verify, or anything else, which is dropped.
RequestVerification(c) ==
    /\ pc[c] = "await"
    /\ shown' = [shown EXCEPT ![c] = hash]
    /\ Goto(c, "confirm")
    /\ UNCHANGED <<noiseVars, file, who, found, conf, generated, histVars, hsmVars>>

SkipVerification(c) ==
    /\ pc[c] = "await" /\ Goto(c, "open")
    /\ UNCHANGED <<noiseVars, file, who, found, shown, conf, generated, histVars, hsmVars>>

\* A step of InitializeNoise fails: the websocket, a message, or verifyPairing.  A third
\* message that cannot be read leaves no ciphers.
Fails(c) ==
    /\ pc[c] \in {"hand", "reply", "await", "confirm"} /\ Fault
    /\ cipher' \in IF pc[c] = "hand" THEN {cipher, None} ELSE {cipher}
    /\ End(c)
    /\ UNCHANGED <<client, hash, required, file, generated, cleared, kept, clash,
                   hsm, boot, second, fell>>

--------------------------------------------------------------------------------
\* CheckVerification.

\* Mutant of WithClientStaticPubkey: the configuration is not read before.
OnlyClientStaticPubkey == [Empty EXCEPT !.pubkeys = {client}]

\* addClientStaticPubkey: what it reads and is going to store.
WithClientStaticPubkey == [file EXCEPT !.pubkeys = @ \cup {client}]

\* The user accepts on the HSM; without an HSM the middleware accepts at once.
Accept(c) ==
    /\ pc[c] = "confirm"
    /\ boot = "connected" => hsm = "firmware"
    /\ cleared' = cleared \cup {shown[c]}
    /\ shown' = [shown EXCEPT ![c] = None]
    /\ IF ContainsClientStaticPubkey
       THEN /\ required' = FALSE /\ Goto(c, "open")
            /\ UNCHANGED <<conf, kept, clash>>
       ELSE /\ conf' = [conf EXCEPT ![c] = WithClientStaticPubkey]
            /\ StartsStoring /\ Goto(c, "addopen")
            /\ UNCHANGED required
    /\ UNCHANGED <<cipher, client, hash, file, who, found, generated, hsmVars>>

\* Mutant of Refuse: the user's answer is not looked at.
RefuseStoring(c) ==
    /\ pc[c] = "confirm" /\ boot = "connected" /\ hsm = "firmware"
    /\ conf' = [conf EXCEPT ![c] = WithClientStaticPubkey]
    /\ Goto(c, "addopen")
    /\ UNCHANGED <<noiseVars, file, who, found, shown, generated, histVars, hsmVars>>

\* responseFailure; the connection stays, unverified.
Refuse(c) ==
    /\ pc[c] = "confirm" /\ boot = "connected" /\ hsm = "firmware"
    /\ shown' = [shown EXCEPT ![c] = None]
    /\ Goto(c, "open")
    /\ UNCHANGED <<noiseVars, file, who, found, conf, generated, histVars, hsmVars>>

\* ioutil.WriteFile: the file is truncated, then written.
OpenFile(c) ==
    /\ pc[c] \in {"keyopen", "addopen"}
    /\ file' = Empty
    /\ Goto(c, IF pc[c] = "keyopen" THEN "keywrite" ELSE "addwrite")
    /\ UNCHANGED <<noiseVars, who, found, shown, conf, generated, histVars, hsmVars>>

\* What follows a store, whether it succeeded or not: errors are only logged.
AfterStore(c) ==
    /\ conf' = [conf EXCEPT ![c] = Empty]
    /\ IF pc[c] \in {"keyopen", "keywrite"}
       THEN Goto(c, "hand") /\ UNCHANGED required
       ELSE Goto(c, "open") /\ required' = FALSE

WriteFile(c) ==
    /\ pc[c] \in Writing
    /\ file' = conf[c]
    /\ kept' = IF clash THEN kept
               ELSE [keypair |-> IF kept.keypair = 0 THEN conf[c].keypair ELSE kept.keypair,
                     pubkeys |-> kept.pubkeys \cup conf[c].pubkeys]
    /\ AfterStore(c)
    /\ UNCHANGED <<cipher, client, hash, who, found, shown, generated, cleared,
                   clash, hsmVars>>

StoreFails(c) ==
    /\ pc[c] \in {"keyopen", "keywrite", "addopen", "addwrite"} /\ Fault
    /\ Clashes(pc[c] \in Writing)
    /\ AfterStore(c)
    /\ UNCHANGED <<cipher, client, hash, file, who, found, shown, generated, cleared,
                   hsm, boot, second, fell>>

--------------------------------------------------------------------------------
\* The open connection, and the process.

\* Mutant of Decrypts: verification is not asked for.
DecryptsUnverified(c) == hash # None /\ cipher = c

\* Decrypt with what the shared configuration holds now.
Decrypts(c) == hash # None /\ ~required /\ cipher = c

\* The ciphers are gone with another connection's handshake: a nil pointer is used.
Panics(c) == pc[c] = "open" /\ hash # None /\ ~required /\ cipher = None

\* A message is passed on, or the read loop ends.
Receive(c) ==
    /\ pc[c] = "open" /\ ~Panics(c)
    /\ IF Decrypts(c)
       THEN UNCHANGED connVars
       ELSE End(c)
    /\ UNCHANGED <<noiseVars, file, generated, cleared, kept, clash, hsmVars>>

Disconnect(c) ==
    /\ pc[c] = "open" /\ End(c)
    /\ UNCHANGED <<noiseVars, file, generated, cleared, kept, clash, hsmVars>>

\* The middleware dies and is started again; main waits for the HSM anew.
Restart ==
    /\ boot # "probe"
    /\ IF \E c \in Conns : Panics(c) THEN UNCHANGED faults ELSE Fault
    /\ FreshNoise
    /\ boot' = "probe" /\ second' = 0 /\ fell' = FALSE
    /\ hsm' \in IF boot = "absent" THEN Modes ELSE {hsm}
    /\ Clashes(At(Writing) # {})
    /\ UNCHANGED <<file, generated, cleared>>

ConnStep(c) ==
    \/ GenerateKeypair(c) \/ ThirdMessage(c) \/ Lookup(c) \/ AssignRequired(c)
    \/ Reply(c) \/ RequestVerification(c) \/ SkipVerification(c) \/ Fails(c)
    \/ Accept(c) \/ Refuse(c) \/ OpenFile(c) \/ WriteFile(c) \/ StoreFails(c)
    \/ Receive(c) \/ Disconnect(c)

Next ==
    \/ HsmStep /\ UNCHANGED <<noiseVars, file, connVars, generated, histVars>>
    \/ Restart
    \/ \E k \in Clients : Connect(k)
    \/ \E c \in Conns : ConnStep(c)

Spec == Init /\ [][Next]_vars
FairSpec == Spec /\ WF_vars(WaitForFirmware /\ UNCHANGED <<noiseVars, file, connVars,
                                                            generated, histVars>>)

--------------------------------------------------------------------------------
\* Properties.

\* Only a client whose pairing code was accepted is stored as paired, unless its handshake
\* and another one were at work with the shared configuration at the same time.
PairedWasAccepted == file.pubkeys \subseteq cleared

\* A connection that can pass on messages belongs to a client that was accepted, now or
\* earlier, with the same exception (Decrypt, pairingVerificationRequired).
UsableIsPaired ==
    \A c \in Conns : pc[c] = "open" /\ Decrypts(c) => who[c] \in cleared

\* The Base's keypair and the paired clients that were stored stay stored, across restarts
\* too, unless two stores overlapped or one was interrupted in the middle (storeConfig).
StoredIsKept ==
    ~clash /\ At(Writing) = {} =>
        /\ kept.pubkeys \subseteq file.pubkeys
        /\ kept.keypair = file.keypair

\* The start of the middleware ends, with the HSM or without it, unless the HSM fell silent
\* between a probe and the exchange without a timeout that follows it.
StartDecides == boot = "probe" ~> boot \in Decided \/ fell
================================================================================
