-------------------------------- MODULE BaseInfo --------------------------------
(***************************************************************************)
(* GetBaseInfo and GetServiceStatus: RPCs that read one key or metric      *)
(* after the other while Redis, Prometheus and the Tor setting change, and *)
(* the pool of Redis connections: a connection is taken for every access   *)
(* and never given back.                                                   *)
(***************************************************************************)
EXTENDS Naturals, Sequences

CONSTANTS Readers,      \* RPCs that can be in progress at the same time
          MaxActive,    \* connections the pool hands out
          MaxEvents     \* bound on what changes around the RPCs

ASSUME BaseInfoAssumption == MaxActive \in Nat /\ MaxEvents \in Nat

VARIABLES taken,                \* connections taken from the pool
          redisUp, promUp,
          torKey, onionKey,     \* tor:base:enabled; is there an onion address
          rpc, at, torRead,     \* per reader: RPC, position, what it read of Tor
          reply,
          events,
          reasons               \* history: what was wrong at some time during the call

baseVars == <<taken, redisUp, promUp, torKey, onionKey, rpc, at, torRead, reply, events, reasons>>

\* The reads in their order; what systemctl says of services never makes a call fail.
Reads == [GetBaseInfo |-> <<"prometheus", "tor", "onion", "redis", "prometheus", "prometheus",
                            "redis", "redis", "redis", "redis">>,
          GetServiceStatus |-> <<"redis", "tor">>]
Replies == {"none", "success", "REDIS_ERROR", "PROMETHEUS_ERROR"}

BaseTypeOK ==
    /\ taken \in 0..MaxActive
    /\ redisUp \in BOOLEAN /\ promUp \in BOOLEAN /\ torKey \in BOOLEAN /\ onionKey \in BOOLEAN
    /\ rpc \in [Readers -> DOMAIN Reads] /\ at \in [Readers -> 0..10]
    /\ torRead \in [Readers -> BOOLEAN] /\ reply \in [Readers -> Replies]
    /\ events \in 0..MaxEvents
    /\ reasons \in [Readers -> SUBSET {"redis", "prometheus", "onion", "pool"}]

BaseInit ==
    /\ taken = 0 /\ redisUp = TRUE /\ promUp = TRUE /\ torKey = FALSE /\ onionKey = FALSE
    /\ rpc = [r \in Readers |-> "GetServiceStatus"] /\ at = [r \in Readers |-> 0]
    /\ torRead = [r \in Readers |-> FALSE] /\ reply = [r \in Readers |-> "none"]
    /\ events = 0 /\ reasons = [r \in Readers |-> {}]

\* What is wrong at the moment.
Wrong == (IF redisUp THEN {} ELSE {"redis"}) \cup (IF promUp THEN {} ELSE {"prometheus"})
         \cup (IF torKey /\ ~onionKey THEN {"onion"} ELSE {})
         \cup (IF taken = MaxActive THEN {"pool"} ELSE {})

\* Every step of anybody is watched for the calls in progress.
Watch == reasons' = [r \in Readers |-> IF at[r] > 0 THEN reasons[r] \cup Wrong \cup Wrong'
                                       ELSE IF at'[r] > 0 THEN Wrong ELSE reasons[r]]

CallInfo(r, m) ==
    /\ at[r] = 0
    /\ rpc' = [rpc EXCEPT ![r] = m] /\ at' = [at EXCEPT ![r] = 1]
    /\ torRead' = [torRead EXCEPT ![r] = FALSE] /\ reply' = [reply EXCEPT ![r] = "none"]
    /\ UNCHANGED <<taken, redisUp, promUp, torKey, onionKey, events>>
    /\ Watch

\* The read at the position worked: go on, or answer.
Proceed(r) ==
    IF at[r] = Len(Reads[rpc[r]])
    THEN reply' = [reply EXCEPT ![r] = "success"] /\ at' = [at EXCEPT ![r] = 0]
    ELSE at' = [at EXCEPT ![r] = @ + 1] /\ UNCHANGED reply

\* ConvertErrorToErrorResponse: an error ends the RPC.
FailRpc(r, code) == reply' = [reply EXCEPT ![r] = code] /\ at' = [at EXCEPT ![r] = 0]

ReadPrometheus(r) ==
    /\ at[r] > 0 /\ Reads[rpc[r]][at[r]] = "prometheus"
    /\ IF promUp THEN Proceed(r) ELSE FailRpc(r, "PROMETHEUS_ERROR")
    /\ UNCHANGED <<taken, redisUp, promUp, torKey, onionKey, rpc, torRead, events>>
    /\ Watch

\* Mutant of Skipped: the address is read in any case.
SkippedNever(r) == FALSE

\* With Tor off the address is not read.
Skipped(r) == Reads[rpc[r]][at[r]] = "onion" /\ ~torRead[r]

\* The key is not set: redis.ErrNil.
Missing(r) == Reads[rpc[r]][at[r]] = "onion" /\ ~onionKey



\* pool.Get: a connection, unless the limit is reached.
GetConnection == taken < MaxActive /\ taken' = taken + 1

\* GetBool, GetString: a connection that cannot be dialled is not counted.
ReadRedis(r) ==
    /\ at[r] > 0 /\ Reads[rpc[r]][at[r]] # "prometheus"
    /\ \/ /\ Skipped(r) /\ Proceed(r)
          /\ UNCHANGED <<taken, torRead>>
       \/ /\ ~Skipped(r) /\ (taken = MaxActive \/ ~redisUp)
          /\ FailRpc(r, "REDIS_ERROR")
          /\ UNCHANGED <<taken, torRead>>
       \/ /\ ~Skipped(r) /\ redisUp /\ GetConnection
          /\ IF Missing(r) THEN FailRpc(r, "REDIS_ERROR") ELSE Proceed(r)
          /\ torRead' = IF Reads[rpc[r]][at[r]] = "tor" THEN [torRead EXCEPT ![r] = torKey]
                        ELSE torRead
    /\ UNCHANGED <<redisUp, promUp, torKey, onionKey, rpc, events>>
    /\ Watch

\* Redis or Prometheus goes or comes; bbb-config.sh enable tor sets the key first and the
\* onion address at its end.
Surroundings ==
    /\ events < MaxEvents /\ events' = events + 1
    /\ \/ redisUp' = ~redisUp /\ UNCHANGED <<promUp, torKey, onionKey>>
       \/ promUp' = ~promUp /\ UNCHANGED <<redisUp, torKey, onionKey>>
       \/ torKey' = ~torKey /\ UNCHANGED <<redisUp, promUp, onionKey>>
       \/ torKey /\ ~onionKey /\ onionKey' = TRUE /\ UNCHANGED <<redisUp, promUp, torKey>>
    /\ UNCHANGED <<taken, rpc, at, torRead, reply>>
    /\ Watch

BaseNext ==
    \/ Surroundings
    \/ \E r \in Readers : ReadPrometheus(r) \/ ReadRedis(r) \/ \E m \in DOMAIN Reads : CallInfo(r, m)

--------------------------------------------------------------------------------
\* An RPC that only reads fails for a reason: an error of Redis means that Redis was away,
\* the pool empty or Tor on without an address at some time during the call, an error of
\* Prometheus that Prometheus was away.  Settings that change between the reads alone make
\* no call fail.
ErrorIsExplained ==
    \A r \in Readers :
        /\ reply[r] = "REDIS_ERROR" => reasons[r] \cap {"redis", "onion", "pool"} # {}
        /\ reply[r] = "PROMETHEUS_ERROR" => "prometheus" \in reasons[r]
================================================================================
