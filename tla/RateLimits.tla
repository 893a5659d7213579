----------------------------- MODULE RateLimits -----------------------------
(***************************************************************************)
(* The fixed-window limiter in front of a route of the report API.  Its    *)
(* buckets are a JavaScript Map bounded by maxKeys: a client that needs a  *)
(* new bucket may push out the bucket of another one.                      *)
(***************************************************************************)
EXTENDS Integers, Sequences, FiniteSets, BoundedMap

CONSTANTS
  Clients,                          \* request.ip
  RawLimits,                        \* what the environment variable may hold
  DefaultLimit, MaxLimit,           \* its default and the largest value taken
  WindowMs, MaxKeys,                \* windowMs, maxTrackedClients
  Second,                           \* units of time in a second
  MaxTime, MaxRequests,             \* bounds
  None                              \* unset

RateLimitsAssumption ==
  /\ RawLimits \subseteq Int \union {None}
  /\ {DefaultLimit, MaxLimit, WindowMs, MaxKeys, Second} \subseteq Nat \ {0}
  /\ {MaxTime, MaxRequests} \subseteq Nat
  /\ DefaultLimit <= MaxLimit

VARIABLES
  limit,      \* requestLimit of the middleware
  now,
  buckets,    \* client -> count, startedAt
  log,        \* history: the requests let through
  told        \* the moment a refused client was told to come back at

vars == <<limit, now, buckets, log, told>>

TypeOK ==
  /\ limit \in 1..MaxLimit
  /\ now \in 0..MaxTime
  /\ \A i \in DOMAIN buckets :
        buckets[i] \in [key : Clients, value : [count : 1..limit, startedAt : 0..now]]
  /\ Len(buckets) <= MaxKeys
  /\ \A i \in DOMAIN log : log[i] \in [client : Clients, at : 0..now]
  /\ told \in [Clients -> Nat \union {None}]

-----------------------------------------------------------------------------
EnvUnbounded(raw) == IF raw # None /\ raw > 0 THEN raw ELSE DefaultLimit

EnvPositiveInteger(raw) ==
  IF raw # None /\ raw > 0 /\ raw <= MaxLimit THEN raw ELSE DefaultLimit

(* An override of the options replaces the environment's value; one that   *)
(* is not positive stops the service from starting.                        *)
Init ==
  /\ \E raw \in RawLimits, override \in RawLimits :
        IF override = None THEN limit = EnvPositiveInteger(raw)
                           ELSE override \in 1..MaxLimit /\ limit = override
  /\ now = 0
  /\ buckets = <<>>
  /\ log = <<>>
  /\ told = [c \in Clients |-> None]

Over(bucket) == now - bucket.startedAt >= WindowMs

Expired == {e \in KeysOf(buckets) : Over(Get(buckets, e))}

(* The first is off by one, the second takes the wrong end of the map.     *)
EvictedSoon(client) ==
  LET live == Without(buckets, Expired \union {client})
  IN  IF Len(live) >= MaxKeys - 1 /\ live # <<>> THEN {Head(live).key} ELSE {}

EvictedNewest(client) ==
  LET live == Without(buckets, Expired \union {client})
  IN  IF Len(live) >= MaxKeys THEN {live[Len(live)].key} ELSE {}

(* The bucket that goes when client needs a new one and the map is full.   *)
MakeRoom(client) ==
  LET live == Without(buckets, Expired \union {client})
  IN  IF Len(live) >= MaxKeys THEN {Head(live).key} ELSE {}

Fresh(client) ==
  Append(Without(buckets, Expired \union {client} \union MakeRoom(client)),
         [key |-> client, value |-> [count |-> 1, startedAt |-> now]])

Counted(client) ==
  [i \in DOMAIN buckets |->
     IF buckets[i].key = client THEN [buckets[i] EXCEPT !.value.count = @ + 1]
                                ELSE buckets[i]]

RetryAfterFloor(bucket) ==
  LET seconds == (bucket.startedAt + WindowMs - now) \div Second
  IN  IF seconds > 1 THEN seconds ELSE 1

RetryAfterSeconds(bucket) ==
  LET seconds == (bucket.startedAt + WindowMs - now + Second - 1) \div Second
  IN  IF seconds > 1 THEN seconds ELSE 1

LetThrough(client) ==
  /\ log' = Append(log, [client |-> client, at |-> now])
  /\ told' = [told EXCEPT ![client] = None]

HasBucket(client) == Holds(buckets, client) /\ ~ Over(Get(buckets, client))

FirstOfWindow(client) ==
  /\ ~ HasBucket(client)
  /\ buckets' = Fresh(client)
  /\ LetThrough(client)

NextOfWindow(client) ==
  /\ HasBucket(client)
  /\ Get(buckets, client).count < limit
  /\ buckets' = Counted(client)
  /\ LetThrough(client)

Refuse(client) ==
  /\ HasBucket(client)
  /\ Get(buckets, client).count >= limit
  /\ told' = [told EXCEPT
       ![client] = now + Second * RetryAfterSeconds(Get(buckets, client))]
  /\ UNCHANGED <<buckets, log>>

Consume(client) ==
  /\ Len(log) < MaxRequests
  /\ FirstOfWindow(client) \/ NextOfWindow(client) \/ Refuse(client)
  /\ UNCHANGED <<limit, now>>

Tick ==
  /\ now < MaxTime
  /\ now' = now + 1
  /\ UNCHANGED <<limit, buckets, log, told>>

Next == Tick \/ \E client \in Clients : Consume(client)

Spec == Init /\ [][Next]_vars

-----------------------------------------------------------------------------
RequestsIn(client, first, last) ==
  {i \in DOMAIN log : log[i].client = client /\ log[i].at \in first..last}

(* Windows start with a client's own first request, so that no span as     *)
(* long as a window lets more than 2 * limit - 1 requests of a client      *)
(* through (src/apps/report-api/src/securityLimits.ts:25), unless at least *)
(* maxKeys other clients came in that span or the window before it: only   *)
(* such a crowd makes the limiter forget a window that is not over.        *)
OverBudgetNeedsCrowd ==
  \A client \in Clients, first \in 0..now :
     Cardinality(RequestsIn(client, first, first + WindowMs - 1)) >= 2 * limit
       => Cardinality({c \in Clients \ {client} :
             RequestsIn(c, first - WindowMs + 1, first + WindowMs - 1) # {}}) >= MaxKeys

(* A client that waits as long as Retry-After says is not refused again    *)
(* when it comes back, whatever the others did meanwhile: the seconds of   *)
(* the header are never rounded below the rest of the window               *)
(* (src/apps/report-api/src/securityLimits.ts:40).                         *)
WaitIsEnough ==
  [][\A client \in Clients : told'[client] # told[client] /\ told[client] # None
        => told'[client] = None \/ now < told[client]]_vars

(* The bucket that makes room is the one closest to its end: the order of  *)
(* the map stays the order of the windows although a client whose window   *)
(* is over is counted again (src/apps/report-api/src/securityLimits.ts:54).*)
OldestGoesFirst ==
  [][\A gone \in KeysOf(buckets) \ KeysOf(buckets') :
        ~ Over(Get(buckets, gone)) =>
           \A kept \in KeysOf(buckets) \intersect KeysOf(buckets') :
              Get(buckets, kept).startedAt >= Get(buckets, gone).startedAt]_vars
=============================================================================
