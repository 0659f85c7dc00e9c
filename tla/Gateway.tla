------------------------------- MODULE Gateway -------------------------------
(***************************************************************************)
(* The API gateway: the verification of a request's token against the      *)
(* cached JWKS of IBM App ID, and the reverse proxy to the three services. *)
(*                                                                         *)
(* The state is that of one worker process.  _get_jwks is a synchronous    *)
(* dependency, so it runs in a thread per request and threads interleave   *)
(* between its statements; the proxy runs on the event loop and shares one *)
(* httpx client with a limited connection pool.                            *)
(*                                                                         *)
(* A key set is a version: 1, 2, ... in the order App ID publishes them,   *)
(* 0 for the empty list taken from an answer without "keys".  Time is the  *)
(* monotonic clock; it advances only while no thread has been inside       *)
(* _get_jwks for longer than Slack.                                        *)
(***************************************************************************)
EXTENDS Naturals, FiniteSets

CONSTANTS
  Requests,      \* identities of authenticated API calls
  TTL,           \* _JWKS_TTL_SECONDS
  Slack,         \* longest time a thread spends in _get_jwks
  PoolLimit,     \* max_connections
  MaxTime,       \* bound: end of the clock
  MaxRotations,  \* bound: key sets App ID publishes after the first
  NoKeys         \* _jwks_cache["keys"] is None

Versions == 0..MaxRotations + 1

ASSUME GatewayAssumption ==
  /\ TTL \in Nat /\ Slack \in Nat /\ PoolLimit \in Nat \ {0}
  /\ MaxTime \in Nat /\ MaxRotations \in Nat
  /\ NoKeys \notin Nat

(* An operator named X_Something is a mutant of the X that follows it.     *)

VARIABLES
  clock,
  published,  \* the key set App ID publishes
  lastSeen,   \* history: when a key set was last given out as the current one
  keys,       \* _jwks_cache["keys"]
  fetchedAt,  \* _jwks_cache["fetched_at"]
  stage,      \* progress of each request
  start,      \* the local variable now of _get_jwks
  held,       \* key set in the answer of App ID
  upstream,   \* what became of the request in the service
  outcome     \* the answer to the client

vars == <<clock, published, lastSeen, keys, fetchedAt, stage, start, held,
          upstream, outcome>>

appid == <<published, lastSeen>>
cache == <<keys, fetchedAt>>
proxy == <<upstream, outcome>>

Init ==
  /\ clock = 0
  /\ published = 1
  /\ lastSeen = [v \in Versions |-> 0]
  /\ keys = NoKeys
  /\ fetchedAt = 0
  /\ stage = [r \in Requests |-> "unsent"]
  /\ start = [r \in Requests |-> 0]
  /\ held = [r \in Requests |-> 0]
  /\ upstream = [r \in Requests |-> "none"]
  /\ outcome = [r \in Requests |-> "none"]

InGetJwks(r) == stage[r] \in {"check", "fetch", "store", "stamp", "return"}

\* The latest time at which v was the key set to use.
CurrentAt(v) == IF v = published THEN clock ELSE lastSeen[v]

Goto(r, st) == stage' = [stage EXCEPT ![r] = st]

Reply(r, o) ==
  /\ Goto(r, "ended")
  /\ outcome' = [outcome EXCEPT ![r] = o]

-----------------------------------------------------------------------------
(* _get_jwks *)

\* Its local variable goes out of scope.
Leave(r) == start' = [start EXCEPT ![r] = 0]

\* The request arrives and its thread reads the clock.
ReadClock(r) ==
  /\ stage[r] = "unsent"
  /\ Goto(r, "check")
  /\ start' = [start EXCEPT ![r] = clock]
  /\ UNCHANGED <<clock, held, appid, cache, proxy>>

Fresh_IgnoresNone(r) == start[r] <= fetchedAt + TTL

\* Neither without keys nor older than the TTL, by the time read before.
Fresh(r) == keys # NoKeys /\ start[r] <= fetchedAt + TTL

CheckCache(r) ==
  /\ stage[r] = "check"
  /\ Goto(r, IF Fresh(r) THEN "return" ELSE "fetch")
  /\ UNCHANGED <<clock, start, held, appid, cache, proxy>>

\* App ID answers with its key set.
FetchKeys(r) ==
  /\ stage[r] = "fetch"
  /\ held' = [held EXCEPT ![r] = published]
  /\ Goto(r, "store")
  /\ UNCHANGED <<clock, start, appid, cache, proxy>>

\* App ID answers with JSON that has no "keys".
FetchNoKeys(r) ==
  /\ stage[r] = "fetch"
  /\ held' = [held EXCEPT ![r] = 0]
  /\ lastSeen' = [lastSeen EXCEPT ![0] = clock]
  /\ Goto(r, "store")
  /\ UNCHANGED <<clock, published, start, cache, proxy>>

\* The GET fails or times out: 503, whatever the cache still holds.
FetchFails(r) ==
  /\ stage[r] = "fetch"
  /\ Reply(r, "503")
  /\ Leave(r)
  /\ UNCHANGED <<clock, held, upstream, appid, cache>>

StoreKeys(r) ==
  /\ stage[r] = "store"
  /\ keys' = held[r]
  /\ held' = [held EXCEPT ![r] = 0]
  /\ Goto(r, "stamp")
  /\ UNCHANGED <<clock, fetchedAt, start, appid, proxy>>

StampKeys_WithLaterTime(r) ==
  /\ stage[r] = "stamp"
  /\ fetchedAt' = clock
  /\ Goto(r, "return")
  /\ UNCHANGED <<clock, keys, start, held, appid, proxy>>

StampKeys(r) ==
  /\ stage[r] = "stamp"
  /\ fetchedAt' = start[r]
  /\ Goto(r, "return")
  /\ UNCHANGED <<clock, keys, start, held, appid, proxy>>

\* The keys in the cache by now are used to verify a token signed with key k,
\* which may have expired as well; then the scope is checked.
Decode(r, k) ==
  /\ stage[r] = "return"
  /\ \/ k = keys /\ Goto(r, "pool") /\ UNCHANGED outcome
     \/ k = keys /\ Reply(r, "403")
     \/ Reply(r, "401")
  /\ Leave(r)
  /\ UNCHANGED <<clock, held, upstream, appid, cache>>

-----------------------------------------------------------------------------
(* proxy_request *)

Connected == {r \in Requests : stage[r] = "exchange"}

\* A connection of the pool is free and reaches the service, whose handler
\* starts.
Connect(r) ==
  /\ stage[r] = "pool"
  /\ Cardinality(Connected) < PoolLimit
  /\ upstream' = [upstream EXCEPT ![r] = "running"]
  /\ Goto(r, "exchange")
  /\ UNCHANGED <<clock, start, held, outcome, appid, cache>>

\* The service refuses the connection: httpx.ConnectError.
ConnectFails(r) ==
  /\ stage[r] = "pool"
  /\ Cardinality(Connected) < PoolLimit
  /\ Reply(r, "502")
  /\ UNCHANGED <<clock, start, held, upstream, appid, cache>>

\* No connection becomes free, or is established, within the timeout.
PoolTimeout(r) ==
  /\ stage[r] = "pool"
  /\ Reply(r, "504")
  /\ UNCHANGED <<clock, start, held, upstream, appid, cache>>

\* The service's handler finishes, whether or not anybody waits for it.
UpstreamEnds(r) ==
  /\ upstream[r] = "running"
  /\ upstream' = [upstream EXCEPT ![r] = "finished"]
  /\ UNCHANGED <<clock, stage, start, held, outcome, appid, cache>>

\* The service's answer is read and passed on.
Relay(r) ==
  /\ stage[r] = "exchange"
  /\ upstream[r] = "finished"
  /\ Reply(r, "relayed")
  /\ UNCHANGED <<clock, start, held, upstream, appid, cache>>

\* The read timeout: 504, while the service's handler goes on.
ReadTimeout(r) ==
  /\ stage[r] = "exchange"
  /\ Reply(r, "504")
  /\ UNCHANGED <<clock, start, held, upstream, appid, cache>>

ExchangeBreaks_Is502(r) ==
  /\ stage[r] = "exchange"
  /\ Reply(r, "502")
  /\ UNCHANGED <<clock, start, held, upstream, appid, cache>>

\* The connection breaks: neither except clause applies, a raw 500.
ExchangeBreaks(r) ==
  /\ stage[r] = "exchange"
  /\ Reply(r, "500")
  /\ UNCHANGED <<clock, start, held, upstream, appid, cache>>

-----------------------------------------------------------------------------
(* Environment *)

\* App ID replaces its key set.
Rotate ==
  /\ published <= MaxRotations
  /\ lastSeen' = [lastSeen EXCEPT ![published] = clock]
  /\ published' = published + 1
  /\ UNCHANGED <<clock, stage, start, held, cache, proxy>>

Tick ==
  /\ clock < MaxTime
  /\ \A r \in Requests : InGetJwks(r) => clock < start[r] + Slack
  /\ clock' = clock + 1
  /\ UNCHANGED <<stage, start, held, appid, cache, proxy>>

AllEnded ==
  /\ \A r \in Requests : stage[r] = "ended" /\ upstream[r] # "running"
  /\ UNCHANGED vars

GetJwks(r) ==
  \/ CheckCache(r)
  \/ FetchKeys(r) \/ FetchNoKeys(r) \/ FetchFails(r)
  \/ StoreKeys(r) \/ StampKeys(r)
  \/ \E k \in 1..published : Decode(r, k)

ProxyRequest(r) ==
  \/ Connect(r) \/ ConnectFails(r) \/ PoolTimeout(r)
  \/ Relay(r) \/ ReadTimeout(r) \/ ExchangeBreaks(r)

Next ==
  \/ \E r \in Requests : ReadClock(r) \/ GetJwks(r) \/ ProxyRequest(r) \/ UpstreamEnds(r)
  \/ Rotate \/ Tick
  \/ AllEnded

Spec == Init /\ [][Next]_vars

-----------------------------------------------------------------------------
(* Properties *)

TypeOK ==
  /\ clock \in Nat /\ fetchedAt \in Nat
  /\ published \in Versions \ {0}
  /\ lastSeen \in [Versions -> Nat]
  /\ keys \in Versions \union {NoKeys}
  /\ stage \in [Requests -> {"unsent", "check", "fetch", "store", "stamp", "return",
                             "pool", "exchange", "ended"}]
  /\ start \in [Requests -> Nat]
  /\ held \in [Requests -> Versions]
  /\ upstream \in [Requests -> {"none", "running", "finished"}]
  /\ outcome \in [Requests -> {"none", "401", "403", "500", "502", "503", "504", "relayed"}]
  /\ \A r \in Requests : stage[r] \in {"stamp", "return"} => keys # NoKeys

\* A token is judged by a key set that App ID gave out as its current one at
\* most TTL + 2 * Slack earlier, however the threads that refresh the cache
\* race: a slower one may put an older set under the younger one's time stamp.
KeysAreRecent ==
  \A r \in Requests :
    stage[r] = "return" => clock <= CurrentAt(keys) + TTL + 2 * Slack

\* The gateway answers 401, 403, 502 or 503 of its own only to requests that
\* no service has seen, so a client may repeat them; a relayed answer is that
\* of a finished handler.
RefusedHadNoEffect ==
  \A r \in Requests :
    /\ outcome[r] \in {"401", "403", "502", "503"} => upstream[r] = "none"
    /\ outcome[r] = "relayed" => upstream[r] = "finished"
=============================================================================
