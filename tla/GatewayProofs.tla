---------------------------- MODULE GatewayProofs ----------------------------
(***************************************************************************)
(* Proofs about Gateway, for every number of requests, TTL, Slack, pool    *)
(* limit and number of rotations.                                          *)
(***************************************************************************)
EXTENDS Gateway, TLAPS

\* Threads are inside _get_jwks for Slack at most, and the keys of the cache
\* carry a time stamp that is at most Slack too late.
Clocked ==
  /\ \A v \in Versions : lastSeen[v] <= clock
  /\ fetchedAt <= clock
  /\ keys # NoKeys => fetchedAt <= CurrentAt(keys) + Slack

\* What a thread knows about time at each point of _get_jwks.
InTime(r) ==
  /\ InGetJwks(r) => start[r] <= clock /\ clock <= start[r] + Slack
  /\ stage[r] = "store" => start[r] <= CurrentAt(held[r])
  /\ stage[r] = "stamp" => start[r] <= CurrentAt(keys) + Slack
  /\ stage[r] = "return" => start[r] <= CurrentAt(keys) + TTL + Slack

IInv == TypeOK /\ Clocked /\ \A r \in Requests : InTime(r)

-----------------------------------------------------------------------------
(* Type correctness *)

\* Every step keeps the types.
LEMMA TypeStep ==
  ASSUME TypeOK, [Next]_vars
  PROVE  TypeOK'
<1> USE GatewayAssumption DEF Goto, Reply, Leave, appid, cache, proxy
<1>1. ASSUME NEW r \in Requests, ReadClock(r) PROVE TypeOK'
  BY <1>1 DEF TypeOK, ReadClock
<1>2. ASSUME NEW r \in Requests, CheckCache(r) PROVE TypeOK'
  BY <1>2 DEF TypeOK, CheckCache, Fresh
<1>3. ASSUME NEW r \in Requests, FetchKeys(r) PROVE TypeOK'
  BY <1>3 DEF TypeOK, FetchKeys
<1>4. ASSUME NEW r \in Requests, FetchNoKeys(r) PROVE TypeOK'
  BY <1>4 DEF TypeOK, FetchNoKeys, Versions
<1>5. ASSUME NEW r \in Requests, FetchFails(r) PROVE TypeOK'
  BY <1>5 DEF TypeOK, FetchFails
<1>6. ASSUME NEW r \in Requests, StoreKeys(r) PROVE TypeOK'
  BY <1>6 DEF TypeOK, StoreKeys, Versions
<1>7. ASSUME NEW r \in Requests, StampKeys(r) PROVE TypeOK'
  BY <1>7 DEF TypeOK, StampKeys
<1>8. ASSUME NEW r \in Requests, NEW k \in 1..published, Decode(r, k) PROVE TypeOK'
  BY <1>8 DEF TypeOK, Decode
<1>9. ASSUME NEW r \in Requests, ProxyRequest(r) PROVE TypeOK'
  BY <1>9 DEF TypeOK, ProxyRequest, Connect, ConnectFails, PoolTimeout, Relay,
              ReadTimeout, ExchangeBreaks
<1>10. ASSUME NEW r \in Requests, UpstreamEnds(r) PROVE TypeOK'
  BY <1>10 DEF TypeOK, UpstreamEnds
<1>11. CASE Rotate
  BY <1>11 DEF TypeOK, Rotate, Versions
<1>12. CASE Tick
  BY <1>12 DEF TypeOK, Tick
<1>13. CASE UNCHANGED vars
  BY <1>13 DEF TypeOK, vars
<1>14. QED
  BY <1>1, <1>2, <1>3, <1>4, <1>5, <1>6, <1>7, <1>8, <1>9, <1>10, <1>11, <1>12, <1>13
     DEF Next, GetJwks, AllEnded

\* The initial state has the types.
LEMMA InitialTypes ==
  ASSUME Init
  PROVE  TypeOK
  BY GatewayAssumption DEF Init, TypeOK, Versions

\* Every variable of the gateway has its type in every reachable state; in
\* particular _get_jwks never returns None.
THEOREM TypeCorrect == Spec => []TypeOK
<1>1. Init => TypeOK
  BY InitialTypes
<1>2. TypeOK /\ [Next]_vars => TypeOK'
  BY TypeStep
<1>3. QED
  BY <1>1, <1>2, PTL DEF Spec

-----------------------------------------------------------------------------
(* The age of the keys *)

\* A key set does not become older by a step: the last time it was current
\* never moves back.
LEMMA CurrentAtGrows ==
  ASSUME TypeOK, Clocked, [Next]_vars, NEW v \in Versions
  PROVE  /\ CurrentAt(v) \in Nat /\ CurrentAt(v) <= clock
         /\ CurrentAt(v) <= CurrentAt(v)'
<1> USE DEF appid, cache, proxy
<1>1. CurrentAt(v) \in Nat /\ CurrentAt(v) <= clock
  BY DEF TypeOK, Clocked, CurrentAt
<1>2. CASE UNCHANGED <<clock, appid>>
  BY <1>1, <1>2 DEF CurrentAt
<1>3. CASE Tick
  BY <1>1, <1>3 DEF Tick, TypeOK, CurrentAt
<1>4. CASE Rotate
  BY <1>1, <1>4, GatewayAssumption DEF Rotate, TypeOK, Clocked, CurrentAt, Versions
<1>5. ASSUME NEW r \in Requests, FetchNoKeys(r)
      PROVE  CurrentAt(v) <= CurrentAt(v)'
  BY <1>1, <1>5, GatewayAssumption DEF FetchNoKeys, TypeOK, Clocked, CurrentAt, Versions
<1>6. [Next]_vars => UNCHANGED <<clock, appid>> \/ Tick \/ Rotate
                     \/ \E r \in Requests : FetchNoKeys(r)
  BY DEF Next, vars, AllEnded, GetJwks, ProxyRequest, UpstreamEnds, ReadClock, CheckCache,
         FetchKeys, FetchFails, StoreKeys, StampKeys, Decode, Connect, ConnectFails,
         PoolTimeout, Relay, ReadTimeout, ExchangeBreaks
<1>7. QED
  BY <1>1, <1>2, <1>3, <1>4, <1>5, <1>6

\* A step of request r disturbs what another request knows about time in two
\* ways only: the clock advances, or r replaces the keys by ones it fetched
\* itself.
LEMMA OthersStayInTime ==
  ASSUME IInv, [Next]_vars, NEW q \in Requests,
         UNCHANGED <<stage[q], start[q], held[q], clock>>,
         \/ UNCHANGED keys
         \/ \E r \in Requests : stage[r] = "store" /\ keys' = held[r]
  PROVE  InTime(q)'
<1> USE GatewayAssumption
<1>1. /\ clock \in Nat /\ start[q] \in Nat /\ held[q] \in Versions
      /\ InTime(q) /\ TypeOK /\ Clocked
  BY DEF IInv, TypeOK
<1>2. \A v \in Versions : /\ CurrentAt(v) \in Nat /\ CurrentAt(v)' \in Nat
                           /\ CurrentAt(v) <= CurrentAt(v)'
  <2>1. TypeOK'
    BY <1>1, TypeStep
  <2>2. QED
    BY <1>1, <2>1, CurrentAtGrows DEF CurrentAt, TypeOK
<1>3. stage[q] \in {"stamp", "return"} =>
         /\ keys' \in Versions
         /\ \/ keys' = keys
            \/ clock <= CurrentAt(keys') + Slack
  <2>1. stage[q] \in {"stamp", "return"} => keys \in Versions
    BY <1>1 DEF TypeOK
  <2>2. ASSUME NEW r \in Requests, stage[r] = "store", keys' = held[r]
        PROVE  keys' \in Versions /\ clock <= CurrentAt(keys') + Slack
    <3>1. held[r] \in Versions /\ start[r] \in Nat
      BY <1>1 DEF TypeOK
    <3>2. start[r] <= CurrentAt(held[r]) /\ clock <= start[r] + Slack
      BY <2>2 DEF IInv, InTime, InGetJwks
    <3>3. CurrentAt(held[r]) \in Nat
      BY <1>2, <3>1
    <3>4. QED
      BY <2>2, <3>1, <3>2, <3>3, <1>1
  <2>3. QED
    BY <2>1, <2>2
<1>4. QED
  BY <1>1, <1>2, <1>3 DEF InTime, InGetJwks

LEMMA TimeStep ==
  ASSUME IInv, [Next]_vars
  PROVE  Clocked' /\ \A r \in Requests : InTime(r)'
<1> USE GatewayAssumption DEF Goto, Reply, Leave, appid, cache, proxy
<1>1. TypeOK /\ TypeOK' /\ Clocked /\ \A r \in Requests : InTime(r)
  BY TypeStep DEF IInv
<1>2. \A v \in Versions : /\ CurrentAt(v) \in Nat /\ CurrentAt(v)' \in Nat
                           /\ CurrentAt(v) <= clock /\ CurrentAt(v) <= CurrentAt(v)'
  BY <1>1, CurrentAtGrows DEF CurrentAt, TypeOK
<1>3. ASSUME NEW r \in Requests, ReadClock(r)
      PROVE  Clocked' /\ \A q \in Requests : InTime(q)'
  <2>1. Clocked'
    BY <1>1, <1>3 DEF Clocked, CurrentAt, ReadClock
  <2>2. InTime(r)'
    BY <1>1, <1>3 DEF InTime, InGetJwks, ReadClock, TypeOK
  <2>3. \A q \in Requests \ {r} : InTime(q)'
    BY <1>3, OthersStayInTime DEF ReadClock, TypeOK, IInv
  <2>4. QED
    BY <2>1, <2>2, <2>3
<1>4. ASSUME NEW r \in Requests, CheckCache(r)
      PROVE  Clocked' /\ \A q \in Requests : InTime(q)'
  <2>1. Clocked'
    BY <1>1, <1>4 DEF Clocked, CurrentAt, CheckCache
  <2>2. Fresh(r) => start[r] <= CurrentAt(keys) + TTL + Slack
    BY <1>1, <1>2 DEF Fresh, Clocked, TypeOK
  <2>3. InTime(r)'
    BY <1>1, <1>4, <2>2 DEF InTime, InGetJwks, CheckCache, TypeOK, CurrentAt
  <2>4. \A q \in Requests \ {r} : InTime(q)'
    BY <1>4, OthersStayInTime DEF CheckCache, TypeOK, IInv
  <2>5. QED
    BY <2>1, <2>3, <2>4
<1>5. ASSUME NEW r \in Requests, FetchKeys(r)
      PROVE  Clocked' /\ \A q \in Requests : InTime(q)'
  <2>1. Clocked'
    BY <1>1, <1>5 DEF Clocked, CurrentAt, FetchKeys
  <2>2. InTime(r)'
    BY <1>1, <1>5 DEF InTime, InGetJwks, FetchKeys, TypeOK, CurrentAt
  <2>3. \A q \in Requests \ {r} : InTime(q)'
    BY <1>5, OthersStayInTime DEF FetchKeys, TypeOK, IInv
  <2>4. QED
    BY <2>1, <2>2, <2>3
<1>6. ASSUME NEW r \in Requests, FetchNoKeys(r)
      PROVE  Clocked' /\ \A q \in Requests : InTime(q)'
  <2>1. Clocked'
    <3>1. \A v \in Versions : lastSeen'[v] <= clock'
      BY <1>1, <1>6 DEF Clocked, FetchNoKeys, TypeOK
    <3>2. keys' # NoKeys => fetchedAt' <= CurrentAt(keys)' + Slack
      BY <1>1, <1>2, <1>6 DEF Clocked, FetchNoKeys, TypeOK
    <3>3. QED
      BY <1>1, <1>6, <3>1, <3>2 DEF Clocked, FetchNoKeys
  <2>2. InTime(r)'
    BY <1>1, <1>6 DEF InTime, InGetJwks, FetchNoKeys, TypeOK, CurrentAt, Versions
  <2>3. \A q \in Requests \ {r} : InTime(q)'
    BY <1>6, OthersStayInTime DEF FetchNoKeys, TypeOK, IInv
  <2>4. QED
    BY <2>1, <2>2, <2>3
<1>7. ASSUME NEW r \in Requests, StoreKeys(r)
      PROVE  Clocked' /\ \A q \in Requests : InTime(q)'
  <2>1. /\ start[r] \in Nat /\ clock \in Nat /\ held[r] \in Versions
        /\ start[r] <= clock /\ clock <= start[r] + Slack
        /\ start[r] <= CurrentAt(held[r]) /\ CurrentAt(held[r]) \in Nat
    BY <1>1, <1>2, <1>7 DEF InTime, InGetJwks, StoreKeys, TypeOK
  <2>2. CurrentAt(keys)' = CurrentAt(held[r])
    BY <1>7 DEF StoreKeys, CurrentAt
  <2>3. Clocked'
    BY <1>1, <1>7, <2>1, <2>2 DEF Clocked, StoreKeys, TypeOK
  <2>4. InTime(r)'
    BY <1>1, <1>7, <2>1, <2>2 DEF InTime, InGetJwks, StoreKeys, TypeOK
  <2>5. \A q \in Requests \ {r} : InTime(q)'
    BY <1>7, OthersStayInTime DEF StoreKeys, TypeOK, IInv
  <2>6. QED
    BY <2>3, <2>4, <2>5
<1>8. ASSUME NEW r \in Requests, StampKeys(r)
      PROVE  Clocked' /\ \A q \in Requests : InTime(q)'
  <2>1. /\ start[r] \in Nat /\ CurrentAt(keys) \in Nat /\ start[r] <= clock
        /\ start[r] <= CurrentAt(keys) + Slack
        /\ CurrentAt(keys)' = CurrentAt(keys)
    BY <1>1, <1>2, <1>8 DEF InTime, InGetJwks, StampKeys, TypeOK, CurrentAt
  <2>2. Clocked'
    BY <1>1, <1>8, <2>1 DEF Clocked, StampKeys
  <2>3. InTime(r)'
    BY <1>1, <1>8, <2>1 DEF InTime, InGetJwks, StampKeys, TypeOK
  <2>4. \A q \in Requests \ {r} : InTime(q)'
    BY <1>8, OthersStayInTime DEF StampKeys, TypeOK, IInv
  <2>5. QED
    BY <2>2, <2>3, <2>4
<1>9. ASSUME NEW r \in Requests,
             FetchFails(r) \/ (\E k \in 1..published : Decode(r, k)) \/ ProxyRequest(r)
      PROVE  Clocked' /\ \A q \in Requests : InTime(q)'
  <2> USE DEF FetchFails, Decode, ProxyRequest, Connect, ConnectFails, PoolTimeout, Relay,
              ReadTimeout, ExchangeBreaks
  <2>1. /\ UNCHANGED <<clock, held, appid, cache>>
        /\ stage'[r] \in {"pool", "exchange", "ended"}
        /\ \A q \in Requests \ {r} : stage'[q] = stage[q] /\ start'[q] = start[q]
    BY <1>1, <1>9 DEF TypeOK
  <2> HIDE DEF FetchFails, Decode, ProxyRequest
  <2>2. Clocked'
    BY <1>1, <2>1 DEF Clocked, CurrentAt
  <2>3. InTime(r)'
    BY <2>1 DEF InTime, InGetJwks
  <2>4. \A q \in Requests \ {r} : InTime(q)'
    BY <2>1, OthersStayInTime
  <2>5. QED
    BY <2>2, <2>3, <2>4
<1>10. CASE UNCHANGED <<clock, appid, cache, stage, start, held>>
  BY <1>1, <1>10 DEF Clocked, InTime, InGetJwks, CurrentAt
<1>11. CASE Rotate
  <2>1. /\ \A v \in Versions : lastSeen'[v] <= clock'
        /\ UNCHANGED <<clock, cache, stage, start, held>>
    BY <1>1, <1>11 DEF Clocked, Rotate, TypeOK
  <2>2. keys # NoKeys => CurrentAt(keys) <= CurrentAt(keys)' /\ CurrentAt(keys)' \in Nat
    BY <1>1, <1>2, <2>1 DEF TypeOK
  <2>3. Clocked'
    BY <1>1, <1>2, <2>1, <2>2 DEF Clocked, TypeOK
  <2>4. \A q \in Requests : InTime(q)'
    BY <2>1, OthersStayInTime
  <2>5. QED
    BY <2>3, <2>4
<1>12. CASE Tick
  <2>1. /\ clock \in Nat /\ clock' = clock + 1
        /\ UNCHANGED <<appid, cache, stage, start, held>>
        /\ \A r \in Requests : InGetJwks(r) => clock < start[r] + Slack
    BY <1>1, <1>12 DEF Tick, TypeOK
  <2>2. Clocked'
    BY <1>1, <1>2, <2>1 DEF Clocked, TypeOK
  <2>3. ASSUME NEW q \in Requests PROVE InTime(q)'
    <3>1. /\ start[q] \in Nat /\ held[q] \in Versions
          /\ stage[q] \in {"stamp", "return"} => keys \in Versions
      BY <1>1 DEF TypeOK
    <3>2. InGetJwks(q) => start[q] <= clock' /\ clock' <= start[q] + Slack
      BY <1>1, <2>1, <3>1 DEF InTime
    <3>3. /\ CurrentAt(held[q]) \in Nat /\ CurrentAt(held[q])' \in Nat
          /\ CurrentAt(held[q]) <= CurrentAt(held[q])'
      BY <1>2, <2>1, <3>1 DEF CurrentAt
    <3>4. keys \in Versions =>
            /\ CurrentAt(keys) \in Nat /\ CurrentAt(keys)' \in Nat
            /\ CurrentAt(keys) <= CurrentAt(keys)'
      BY <1>2, <2>1 DEF CurrentAt
    <3>5. QED
      BY <1>1, <2>1, <3>1, <3>2, <3>3, <3>4 DEF InTime, InGetJwks
  <2>4. QED
    BY <2>2, <2>3
<1>13. [Next]_vars =>
         \/ UNCHANGED <<clock, appid, cache, stage, start, held>> \/ Rotate \/ Tick
         \/ \E r \in Requests :
              \/ ReadClock(r) \/ CheckCache(r) \/ FetchKeys(r) \/ FetchNoKeys(r)
              \/ StoreKeys(r) \/ StampKeys(r)
              \/ FetchFails(r) \/ (\E k \in 1..published : Decode(r, k)) \/ ProxyRequest(r)
  BY DEF Next, vars, AllEnded, GetJwks, UpstreamEnds
<1>14. QED
  BY <1>3, <1>4, <1>5, <1>6, <1>7, <1>8, <1>9, <1>10, <1>11, <1>12, <1>13

\* However the threads of the gateway interleave, a token is verified with a
\* key set that App ID gave out at most TTL + 2 * Slack earlier.
THEOREM KeysStayRecent == Spec => []KeysAreRecent
<1>1. Init => IInv
  <2>1. Init => TypeOK
    BY InitialTypes
  <2>2. Init => Clocked /\ \A r \in Requests : InTime(r)
    BY GatewayAssumption DEF Init, Clocked, InTime, InGetJwks, Versions
  <2>3. QED
    BY <2>1, <2>2 DEF IInv
<1>2. IInv /\ [Next]_vars => IInv'
  BY TypeStep, TimeStep DEF IInv
<1>3. IInv => KeysAreRecent
  <2>1. SUFFICES ASSUME IInv, NEW r \in Requests, stage[r] = "return"
                 PROVE  clock <= CurrentAt(keys) + TTL + 2 * Slack
    BY DEF KeysAreRecent
  <2>2. /\ start[r] \in Nat /\ clock \in Nat /\ CurrentAt(keys) \in Nat
        /\ clock <= start[r] + Slack /\ start[r] <= CurrentAt(keys) + TTL + Slack
    BY <2>1 DEF IInv, TypeOK, InTime, InGetJwks, CurrentAt
  <2>3. QED
    BY <2>2, GatewayAssumption
<1>4. QED
  BY <1>1, <1>2, <1>3, PTL DEF Spec

-----------------------------------------------------------------------------
(* What the gateway's own answers say about the service *)

\* A request reaches a service only from the pool, and is answered last.
NotBefore(r) ==
  /\ stage[r] \notin {"exchange", "ended"} => upstream[r] = "none"
  /\ stage[r] # "ended" => outcome[r] = "none"

\* A client that got one of the gateway's own 401, 403, 502 or 503 knows that
\* no service has seen its request.
THEOREM RefusalsHaveNoEffect == Spec => []RefusedHadNoEffect
<1> DEFINE Inv == TypeOK /\ RefusedHadNoEffect /\ \A r \in Requests : NotBefore(r)
<1>1. Init => Inv
  BY InitialTypes DEF Init, RefusedHadNoEffect, NotBefore
<1>2. Inv /\ [Next]_vars => Inv'
  <2> SUFFICES ASSUME Inv, [Next]_vars PROVE Inv'
    OBVIOUS
  <2> USE DEF Goto, Reply, Leave, appid, cache, proxy
  <2>1. TypeOK'
    BY TypeStep
  <2>2. CASE UNCHANGED <<stage, proxy>>
    BY <2>1, <2>2 DEF RefusedHadNoEffect, NotBefore
  <2>3. ASSUME NEW r \in Requests, ReadClock(r) \/ GetJwks(r)
        PROVE  Inv'
    <3>1. /\ UNCHANGED upstream /\ stage[r] \notin {"exchange", "ended"}
          /\ \/ UNCHANGED outcome /\ stage'[r] \notin {"exchange", "ended"}
             \/ outcome'[r] \in {"401", "403", "503"} /\ stage'[r] = "ended"
          /\ \A q \in Requests \ {r} : stage'[q] = stage[q] /\ outcome'[q] = outcome[q]
      BY <2>3 DEF ReadClock, GetJwks, CheckCache, FetchKeys, FetchNoKeys, FetchFails,
                  StoreKeys, StampKeys, Decode, TypeOK
    <3>2. QED
      BY <2>1, <3>1 DEF RefusedHadNoEffect, NotBefore, TypeOK
  <2>4. ASSUME NEW r \in Requests, Connect(r)
        PROVE  Inv'
    BY <2>1, <2>4 DEF Connect, RefusedHadNoEffect, NotBefore, TypeOK
  <2>5. ASSUME NEW r \in Requests, ConnectFails(r) \/ PoolTimeout(r)
        PROVE  Inv'
    BY <2>1, <2>5 DEF ConnectFails, PoolTimeout, RefusedHadNoEffect, NotBefore, TypeOK
  <2>6. ASSUME NEW r \in Requests, Relay(r) \/ ReadTimeout(r) \/ ExchangeBreaks(r)
        PROVE  Inv'
    BY <2>1, <2>6 DEF Relay, ReadTimeout, ExchangeBreaks, RefusedHadNoEffect, NotBefore, TypeOK
  <2>7. ASSUME NEW r \in Requests, UpstreamEnds(r)
        PROVE  Inv'
    BY <2>1, <2>7 DEF UpstreamEnds, RefusedHadNoEffect, NotBefore, TypeOK
  <2>8. [Next]_vars =>
          \/ UNCHANGED <<stage, proxy>>
          \/ \E r \in Requests :
               \/ ReadClock(r) \/ GetJwks(r) \/ Connect(r)
               \/ ConnectFails(r) \/ PoolTimeout(r)
               \/ Relay(r) \/ ReadTimeout(r) \/ ExchangeBreaks(r) \/ UpstreamEnds(r)
    BY DEF Next, vars, AllEnded, ProxyRequest, Rotate, Tick
  <2>9. QED
    BY <2>2, <2>3, <2>4, <2>5, <2>6, <2>7, <2>8
<1>3. QED
  BY <1>1, <1>2, PTL DEF Spec
=============================================================================
