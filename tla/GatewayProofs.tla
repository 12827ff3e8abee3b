--------------------------- MODULE GatewayProofs ----------------------------
(***************************************************************************)
(* Proofs about Gateway, for any number of servers and requests, any       *)
(* offers, faults and rates: types, the metering of every call, the        *)
(* agreement of the policy with the adaptors, that whoever is refused has  *)
(* spent, and that no caller gets more than the rates allow.               *)
(***************************************************************************)
EXTENDS Gateway, FiniteSetTheorems, TLAPS

Fields == {"pc", "limiter", "server", "offer", "found", "at", "spent", "answer"}
InLimiter == {"lock"} \union Critical

(* The token that the request needs to be dispatched. *)
Due(offer) ==
    IF offer.method \in public THEN <<"ip", offer.ip>> ELSE <<"user", offer.token.user>>

RequestType(r) ==
    /\ DOMAIN r = Fields
    /\ r.pc \in {"lock", "authorize", "dispatch", "answered"} \union Critical
    /\ r.limiter \in {"ip", "user"} /\ r.server \in Servers /\ r.offer \in Offers
    /\ r.answer \in Answers /\ r.at \in Time

(* What the position of a request says of its method and of what it spent: *)
(* the user limiter is behind the policy, whoever leaves a limiter without *)
(* an answer has paid that limiter, and nobody else is dispatched.         *)
Metered(r) ==
    /\ r.pc \in {"lock", "read", "write", "authorize", "dispatch"} => r.answer = "none"
    /\ r.pc \in InLimiter =>
          /\ r.limiter = "ip" => r.offer.method \in public
          /\ r.limiter = "user" => Gate(r.offer) = "lock"
    /\ r.pc = "unlock" =>
          /\ r.answer \in {"none", "rate_limited", "internal"}
          /\ r.answer = "none" => r.spent = Caller(r)
    /\ r.pc = "authorize" =>
          r.limiter = "ip" /\ (r.offer.method \in public => r.spent = Due(r.offer))
    /\ r.pc = "dispatch" \/ r.answer = "served" =>
          Gate(r.offer) \in {"dispatch", "lock"} /\ r.spent = Due(r.offer)
    /\ r.answer # "adaptor_forbidden"

RequestInv(q) == Started(q) => RequestType(reqs[q]) /\ Metered(reqs[q])

MeterInv == DOMAIN reqs = Requests /\ now \in Time /\ \A q \in Requests : RequestInv(q)

-----------------------------------------------------------------------------
(* What the policy says. *)

LEMMA GateCases ==
    ASSUME NEW offer
    PROVE  /\ Gate(offer) \in {"parse", "dispatch", "unauthorized", "forbidden", "lock"}
           /\ Gate(offer) = "dispatch" => offer.method \in public
           /\ Gate(offer) = "lock" => offer.method \notin public
BY DEF Gate

LEMMA StrictMethods ==
    byMethod["ProcessTransactionBatch"] = {"wallet:batch:all"}
    /\ byMethod["UpdateAccountBalance"] = {"account:write:all"}
BY DEF byMethod

LEMMA MemberPermissions ==
    /\ "wallet:batch:all" \notin RolePermissions["member"]
    /\ "account:write:all" \notin RolePermissions["member"]
    /\ DOMAIN RolePermissions = {"member", "admin"}
BY DEF RolePermissions

(* The policy lets only administrators through to the adaptors that look   *)
(* at the role themselves.                                                 *)
LEMMA PolicyStrict ==
    ASSUME NEW offer \in Offers, Gate(offer) \in {"dispatch", "lock"},
           offer.method \in adminOnly
    PROVE  offer.token.role = "admin"
<1>1. offer.method \notin public
  BY DEF adminOnly, public
<1>2. /\ offer.token \notin {NoToken, BadToken}
      /\ Authorize(RolePermissions[offer.token.role], offer.method)
  BY <1>1 DEF Gate
<1>3. offer.token.role \in {"member", "admin"}
  BY <1>2, TokenAssumption, MemberPermissions
<1>4. CASE offer.token.role = "member"
  <2>1. byMethod[offer.method] \cap RolePermissions["member"] # {}
    BY <1>2, <1>4 DEF Authorize
  <2> QED
    BY <2>1, StrictMethods, MemberPermissions DEF adminOnly
<1> QED
  BY <1>3, <1>4

-----------------------------------------------------------------------------
(* The steps of one request. *)

LEMMA ArriveMeters ==
    ASSUME MeterInv, NEW q \in Requests, NEW s \in Servers, NEW offer \in Offers,
           Arrive(q, s, offer)
    PROVE  MeterInv'
<1> DEFINE r == reqs'[q]
<1>1. DOMAIN reqs' = Requests /\ now' \in Time
      /\ \A p \in Requests : p # q => reqs'[p] = reqs[p]
  BY DEF Arrive, MeterInv
<1>2. r = [pc |-> IF offer.method \in publicAuthMethods THEN "lock" ELSE "authorize",
           limiter |-> "ip", server |-> s, offer |-> offer,
           found |-> Nothing, at |-> 0, spent |-> NoCaller, answer |-> "none"]
  BY DEF Arrive, MeterInv
<1>3. RequestType(r)
  BY <1>2, GatewayAssumption DEF RequestType, Fields, Critical, Answers, Time
<1>4. Metered(r)
  BY <1>2 DEF Metered, InLimiter, Critical, public, publicAuthMethods
<1> QED
  BY <1>1, <1>3, <1>4 DEF MeterInv, RequestInv, Started

(* Whatever a request does to itself, the others keep what they have. *)
LEMMA OneMoves ==
    ASSUME MeterInv, NEW q \in Requests, NEW r, now' \in Time,
           reqs' = [reqs EXCEPT ![q] = r], RequestType(r), Metered(r)
    PROVE  MeterInv'
BY DEF MeterInv, RequestInv, Started

LEMMA InLimiterMeters ==
    ASSUME MeterInv, NEW q \in Requests, Lock(q) \/ LockFails(q) \/ Read(q) \/ Write(q)
    PROVE  MeterInv'
<1> DEFINE r == reqs[q]
<1>0. Started(q) /\ RequestType(r) /\ Metered(r) /\ now' = now /\ now \in Time
  BY DEF Lock, LockFails, Read, Write, MeterInv, RequestInv, Started
<1>1. CASE Lock(q)
  <2> DEFINE t == [r EXCEPT !.pc = "read"]
  <2>1. reqs' = [reqs EXCEPT ![q] = t] /\ r.pc = "lock"
    BY <1>1 DEF Lock
  <2>2. RequestType(t) /\ Metered(t)
    BY <2>1, <1>0 DEF RequestType, Metered, Fields, InLimiter, Critical
  <2> QED
    BY <1>0, <2>1, <2>2, OneMoves
<1>2. CASE LockFails(q)
  <2> DEFINE t == [r EXCEPT !.pc = "answered", !.answer = "internal"]
  <2>1. reqs' = [reqs EXCEPT ![q] = t] /\ r.pc = "lock"
    BY <1>2 DEF LockFails, Answer
  <2>2. RequestType(t) /\ Metered(t)
    BY <2>1, <1>0 DEF RequestType, Metered, Fields, InLimiter, Critical, Answers
  <2> QED
    BY <1>0, <2>1, <2>2, OneMoves
<1>3. CASE Read(q)
  <2>0. r.pc = "read"
    BY <1>3 DEF Read
  <2> DEFINE b == ReadBucket(r)
             t1 == [r EXCEPT !.pc = "write", !.found = b, !.at = now]
             t2 == [r EXCEPT !.pc = "unlock", !.answer = "rate_limited", !.at = now]
             t3 == [r EXCEPT !.pc = "unlock", !.answer = "internal"]
  <2>1. \E t \in {t1, t2, t3} : reqs' = [reqs EXCEPT ![q] = t]
    BY <1>3 DEF Read
  <2>2. \A t \in {t1, t2, t3} : RequestType(t) /\ Metered(t)
    BY <2>0, <1>0 DEF RequestType, Metered, Fields, InLimiter, Critical, Answers
  <2> QED
    BY <1>0, <2>1, <2>2, OneMoves
<1>4. CASE Write(q)
  <2>0. r.pc = "write"
    BY <1>4 DEF Write
  <2> DEFINE t(a) == [r EXCEPT !.pc = "unlock", !.found = Nothing, !.spent = Caller(r),
                               !.answer = a]
             u == [r EXCEPT !.pc = "unlock", !.found = Nothing, !.answer = "internal"]
  <2>1. \/ \E a \in {"none", "internal"} : reqs' = [reqs EXCEPT ![q] = t(a)]
        \/ reqs' = [reqs EXCEPT ![q] = u]
    BY <1>4 DEF Write
  <2>2. ASSUME NEW a \in {"none", "internal"}
        PROVE  RequestType(t(a)) /\ Metered(t(a))
    <3> DEFINE v == t(a)
    <3>1. /\ DOMAIN v = Fields /\ v.pc = "unlock" /\ v.answer = a /\ v.spent = Caller(r)
          /\ v.limiter = r.limiter /\ v.offer = r.offer /\ v.server = r.server /\ v.at = r.at
      BY <1>0 DEF RequestType, Fields
    <3>2. Caller(v) = Caller(r)
      BY <3>1 DEF Caller
    <3> HIDE DEF v
    <3>3. RequestType(v) /\ Metered(v)
      BY <3>1, <3>2, <2>0, <1>0 DEF RequestType, Metered, InLimiter, Critical, Answers
    <3> QED
      BY <3>3 DEF v
  <2>3. RequestType(u) /\ Metered(u)
    BY <2>0, <1>0 DEF RequestType, Metered, Fields, InLimiter, Critical, Answers
  <2>4. CASE \E a \in {"none", "internal"} : reqs' = [reqs EXCEPT ![q] = t(a)]
    <3>1. PICK a \in {"none", "internal"} : reqs' = [reqs EXCEPT ![q] = t(a)]
      BY <2>4
    <3> QED
      BY <1>0, <3>1, <2>2, OneMoves
  <2>5. CASE reqs' = [reqs EXCEPT ![q] = u]
    BY <1>0, <2>3, <2>5, OneMoves
  <2> QED
    BY <2>1, <2>4, <2>5
<1> QED
  BY <1>1, <1>2, <1>3, <1>4

LEMMA UnlockMeters ==
    ASSUME MeterInv, NEW q \in Requests, Unlock(q)
    PROVE  MeterInv'
<1> DEFINE r == reqs[q]
           lost == [r EXCEPT !.pc = "answered", !.answer = "lost"]
           failed == [r EXCEPT !.pc = "answered", !.answer = r.answer]
           passed == [r EXCEPT !.pc = IF r.limiter = "ip" THEN "authorize" ELSE "dispatch"]
<1>0. /\ RequestType(r) /\ Metered(r) /\ r.pc = "unlock"
      /\ now' = now /\ now \in Time
  BY DEF Unlock, MeterInv, RequestInv, Started
<1>1. \/ r.answer = "none" /\ reqs' = [reqs EXCEPT ![q] = passed]
      \/ r.answer # "none" /\ reqs' = [reqs EXCEPT ![q] = failed]
      \/ reqs' = [reqs EXCEPT ![q] = lost]
  BY DEF Unlock, Passed, Answer
<1>2. RequestType(lost) /\ Metered(lost)
  BY <1>0 DEF RequestType, Metered, Fields, InLimiter, Critical, Answers
<1>3. CASE r.answer # "none" /\ reqs' = [reqs EXCEPT ![q] = failed]
  <2>1. RequestType(failed) /\ Metered(failed)
    BY <1>0, <1>3 DEF RequestType, Metered, Fields, InLimiter, Critical, Answers
  <2> QED
    BY <1>0, <1>3, <2>1, OneMoves
<1>4. CASE r.answer = "none" /\ reqs' = [reqs EXCEPT ![q] = passed]
  <2>1. r.spent = Caller(r)
    BY <1>0, <1>4 DEF Metered
  <2>2. RequestType(passed)
    BY <1>0 DEF RequestType, Fields, Critical
  <2>3. /\ passed.offer = r.offer /\ passed.spent = r.spent /\ passed.limiter = r.limiter
        /\ passed.answer = "none"
        /\ passed.pc = IF r.limiter = "ip" THEN "authorize" ELSE "dispatch"
    BY <1>0, <1>4 DEF RequestType, Fields
  <2>4. CASE r.limiter = "ip"
    <3>1. r.offer.method \in public /\ r.spent = Due(r.offer)
      BY <1>0, <2>1, <2>4 DEF Metered, InLimiter, Critical, Due, Caller
    <3> HIDE DEF passed
    <3>2. Metered(passed)
      BY <2>3, <2>4, <3>1 DEF Metered, InLimiter, Critical
    <3> QED
      BY <1>0, <1>4, <2>2, <3>2, OneMoves
  <2>5. CASE r.limiter # "ip"
    <3>1. Gate(r.offer) = "lock"
      BY <1>0, <2>5 DEF Metered, InLimiter, Critical, RequestType
    <3>2. r.spent = Due(r.offer)
      BY <3>1, <2>1, <2>5, GateCases DEF Caller, Due
    <3> HIDE DEF passed
    <3>3. Metered(passed)
      BY <2>3, <2>5, <3>1, <3>2 DEF Metered, InLimiter, Critical
    <3> QED
      BY <1>0, <1>4, <2>2, <3>3, OneMoves
  <2> QED
    BY <2>4, <2>5
<1> QED
  BY <1>0, <1>1, <1>2, <1>3, <1>4, OneMoves

LEMMA AuthorizationMeters ==
    ASSUME MeterInv, NEW q \in Requests, Authorization(q)
    PROVE  MeterInv'
<1> DEFINE r == reqs[q]
           gate == Gate(r.offer)
           passed == [r EXCEPT !.pc = gate, !.limiter = "user"]
           refused == [r EXCEPT !.pc = "answered", !.answer = gate]
<1>0. /\ RequestType(r) /\ Metered(r) /\ r.pc = "authorize"
      /\ now' = now /\ now \in Time
  BY DEF Authorization, MeterInv, RequestInv, Started
<1>1. \/ gate \in {"dispatch", "lock"} /\ reqs' = [reqs EXCEPT ![q] = passed]
      \/ gate \notin {"dispatch", "lock"} /\ reqs' = [reqs EXCEPT ![q] = refused]
  BY DEF Authorization, Answer
<1>2. gate \in {"parse", "dispatch", "unauthorized", "forbidden", "lock"}
  BY GateCases
<1>3. CASE gate \in {"dispatch", "lock"} /\ reqs' = [reqs EXCEPT ![q] = passed]
  <2>1. gate = "dispatch" => r.spent = Due(r.offer)
    BY <1>0, GateCases DEF Metered
  <2>2. passed.offer = r.offer /\ passed.spent = r.spent /\ passed.limiter = "user"
        /\ passed.answer = "none" /\ passed.pc = gate
    BY <1>0 DEF RequestType, Metered, Fields
  <2>3. RequestType(passed)
    BY <1>0, <1>3 DEF RequestType, Fields
  <2> QED
    BY <1>0, <1>3, <2>1, <2>2, <2>3, OneMoves DEF Metered, InLimiter, Critical
<1>4. CASE gate \notin {"dispatch", "lock"} /\ reqs' = [reqs EXCEPT ![q] = refused]
  <2>1. RequestType(refused)
    BY <1>0, <1>2, <1>4 DEF RequestType, Fields, Answers
  <2>2. refused.pc = "answered" /\ refused.answer = gate
    BY <1>0 DEF RequestType, Fields
  <2>3. Metered(refused)
    BY <2>2, <1>2, <1>4 DEF Metered, InLimiter, Critical
  <2> QED
    BY <1>0, <1>4, <2>1, <2>3, OneMoves
<1> QED
  BY <1>1, <1>3, <1>4

LEMMA DispatchMeters ==
    ASSUME MeterInv, NEW q \in Requests, Dispatch(q)
    PROVE  MeterInv'
<1> DEFINE r == reqs[q]
           served == [r EXCEPT !.pc = "answered", !.answer = "served"]
<1>0. /\ RequestType(r) /\ Metered(r) /\ r.pc = "dispatch"
      /\ now' = now /\ now \in Time
  BY DEF Dispatch, MeterInv, RequestInv, Started
<1>1. r.offer \in Offers /\ Gate(r.offer) \in {"dispatch", "lock"}
  BY <1>0 DEF RequestType, Metered
<1>2. ~(r.offer.method \in adminOnly /\ r.offer.token.role # "admin")
  BY <1>1, PolicyStrict
<1>3. reqs' = [reqs EXCEPT ![q] = served]
  BY <1>2 DEF Dispatch, Answer
<1>4. RequestType(served) /\ Metered(served)
  BY <1>0 DEF RequestType, Metered, Fields, InLimiter, Critical, Answers
<1> QED
  BY <1>0, <1>3, <1>4, OneMoves

(* A crash takes the requests of the process away, wherever they are.      *)
LEMMA CrashMeters ==
    ASSUME MeterInv, NEW s \in Servers, Crash(s)
    PROVE  MeterInv'
<1>1. DOMAIN reqs' = Requests /\ now' \in Time
  BY DEF Crash, MeterInv
<1>2. ASSUME NEW q \in Requests
      PROVE  RequestInv(q)'
  <2> DEFINE r == reqs[q]
             lost == [r EXCEPT !.pc = "answered", !.answer = "lost"]
  <2>1. reqs'[q] = r \/ (Started(q) /\ reqs'[q] = lost)
    BY DEF Crash
  <2>2. CASE reqs'[q] = r
    BY <2>2 DEF MeterInv, RequestInv, Started
  <2>3. CASE Started(q) /\ reqs'[q] = lost
    <3>1. RequestType(r) /\ Metered(r)
      BY <2>3 DEF MeterInv, RequestInv
    <3>2. RequestType(lost) /\ Metered(lost)
      BY <3>1 DEF RequestType, Metered, Fields, InLimiter, Critical, Answers
    <3> QED
      BY <3>2, <2>3 DEF RequestInv
  <2> QED
    BY <2>1, <2>2, <2>3
<1> QED
  BY <1>1, <1>2 DEF MeterInv

LEMMA OthersMeter ==
    ASSUME MeterInv, ExpireLock \/ Tick \/ Finished \/ UNCHANGED vars
    PROVE  MeterInv'
<1>1. reqs' = reqs
  BY DEF ExpireLock, Tick, Finished, vars
<1>2. now' \in Time
  BY GatewayAssumption DEF ExpireLock, Tick, Finished, vars, MeterInv, Time
<1> QED
  BY <1>1, <1>2 DEF MeterInv, RequestInv, Started

LEMMA MeterInit == Init => MeterInv
BY GatewayAssumption DEF Init, Idle, MeterInv, RequestInv, Started, Time

LEMMA MeterStep == MeterInv /\ [Next]_vars => MeterInv'
<1> SUFFICES ASSUME MeterInv, [Next]_vars PROVE MeterInv'
  OBVIOUS
<1>1. CASE \E q \in Requests, s \in Servers, offer \in Offers : Arrive(q, s, offer)
  BY <1>1, ArriveMeters
<1>2. CASE \E q \in Requests : RequestStep(q)
  BY <1>2, InLimiterMeters, UnlockMeters, AuthorizationMeters, DispatchMeters DEF RequestStep
<1>3. CASE \E s \in Servers : Crash(s)
  BY <1>3, CrashMeters
<1>4. CASE ExpireLock \/ Tick \/ Finished \/ UNCHANGED vars
  BY <1>4, OthersMeter
<1> QED
  BY <1>1, <1>2, <1>3, <1>4 DEF Next

-----------------------------------------------------------------------------

(* What reaches a service has taken one token of the bucket that is due    *)
(* for it, with any faults (publicAuthMethods, setupRPCServer.go).         *)
THEOREM CallsMetered == Spec => []EveryCallMetered
<1>1. MeterInv => EveryCallMetered
  BY DEF MeterInv, RequestInv, Metered, EveryCallMetered, Due, Started
<1> QED
  BY <1>1, MeterInit, MeterStep, PTL DEF Spec

(* What the policy lets through is not refused by the adaptor behind it,   *)
(* for any offers (policy.go, UpdateAccountBalance and                     *)
(* ProcessTransactionBatch of the adaptors).                               *)
THEOREM PolicyAndAdaptorsAgree == Spec => []GuardsAgree
<1>1. MeterInv => GuardsAgree
  BY DEF MeterInv, RequestInv, Metered, GuardsAgree
<1> QED
  BY <1>1, MeterInit, MeterStep, PTL DEF Spec

-----------------------------------------------------------------------------
(* Types: a bucket never holds more than its limiter's capacity, and was   *)
(* not refilled in the future.                                             *)

StateType(state, limiter) ==
    state.last \in 0..now /\ state.available \in 0..Capacity(limiter)

BucketsTyped ==
    /\ lock \in Requests \union {NoHolder}
    /\ \A k \in DOMAIN bucket :
          /\ StateType(bucket[k], k[1])
          /\ bucket[k].available < Capacity(k[1])
          /\ bucket[k].expires \in Nat
    /\ \A q \in Requests : Started(q) /\ reqs[q].pc = "write" =>
          StateType(reqs[q].found, reqs[q].limiter) /\ reqs[q].found.available > 0

TypeInv == MeterInv /\ BucketsTyped

LEMMA Remainder ==
    ASSUME NEW a \in Nat, NEW b \in Nat \ {0}
    PROVE  a % b \in 0..a /\ a \div b \in Nat
OBVIOUS

LEMMA RatesTyped ==
    ASSUME NEW limiter
    PROVE  /\ Capacity(limiter) \in Nat \ {0} /\ Refill(limiter) \in Nat \ {0}
           /\ TTL(limiter) \in Nat
<1>1. Capacity(limiter) \in Nat \ {0} /\ Refill(limiter) \in Nat \ {0}
  BY GatewayAssumption DEF Capacity, Refill
<1> QED
  BY <1>1 DEF TTL

LEMMA RefilledTyped ==
    ASSUME now \in Nat, NEW state, NEW limiter, StateType(state, limiter)
    PROVE  StateType(Refilled(state, limiter), limiter)
<1> DEFINE elapsed == now - state.last
           tokens == elapsed \div Refill(limiter)
<1>1. /\ Capacity(limiter) \in Nat \ {0} /\ Refill(limiter) \in Nat \ {0}
      /\ state.last \in 0..now /\ state.available \in 0..Capacity(limiter)
  BY RatesTyped DEF StateType
<1>2. elapsed \in Nat
  BY <1>1
<1>3. elapsed % Refill(limiter) \in 0..elapsed /\ tokens \in Nat
  BY <1>1, <1>2, Remainder
<1>4. now - (elapsed % Refill(limiter)) \in 0..now
  BY <1>1, <1>3
<1> HIDE DEF tokens
<1>5. Refilled(state, limiter) =
        IF tokens = 0 THEN [last |-> state.last, available |-> state.available]
        ELSE IF tokens + state.available < Capacity(limiter)
        THEN [last |-> now - (elapsed % Refill(limiter)), available |-> tokens + state.available]
        ELSE [last |-> now, available |-> Capacity(limiter)]
  BY DEF Refilled, tokens
<1>6. CASE tokens = 0
  BY <1>1, <1>5, <1>6 DEF StateType
<1>7. CASE tokens # 0 /\ tokens + state.available < Capacity(limiter)
  <2>1. tokens + state.available \in 0..Capacity(limiter)
    BY <1>1, <1>3, <1>7
  <2> QED
    BY <1>4, <1>5, <1>7, <2>1 DEF StateType
<1>8. CASE tokens # 0 /\ ~(tokens + state.available < Capacity(limiter))
  <2>1. Refilled(state, limiter) = [last |-> now, available |-> Capacity(limiter)]
    BY <1>5, <1>8
  <2> QED
    BY <1>1, <2>1 DEF StateType
<1> QED
  BY <1>6, <1>7, <1>8

LEMMA KeyNamesLimiter ==
    ASSUME NEW r, r.limiter \in {"ip", "user"}
    PROVE  BucketKey(r)[1] = r.limiter
BY DEF BucketKey

LEMMA ReadTyped ==
    ASSUME MeterInv, BucketsTyped, NEW r, r.limiter \in {"ip", "user"}
    PROVE  StateType(ReadBucket(r), r.limiter)
<1>1. now \in Nat
  BY GatewayAssumption DEF MeterInv, Time
<1>2. CASE BucketKey(r) \in DOMAIN bucket /\ now < bucket[BucketKey(r)].expires
  <2>1. StateType(bucket[BucketKey(r)], r.limiter)
    BY <1>2, KeyNamesLimiter DEF BucketsTyped
  <2> QED
    BY <1>1, <1>2, <2>1, RefilledTyped DEF ReadBucket
<1>3. CASE ~(BucketKey(r) \in DOMAIN bucket /\ now < bucket[BucketKey(r)].expires)
  BY <1>1, <1>3, RatesTyped DEF ReadBucket, StateType
<1> QED
  BY <1>2, <1>3

(* A step that leaves the buckets alone and sends nobody to "write". *)
LEMMA BucketsKept ==
    ASSUME BucketsTyped, MeterInv, bucket' = bucket, now' \in Time, now <= now',
           lock' \in Requests \union {NoHolder},
           \A q \in Requests :
               /\ Started(q)' /\ reqs'[q].pc = "write"
               => /\ Started(q) /\ reqs[q].pc = "write"
                  /\ reqs'[q].found = reqs[q].found /\ reqs'[q].limiter = reqs[q].limiter
    PROVE  BucketsTyped'
<1>1. now \in Nat /\ now' \in Nat
  BY GatewayAssumption DEF MeterInv, Time
<1>2. ASSUME NEW state, NEW limiter, StateType(state, limiter)
      PROVE  state.last \in 0..now' /\ state.available \in 0..Capacity(limiter)
  BY <1>1, <1>2 DEF StateType
<1> QED
  BY <1>2 DEF BucketsTyped, StateType, Capacity

LEMMA WriteTyped ==
    ASSUME TypeInv, NEW q \in Requests, Write(q)
    PROVE  BucketsTyped'
<1> DEFINE r == reqs[q]
           key == BucketKey(r)
           state == [last |-> r.found.last, available |-> r.found.available - 1,
                     expires |-> now + TTL(r.limiter)]
<1>0. /\ r.pc = "write" /\ now' = now /\ lock' = lock /\ now \in Nat
      /\ r.limiter \in {"ip", "user"} /\ RequestType(r) /\ Started(q)
      /\ DOMAIN reqs = Requests
      /\ StateType(r.found, r.limiter) /\ r.found.available > 0
  BY GatewayAssumption
     DEF Write, TypeInv, MeterInv, BucketsTyped, RequestInv, RequestType, Started, Time
<1>1. /\ StateType(state, r.limiter) /\ state.available < Capacity(r.limiter)
      /\ state.expires \in Nat
  BY <1>0, RatesTyped DEF StateType
<1>2. key[1] = r.limiter
  BY <1>0, KeyNamesLimiter
<1>3. bucket' = bucket \/ Put(key, state)
  BY DEF Write
<1> HIDE DEF key, state
<1>4. ASSUME NEW k \in DOMAIN bucket'
      PROVE  \/ k \in DOMAIN bucket /\ bucket'[k] = bucket[k]
             \/ k = key /\ bucket'[k] = state
  BY <1>3, <1>4 DEF Put
<1>5. ASSUME NEW k \in DOMAIN bucket'
      PROVE  /\ StateType(bucket'[k], k[1])
             /\ bucket'[k].available < Capacity(k[1]) /\ bucket'[k].expires \in Nat
  BY <1>1, <1>2, <1>4, <1>5 DEF TypeInv, BucketsTyped
<1>6. \A p \in Requests : p # q => reqs'[p] = reqs[p]
  BY DEF Write, TypeInv, MeterInv
<1>7. reqs'[q].pc = "unlock"
  BY <1>0 DEF Write, RequestType, Fields
<1>8. \A p \in Requests : Started(p)' /\ reqs'[p].pc = "write" =>
          StateType(reqs'[p].found, reqs'[p].limiter) /\ reqs'[p].found.available > 0
  BY <1>6, <1>7 DEF TypeInv, BucketsTyped, Started
<1> QED
  BY <1>0, <1>5, <1>8 DEF TypeInv, BucketsTyped, StateType, Capacity

LEMMA ReadStepTyped ==
    ASSUME TypeInv, NEW q \in Requests, Read(q)
    PROVE  BucketsTyped'
<1> DEFINE r == reqs[q]
           b == ReadBucket(r)
           found == [r EXCEPT !.pc = "write", !.found = b, !.at = now]
<1>0. /\ r.pc = "read" /\ now' = now /\ lock' = lock /\ bucket' = bucket
      /\ now \in Time /\ now \in Nat /\ r.limiter \in {"ip", "user"} /\ RequestType(r)
      /\ DOMAIN reqs = Requests /\ MeterInv /\ BucketsTyped
      /\ lock' \in Requests \union {NoHolder}
  BY GatewayAssumption
     DEF Read, TypeInv, MeterInv, BucketsTyped, RequestInv, RequestType, Started, Time
<1>1. StateType(b, r.limiter)
  BY <1>0, ReadTyped
<1>2. \A p \in Requests : p # q => reqs'[p] = reqs[p]
  BY <1>0 DEF Read
<1>3. CASE b.available > 0 /\ reqs' = [reqs EXCEPT ![q] = found]
  <2>1. reqs'[q].found = b /\ reqs'[q].limiter = r.limiter
    BY <1>0, <1>3 DEF RequestType, Fields
  <2> HIDE DEF b
  <2>2. \A p \in Requests : Started(p)' /\ reqs'[p].pc = "write" =>
            StateType(reqs'[p].found, reqs'[p].limiter) /\ reqs'[p].found.available > 0
    BY <1>0, <1>1, <1>2, <1>3, <2>1 DEF BucketsTyped, Started
  <2> QED
    BY <1>0, <2>2 DEF BucketsTyped, StateType, Capacity
<1>4. CASE reqs'[q].pc = "unlock"
  BY <1>0, <1>2, <1>4, BucketsKept DEF Started
<1>5. \/ b.available > 0 /\ reqs' = [reqs EXCEPT ![q] = found]
      \/ reqs'[q].pc = "unlock"
  <2> DEFINE limited == [r EXCEPT !.pc = "unlock", !.answer = "rate_limited", !.at = now]
             failed == [r EXCEPT !.pc = "unlock", !.answer = "internal"]
  <2>1. \/ b.available > 0 /\ reqs' = [reqs EXCEPT ![q] = found]
        \/ \E t \in {limited, failed} : reqs' = [reqs EXCEPT ![q] = t]
    BY DEF Read
  <2>2. limited.pc = "unlock" /\ failed.pc = "unlock"
    BY <1>0 DEF RequestType, Fields
  <2> HIDE DEF b, limited, failed, found
  <2> QED
    BY <1>0, <2>1, <2>2
<1> QED
  BY <1>3, <1>4, <1>5

LEMMA TypeInit == Init => TypeInv
<1>1. Init => BucketsTyped
  BY DEF Init, Idle, BucketsTyped, Started
<1> QED
  BY <1>1, MeterInit DEF TypeInv

(* The steps that touch no bucket. *)
LEMMA QuietTyped ==
    ASSUME TypeInv, NEW q \in Requests,
           \/ \E s \in Servers, offer \in Offers : Arrive(q, s, offer)
           \/ Lock(q) \/ LockFails(q) \/ Unlock(q) \/ Authorization(q) \/ Dispatch(q)
    PROVE  BucketsTyped'
<1>1. MeterInv /\ BucketsTyped /\ DOMAIN reqs = Requests /\ now \in Time /\ now \in Nat
      /\ (Started(q) => RequestType(reqs[q]))
  BY GatewayAssumption DEF TypeInv, MeterInv, RequestInv, Time
<1>2. now' = now /\ bucket' = bucket /\ lock' \in Requests \union {NoHolder}
  BY <1>1 DEF Arrive, Lock, LockFails, Unlock, Authorization, Dispatch, BucketsTyped
<1>3. \A p \in Requests : p # q => reqs'[p] = reqs[p]
  BY <1>1 DEF Arrive, Lock, LockFails, Unlock, Authorization, Dispatch, Answer, Passed
<1>4. CASE \E s \in Servers, offer \in Offers : Arrive(q, s, offer)
  <2>1. reqs'[q].pc # "write"
    BY <1>1, <1>4 DEF Arrive
  <2> QED
    BY <1>1, <1>2, <1>3, <2>1, BucketsKept DEF Started
<1>5. CASE Lock(q) \/ LockFails(q) \/ Unlock(q) \/ Authorization(q) \/ Dispatch(q)
  <2>1. Started(q) /\ RequestType(reqs[q])
    BY <1>1, <1>5 DEF Lock, LockFails, Unlock, Authorization, Dispatch, Started
  <2>2. reqs'[q].pc # "write"
    <3>1. CASE Lock(q) \/ LockFails(q) \/ Dispatch(q)
      BY <1>1, <2>1, <3>1 DEF Lock, LockFails, Dispatch, Answer, RequestType, Fields
    <3>2. CASE Unlock(q)
      BY <1>1, <2>1, <3>2 DEF Unlock, Passed, Answer, RequestType, Fields
    <3>3. CASE Authorization(q)
      BY <1>1, <2>1, <3>3, GateCases DEF Authorization, Answer, RequestType, Fields
    <3> QED
      BY <1>5, <3>1, <3>2, <3>3
  <2> QED
    BY <1>1, <1>2, <1>3, <2>2, BucketsKept DEF Started
<1> QED
  BY <1>4, <1>5

LEMMA CrashTyped ==
    ASSUME TypeInv, NEW s \in Servers, Crash(s)
    PROVE  BucketsTyped'
<1>0. UNCHANGED <<now, bucket, lock>>
  BY DEF Crash
<1>1. /\ MeterInv /\ BucketsTyped /\ now' = now /\ bucket' = bucket /\ now \in Time
      /\ now \in Nat /\ lock' \in Requests \union {NoHolder}
  BY <1>0, GatewayAssumption DEF TypeInv, MeterInv, BucketsTyped, Time
<1>2. ASSUME NEW q \in Requests
      PROVE  reqs'[q] = reqs[q] \/ reqs'[q].pc = "answered"
  <2> DEFINE lost == [reqs[q] EXCEPT !.pc = "answered", !.answer = "lost"]
  <2>1. reqs'[q] = reqs[q] \/ (Started(q) /\ reqs'[q] = lost)
    BY DEF Crash
  <2>2. Started(q) => lost.pc = "answered"
    BY <1>1 DEF MeterInv, RequestInv, RequestType, Fields
  <2> QED
    BY <2>1, <2>2
<1> QED
  BY <1>1, <1>2, BucketsKept DEF Started

LEMMA OthersTyped ==
    ASSUME TypeInv, ExpireLock \/ Tick \/ Finished \/ UNCHANGED vars
    PROVE  BucketsTyped'
<1>1. /\ MeterInv /\ BucketsTyped /\ bucket' = bucket /\ reqs' = reqs
      /\ now \in Time /\ now \in Nat /\ lock' \in Requests \union {NoHolder}
  BY GatewayAssumption
     DEF ExpireLock, Tick, Finished, vars, TypeInv, MeterInv, BucketsTyped, Time
<1>2. now' \in Time /\ now <= now'
  BY <1>1, GatewayAssumption DEF ExpireLock, Tick, Finished, vars, Time
<1> QED
  BY <1>1, <1>2, BucketsKept DEF Started

LEMMA TypeStep == TypeInv /\ [Next]_vars => TypeInv'
<1> SUFFICES ASSUME TypeInv, [Next]_vars PROVE TypeInv'
  OBVIOUS
<1>1. MeterInv'
  BY MeterStep DEF TypeInv
<1>2. CASE \E q \in Requests, s \in Servers, offer \in Offers : Arrive(q, s, offer)
  BY <1>1, <1>2, QuietTyped DEF TypeInv
<1>3. CASE \E q \in Requests : RequestStep(q)
  BY <1>1, <1>3, QuietTyped, ReadStepTyped, WriteTyped DEF TypeInv, RequestStep
<1>4. CASE \E s \in Servers : Crash(s)
  BY <1>1, <1>4, CrashTyped DEF TypeInv
<1>5. CASE ExpireLock \/ Tick \/ Finished \/ UNCHANGED vars
  BY <1>1, <1>5, OthersTyped DEF TypeInv
<1> QED
  BY <1>2, <1>3, <1>4, <1>5 DEF Next

(* No bucket overflows, whatever the faults: refilling and taking keep it  *)
(* below its limiter's capacity, and no refill is dated in the future      *)
(* (ServeHTTP of both limiters).                                           *)
THEOREM BucketsNeverOverflow == Spec => []TypeOK
<1>1. TypeInv => TypeOK
  <2> SUFFICES ASSUME TypeInv PROVE TypeOK
    OBVIOUS
  <2>1. now \in Nat /\ now \in Time /\ MaxTime \in Nat
    BY GatewayAssumption DEF TypeInv, MeterInv, Time
  <2>2. ASSUME NEW k \in DOMAIN bucket
        PROVE  /\ bucket[k].available \in 0..(Capacity(k[1]) - 1)
               /\ bucket[k].last \in Time /\ bucket[k].expires \in Nat
    BY <2>1, RatesTyped DEF TypeInv, BucketsTyped, StateType, Time
  <2> QED
    BY <2>1, <2>2
       DEF TypeOK, TypeInv, MeterInv, BucketsTyped, RequestInv, RequestType
<1> QED
  BY <1>1, TypeInit, TypeStep, PTL DEF Spec

-----------------------------------------------------------------------------
(* What requests do beside the two steps that touch the buckets. *)

(* No token changes hands. *)
Kept(p) ==
    \/ reqs'[p] = reqs[p]
    \/ /\ ~Started(p) /\ Started(p)'
       /\ reqs'[p].spent = NoCaller /\ reqs'[p].at = 0 /\ reqs'[p].answer = "none"
       /\ reqs'[p].pc \in {"lock", "authorize"}
    \/ /\ Started(p) /\ Started(p)'
       /\ reqs'[p].spent = reqs[p].spent /\ reqs'[p].at = reqs[p].at
       /\ reqs'[p].offer = reqs[p].offer /\ reqs'[p].pc # "write"
       /\ reqs'[p].answer = "rate_limited" =>
             reqs[p].answer = "rate_limited" /\ reqs'[p].limiter = reqs[p].limiter
       /\ reqs'[p].pc \in {"lock", "read"} =>
             reqs[p].pc = "lock" \/ (reqs[p].pc = "authorize" /\ Gate(reqs[p].offer) = "lock")
       /\ reqs'[p].pc = "authorize" =>
             reqs[p].pc = "unlock" /\ reqs[p].limiter = "ip"

Quiet == bucket' = bucket /\ now <= now' /\ \A p \in Requests : Kept(p)

(* The fields of a request that has begun. *)
LEMMA RequestFields ==
    ASSUME MeterInv, NEW q \in Requests, Started(q)
    PROVE  /\ RequestType(reqs[q]) /\ Metered(reqs[q]) /\ DOMAIN reqs[q] = Fields
           /\ DOMAIN reqs = Requests /\ now \in Nat
BY GatewayAssumption DEF MeterInv, RequestInv, RequestType, Time

LEMMA MovesKept ==
    ASSUME MeterInv, NEW q \in Requests,
           Lock(q) \/ LockFails(q) \/ Unlock(q) \/ Authorization(q) \/ Dispatch(q)
    PROVE  bucket' = bucket /\ now' = now /\ \A p \in Requests : Kept(p)
<1> DEFINE r == reqs[q]
<1>1. Started(q) /\ bucket' = bucket /\ now' = now
  BY DEF Lock, LockFails, Unlock, Authorization, Dispatch, Started
<1>2. RequestType(r) /\ Metered(r) /\ DOMAIN r = Fields /\ DOMAIN reqs = Requests
  BY <1>1, RequestFields
<1>3. \A p \in Requests : p # q => reqs'[p] = reqs[p]
  BY <1>2 DEF Lock, LockFails, Unlock, Authorization, Dispatch, Answer, Passed
<1>4. CASE Lock(q)
  BY <1>1, <1>2, <1>3, <1>4 DEF Lock, Kept, Started, Fields, Metered
<1>5. CASE LockFails(q)
  BY <1>1, <1>2, <1>3, <1>5 DEF LockFails, Answer, Kept, Started, Fields
<1>6. CASE Unlock(q)
  BY <1>1, <1>2, <1>3, <1>6 DEF Unlock, Answer, Passed, Kept, Started, Fields
<1>7. CASE Authorization(q)
  BY <1>1, <1>2, <1>3, <1>7, GateCases DEF Authorization, Answer, Kept, Started, Fields, Metered
<1>8. CASE Dispatch(q)
  BY <1>1, <1>2, <1>3, <1>8 DEF Dispatch, Answer, Kept, Started, Fields
<1> QED
  BY <1>1, <1>4, <1>5, <1>6, <1>7, <1>8

LEMMA QuietSteps ==
    ASSUME MeterInv, [Next]_vars, \A q \in Requests : ~Read(q) /\ ~Write(q)
    PROVE  Quiet
<1>1. now \in Nat /\ DOMAIN reqs = Requests
  BY GatewayAssumption DEF MeterInv, Time
<1>2. ASSUME NEW q \in Requests, NEW s \in Servers, NEW offer \in Offers, Arrive(q, s, offer)
      PROVE  Quiet
  <2>1. bucket' = bucket /\ now' = now /\ (\A p \in Requests : p # q => reqs'[p] = reqs[p])
    BY <1>1, <1>2 DEF Arrive
  <2>2. Kept(q)
    BY <1>1, <1>2 DEF Arrive, Kept, Started, Idle
  <2> QED
    BY <1>1, <2>1, <2>2 DEF Quiet, Kept
<1>3. ASSUME NEW q \in Requests, RequestStep(q) PROVE Quiet
  BY <1>1, <1>3, MovesKept DEF RequestStep, Quiet
<1>4. ASSUME NEW s \in Servers, Crash(s) PROVE Quiet
  <2>1. bucket' = bucket /\ now' = now
    BY <1>4 DEF Crash
  <2>2. ASSUME NEW p \in Requests PROVE Kept(p)
    <3> DEFINE lost == [reqs[p] EXCEPT !.pc = "answered", !.answer = "lost"]
    <3>1. reqs'[p] = reqs[p] \/ (Started(p) /\ reqs'[p] = lost)
      BY <1>4 DEF Crash
    <3>2. CASE Started(p) /\ reqs'[p] = lost
      BY <3>2, RequestFields DEF Kept, Started, Fields
    <3> QED
      BY <3>1, <3>2 DEF Kept
  <2> QED
    BY <1>1, <2>1, <2>2 DEF Quiet
<1>5. CASE ExpireLock \/ Tick \/ Finished \/ UNCHANGED vars
  <2>1. reqs' = reqs /\ bucket' = bucket /\ now <= now'
    BY <1>1, <1>5 DEF ExpireLock, Tick, Finished, vars
  <2> QED
    BY <2>1 DEF Quiet, Kept
<1> QED
  BY <1>2, <1>3, <1>4, <1>5 DEF Next

(* A request reads a bucket. *)
LEMMA ReadAt ==
    ASSUME MeterInv, NEW q \in Requests, Read(q)
    PROVE  /\ UNCHANGED <<now, bucket, lock>> /\ Started(q) /\ Started(q)' /\ reqs[q].pc = "read"
           /\ \A p \in Requests : p # q => reqs'[p] = reqs[p]
           /\ reqs'[q].spent = reqs[q].spent /\ reqs'[q].offer = reqs[q].offer
           /\ reqs'[q].limiter = reqs[q].limiter /\ reqs'[q].server = reqs[q].server
           /\ \/ /\ reqs'[q].pc = "write" /\ reqs'[q].at = now /\ reqs'[q].answer = "none"
                 /\ reqs'[q].found = ReadBucket(reqs[q]) /\ ReadBucket(reqs[q]).available > 0
              \/ /\ reqs'[q].pc = "unlock" /\ reqs'[q].at = now
                 /\ reqs'[q].answer = "rate_limited" /\ ReadBucket(reqs[q]).available = 0
              \/ /\ reqs'[q].pc = "unlock" /\ reqs'[q].at = reqs[q].at
                 /\ reqs'[q].answer = "internal"
<1> DEFINE r == reqs[q]
           b == ReadBucket(r)
           t1 == [r EXCEPT !.pc = "write", !.found = b, !.at = now]
           t2 == [r EXCEPT !.pc = "unlock", !.answer = "rate_limited", !.at = now]
           t3 == [r EXCEPT !.pc = "unlock", !.answer = "internal"]
<1>1. Started(q) /\ r.pc = "read" /\ UNCHANGED <<now, bucket, lock>>
  BY DEF Read, Started
<1>2. DOMAIN r = Fields /\ r.answer = "none" /\ DOMAIN reqs = Requests
  BY <1>1, RequestFields DEF Metered
<1>3. \/ b.available > 0 /\ reqs' = [reqs EXCEPT ![q] = t1]
      \/ b.available = 0 /\ reqs' = [reqs EXCEPT ![q] = t2]
      \/ reqs' = [reqs EXCEPT ![q] = t3]
  BY DEF Read
<1> HIDE DEF b
<1>4. /\ t1.pc = "write" /\ t1.at = now /\ t1.answer = "none" /\ t1.found = b
      /\ t2.pc = "unlock" /\ t2.at = now /\ t2.answer = "rate_limited"
      /\ t3.pc = "unlock" /\ t3.at = r.at /\ t3.answer = "internal"
      /\ \A t \in {t1, t2, t3} :
            t.spent = r.spent /\ t.offer = r.offer /\ t.limiter = r.limiter /\ t.server = r.server
  BY <1>2 DEF Fields
<1> HIDE DEF t1, t2, t3
<1> QED
  BY <1>1, <1>2, <1>3, <1>4 DEF Started, b

(* A request takes a token, or fails to. *)
NextState(r) ==
    [last |-> r.found.last, available |-> r.found.available - 1, expires |-> now + TTL(r.limiter)]

LEMMA WriteAt ==
    ASSUME MeterInv, NEW q \in Requests, Write(q)
    PROVE  /\ now' = now /\ lock' = lock /\ Started(q) /\ Started(q)' /\ reqs[q].pc = "write"
           /\ \A p \in Requests : p # q => reqs'[p] = reqs[p]
           /\ reqs'[q].pc = "unlock" /\ reqs'[q].answer \in {"none", "internal"}
           /\ reqs'[q].at = reqs[q].at /\ reqs'[q].offer = reqs[q].offer
           /\ reqs'[q].limiter = reqs[q].limiter /\ reqs'[q].server = reqs[q].server
           /\ \/ /\ Put(BucketKey(reqs[q]), NextState(reqs[q]))
                 /\ reqs'[q].spent = BucketKey(reqs[q])
              \/ bucket' = bucket /\ reqs'[q].spent = reqs[q].spent
<1> DEFINE r == reqs[q]
           t(a) == [r EXCEPT !.pc = "unlock", !.found = Nothing, !.spent = Caller(r), !.answer = a]
           u == [r EXCEPT !.pc = "unlock", !.found = Nothing, !.answer = "internal"]
<1>1. Started(q) /\ r.pc = "write" /\ now' = now /\ lock' = lock
  BY DEF Write, Started
<1>2. DOMAIN r = Fields /\ DOMAIN reqs = Requests
  BY <1>1, RequestFields
<1>3. Caller(r) = BucketKey(r)
  BY DEF Caller, BucketKey
<1>4. \/ Put(BucketKey(r), NextState(r)) /\ \E a \in {"none", "internal"} : reqs' = [reqs EXCEPT ![q] = t(a)]
      \/ bucket' = bucket /\ reqs' = [reqs EXCEPT ![q] = u]
  BY DEF Write, NextState
<1>5. CASE bucket' = bucket /\ reqs' = [reqs EXCEPT ![q] = u]
  <2>1. /\ u.pc = "unlock" /\ u.answer = "internal" /\ u.at = r.at /\ u.offer = r.offer
        /\ u.limiter = r.limiter /\ u.server = r.server /\ u.spent = r.spent
    BY <1>2 DEF Fields
  <2> HIDE DEF u
  <2> QED
    BY <1>1, <1>2, <1>5, <2>1 DEF Started
<1>6. ASSUME Put(BucketKey(r), NextState(r)), NEW a \in {"none", "internal"},
             reqs' = [reqs EXCEPT ![q] = t(a)]
      PROVE  /\ Started(q)' /\ \A p \in Requests : p # q => reqs'[p] = reqs[p]
             /\ reqs'[q].pc = "unlock" /\ reqs'[q].answer \in {"none", "internal"}
             /\ reqs'[q].at = reqs[q].at /\ reqs'[q].offer = reqs[q].offer
             /\ reqs'[q].limiter = reqs[q].limiter /\ reqs'[q].server = reqs[q].server
             /\ reqs'[q].spent = BucketKey(reqs[q])
  <2> DEFINE v == t(a)
  <2>1. /\ v.pc = "unlock" /\ v.answer = a /\ v.at = r.at /\ v.offer = r.offer
        /\ v.limiter = r.limiter /\ v.server = r.server /\ v.spent = Caller(r)
    BY <1>2 DEF Fields
  <2>2. reqs' = [reqs EXCEPT ![q] = v]
    BY <1>6
  <2> HIDE DEF v, t
  <2> QED
    BY <1>2, <1>3, <2>1, <2>2 DEF Started
<1> HIDE DEF t, u
<1> QED
  BY <1>1, <1>4, <1>5, <1>6

-----------------------------------------------------------------------------
(* Counting what a caller has spent. *)

(* A request spends once: it enters no limiter after it has paid, and its  *)
(* bucket is there when it has.                                            *)
Sound(q) ==
    Started(q) =>
        /\ reqs[q].at <= now
        /\ reqs[q].pc \in {"lock", "read", "write"}
              \/ (reqs[q].pc = "authorize" /\ Gate(reqs[q].offer) = "lock")
           => reqs[q].spent = NoCaller
        /\ reqs[q].spent # NoCaller => reqs[q].spent \in DOMAIN bucket
        /\ reqs[q].pc = "write" => reqs[q].found.last <= reqs[q].at

SomeStarted == {q \in Requests : Started(q)}

SpendInv == TypeInv /\ IsFiniteSet(SomeStarted) /\ \A q \in Requests : Sound(q)

(* The callers of the model are none of its null values. *)
LEMMA CallerNamed ==
    ASSUME MeterInv, NEW q \in Requests, Started(q), reqs[q].pc \in InLimiter
    PROVE  BucketKey(reqs[q]) # NoCaller /\ Caller(reqs[q]) = BucketKey(reqs[q])
           /\ BucketKey(reqs[q])[1] = reqs[q].limiter
<1> DEFINE r == reqs[q]
<1>1. RequestType(r) /\ Metered(r) /\ r.offer \in Offers /\ r.limiter \in {"ip", "user"}
  BY RequestFields DEF RequestType
<1>2. r.limiter = "user" => r.offer.token \notin {NoToken, BadToken}
  BY <1>1 DEF Metered, Gate
<1> QED
  BY <1>1, <1>2, NullAssumption DEF BucketKey, Caller

LEMMA StartedFew ==
    ASSUME MeterInv, IsFiniteSet(SomeStarted), [Next]_vars
    PROVE  IsFiniteSet(SomeStarted')
<1>1. DOMAIN reqs = Requests
  BY DEF MeterInv
<1>2. CASE \E q \in Requests, s \in Servers, offer \in Offers : Arrive(q, s, offer)
  <2>1. PICK q \in Requests, s \in Servers, offer \in Offers : Arrive(q, s, offer)
    BY <1>2
  <2>2. SomeStarted' \subseteq SomeStarted \union {q}
    BY <1>1, <2>1 DEF Arrive, SomeStarted, Started
  <2>3. IsFiniteSet(SomeStarted \union {q})
    BY FS_AddElement
  <2> QED
    BY <2>2, <2>3, FS_Subset
<1>3. CASE \A q \in Requests : Started(q)' => Started(q)
  <2>1. SomeStarted' \subseteq SomeStarted
    BY <1>3 DEF SomeStarted
  <2> QED
    BY <2>1, FS_Subset
<1>4. ASSUME NEW q \in Requests, RequestStep(q) PROVE \A p \in Requests : Started(p)' => Started(p)
  <2>1. Started(q) /\ \A p \in Requests : p # q => reqs'[p] = reqs[p]
    BY <1>1, <1>4
       DEF RequestStep, Lock, LockFails, Read, Write, Unlock, Authorization, Dispatch, Answer,
           Passed, Started
  <2> QED
    BY <2>1 DEF Started
<1>5. ASSUME NEW s \in Servers, Crash(s) PROVE \A p \in Requests : Started(p)' => Started(p)
  BY <1>5 DEF Crash, Started
<1>6. CASE ExpireLock \/ Tick \/ Finished \/ UNCHANGED vars
  BY <1>3, <1>6 DEF ExpireLock, Tick, Finished, vars, Started
<1> QED
  BY <1>2, <1>3, <1>4, <1>5, <1>6 DEF Next

LEMMA SpentTyped ==
    ASSUME IsFiniteSet(SomeStarted), NEW k, NEW s, NEW t
    PROVE  IsFiniteSet(SpentIn(k, s, t)) /\ Spent(k, s, t) \in Nat
<1>1. SpentIn(k, s, t) \subseteq SomeStarted
  BY DEF SpentIn, SomeStarted
<1>2. IsFiniteSet(SpentIn(k, s, t))
  BY <1>1, FS_Subset
<1> QED
  BY <1>2, FS_CardinalityType DEF Spent

(* Only writing a bucket spends: the writer, and the tokens of its caller. *)
Spends(q) ==
    /\ Put(BucketKey(reqs[q]), NextState(reqs[q]))
    /\ reqs'[q].spent = BucketKey(reqs[q])

LEMMA SpentUnchanged ==
    ASSUME SpendInv, [Next]_vars, NEW k, k # NoCaller, NEW s, NEW t,
           \A q \in Requests : Write(q) /\ Spends(q) => k # BucketKey(reqs[q])
    PROVE  SpentIn(k, s, t)' = SpentIn(k, s, t)
<1>1. MeterInv /\ \A q \in Requests : Sound(q)
  BY DEF SpendInv, TypeInv
<1>2. CASE \A q \in Requests : ~Read(q) /\ ~Write(q)
  <2>1. \A p \in Requests : Kept(p)
    BY <1>1, <1>2, QuietSteps DEF Quiet
  <2> QED
    BY <2>1 DEF Kept, SpentIn, Started
<1>3. ASSUME NEW q \in Requests, Read(q) PROVE SpentIn(k, s, t)' = SpentIn(k, s, t)
  <2>1. /\ Started(q) /\ Started(q)' /\ reqs'[q].spent = NoCaller /\ reqs[q].spent = NoCaller
        /\ \A p \in Requests : p # q => reqs'[p] = reqs[p]
    BY <1>1, <1>3, ReadAt DEF Sound
  <2> QED
    BY <2>1 DEF SpentIn, Started
<1>4. ASSUME NEW q \in Requests, Write(q) PROVE SpentIn(k, s, t)' = SpentIn(k, s, t)
  <2>1. /\ Started(q) /\ Started(q)' /\ reqs[q].spent = NoCaller
        /\ \A p \in Requests : p # q => reqs'[p] = reqs[p]
        /\ reqs'[q].spent # k
    BY <1>1, <1>4, WriteAt DEF Sound, Spends
  <2> QED
    BY <2>1 DEF SpentIn, Started
<1> QED
  BY <1>2, <1>3, <1>4

LEMMA SpentOne ==
    ASSUME SpendInv, NEW q \in Requests, Write(q), Spends(q), NEW s, NEW t,
           NEW k, k = BucketKey(reqs[q])
    PROVE  Spent(k, s, t)' = Spent(k, s, t) + IF reqs[q].at \in s..t THEN 1 ELSE 0
<1>1. MeterInv /\ Sound(q) /\ IsFiniteSet(SomeStarted)
  BY DEF SpendInv, TypeInv
<1>2. /\ Started(q) /\ Started(q)' /\ reqs[q].spent = NoCaller /\ reqs[q].pc = "write"
      /\ \A p \in Requests : p # q => reqs'[p] = reqs[p]
      /\ reqs'[q].spent = k /\ reqs'[q].at = reqs[q].at
  BY <1>1, WriteAt DEF Sound, Spends
<1>3. k # NoCaller
  BY <1>1, <1>2, CallerNamed DEF InLimiter, Critical
<1>4. q \notin SpentIn(k, s, t)
  BY <1>2, <1>3 DEF SpentIn
<1>5. IsFiniteSet(SpentIn(k, s, t)) /\ Spent(k, s, t) \in Nat
  BY <1>1, SpentTyped
<1>6. SpentIn(k, s, t)' =
        IF reqs[q].at \in s..t THEN SpentIn(k, s, t) \union {q} ELSE SpentIn(k, s, t)
  BY <1>2 DEF SpentIn, Started
<1>7. Cardinality(SpentIn(k, s, t) \union {q}) = Spent(k, s, t) + 1
  BY <1>4, <1>5, FS_AddElement DEF Spent
<1>8. Spent(k, s, t)' = Cardinality(SpentIn(k, s, t)')
  BY DEF Spent
<1>9. CASE reqs[q].at \in s..t
  BY <1>6, <1>7, <1>8, <1>9
<1>10. CASE reqs[q].at \notin s..t
  <2>1. Spent(k, s, t)' = Spent(k, s, t)
    BY <1>6, <1>10 DEF Spent
  <2> QED
    BY <1>5, <1>10, <2>1
<1> QED
  BY <1>9, <1>10

LEMMA SoundStep ==
    ASSUME SpendInv, [Next]_vars, NEW q \in Requests
    PROVE  Sound(q)'
<1>1. MeterInv /\ TypeInv /\ (\A p \in Requests : Sound(p)) /\ now \in Nat /\ now' \in Nat /\ MeterInv'
  BY MeterStep, GatewayAssumption DEF SpendInv, TypeInv, MeterInv, Time
<1>2. CASE \A p \in Requests : ~Read(p) /\ ~Write(p)
  <2>1. Kept(q) /\ bucket' = bucket /\ now <= now'
    BY <1>1, <1>2, QuietSteps DEF Quiet
  <2>2. CASE reqs'[q] = reqs[q]
    <3>1. Started(q)' <=> Started(q)
      BY <2>2 DEF Started
    <3>2. Started(q) => reqs[q].at \in Nat
      BY <1>1, RequestFields, GatewayAssumption DEF RequestType, Time
    <3> QED
      BY <1>1, <2>1, <2>2, <3>1, <3>2 DEF Sound
  <2>3. CASE ~Started(q) /\ Started(q)' /\ reqs'[q].spent = NoCaller /\ reqs'[q].at = 0
             /\ reqs'[q].pc \in {"lock", "authorize"}
    BY <1>1, <2>3 DEF Sound
  <2>4. CASE Started(q) /\ Started(q)' /\ reqs'[q] # reqs[q]
    <3>1. /\ RequestType(reqs[q]) /\ Metered(reqs[q]) /\ reqs[q].at \in Nat
      BY <1>1, <2>4, RequestFields, GatewayAssumption DEF RequestType, Time
    <3>2. reqs[q].pc = "unlock" /\ reqs[q].limiter = "ip" => Gate(reqs[q].offer) # "lock"
      BY <3>1, GateCases DEF Metered, InLimiter, Critical
    <3> QED
      BY <1>1, <2>1, <2>4, <3>1, <3>2 DEF Kept, Sound
  <2> QED
    BY <2>1, <2>2, <2>3, <2>4 DEF Kept
<1>3. ASSUME NEW p \in Requests, Read(p) PROVE Sound(q)'
  <2>1. CASE q # p
    <3>1. reqs'[q] = reqs[q] /\ bucket' = bucket /\ now' = now
      BY <1>1, <1>3, <2>1, ReadAt
    <3> QED
      BY <1>1, <3>1 DEF Sound, Started
  <2>2. CASE q = p
    <3>1. /\ Started(q) /\ now' = now /\ bucket' = bucket /\ reqs'[q].spent = reqs[q].spent
          /\ reqs[q].spent = NoCaller /\ reqs[q].at <= now
          /\ (reqs'[q].at = now \/ reqs'[q].at = reqs[q].at)
          /\ reqs'[q].pc \in {"write", "unlock"}
          /\ reqs'[q].pc = "write" =>
                reqs'[q].at = now /\ reqs'[q].found = ReadBucket(reqs[q])
      BY <1>1, <1>3, <2>2, ReadAt DEF Sound
    <3>2. StateType(ReadBucket(reqs[q]), reqs[q].limiter)
      BY <1>1, <3>1, RequestFields, ReadTyped DEF TypeInv, RequestType
    <3>3. ReadBucket(reqs[q]).last <= now
      BY <1>1, <3>2 DEF StateType
    <3> QED
      BY <1>1, <3>1, <3>3 DEF Sound
  <2> QED
    BY <2>1, <2>2
<1>4. ASSUME NEW p \in Requests, Write(p) PROVE Sound(q)'
  <2>1. DOMAIN bucket \subseteq DOMAIN bucket' /\ now' = now
    BY <1>1, <1>4, WriteAt DEF Put
  <2>2. CASE q # p
    <3>1. reqs'[q] = reqs[q]
      BY <1>1, <1>4, <2>2, WriteAt
    <3> QED
      BY <1>1, <2>1, <3>1 DEF Sound, Started
  <2>3. CASE q = p
    <3>1. /\ Started(q) /\ reqs'[q].at = reqs[q].at /\ reqs[q].at <= now /\ reqs'[q].pc = "unlock"
          /\ reqs[q].spent = NoCaller
          /\ \/ reqs'[q].spent = reqs[q].spent
             \/ Put(BucketKey(reqs[q]), NextState(reqs[q])) /\ reqs'[q].spent = BucketKey(reqs[q])
      BY <1>1, <1>4, <2>3, WriteAt DEF Sound
    <3>2. reqs'[q].spent # NoCaller => reqs'[q].spent \in DOMAIN bucket'
      BY <3>1 DEF Put
    <3> QED
      BY <2>1, <3>1, <3>2 DEF Sound
  <2> QED
    BY <2>2, <2>3
<1> QED
  BY <1>2, <1>3, <1>4

LEMMA SpendInit == Init => SpendInv
<1> SUFFICES ASSUME Init PROVE SpendInv
  OBVIOUS
<1>1. SomeStarted = {} /\ \A q \in Requests : ~Started(q)
  BY DEF Init, Idle, SomeStarted, Started
<1> QED
  BY <1>1, TypeInit, FS_EmptySet DEF SpendInv, Sound

LEMMA SpendStep == SpendInv /\ [Next]_vars => SpendInv'
<1> SUFFICES ASSUME SpendInv, [Next]_vars PROVE SpendInv'
  OBVIOUS
<1>1. TypeInv'
  BY TypeStep DEF SpendInv
<1>2. IsFiniteSet(SomeStarted)'
  BY StartedFew DEF SpendInv, TypeInv
<1>3. \A q \in Requests : Sound(q)'
  BY SoundStep
<1> QED
  BY <1>1, <1>2, <1>3 DEF SpendInv

-----------------------------------------------------------------------------
(* Tokens in ticks of refill. *)

Worth(k, n) == n * Refill(k[1])
Full(k) == Worth(k, Capacity(k[1]))

LEMMA WorthFacts ==
    ASSUME NEW k, NEW m \in Int, NEW n \in Int
    PROVE  /\ Worth(k, m) \in Int /\ (m >= 0 => Worth(k, m) >= 0)
           /\ Worth(k, m + n) = Worth(k, m) + Worth(k, n)
           /\ m <= n => Worth(k, m) <= Worth(k, n)
           /\ m < n => Worth(k, m) + Refill(k[1]) <= Worth(k, n)
           /\ Worth(k, 1) = Refill(k[1])
<1> DEFINE R == Refill(k[1])
<1>1. R \in Nat /\ R > 0
  BY RatesTyped
<1> HIDE DEF R
<1>2. m * R \in Int /\ n * R \in Int /\ (m + n) * R = m * R + n * R /\ 1 * R = R
  BY <1>1
<1>3. m >= 0 => m * R >= 0
  BY <1>1
<1>4. ASSUME NEW d \in Nat PROVE (m + d) * R = m * R + d * R /\ d * R >= 0 /\ (d > 0 => d * R >= R)
  BY <1>1
<1>5. m <= n => m * R <= n * R
  <2> SUFFICES ASSUME m <= n PROVE m * R <= n * R
    OBVIOUS
  <2>1. n - m \in Nat /\ m + (n - m) = n
    OBVIOUS
  <2>2. n * R = m * R + (n - m) * R /\ (n - m) * R >= 0
    BY <1>4, <2>1
  <2>3. (n - m) * R \in Int
    BY <1>1, <2>1
  <2> QED
    BY <1>2, <2>2, <2>3
<1>6. m < n => m * R + R <= n * R
  <2> SUFFICES ASSUME m < n PROVE m * R + R <= n * R
    OBVIOUS
  <2>1. n - m \in Nat /\ n - m > 0 /\ m + (n - m) = n
    OBVIOUS
  <2>2. n * R = m * R + (n - m) * R /\ (n - m) * R >= R
    BY <1>4, <2>1
  <2> QED
    BY <1>1, <1>2, <2>2
<1> QED
  BY <1>2, <1>3, <1>5, <1>6 DEF Worth, R

(* What reading finds, in ticks: time is turned into tokens without loss   *)
(* and without gain, unless the bucket is full.                            *)
LEMMA RefilledWorth ==
    ASSUME now \in Nat, NEW k, NEW state, StateType(state, k[1]), state.available < Capacity(k[1])
    PROVE  LET b == Refilled(state, k[1])
           IN  /\ state.last <= b.last /\ b.last <= now /\ b.available \in Nat
               /\ Worth(k, b.available) + now - b.last <= Full(k)
               /\ \/ b.last = now /\ b.available = Capacity(k[1])
                     /\ Full(k) <= Worth(k, state.available) + now - state.last
                  \/ /\ now - b.last < Refill(k[1])
                     /\ Worth(k, b.available) - b.last = Worth(k, state.available) - state.last
<1> DEFINE R == Refill(k[1])
           C == Capacity(k[1])
           elapsed == now - state.last
           tokens == elapsed \div R
           rest == elapsed % R
           b == Refilled(state, k[1])
<1>1. /\ C \in Nat /\ C > 0 /\ R \in Nat /\ R > 0
      /\ state.last \in 0..now /\ state.available \in 0..C /\ state.available < C
  BY RatesTyped DEF StateType
<1>2. elapsed \in Nat
  BY <1>1
<1>3. tokens \in Nat /\ rest \in 0..elapsed /\ rest < R /\ elapsed = tokens * R + rest
  <2> HIDE DEF R, elapsed
  <2> QED
    BY <1>1, <1>2
<1>4. b = IF tokens = 0 THEN [last |-> state.last, available |-> state.available]
          ELSE IF tokens + state.available < C
          THEN [last |-> now - rest, available |-> tokens + state.available]
          ELSE [last |-> now, available |-> C]
  BY DEF Refilled
<1>5. Worth(k, tokens) = tokens * R
  BY DEF Worth
<1> HIDE DEF tokens, rest, b, C, R
<1>6. \A n \in Nat : n < C => Worth(k, n) + R <= Full(k)
  BY <1>1, WorthFacts DEF Full, C, R
<1>7. Worth(k, state.available) \in Int /\ Worth(k, tokens) \in Int /\ Full(k) \in Int
      /\ Worth(k, tokens + state.available) = Worth(k, tokens) + Worth(k, state.available)
  <2>1. tokens \in Int /\ state.available \in Int /\ C \in Int
    BY <1>1, <1>3
  <2>2. Full(k) = Worth(k, C)
    BY DEF Full, C
  <2> QED
    BY <2>1, <2>2, WorthFacts
<1>8. CASE tokens = 0
  <2>1. b.last = state.last /\ b.available = state.available
    BY <1>4, <1>8
  <2>2. elapsed = rest
    BY <1>1, <1>2, <1>3, <1>8
  <2> QED
    BY <1>1, <1>2, <1>3, <1>6, <1>7, <2>1, <2>2 DEF b, R, C
<1>9. CASE tokens # 0 /\ tokens + state.available < C
  <2>1. b.last = now - rest /\ b.available = tokens + state.available
    BY <1>4, <1>9
  <2>2. Worth(k, tokens + state.available) + R <= Full(k)
    BY <1>1, <1>3, <1>6, <1>9
  <2> QED
    BY <1>1, <1>2, <1>3, <1>5, <1>7, <2>1, <2>2 DEF b, R, C
<1>10. CASE tokens # 0 /\ ~(tokens + state.available < C)
  <2>1. b.last = now /\ b.available = C
    BY <1>4, <1>10
  <2>2. Worth(k, C) = Full(k)
    BY DEF Full, C
  <2>3. C \in Int /\ tokens + state.available \in Int /\ C <= tokens + state.available
    BY <1>1, <1>3, <1>10
  <2>4. Full(k) <= Worth(k, tokens + state.available)
    BY <2>2, <2>3, WorthFacts
  <2> QED
    BY <1>1, <1>2, <1>3, <1>5, <1>7, <2>1, <2>2, <2>4 DEF b, R, C
<1> QED
  BY <1>8, <1>9, <1>10

-----------------------------------------------------------------------------
(* Nobody is refused who has not spent. *)

(* Since a time s at which the bucket was full, its caller has spent all   *)
(* that is missing from it now.                                            *)
Earned(k, last, available) ==
    \E s \in 0..last :
        Worth(k, Spent(k, s, MaxTime) + available) >= Full(k) + last - s

(* The same in the words of RefusedWhenSpent. *)
UsedUp(caller, limiter, at) ==
    \E s \in 0..at :
        Spent(caller, s, at) >= Capacity(limiter) + ((at - s) \div Refill(limiter))

Refused(q) ==
    Started(q) /\ reqs[q].answer = "rate_limited" =>
        /\ Caller(reqs[q]) # NoCaller
        /\ UsedUp(Caller(reqs[q]), reqs[q].limiter, reqs[q].at)

DrawnInv ==
    /\ SpendInv
    /\ \A k \in DOMAIN bucket :
          k # NoCaller => Earned(k, bucket[k].last, bucket[k].available)
    /\ \A q \in Requests : Started(q) /\ reqs[q].pc = "write" =>
          Earned(BucketKey(reqs[q]), reqs[q].found.last, reqs[q].found.available)
    /\ \A q \in Requests : Refused(q)

LEMMA SpentGrows ==
    ASSUME SpendInv, [Next]_vars, NEW k, k # NoCaller, NEW s, NEW t
    PROVE  /\ Spent(k, s, t) \in Nat /\ Spent(k, s, t)' \in Nat
           /\ Spent(k, s, t) <= Spent(k, s, t)'
<1>1. Spent(k, s, t) \in Nat
  BY SpentTyped DEF SpendInv
<1>2. CASE \E q \in Requests : Write(q) /\ Spends(q) /\ k = BucketKey(reqs[q])
  <2>1. PICK q \in Requests : Write(q) /\ Spends(q) /\ k = BucketKey(reqs[q])
    BY <1>2
  <2>2. Spent(k, s, t)' = Spent(k, s, t) + IF reqs[q].at \in s..t THEN 1 ELSE 0
    BY <2>1, SpentOne
  <2> QED
    BY <1>1, <2>2
<1>3. CASE \A q \in Requests : Write(q) /\ Spends(q) => k # BucketKey(reqs[q])
  <2>1. SpentIn(k, s, t)' = SpentIn(k, s, t)
    BY <1>3, SpentUnchanged
  <2>2. Spent(k, s, t)' = Spent(k, s, t)
    BY <2>1 DEF Spent
  <2> QED
    BY <1>1, <2>2
<1> QED
  BY <1>2, <1>3

(* Nothing has been spent in the future. *)
LEMMA SpentSoFar ==
    ASSUME SpendInv, NEW k, NEW s \in Nat
    PROVE  Spent(k, s, MaxTime) = Spent(k, s, now)
<1>1. now \in Nat /\ MaxTime \in Nat /\ now <= MaxTime
  BY GatewayAssumption DEF SpendInv, TypeInv, MeterInv, Time
<1>2. ASSUME NEW q \in Requests, Started(q) PROVE reqs[q].at \in s..MaxTime <=> reqs[q].at \in s..now
  <2>1. reqs[q].at \in Nat /\ reqs[q].at <= now
    BY <1>2, RequestFields, GatewayAssumption DEF SpendInv, TypeInv, Sound, RequestType, Time
  <2> QED
    BY <1>1, <2>1
<1>3. SpentIn(k, s, MaxTime) = SpentIn(k, s, now)
  BY <1>2 DEF SpentIn
<1> QED
  BY <1>3 DEF Spent

LEMMA EarnedStays ==
    ASSUME SpendInv, [Next]_vars, NEW k, k # NoCaller, NEW last \in Nat, NEW available \in Int,
           Earned(k, last, available)
    PROVE  Earned(k, last, available)'
<1>1. PICK s \in 0..last : Worth(k, Spent(k, s, MaxTime) + available) >= Full(k) + last - s
  BY DEF Earned
<1> DEFINE m == Spent(k, s, MaxTime)
<1>2. m \in Nat /\ m' \in Nat /\ m <= m'
  BY SpentGrows
<1>3. Full(k) \in Int
  BY RatesTyped, WorthFacts DEF Full
<1>4. Worth(k, m + available) <= Worth(k, m' + available)
      /\ Worth(k, m + available) \in Int /\ Worth(k, m' + available) \in Int
  <2>1. /\ m + available \in Int /\ m' + available \in Int
        /\ m + available <= m' + available
    BY <1>2
  <2> QED
    BY <2>1, WorthFacts
<1>5. Worth(k, m' + available) >= Full(k) + last - s
  <2>1. Worth(k, m + available) >= Full(k) + last - s
    BY <1>1
  <2> HIDE DEF m
  <2> QED
    BY <1>3, <1>4, <2>1
<1> QED
  BY <1>5 DEF Earned, Worth, Full, Refill, Capacity

LEMMA UsedUpStays ==
    ASSUME SpendInv, [Next]_vars, NEW c, c # NoCaller, NEW limiter, NEW at \in Nat,
           UsedUp(c, limiter, at)
    PROVE  UsedUp(c, limiter, at)'
<1>1. PICK s \in 0..at : Spent(c, s, at) >= Capacity(limiter) + ((at - s) \div Refill(limiter))
  BY DEF UsedUp
<1>2. Spent(c, s, at) \in Nat /\ Spent(c, s, at)' \in Nat /\ Spent(c, s, at) <= Spent(c, s, at)'
  BY SpentGrows
<1> DEFINE least == Capacity(limiter) + ((at - s) \div Refill(limiter))
<1>3. least \in Int
  <2>1. Capacity(limiter) \in Nat /\ Refill(limiter) \in Nat \ {0} /\ at - s \in Nat
    BY RatesTyped
  <2> QED
    BY <2>1, Remainder
<1>4. Spent(c, s, at)' >= least
  <2>1. Spent(c, s, at) >= least
    BY <1>1
  <2> HIDE DEF least
  <2> QED
    BY <1>2, <1>3, <2>1
<1> QED
  BY <1>4 DEF UsedUp, Capacity, Refill

(* What a reader finds has been earned, and an empty bucket is used up.    *)
LEMMA ReadEarned ==
    ASSUME DrawnInv, NEW q \in Requests, Started(q), reqs[q].pc \in InLimiter,
           NEW k, k = BucketKey(reqs[q])
    PROVE  LET b == ReadBucket(reqs[q])
           IN  /\ Earned(k, b.last, b.available) /\ b.last \in 0..now /\ b.available \in Nat
               /\ b.available = 0 => now - b.last < Refill(k[1])
<1> DEFINE r == reqs[q]
           b == ReadBucket(r)
<1>1. /\ SpendInv /\ MeterInv /\ now \in Nat /\ k # NoCaller /\ k[1] = r.limiter
      /\ StateType(b, k[1])
  BY CallerNamed, RequestFields, ReadTyped DEF DrawnInv, SpendInv, TypeInv, RequestType
<1>2. b.last \in 0..now /\ b.available \in Nat
  BY <1>1, RatesTyped DEF StateType
<1>3. Capacity(k[1]) \in Nat /\ Capacity(k[1]) > 0 /\ Full(k) \in Int /\ Full(k) = Worth(k, Capacity(k[1]))
  BY RatesTyped, WorthFacts DEF Full
<1>4. ASSUME b.last = now, b.available = Capacity(k[1])
      PROVE  Earned(k, b.last, b.available)
  <2> DEFINE m == Spent(k, now, MaxTime)
  <2>1. m \in Nat
    BY <1>1, SpentTyped DEF SpendInv
  <2>2. Worth(k, m + b.available) >= Full(k)
    <3> HIDE DEF m, b
    <3>1. Capacity(k[1]) <= m + b.available /\ m + b.available \in Int
      BY <1>3, <1>4, <2>1
    <3>2. Capacity(k[1]) \in Int
      BY <1>3
    <3>3. Worth(k, Capacity(k[1])) <= Worth(k, m + b.available)
      BY <3>1, <3>2, WorthFacts
    <3> QED
      BY <1>3, <3>3
  <2>3. Worth(k, m + b.available) >= Full(k) + b.last - now
    <3> HIDE DEF m, b
    <3> QED
      BY <1>1, <1>3, <1>4, <2>2
  <2>4. now \in 0..b.last
    BY <1>1, <1>4
  <2> QED
    BY <2>3, <2>4 DEF Earned
<1>5. CASE k \in DOMAIN bucket /\ now < bucket[k].expires
  <2> DEFINE state == bucket[k]
  <2>1. /\ b = Refilled(state, k[1]) /\ StateType(state, k[1]) /\ state.available < Capacity(k[1])
        /\ Earned(k, state.last, state.available)
    BY <1>1, <1>5 DEF DrawnInv, SpendInv, TypeInv, BucketsTyped, ReadBucket
  <2>2. /\ state.last <= b.last /\ b.last <= now
        /\ \/ b.last = now /\ b.available = Capacity(k[1])
           \/ /\ now - b.last < Refill(k[1])
              /\ Worth(k, b.available) - b.last = Worth(k, state.available) - state.last
    BY <1>1, <2>1, RefilledWorth
  <2>3. state.last \in Nat /\ state.available \in Nat
    BY <1>1, <2>1, RatesTyped DEF StateType
  <2> HIDE DEF b, state
  <2>4. CASE b.last = now /\ b.available = Capacity(k[1])
    BY <1>2, <1>3, <1>4, <2>4 DEF b
  <2>5. CASE /\ now - b.last < Refill(k[1])
             /\ Worth(k, b.available) - b.last = Worth(k, state.available) - state.last
    <3>1. PICK s \in 0..state.last :
            Worth(k, Spent(k, s, MaxTime) + state.available) >= Full(k) + state.last - s
      BY <2>1 DEF Earned
    <3> DEFINE m == Spent(k, s, MaxTime)
    <3>2. m \in Nat
      BY <1>1, SpentTyped DEF SpendInv
    <3>3. Worth(k, m + state.available) >= Full(k) + state.last - s
      BY <3>1
    <3> HIDE DEF m
    <3>4. /\ Worth(k, m + state.available) = Worth(k, m) + Worth(k, state.available)
          /\ Worth(k, m + b.available) = Worth(k, m) + Worth(k, b.available)
          /\ Worth(k, m) \in Int /\ Worth(k, state.available) \in Int /\ Worth(k, b.available) \in Int
      <4>1. m \in Int /\ state.available \in Int /\ b.available \in Int
        BY <1>2, <2>3, <3>2
      <4> QED
        BY <4>1, WorthFacts
    <3>5. Worth(k, m + b.available) >= Full(k) + b.last - s
      BY <1>1, <1>2, <1>3, <2>3, <2>5, <3>3, <3>4
    <3>6. s \in 0..b.last
      BY <1>2, <2>2, <2>3
    <3> QED
      BY <1>2, <2>5, <3>5, <3>6 DEF Earned, m, b
  <2> QED
    BY <2>2, <2>4, <2>5
<1>6. CASE ~(k \in DOMAIN bucket /\ now < bucket[k].expires)
  <2>1. b.last = now /\ b.available = Capacity(k[1])
    BY <1>1, <1>6 DEF ReadBucket
  <2> QED
    BY <1>2, <1>3, <1>4, <2>1
<1> QED
  BY <1>5, <1>6

(* An empty bucket and the time since its last refill make a refusal due.  *)
LEMMA EmptyIsUsedUp ==
    ASSUME SpendInv, NEW k, NEW last \in 0..now, Earned(k, last, 0), now - last < Refill(k[1])
    PROVE  UsedUp(k, k[1], now)
<1> DEFINE C == Capacity(k[1])
           R == Refill(k[1])
<1>1. PICK s \in 0..last : Worth(k, Spent(k, s, MaxTime) + 0) >= Full(k) + last - s
  BY DEF Earned
<1>2. /\ now \in Nat /\ s \in Nat /\ s <= now /\ C \in Nat /\ R \in Nat /\ R > 0
      /\ last \in Nat /\ now - s \in Nat
  BY RatesTyped, GatewayAssumption DEF SpendInv, TypeInv, MeterInv, Time
<1> DEFINE m == Spent(k, s, now)
           d == (now - s) \div R
<1>3. m \in Nat /\ m = Spent(k, s, MaxTime)
  BY <1>2, SpentSoFar, SpentTyped DEF SpendInv
<1>4. Worth(k, m) >= Full(k) + last - s
  <2> HIDE DEF m
  <2>1. Worth(k, m + 0) >= Full(k) + last - s
    BY <1>1, <1>3
  <2> QED
    BY <1>3, <2>1
<1>5. d \in Nat /\ d * R <= now - s
  <2>1. \A a \in Nat : a \div R \in Nat /\ (a \div R) * R <= a
    BY <1>2
  <2> HIDE DEF R
  <2> QED
    BY <1>2, <2>1
<1>6. Worth(k, d) = d * R /\ Full(k) = Worth(k, C)
  BY DEF Worth, Full
<1> HIDE DEF m, d, C, R
<1>7. Worth(k, C + d) = Worth(k, C) + Worth(k, d) /\ Worth(k, C) \in Int /\ Worth(k, d) \in Int
      /\ Worth(k, m) \in Int
  BY <1>2, <1>3, <1>5, WorthFacts
<1>8. ASSUME m < C + d PROVE FALSE
  <2>1. Worth(k, m) + R <= Worth(k, C + d)
    <3>1. C + d \in Int /\ m \in Int
      BY <1>2, <1>3, <1>5
    <3> QED
      BY <1>8, <3>1, WorthFacts DEF R
  <2>2. now - last < R
    BY DEF R
  <2>3. Worth(k, C + d) <= Full(k) + now - s
    BY <1>2, <1>5, <1>6, <1>7
  <2> QED
    BY <1>2, <1>4, <1>6, <1>7, <2>1, <2>2, <2>3
<1>9. m >= C + d
  BY <1>2, <1>3, <1>5, <1>8
<1> QED
  BY <1>2, <1>9 DEF UsedUp, m, d, C, R

(* A token taken and a token spent weigh the same. *)
LEMMA TakenEarned ==
    ASSUME SpendInv, NEW q \in Requests, Write(q), Spends(q), NEW k, k = BucketKey(reqs[q]),
           NEW last \in 0..reqs[q].at, NEW available \in Int, Earned(k, last, available)
    PROVE  Earned(k, last, available - 1)'
<1>1. PICK s \in 0..last : Worth(k, Spent(k, s, MaxTime) + available) >= Full(k) + last - s
  BY DEF Earned
<1>2. Started(q) /\ reqs[q].at \in s..MaxTime
  <2>1. Started(q)
    BY DEF Write, Started
  <2>2. reqs[q].at \in Nat /\ reqs[q].at <= MaxTime
    BY <2>1, RequestFields, GatewayAssumption DEF SpendInv, TypeInv, RequestType, Time
  <2> QED
    BY <2>1, <2>2, GatewayAssumption
<1> DEFINE m == Spent(k, s, MaxTime)
<1>3. m \in Nat /\ m' = m + 1
  BY <1>2, SpentOne, SpentTyped DEF SpendInv
<1>4. Worth(k, m' + (available - 1)) >= Full(k) + last - s
  <2>1. Worth(k, m + available) >= Full(k) + last - s
    BY <1>1
  <2> HIDE DEF m
  <2>2. m' + (available - 1) = m + available
    BY <1>3
  <2> QED
    BY <2>1, <2>2
<1> QED
  BY <1>4 DEF Earned, Worth, Full, Refill, Capacity

LEMMA StoredDrawn ==
    ASSUME DrawnInv, [Next]_vars, NEW k \in DOMAIN bucket', k # NoCaller
    PROVE  Earned(k, bucket[k].last, bucket[k].available)'
<1>1. SpendInv /\ MeterInv
  BY DEF DrawnInv, SpendInv, TypeInv
<1>2. CASE k \in DOMAIN bucket /\ bucket'[k] = bucket[k]
  <2>1. Earned(k, bucket[k].last, bucket[k].available)
    BY <1>2 DEF DrawnInv
  <2>2. bucket[k].last \in Nat /\ bucket[k].available \in Int
    BY <1>1, <1>2, RatesTyped, GatewayAssumption
       DEF SpendInv, TypeInv, BucketsTyped, StateType, MeterInv, Time
  <2> QED
    BY <1>1, <1>2, <2>1, <2>2, EarnedStays
<1>3. ASSUME NEW q \in Requests, Write(q), Spends(q), k = BucketKey(reqs[q])
      PROVE  Earned(k, bucket[k].last, bucket[k].available)'
  <2> DEFINE r == reqs[q]
  <2>1. Started(q) /\ r.pc = "write"
    BY <1>3 DEF Write, Started
  <2>2. Earned(k, r.found.last, r.found.available)
    BY <1>3, <2>1 DEF DrawnInv
  <2>3. r.found.last \in 0..r.at /\ r.found.available \in Int
    <3>1. StateType(r.found, r.limiter) /\ r.found.last <= r.at /\ r.at \in Nat /\ now \in Nat
      BY <1>1, <2>1, RequestFields, GatewayAssumption
         DEF SpendInv, TypeInv, BucketsTyped, Sound, RequestType, Time
    <3> QED
      BY <3>1, RatesTyped DEF StateType
  <2>4. bucket'[k].last = r.found.last /\ bucket'[k].available = r.found.available - 1
    BY <1>3 DEF Spends, Put, NextState
  <2>5. \A last \in 0..r.at, available \in Int :
           Earned(k, last, available) => Earned(k, last, available - 1)'
    BY <1>1, <1>3, TakenEarned
  <2> QED
    BY <2>2, <2>3, <2>4, <2>5
<1>4. CASE bucket' = bucket
  BY <1>2, <1>4
<1>5. ASSUME NEW q \in Requests, Write(q) PROVE Earned(k, bucket[k].last, bucket[k].available)'
  <2>1. CASE bucket' = bucket
    BY <1>4, <2>1
  <2>2. CASE Spends(q) /\ k # BucketKey(reqs[q])
    BY <1>2, <2>2 DEF Spends, Put
  <2> QED
    BY <1>1, <1>3, <1>5, <2>1, <2>2, WriteAt DEF Spends
<1>6. CASE \A q \in Requests : ~Write(q)
  <2>1. CASE \A q \in Requests : ~Read(q)
    BY <1>1, <1>4, <1>6, <2>1, QuietSteps DEF Quiet
  <2>2. CASE \E q \in Requests : Read(q)
    BY <1>1, <1>4, <2>2, ReadAt
  <2> QED
    BY <2>1, <2>2
<1> QED
  BY <1>5, <1>6

LEMMA HeldDrawn ==
    ASSUME DrawnInv, [Next]_vars, NEW q \in Requests, (Started(q) /\ reqs[q].pc = "write")'
    PROVE  Earned(BucketKey(reqs[q]), reqs[q].found.last, reqs[q].found.available)'
<1>1. SpendInv /\ MeterInv
  BY DEF DrawnInv, SpendInv, TypeInv
<1>2. ASSUME Started(q), reqs[q].pc \in InLimiter, NEW b, b.last \in Nat, b.available \in Int,
             Earned(BucketKey(reqs[q]), b.last, b.available),
             reqs'[q].offer = reqs[q].offer, reqs'[q].limiter = reqs[q].limiter, reqs'[q].found = b
      PROVE  Earned(BucketKey(reqs[q]), reqs[q].found.last, reqs[q].found.available)'
  <2> DEFINE k == BucketKey(reqs[q])
  <2>1. k # NoCaller /\ BucketKey(reqs[q])' = k
    BY <1>1, <1>2, CallerNamed DEF BucketKey
  <2> HIDE DEF k
  <2>2. \A c : c # NoCaller /\ Earned(c, b.last, b.available) => Earned(c, b.last, b.available)'
    BY <1>1, <1>2, EarnedStays
  <2> QED
    BY <1>2, <2>1, <2>2 DEF k
<1>3. CASE Started(q) /\ reqs'[q] = reqs[q]
  <2>1. reqs[q].pc = "write" /\ StateType(reqs[q].found, reqs[q].limiter)
    BY <1>1, <1>3 DEF Started, SpendInv, TypeInv, BucketsTyped
  <2>2. reqs[q].found.last \in Nat /\ reqs[q].found.available \in Int
    BY <1>1, <2>1, RatesTyped, GatewayAssumption DEF StateType, MeterInv, Time
  <2>3. Earned(BucketKey(reqs[q]), reqs[q].found.last, reqs[q].found.available)
    BY <1>3, <2>1 DEF DrawnInv
  <2> QED
    BY <1>2, <1>3, <2>1, <2>2, <2>3 DEF InLimiter, Critical
<1>4. ASSUME Read(q)
      PROVE  Earned(BucketKey(reqs[q]), reqs[q].found.last, reqs[q].found.available)'
  <2> DEFINE b == ReadBucket(reqs[q])
  <2>1. /\ Started(q) /\ reqs[q].pc = "read" /\ reqs'[q].found = b
        /\ reqs'[q].offer = reqs[q].offer /\ reqs'[q].limiter = reqs[q].limiter
    BY <1>1, <1>4, ReadAt
  <2>2. Earned(BucketKey(reqs[q]), b.last, b.available) /\ b.last \in Nat /\ b.available \in Int
    BY <1>1, <2>1, ReadEarned DEF InLimiter, Critical
  <2> HIDE DEF b
  <2> QED
    BY <1>2, <2>1, <2>2 DEF InLimiter, Critical
<1>5. ASSUME NEW p \in Requests, p # q, Read(p) \/ Write(p) PROVE Started(q) /\ reqs'[q] = reqs[q]
  BY <1>1, <1>5, ReadAt, WriteAt DEF Started
<1>6. ~Write(q)
  BY <1>1, WriteAt
<1>7. CASE \A p \in Requests : ~Read(p) /\ ~Write(p)
  <2>1. Kept(q)
    BY <1>1, <1>7, QuietSteps DEF Quiet
  <2>2. Started(q) /\ reqs'[q] = reqs[q]
    BY <2>1 DEF Kept, Started
  <2> QED
    BY <1>3, <2>2
<1> QED
  BY <1>3, <1>4, <1>5, <1>6, <1>7

LEMMA RefusedStep ==
    ASSUME DrawnInv, [Next]_vars, NEW q \in Requests
    PROVE  Refused(q)'
<1>1. SpendInv /\ MeterInv /\ Refused(q)
  BY DEF DrawnInv, SpendInv, TypeInv
<1>2. SUFFICES ASSUME Started(q)', reqs'[q].answer = "rate_limited"
               PROVE  (Caller(reqs[q]) # NoCaller
                          /\ UsedUp(Caller(reqs[q]), reqs[q].limiter, reqs[q].at))'
  BY DEF Refused
<1>3. ASSUME NEW c, c # NoCaller, NEW limiter, NEW at \in Nat, UsedUp(c, limiter, at),
             Caller(reqs[q])' = c, reqs'[q].limiter = limiter, reqs'[q].at = at
      PROVE  (Caller(reqs[q]) # NoCaller /\ UsedUp(Caller(reqs[q]), reqs[q].limiter, reqs[q].at))'
  BY <1>1, <1>3, UsedUpStays
<1>4. CASE /\ Started(q) /\ reqs[q].answer = "rate_limited" /\ reqs'[q].offer = reqs[q].offer
           /\ reqs'[q].limiter = reqs[q].limiter /\ reqs'[q].at = reqs[q].at
  <2>1. reqs[q].at \in Nat
    BY <1>1, <1>4, RequestFields, GatewayAssumption DEF RequestType, Time
  <2>2. Caller(reqs[q])' = Caller(reqs[q])
    BY <1>4 DEF Caller
  <2> QED
    BY <1>1, <1>3, <1>4, <2>1, <2>2 DEF Refused
<1>5. CASE Read(q)
  <2> DEFINE b == ReadBucket(reqs[q])
             k == BucketKey(reqs[q])
  <2>1. /\ Started(q) /\ reqs[q].pc = "read" /\ b.available = 0 /\ reqs'[q].at = now
        /\ reqs'[q].offer = reqs[q].offer /\ reqs'[q].limiter = reqs[q].limiter
    BY <1>1, <1>2, <1>5, ReadAt
  <2>2. k # NoCaller /\ Caller(reqs[q]) = k /\ k[1] = reqs[q].limiter
    BY <1>1, <2>1, CallerNamed DEF InLimiter, Critical
  <2>3. Earned(k, b.last, b.available) /\ b.last \in 0..now /\ now - b.last < Refill(k[1])
    BY <2>1, ReadEarned DEF InLimiter, Critical
  <2>4. Caller(reqs[q])' = Caller(reqs[q])
    BY <2>1 DEF Caller
  <2> HIDE DEF b, k
  <2>5. UsedUp(k, k[1], now) /\ now \in Nat
    BY <1>1, <2>1, <2>3, EmptyIsUsedUp, GatewayAssumption DEF MeterInv, Time
  <2> QED
    BY <1>3, <2>1, <2>2, <2>4, <2>5
<1>6. ASSUME NEW p \in Requests, p # q, Read(p) \/ Write(p)
      PROVE  Started(q) /\ reqs'[q] = reqs[q]
  BY <1>1, <1>2, <1>6, ReadAt, WriteAt DEF Started
<1>7. ~Write(q)
  BY <1>1, <1>2, WriteAt
<1>8. CASE \A p \in Requests : ~Read(p) /\ ~Write(p)
  <2>1. Kept(q)
    BY <1>1, <1>8, QuietSteps DEF Quiet
  <2>2. /\ Started(q) /\ reqs[q].answer = "rate_limited" /\ reqs'[q].limiter = reqs[q].limiter
        /\ reqs'[q].at = reqs[q].at /\ reqs'[q].offer = reqs[q].offer
    BY <1>2, <2>1 DEF Kept, Started
  <2> QED
    BY <1>4, <2>2
<1> QED
  BY <1>2, <1>4, <1>5, <1>6, <1>7, <1>8

LEMMA DrawnStep == DrawnInv /\ [Next]_vars => DrawnInv'
<1> SUFFICES ASSUME DrawnInv, [Next]_vars PROVE DrawnInv'
  OBVIOUS
<1>1. SpendInv'
  BY SpendStep DEF DrawnInv
<1>2. \A k \in DOMAIN bucket' :
         k # NoCaller => Earned(k, bucket[k].last, bucket[k].available)'
  BY StoredDrawn
<1>3. \A q \in Requests : (Started(q) /\ reqs[q].pc = "write")' =>
         Earned(BucketKey(reqs[q]), reqs[q].found.last, reqs[q].found.available)'
  BY HeldDrawn
<1>4. \A q \in Requests : Refused(q)'
  BY RefusedStep
<1> QED
  BY <1>1, <1>2, <1>3, <1>4 DEF DrawnInv

(* Nobody is refused for what others did, or for what failed: who is has   *)
(* spent a burst and all that was refilled since, whatever Redis and the   *)
(* processes do in between (ServeHTTP of both limiters).                   *)
THEOREM RefusalsAreDue == Spec => []RefusedWhenSpent
<1>1. Init => DrawnInv
  <2> SUFFICES ASSUME Init PROVE DrawnInv
    OBVIOUS
  <2>1. bucket = [k \in {} |-> 0] /\ \A q \in Requests : ~Started(q)
    BY DEF Init, Idle, Started
  <2> QED
    BY <2>1, SpendInit DEF DrawnInv, Refused
<1>2. DrawnInv => RefusedWhenSpent
  BY DEF DrawnInv, Refused, UsedUp, RefusedWhenSpent
<1> QED
  BY <1>1, <1>2, DrawnStep, PTL DEF Spec

-----------------------------------------------------------------------------
(* A caller gets no more than a burst and the tokens of the interval.      *)

(* The lock: whoever is between it and its release holds it.               *)
Exclusive == \A q \in Requests : reqs[q].pc \in Critical => lock = q

(* Since s no more was spent than a bucket gives that was full at s: seen  *)
(* from a state of the bucket, and from the clock.                         *)
Level(k, last, available, s) ==
    Worth(k, Spent(k, s, MaxTime) + available) <= Full(k) + last - s
Paced(k, s) == Worth(k, Spent(k, s, MaxTime)) <= now - s

Leveled(k) ==
    /\ \A s \in 0..now : Paced(k, s) \/ Level(k, bucket[k].last, bucket[k].available, s)
    /\ bucket[k].expires >= bucket[k].last + Full(k)

(* What a writer has read is still true: nobody wrote in between.          *)
Held(q) ==
    /\ \A s \in 0..reqs[q].at :
          Level(BucketKey(reqs[q]), reqs[q].found.last, reqs[q].found.available, s)
    /\ \A p \in Requests : Started(p) /\ reqs[p].spent # NoCaller => reqs[p].at <= reqs[q].at

Within(k, s, t) == Worth(k, Spent(k, s, t)) <= Full(k) + t - s

LevelInv ==
    /\ SpendInv /\ Exclusive
    /\ \A k \in DOMAIN bucket : k # NoCaller => Leveled(k)
    /\ \A q \in Requests : Started(q) /\ reqs[q].pc = "write" => Held(q)
    /\ \A k : k # NoCaller => \A s, t \in Time : s <= t => Within(k, s, t)

LEMMA ExclusiveStep ==
    ASSUME "pause" \notin Faults, SpendInv, Exclusive, [Next]_vars
    PROVE  Exclusive'
<1>1. DOMAIN reqs = Requests /\ MeterInv /\ lock \in Requests \union {NoHolder}
  BY DEF SpendInv, TypeInv, MeterInv, BucketsTyped
<1>2. ASSUME NEW q \in Requests, NEW s \in Servers, NEW offer \in Offers, Arrive(q, s, offer)
      PROVE  Exclusive'
  BY <1>1, <1>2 DEF Arrive, Exclusive, Critical
<1>3. ASSUME NEW q \in Requests, RequestStep(q) PROVE Exclusive'
  <2> DEFINE r == reqs[q]
  <2>1. Started(q) /\ RequestType(r) /\ DOMAIN r = Fields
    <3>1. Started(q)
      BY <1>3 DEF RequestStep, Lock, LockFails, Read, Write, Unlock, Authorization, Dispatch, Started
    <3> QED
      BY <1>1, <3>1, RequestFields
  <2>2. \A p \in Requests : p # q => reqs'[p] = reqs[p]
    BY <1>1, <1>3
       DEF RequestStep, Lock, LockFails, Read, Write, Unlock, Authorization, Dispatch, Answer, Passed
  <2>3. CASE Lock(q)
    BY <1>1, <2>2, <2>3, NullAssumption DEF Lock, Exclusive
  <2>4. CASE LockFails(q)
    BY <1>1, <2>1, <2>2, <2>4 DEF LockFails, Answer, Exclusive, Critical, Fields
  <2>5. CASE Read(q)
    BY <1>1, <2>2, <2>5, ReadAt DEF Exclusive, Critical
  <2>6. CASE Write(q)
    BY <1>1, <2>2, <2>6, WriteAt DEF Exclusive, Critical
  <2>7. CASE Unlock(q)
    <3>1. reqs[q].pc \in Critical /\ reqs'[q].pc \notin Critical
      BY <1>1, <2>1, <2>7 DEF Unlock, Answer, Passed, Critical, Fields
    <3> QED
      BY <2>2, <3>1 DEF Exclusive
  <2>8. CASE Authorization(q)
    BY <1>1, <2>1, <2>2, <2>8, GateCases DEF Authorization, Answer, Exclusive, Critical, Fields
  <2>9. CASE Dispatch(q)
    BY <1>1, <2>1, <2>2, <2>9 DEF Dispatch, Answer, Exclusive, Critical, Fields
  <2> QED
    BY <1>3, <2>3, <2>4, <2>5, <2>6, <2>7, <2>8, <2>9 DEF RequestStep
<1>4. CASE ExpireLock
  BY <1>1, <1>4 DEF ExpireLock, Exclusive
<1>5. ASSUME NEW s \in Servers, Crash(s) PROVE Exclusive'
  <2>1. lock' = lock
    BY <1>5 DEF Crash
  <2>2. ASSUME NEW p \in Requests PROVE reqs'[p] = reqs[p] \/ reqs'[p].pc \notin Critical
    <3> DEFINE lost == [reqs[p] EXCEPT !.pc = "answered", !.answer = "lost"]
    <3>1. reqs'[p] = reqs[p] \/ (Started(p) /\ reqs'[p] = lost)
      BY <1>5 DEF Crash
    <3> QED
      BY <1>1, <3>1, RequestFields DEF Critical, Fields
  <2> QED
    BY <2>1, <2>2 DEF Exclusive
<1>6. CASE Tick \/ Finished \/ UNCHANGED vars
  BY <1>6 DEF Tick, Finished, vars, Exclusive
<1> QED
  BY <1>2, <1>3, <1>4, <1>5, <1>6 DEF Next

(* A reader finds a bucket that gives no more than is left.                *)
LEMMA ReadLeveled ==
    ASSUME LevelInv, NEW q \in Requests, Started(q), reqs[q].pc \in InLimiter,
           NEW k, k = BucketKey(reqs[q]), NEW s \in 0..now
    PROVE  Level(k, ReadBucket(reqs[q]).last, ReadBucket(reqs[q]).available, s)
<1> DEFINE r == reqs[q]
           b == ReadBucket(r)
           m == Spent(k, s, MaxTime)
<1>1. /\ SpendInv /\ MeterInv /\ now \in Nat /\ k # NoCaller /\ k[1] = r.limiter
      /\ StateType(b, k[1]) /\ s \in Nat /\ s <= now
  BY CallerNamed, RequestFields, ReadTyped DEF LevelInv, SpendInv, TypeInv, RequestType
<1>2. /\ b.last \in Nat /\ b.last <= now /\ b.available \in Nat /\ Capacity(k[1]) \in Nat
      /\ m \in Nat
  BY <1>1, RatesTyped, SpentTyped DEF StateType, SpendInv
<1> HIDE DEF b, m
<1>3. /\ Worth(k, m + b.available) = Worth(k, m) + Worth(k, b.available)
      /\ Worth(k, m) \in Int /\ Worth(k, b.available) \in Int /\ Full(k) \in Int
  <2>1. m \in Int /\ b.available \in Int /\ Capacity(k[1]) \in Int
    BY <1>2
  <2> QED
    BY <2>1, WorthFacts DEF Full
<1>4. SUFFICES Worth(k, m) + Worth(k, b.available) <= Full(k) + b.last - s
  BY <1>3 DEF Level, b, m
<1>5. ASSUME Worth(k, m) <= now - s, Worth(k, b.available) + now - b.last <= Full(k)
      PROVE  Worth(k, m) + Worth(k, b.available) <= Full(k) + b.last - s
  BY <1>1, <1>2, <1>3, <1>5
<1>6. ASSUME b.last = now, b.available = Capacity(k[1])
      PROVE  Worth(k, b.available) + now - b.last <= Full(k)
  <2>1. Worth(k, b.available) = Full(k)
    BY <1>6 DEF Full
  <2> QED
    BY <1>1, <1>3, <1>6, <2>1
<1>7. CASE k \in DOMAIN bucket /\ now < bucket[k].expires
  <2> DEFINE state == bucket[k]
  <2>1. /\ b = Refilled(state, k[1]) /\ StateType(state, k[1]) /\ state.available < Capacity(k[1])
    BY <1>1, <1>7 DEF SpendInv, TypeInv, BucketsTyped, ReadBucket, b
  <2>2. Paced(k, s) \/ Level(k, state.last, state.available, s)
    BY <1>1, <1>7 DEF LevelInv, Leveled
  <2>3. /\ Worth(k, b.available) + now - b.last <= Full(k)
        /\ \/ b.last = now /\ Full(k) <= Worth(k, state.available) + now - state.last
           \/ Worth(k, b.available) - b.last = Worth(k, state.available) - state.last
    BY <1>1, <2>1, RefilledWorth
  <2>4. state.last \in Nat /\ state.available \in Nat
    BY <1>1, <2>1, RatesTyped DEF StateType
  <2> HIDE DEF state
  <2>5. CASE Worth(k, m) <= now - s
    BY <1>5, <2>3, <2>5
  <2>6. CASE Level(k, state.last, state.available, s)
    <3>1. /\ Worth(k, m + state.available) = Worth(k, m) + Worth(k, state.available)
          /\ Worth(k, state.available) \in Int
      <4>1. m \in Int /\ state.available \in Int
        BY <1>2, <2>4
      <4> QED
        BY <4>1, WorthFacts
    <3>2. Worth(k, m + state.available) <= Full(k) + state.last - s
      BY <2>6 DEF Level, m
    <3> QED
      BY <1>1, <1>2, <1>3, <1>5, <2>3, <2>4, <3>1, <3>2
  <2> QED
    BY <2>2, <2>5, <2>6 DEF Paced, m
<1>8. CASE ~(k \in DOMAIN bucket /\ now < bucket[k].expires)
  <2>1. b.last = now /\ b.available = Capacity(k[1])
    BY <1>1, <1>8 DEF ReadBucket, b
  <2>2. CASE k \notin DOMAIN bucket
    <3>1. SpentIn(k, s, MaxTime) = {}
      BY <1>1, <2>2 DEF SpentIn, SpendInv, Sound
    <3>2. m = 0
      BY <3>1, FS_EmptySet DEF Spent, m
    <3>3. Worth(k, m) = 0
      BY <1>2, <3>2, RatesTyped DEF Worth
    <3> QED
      BY <1>1, <1>5, <1>6, <2>1, <3>3
  <2>3. CASE k \in DOMAIN bucket
    <3> DEFINE state == bucket[k]
    <3>1. /\ state.last \in Nat /\ state.available \in Nat /\ state.expires \in Nat
          /\ state.expires <= now /\ state.expires >= state.last + Full(k)
          /\ (Paced(k, s) \/ Level(k, state.last, state.available, s))
      BY <1>1, <1>8, <2>3, RatesTyped
         DEF LevelInv, Leveled, SpendInv, TypeInv, BucketsTyped, StateType
    <3> HIDE DEF state
    <3>2. /\ Worth(k, m + state.available) = Worth(k, m) + Worth(k, state.available)
          /\ Worth(k, state.available) \in Int /\ Worth(k, state.available) >= 0
      <4>1. m \in Int /\ state.available \in Int /\ state.available >= 0
        BY <1>2, <3>1
      <4> QED
        BY <4>1, WorthFacts
    <3>3. Worth(k, m) <= now - s \/ Worth(k, m + state.available) <= Full(k) + state.last - s
      BY <3>1 DEF Level, Paced, m
    <3>4. Worth(k, m) <= now - s
      BY <1>1, <1>3, <3>1, <3>2, <3>3
    <3> QED
      BY <1>5, <1>6, <2>1, <3>4
  <2> QED
    BY <2>2, <2>3
<1> QED
  BY <1>7, <1>8

Takes(k) == \E q \in Requests : Write(q) /\ Spends(q) /\ k = BucketKey(reqs[q])

LEMMA Unspent ==
    ASSUME SpendInv, [Next]_vars, NEW k, k # NoCaller, ~Takes(k)
    PROVE  /\ \A s, t : Spent(k, s, t)' = Spent(k, s, t)
           /\ k \in DOMAIN bucket' => k \in DOMAIN bucket /\ bucket'[k] = bucket[k]
<1>1. MeterInv
  BY DEF SpendInv, TypeInv
<1>2. ASSUME NEW s, NEW t PROVE Spent(k, s, t)' = Spent(k, s, t)
  <2>1. SpentIn(k, s, t)' = SpentIn(k, s, t)
    BY SpentUnchanged DEF Takes
  <2> QED
    BY <2>1 DEF Spent
<1>3. bucket' = bucket \/ \E q \in Requests : Write(q) /\ Spends(q)
  <2>1. CASE \A q \in Requests : ~Read(q) /\ ~Write(q)
    BY <1>1, <2>1, QuietSteps DEF Quiet
  <2>2. CASE \E q \in Requests : Read(q) \/ Write(q)
    BY <1>1, <2>2, ReadAt, WriteAt DEF Spends
  <2> QED
    BY <2>1, <2>2
<1>4. k \in DOMAIN bucket' => k \in DOMAIN bucket /\ bucket'[k] = bucket[k]
  BY <1>3 DEF Takes, Spends, Put
<1> QED
  BY <1>2, <1>4

LEMMA ClockRuns ==
    ASSUME MeterInv, [Next]_vars
    PROVE  now \in Nat /\ now' \in Nat /\ now <= now'
<1>1. now \in Nat /\ now' \in Nat
  BY MeterStep, GatewayAssumption DEF MeterInv, Time
<1>2. CASE \A q \in Requests : ~Read(q) /\ ~Write(q)
  BY <1>1, <1>2, QuietSteps DEF Quiet
<1>3. CASE \E q \in Requests : Read(q) \/ Write(q)
  BY <1>1, <1>3, ReadAt, WriteAt
<1> QED
  BY <1>1, <1>2, <1>3

(* The writer of a bucket leaves it as full as its caller's spending does. *)
LEMMA TakenLeveled ==
    ASSUME LevelInv, NEW q \in Requests, Write(q), Spends(q), NEW k, k = BucketKey(reqs[q])
    PROVE  Leveled(k)'
<1> DEFINE r == reqs[q]
           last == r.found.last
           available == r.found.available
<1>1. /\ SpendInv /\ MeterInv /\ Started(q) /\ r.pc = "write" /\ Held(q) /\ now' = now
      /\ k # NoCaller /\ k[1] = r.limiter
  <2>1. Started(q) /\ r.pc = "write" /\ now' = now /\ r.pc \in InLimiter
    BY DEF Write, Started, InLimiter, Critical
  <2> QED
    BY <2>1, CallerNamed DEF LevelInv, SpendInv, TypeInv
<1>2. /\ last \in Nat /\ available \in Nat /\ r.at \in Nat /\ now \in Nat /\ last <= r.at
      /\ r.at <= now /\ r.at <= MaxTime /\ MaxTime \in Nat
  BY <1>1, RequestFields, RatesTyped, GatewayAssumption
     DEF SpendInv, TypeInv, BucketsTyped, StateType, Sound, RequestType, Time
<1>3. /\ bucket'[k].last = last /\ bucket'[k].available = available - 1
      /\ bucket'[k].expires = now + TTL(k[1])
  BY <1>1 DEF Spends, Put, NextState
<1> HIDE DEF last, available
<1>4. Full(k) = TTL(k[1]) /\ Full(k)' = Full(k) /\ Full(k) \in Int
  <2>1. Capacity(k[1]) \in Nat /\ Refill(k[1]) \in Nat
    BY RatesTyped
  <2>2. Full(k) = TTL(k[1])
    BY <2>1 DEF Full, Worth, TTL
  <2>3. Full(k)' = Full(k)
    BY DEF Full, Worth, Capacity, Refill
  <2>4. TTL(k[1]) \in Int
    BY RatesTyped
  <2> QED
    BY <2>2, <2>3, <2>4
<1>5. bucket'[k].expires >= bucket'[k].last + Full(k)'
  BY <1>2, <1>3, <1>4
<1>6. ASSUME NEW s \in 0..now, s <= r.at
      PROVE  Level(k, bucket[k].last, bucket[k].available, s)'
  <2> DEFINE m == Spent(k, s, MaxTime)
  <2>1. r.at \in s..MaxTime
    BY <1>2, <1>6
  <2>2. m \in Nat /\ m' = m + 1
    BY <1>1, <2>1, SpentOne, SpentTyped DEF SpendInv
  <2>3. Worth(k, m + available) <= Full(k) + last - s
    BY <1>1, <1>2, <1>6 DEF Held, Level, last, available
  <2> HIDE DEF m
  <2>4. m' + (available - 1) = m + available
    BY <1>2, <2>2
  <2>5. Worth(k, m' + (available - 1)) <= Full(k) + last - s
    BY <2>3, <2>4
  <2>6. Worth(k, m' + bucket'[k].available) <= Full(k)' + bucket'[k].last - s
    BY <1>3, <1>4, <2>5
  <2> QED
    BY <2>6 DEF Level, Worth, Refill, m
<1>7. ASSUME NEW s \in 0..now, s > r.at
      PROVE  Paced(k, s)'
  <2>1. r.at \notin s..MaxTime
    BY <1>2, <1>7
  <2>2. SpentIn(k, s, MaxTime) = {}
    BY <1>1, <1>2, <1>7, RequestFields, GatewayAssumption DEF SpentIn, Held, RequestType, Time
  <2>3. Spent(k, s, MaxTime) = 0
    BY <2>2, FS_EmptySet DEF Spent
  <2>4. Spent(k, s, MaxTime)' = 0
    BY <1>1, <2>1, <2>3, SpentOne
  <2>5. 0 * Refill(k[1]) = 0
    BY RatesTyped
  <2>6. Worth(k, Spent(k, s, MaxTime)') = 0
    BY <2>4, <2>5 DEF Worth
  <2>7. Worth(k, Spent(k, s, MaxTime)') <= now' - s
    BY <1>1, <1>2, <2>6
  <2> QED
    BY <2>7 DEF Paced, Worth, Refill
<1>8. \A s \in 0..now' : Paced(k, s)' \/ Level(k, bucket[k].last, bucket[k].available, s)'
  BY <1>1, <1>2, <1>6, <1>7
<1> QED
  BY <1>5, <1>8 DEF Leveled

LEMMA StoredLeveled ==
    ASSUME LevelInv, [Next]_vars, NEW k \in DOMAIN bucket', k # NoCaller
    PROVE  Leveled(k)'
<1>1. SpendInv /\ MeterInv
  BY DEF LevelInv, SpendInv, TypeInv
<1>2. CASE Takes(k)
  BY <1>2, TakenLeveled DEF Takes
<1>3. CASE ~Takes(k)
  <2>1. /\ k \in DOMAIN bucket /\ bucket'[k] = bucket[k]
        /\ \A s, t : Spent(k, s, t)' = Spent(k, s, t)
    BY <1>1, <1>3, Unspent
  <2>2. Leveled(k) /\ now \in Nat /\ now' \in Nat /\ now <= now'
    BY <1>1, <2>1, ClockRuns DEF LevelInv
  <2>3. Full(k)' = Full(k)
    BY DEF Full, Worth, Capacity, Refill
  <2>4. ASSUME NEW s \in 0..now'
        PROVE  Paced(k, s)' \/ Level(k, bucket[k].last, bucket[k].available, s)'
    <3> DEFINE m == Spent(k, s, MaxTime)
    <3>1. m \in Nat /\ m' = m
      BY <1>1, <2>1, SpentTyped DEF SpendInv
    <3>2. Worth(k, m) \in Int
      <4> HIDE DEF m
      <4> QED
        BY <3>1, WorthFacts
    <3>3. CASE s <= now
      <4>1. Paced(k, s) \/ Level(k, bucket[k].last, bucket[k].available, s)
        BY <2>2, <3>3 DEF Leveled
      <4>2. CASE Paced(k, s)
        <5>1. Worth(k, m) <= now' - s
          BY <2>2, <3>2, <4>2 DEF Paced
        <5> QED
          BY <3>1, <5>1 DEF Paced, Worth, Refill
      <4>3. CASE Level(k, bucket[k].last, bucket[k].available, s)
        BY <2>1, <2>3, <3>1, <4>3 DEF Level, Worth, Refill
      <4> QED
        BY <4>1, <4>2, <4>3
    <3>4. CASE s > now
      <4>1. SpentIn(k, s, MaxTime) = {}
        BY <1>1, <2>2, <3>4, RequestFields, GatewayAssumption
           DEF SpentIn, SpendInv, Sound, RequestType, Time
      <4>2. m = 0
        BY <4>1, FS_EmptySet DEF Spent
      <4>3. 0 * Refill(k[1]) = 0
        BY RatesTyped
      <4>4. Worth(k, m) <= now' - s
        BY <2>2, <4>2, <4>3 DEF Worth
      <4> QED
        BY <3>1, <4>4 DEF Paced, Worth, Refill
    <3> QED
      BY <2>2, <3>3, <3>4
  <2>5. bucket'[k].expires >= bucket'[k].last + Full(k)'
    BY <2>1, <2>2, <2>3 DEF Leveled
  <2> QED
    BY <2>4, <2>5 DEF Leveled
<1> QED
  BY <1>2, <1>3

LEMMA HeldStep ==
    ASSUME "pause" \notin Faults, LevelInv, [Next]_vars,
           NEW q \in Requests, (Started(q) /\ reqs[q].pc = "write")'
    PROVE  Held(q)'
<1>1. SpendInv /\ MeterInv /\ Exclusive
  BY DEF LevelInv, SpendInv, TypeInv
<1>2. ASSUME Started(q), reqs[q].pc \in InLimiter, NEW last, NEW available, NEW at,
             NEW k, k = BucketKey(reqs[q]), ~Takes(k),
             \A s \in 0..at : Level(k, last, available, s),
             \A p \in Requests : Started(p)' /\ reqs'[p].spent # NoCaller => reqs'[p].at <= at,
             reqs'[q].offer = reqs[q].offer, reqs'[q].limiter = reqs[q].limiter,
             reqs'[q].found.last = last, reqs'[q].found.available = available, reqs'[q].at = at
      PROVE  Held(q)'
  <2>1. k # NoCaller /\ BucketKey(reqs[q])' = k
    BY <1>1, <1>2, CallerNamed DEF BucketKey
  <2>2. \A s, t : Spent(k, s, t)' = Spent(k, s, t)
    BY <1>1, <1>2, <2>1, Unspent
  <2>3. \A s \in 0..at : Worth(k, Spent(k, s, MaxTime)' + available) <= Full(k) + last - s
    BY <1>2, <2>2 DEF Level
  <2>4. \A s \in 0..at :
           Level(BucketKey(reqs[q]), reqs[q].found.last, reqs[q].found.available, s)'
    BY <1>2, <2>1, <2>3 DEF Level, Full, Worth, Capacity, Refill
  <2> QED
    BY <1>2, <2>4 DEF Held
<1>3. CASE Read(q)
  <2> DEFINE b == ReadBucket(reqs[q])
  <2>1. /\ Started(q) /\ reqs[q].pc = "read" /\ now' = now /\ reqs'[q].at = now
        /\ reqs'[q].found = b /\ reqs'[q].spent = reqs[q].spent
        /\ reqs'[q].offer = reqs[q].offer /\ reqs'[q].limiter = reqs[q].limiter
        /\ \A p \in Requests : p # q => reqs'[p] = reqs[p]
    BY <1>1, <1>3, ReadAt
  <2>2. \A s \in 0..now : Level(BucketKey(reqs[q]), b.last, b.available, s)
    BY <2>1, ReadLeveled DEF InLimiter, Critical
  <2>3. ~Takes(BucketKey(reqs[q]))
    <3>1. \A p \in Requests : ~Write(p)
      BY <1>1, <2>1, WriteAt DEF Exclusive, Critical
    <3> QED
      BY <3>1 DEF Takes
  <2>4. \A p \in Requests : Started(p)' /\ reqs'[p].spent # NoCaller => reqs'[p].at <= now
    BY <1>1, <2>1 DEF SpendInv, Sound, Started
  <2> HIDE DEF b
  <2> QED
    BY <1>2, <2>1, <2>2, <2>3, <2>4 DEF InLimiter, Critical
<1>4. CASE Started(q) /\ reqs'[q] = reqs[q]
  <2>1. reqs[q].pc = "write" /\ Held(q)
    BY <1>4 DEF LevelInv, Started
  <2>2. \A p \in Requests : ~Read(p) /\ ~Write(p)
    <3>1. ~Read(q) /\ ~Write(q)
      BY <1>1, <1>4, <2>1, ReadAt, WriteAt
    <3>2. \A p \in Requests : p # q => reqs[p].pc \notin Critical
      BY <1>1, <2>1 DEF Exclusive, Critical
    <3> QED
      BY <3>1, <3>2 DEF Read, Write, Critical
  <2>3. \A p \in Requests : Kept(p)
    BY <1>1, <2>2, QuietSteps DEF Quiet
  <2>4. \A p \in Requests : Started(p)' /\ reqs'[p].spent # NoCaller => reqs'[p].at <= reqs[q].at
    BY <2>1, <2>3 DEF Held, Kept, Started
  <2>5. ~Takes(BucketKey(reqs[q]))
    BY <2>2 DEF Takes
  <2>6. \A s \in 0..reqs[q].at :
           Level(BucketKey(reqs[q]), reqs[q].found.last, reqs[q].found.available, s)
    BY <2>1 DEF Held
  <2> QED
    BY <1>2, <1>4, <2>1, <2>4, <2>5, <2>6 DEF InLimiter, Critical
<1>5. ASSUME NEW p \in Requests, p # q, Read(p) \/ Write(p) PROVE Started(q) /\ reqs'[q] = reqs[q]
  BY <1>1, <1>5, ReadAt, WriteAt DEF Started
<1>6. ~Write(q)
  BY <1>1, WriteAt
<1>7. CASE \A p \in Requests : ~Read(p) /\ ~Write(p)
  <2>1. Kept(q)
    BY <1>1, <1>7, QuietSteps DEF Quiet
  <2>2. Started(q) /\ reqs'[q] = reqs[q]
    BY <2>1 DEF Kept, Started
  <2> QED
    BY <1>4, <2>2
<1> QED
  BY <1>3, <1>4, <1>5, <1>6, <1>7

LEMMA WithinStep ==
    ASSUME LevelInv, [Next]_vars, NEW k, k # NoCaller, NEW s \in Time, NEW t \in Time, s <= t
    PROVE  Within(k, s, t)'
<1>1. SpendInv /\ MeterInv /\ Within(k, s, t) /\ s \in Nat /\ t \in Nat /\ MaxTime \in Nat
      /\ t <= MaxTime
  BY GatewayAssumption DEF LevelInv, SpendInv, TypeInv, Time
<1>2. Full(k)' = Full(k) /\ Full(k) \in Int
  <2>1. Capacity(k[1]) \in Int
    BY RatesTyped
  <2>2. Full(k) \in Int
    BY <2>1, WorthFacts DEF Full
  <2> QED
    BY <2>2 DEF Full, Worth, Capacity, Refill
<1>3. ASSUME Spent(k, s, t)' = Spent(k, s, t) PROVE Within(k, s, t)'
  BY <1>1, <1>2, <1>3 DEF Within, Worth, Refill
<1>4. ASSUME NEW q \in Requests, Write(q), Spends(q), k = BucketKey(reqs[q])
      PROVE  Within(k, s, t)'
  <2> DEFINE r == reqs[q]
             m == Spent(k, s, t)
             n == Spent(k, s, MaxTime)
             last == r.found.last
             available == r.found.available
  <2>1. Started(q) /\ r.pc = "write" /\ Held(q)
    BY <1>4 DEF Write, Started, LevelInv
  <2>2. /\ last \in Nat /\ available \in Nat /\ available > 0 /\ r.at \in Nat /\ last <= r.at
        /\ m \in Nat /\ n \in Nat
    <3>1. r.at \in Nat /\ last <= r.at /\ StateType(r.found, r.limiter) /\ available > 0
      BY <1>1, <2>1, RequestFields, GatewayAssumption
         DEF SpendInv, TypeInv, BucketsTyped, Sound, RequestType, Time
    <3>2. now \in Nat
      BY <1>1, GatewayAssumption DEF MeterInv, Time
    <3>3. m \in Nat /\ n \in Nat
      BY <1>1, SpentTyped DEF SpendInv
    <3> QED
      BY <3>1, <3>2, <3>3, RatesTyped DEF StateType
  <2>3. CASE r.at \notin s..t
    <3>1. Spent(k, s, t)' = m
      BY <1>1, <1>4, <2>2, <2>3, SpentOne
    <3> QED
      BY <1>3, <3>1
  <2>4. CASE r.at \in s..t
    <3>1. m' = m + 1
      BY <1>1, <1>4, <2>4, SpentOne
    <3>2. m <= n
      <4>1. SpentIn(k, s, t) \subseteq SpentIn(k, s, MaxTime)
        BY <1>1, RequestFields, GatewayAssumption DEF SpentIn, RequestType, Time
      <4>2. IsFiniteSet(SpentIn(k, s, MaxTime))
        BY <1>1, SpentTyped DEF SpendInv
      <4> QED
        BY <4>1, <4>2, FS_Subset DEF Spent
    <3>3. Worth(k, n + available) <= Full(k) + last - s
      BY <1>1, <1>4, <2>1, <2>2, <2>4 DEF Held, Level
    <3> HIDE DEF m, n, last, available
    <3>4. m + 1 <= n + available /\ m + 1 \in Int /\ n + available \in Int
      BY <2>2, <3>2
    <3>5. /\ Worth(k, m + 1) <= Worth(k, n + available)
          /\ Worth(k, m + 1) \in Int /\ Worth(k, n + available) \in Int
      BY <3>4, WorthFacts
    <3>6. Worth(k, m + 1) <= Full(k) + t - s
      BY <1>1, <1>2, <2>2, <2>4, <3>3, <3>5
    <3>7. Worth(k, m') <= Full(k)' + t - s
      BY <1>2, <3>1, <3>6
    <3> QED
      BY <3>7 DEF Within, Worth, Refill, m
  <2> QED
    BY <2>3, <2>4
<1>5. CASE Takes(k)
  BY <1>4, <1>5 DEF Takes
<1>6. CASE ~Takes(k)
  BY <1>1, <1>3, <1>6, Unspent
<1> QED
  BY <1>5, <1>6

LEMMA LevelInit == Init => LevelInv
<1> SUFFICES ASSUME Init PROVE LevelInv
  OBVIOUS
<1>1. DOMAIN bucket = {} /\ \A q \in Requests : ~Started(q) /\ reqs[q].pc \notin Critical
  BY DEF Init, Idle, Started, Critical
<1>2. ASSUME NEW k, NEW s \in Time, NEW t \in Time, s <= t PROVE Within(k, s, t)
  <2>1. SpentIn(k, s, t) = {}
    BY <1>1 DEF SpentIn
  <2>2. Spent(k, s, t) = 0
    BY <2>1, FS_EmptySet DEF Spent
  <2>3. Full(k) \in Int /\ Full(k) >= 0
    <3>1. Capacity(k[1]) \in Int /\ Capacity(k[1]) >= 0
      BY RatesTyped
    <3> QED
      BY <3>1, WorthFacts DEF Full
  <2>4. 0 * Refill(k[1]) = 0 /\ s \in Int /\ t \in Int
    BY RatesTyped, GatewayAssumption DEF Time
  <2>5. Worth(k, Spent(k, s, t)) = 0
    BY <2>2, <2>4 DEF Worth
  <2> QED
    BY <1>2, <2>3, <2>4, <2>5 DEF Within
<1> QED
  BY <1>1, <1>2, SpendInit DEF LevelInv, Exclusive

LEMMA LevelStep ==
    ASSUME "pause" \notin Faults, LevelInv, [Next]_vars
    PROVE  LevelInv'
<1>1. SpendInv' /\ Exclusive'
  BY SpendStep, ExclusiveStep DEF LevelInv
<1>2. \A k \in DOMAIN bucket' : k # NoCaller => Leveled(k)'
  BY StoredLeveled
<1>3. \A q \in Requests : (Started(q) /\ reqs[q].pc = "write")' => Held(q)'
  BY HeldStep
<1>4. \A k : k # NoCaller => \A s, t \in Time : s <= t => Within(k, s, t)'
  BY WithinStep
<1> QED
  BY <1>1, <1>2, <1>3, <1>4 DEF LevelInv

LEMMA WithinBound ==
    ASSUME LevelInv, NEW k, k # NoCaller, NEW s \in Time, NEW t \in Time, s <= t
    PROVE  Spent(k, s, t) <= Capacity(k[1]) + ((t - s) \div Refill(k[1]))
<1> DEFINE m == Spent(k, s, t)
           C == Capacity(k[1])
           R == Refill(k[1])
           d == (t - s) \div R
<1>1. C \in Nat /\ R \in Nat /\ R > 0 /\ s \in Nat /\ t \in Nat /\ t - s \in Nat /\ m \in Nat
  BY RatesTyped, SpentTyped, GatewayAssumption DEF LevelInv, SpendInv, Time
<1>2. d \in Nat /\ t - s < d * R + R
  <2>1. \A a \in Nat : a \div R \in Nat /\ a < (a \div R) * R + R
    BY <1>1
  <2> HIDE DEF R
  <2> QED
    BY <1>1, <2>1
<1>3. Worth(k, m) <= Full(k) + t - s
  BY DEF LevelInv, Within
<1>4. Worth(k, d) = d * R /\ Full(k) = Worth(k, C)
  BY DEF Worth, Full
<1> HIDE DEF m, C, d
<1>5. /\ Worth(k, C + d) = Worth(k, C) + Worth(k, d) /\ Worth(k, C) \in Int
      /\ Worth(k, d) \in Int /\ Worth(k, m) \in Int
  <2>1. C \in Int /\ d \in Int /\ m \in Int
    BY <1>1, <1>2
  <2> QED
    BY <2>1, WorthFacts
<1>6. ASSUME C + d < m PROVE FALSE
  <2>1. Worth(k, C + d) + R <= Worth(k, m)
    <3>1. C + d \in Int /\ m \in Int
      BY <1>1, <1>2
    <3> QED
      BY <1>6, <3>1, WorthFacts
  <2> HIDE DEF R
  <2> QED
    BY <1>1, <1>2, <1>3, <1>4, <1>5, <2>1
<1>7. m <= C + d
  BY <1>1, <1>2, <1>6
<1> QED
  BY <1>7 DEF m, C, d

(* Over any interval a caller gets no more than a burst and the tokens of  *)
(* the interval, whatever servers its requests go to and whatever fails in *)
(* Redis or in a process, as long as no holder of the lock is slower than  *)
(* the lock lives (ServeHTTP of both limiters).                            *)
THEOREM RatesBounded ==
    ASSUME "pause" \notin Faults
    PROVE  Spec => []RateBound
<1>1. LevelInv /\ [Next]_vars => LevelInv'
  BY LevelStep
<1>2. LevelInv => RateBound
  <2> SUFFICES ASSUME LevelInv, NEW c \in Callers, NEW s \in Time, NEW t \in Time, s <= t
               PROVE  Spent(c, s, t) <= Capacity(c[1]) + ((t - s) \div Refill(c[1]))
    BY DEF RateBound
  <2>1. c # NoCaller
    BY DEF Callers
  <2> QED
    BY <2>1, WithinBound
<1> QED
  BY <1>1, <1>2, LevelInit, PTL DEF Spec
=============================================================================
