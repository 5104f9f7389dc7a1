-------------------------- MODULE FetchGateProofs --------------------------
(***************************************************************************)
(* The rate bound of FetchGate for every cost, rate, burst and map size.   *)
(***************************************************************************)
EXTENDS FetchGate, TLAPS

LEMMA RefillBounds ==
    ASSUME NEW level \in 0..Burst, NEW since \in Nat, NEW t \in Nat, since <= t
    PROVE  /\ Rate * (t - since) \in Nat
           /\ Lesser(level + Rate * (t - since), Burst) \in level..Burst
BY GateConstants DEF Lesser

LEMMA Distribute ==
    ASSUME NEW a \in Int, NEW b \in Int, NEW c \in Int, NEW r \in Int
    PROVE  r * (c - a) = r * (c - b) + r * (b - a)
OBVIOUS

LEMMA Product ==
    ASSUME NEW a \in Int, NEW b \in Int
    PROVE  a * b \in Int
OBVIOUS

LEMMA LevelType ==
    ASSUME TypeOK, NEW t \in Targets
    PROVE  Level(Kept, t) \in 0..Burst
<1>1. tokens[t] \in 0..Burst /\ last[t] \in Nat /\ last[t] <= now /\ now \in Nat
  BY DEF TypeOK
<1>2. Refilled(tokens[t], last[t]) \in 0..Burst
  <2> DEFINE level == Lesser(tokens[t] + Rate * (now - last[t]), Burst)
  <2>1. level \in tokens[t]..Burst
    BY <1>1, RefillBounds
  <2>2. Refilled(tokens[t], last[t]) = level
    BY DEF Refilled
  <2> HIDE DEF level
  <2> QED
    BY <1>1, <2>1, <2>2, GateConstants
<1> QED
  BY <1>2, GateConstants DEF Level

LEMMA TypeNext == TypeOK /\ [Next]_vars => TypeOK'
<1> SUFFICES ASSUME TypeOK, [Next]_vars PROVE TypeOK'
  OBVIOUS
<1>1. CASE Tick
  <2>1. 0..now \subseteq 0..now'
    BY <1>1 DEF Tick, TypeOK
  <2>2. last' \in [Targets -> 0..now'] /\ grants' \in [Targets -> Seq(0..now')]
    BY <1>1, <2>1 DEF Tick, TypeOK
  <2> QED
    BY <1>1, <2>2 DEF Tick, TypeOK
<1>2. ASSUME NEW t \in Targets, FetchAllowed(t) PROVE TypeOK'
  <2> DEFINE level == Level(Kept, t)
  <2>1. level \in 0..Burst
    BY LevelType
  <2> HIDE DEF level
  <2>2. /\ known' = Kept \cup {t} /\ now' = now
        /\ last' = [last EXCEPT ![t] = now]
        /\ \/ /\ level >= Cost
              /\ tokens' = [tokens EXCEPT ![t] = level - Cost]
              /\ grants' = [grants EXCEPT ![t] = Append(grants[t], now)]
           \/ /\ level < Cost
              /\ tokens' = [tokens EXCEPT ![t] = level]
              /\ UNCHANGED grants
    BY <1>2 DEF FetchAllowed, level
  <2>3. known' \subseteq Targets
    BY <2>2 DEF Kept, TypeOK
  <2>4. tokens' \in [Targets -> 0..Burst]
    <3>1. level >= Cost => level - Cost \in 0..Burst
      BY <2>1, GateConstants
    <3>2. tokens \in [Targets -> 0..Burst]
      BY DEF TypeOK
    <3> QED
      BY <2>1, <2>2, <3>1, <3>2
  <2>5. last' \in [Targets -> 0..now']
    BY <2>2 DEF TypeOK
  <2>6. grants' \in [Targets -> Seq(0..now')]
    <3>1. grants \in [Targets -> Seq(0..now)] /\ now \in 0..now
      BY DEF TypeOK
    <3>2. Append(grants[t], now) \in Seq(0..now)
      BY <3>1
    <3> QED
      BY <2>2, <3>1, <3>2
  <2> QED
    BY <2>2, <2>3, <2>4, <2>5, <2>6 DEF TypeOK
<1>3. CASE UNCHANGED vars
  BY <1>3 DEF vars, TypeOK
<1> QED
  BY <1>1, <1>2, <1>3 DEF Next

\* conn.rs, RateLimiter: a bucket never holds more than its burst.
THEOREM TypeCorrect == Spec => []TypeOK
<1>1. Init => TypeOK
  BY GateConstants DEF Init, TypeOK
<1> QED
  BY <1>1, TypeNext, PTL DEF Spec

----------------------------------------------------------------------------

\* RateBounded speaks of grants already made.  What makes it inductive is that
\* the tokens left in a bucket, spent all at once, would still respect the bound
\* from every earlier grant on, up to the moment the bucket was last used.
Reserve(t, n) ==
    \A i \in 1..n :
        /\ grants[t][i] <= last[t]
        /\ (n - i + 1) * Cost + tokens[t] <= Burst + Rate * (last[t] - grants[t][i])

RateInv ==
    /\ \A t \in Targets : Reserve(t, Len(grants[t]))
    /\ \A t \in known : tokens[t] < Burst
    /\ \A t \in Targets \ known : grants[t] = <<>>
    /\ RateBounded

LEMMA RateNext == TypeOK /\ RateInv /\ [Next]_vars => RateInv'
<1> SUFFICES ASSUME TypeOK, RateInv, [Next]_vars PROVE RateInv'
  OBVIOUS
<1>1. ASSUME UNCHANGED <<known, tokens, last, grants>> PROVE RateInv'
  BY <1>1 DEF RateInv, Reserve, RateBounded
<1>2. ASSUME NEW t \in Targets, FetchAllowed(t) PROVE RateInv'
  <2> DEFINE level == Level(Kept, t)
             n == Len(grants[t])
             dt == Rate * (now - last[t])
  <2>1. /\ level \in 0..Burst /\ now \in Nat /\ last[t] \in Nat /\ last[t] <= now
        /\ tokens[t] \in 0..Burst /\ n \in Nat /\ grants[t] \in Seq(0..now)
    BY LevelType DEF TypeOK
  <2>2. dt \in Nat
    BY <2>1, GateConstants
  <2>3. Kept = known
    BY DEF Kept, RateInv
  \* A new bucket has no grants behind it; an old one is refilled by at most dt.
  <2>4. n = 0 \/ level <= tokens[t] + dt
    BY <2>1, <2>2, <2>3, GateConstants DEF Level, Refilled, Lesser, RateInv
  <2> HIDE DEF level, n, dt
  <2>5. /\ known' = known \cup {t} /\ now' = now
        /\ last' = [last EXCEPT ![t] = now]
        /\ \/ /\ level >= Cost
              /\ tokens' = [tokens EXCEPT ![t] = level - Cost]
              /\ grants' = [grants EXCEPT ![t] = Append(grants[t], now)]
           \/ /\ level < Cost
              /\ tokens' = [tokens EXCEPT ![t] = level]
              /\ UNCHANGED grants
    BY <1>2, <2>3 DEF FetchAllowed, level
  <2>6. last'[t] = now
    BY <2>5, <2>1 DEF TypeOK
  \* The reserve before this call, brought up to now.
  <2>7. ASSUME NEW i \in 1..n
        PROVE  /\ grants[t][i] \in Nat /\ grants[t][i] <= now
               /\ (n - i + 1) * Cost + level <= Burst + Rate * (now - grants[t][i])
    <3>1. grants[t][i] \in Nat /\ grants[t][i] <= now
      BY <2>1 DEF n
    <3>2. (n - i + 1) * Cost + tokens[t] <= Burst + Rate * (last[t] - grants[t][i])
      BY DEF RateInv, Reserve, n
    <3>3. Rate * (now - grants[t][i]) = dt + Rate * (last[t] - grants[t][i])
      <4>1. Rate \in Int /\ now \in Int /\ last[t] \in Int /\ grants[t][i] \in Int
        BY <2>1, <3>1, GateConstants
      <4> QED
        BY <4>1, Distribute DEF dt
    <3>4. level <= tokens[t] + dt
      BY <2>4, <2>1
    <3>5. /\ (n - i + 1) * Cost \in Int /\ Rate * (last[t] - grants[t][i]) \in Int
          /\ tokens[t] \in Int /\ dt \in Int /\ level \in Int /\ Burst \in Int
      <4>1. /\ n - i + 1 \in Int /\ Cost \in Int /\ Rate \in Int
            /\ last[t] - grants[t][i] \in Int
        BY SMTT(30), <2>1, <3>1, GateConstants
      <4> QED
        BY <4>1, <2>1, <2>2, Product, GateConstants
    <3> QED
      BY <3>1, <3>2, <3>3, <3>4, <3>5
  <2>8. ASSUME NEW u \in Targets, u # t
        PROVE  /\ Reserve(u, Len(grants[u]))'
               /\ grants'[u] = grants[u]
               /\ tokens'[u] = tokens[u]
    <3>1. tokens'[u] = tokens[u] /\ last'[u] = last[u] /\ grants'[u] = grants[u]
      BY <2>5, <2>8 DEF TypeOK
    <3> QED
      BY <3>1 DEF RateInv, Reserve
  <2>9. CASE level < Cost
    <3>1. tokens'[t] = level /\ grants' = grants
      BY <2>5, <2>9, <2>1, GateConstants DEF TypeOK
    <3>2. Reserve(t, Len(grants[t]))'
      BY <2>6, <2>7, <3>1 DEF Reserve, n
    <3>3. \A u \in Targets : Reserve(u, Len(grants[u]))'
      BY <2>8, <3>2
    <3>4. \A u \in known' : tokens'[u] < Burst
      BY <2>1, <2>5, <2>8, <2>9, <3>1, GateConstants DEF RateInv, TypeOK
    <3>5. \A u \in Targets \ known' : grants'[u] = <<>>
      BY <2>5, <3>1 DEF RateInv
    <3>6. RateBounded'
      BY <3>1 DEF RateInv, RateBounded
    <3> QED
      BY <3>3, <3>4, <3>5, <3>6 DEF RateInv
  <2>10. CASE level >= Cost
    <3>1. tokens'[t] = level - Cost /\ grants'[t] = Append(grants[t], now)
      BY <2>5, <2>10, <2>1, GateConstants DEF TypeOK
    <3>2. /\ Len(grants'[t]) = n + 1 /\ grants'[t][n + 1] = now
          /\ \A i \in 1..n : grants'[t][i] = grants[t][i]
          /\ DOMAIN grants'[t] = 1..(n + 1)
      BY <3>1, <2>1 DEF n
    <3>3. ASSUME NEW i \in 1..(n + 1)
          PROVE  /\ grants'[t][i] \in Nat /\ grants'[t][i] <= now
                 /\ (n + 1 - i + 1) * Cost + tokens'[t] <= Burst + Rate * (now - grants'[t][i])
      <4>1. CASE i = n + 1
        <5>1. (n + 1 - i + 1) * Cost = Cost /\ Rate * (now - grants'[t][i]) = 0
          BY <4>1, <3>2, <2>1, GateConstants
        <5> QED
          BY <5>1, <4>1, <3>1, <3>2, <2>1, GateConstants
      <4>2. CASE i \in 1..n
        <5>1. (n + 1 - i + 1) * Cost = (n - i + 1) * Cost + Cost
          BY <4>2, <2>1, GateConstants
        <5>2. (n - i + 1) * Cost \in Int /\ Rate * (now - grants[t][i]) \in Int
          <6>1. n - i + 1 \in Int
            BY <4>2, <2>1
          <6>2. Cost \in Int /\ Rate \in Int
            BY GateConstants
          <6>3. grants[t][i] \in Nat
            BY <4>2, <2>7
          <6>4. now - grants[t][i] \in Int
            BY <6>3, <2>1
          <6> QED
            BY <6>1, <6>2, <6>4, Product
        <5> QED
          BY <5>1, <5>2, <4>2, <3>1, <3>2, <2>7, <2>1, GateConstants
      <4> QED
        BY <4>1, <4>2, <2>1
    <3>4. Reserve(t, Len(grants[t]))'
      <4>1. \A i \in 1..(n + 1) :
              /\ grants'[t][i] <= last'[t]
              /\ (n + 1 - i + 1) * Cost + tokens'[t] <= Burst + Rate * (last'[t] - grants'[t][i])
        BY <3>3, <2>6
      <4>2. Len(grants[t])' = n + 1
        BY <3>2
      <4>3. ASSUME NEW i \in 1..Len(grants[t])'
            PROVE  /\ grants'[t][i] <= last'[t]
                   /\ (Len(grants[t])' - i + 1) * Cost + tokens'[t]
                         <= Burst + Rate * (last'[t] - grants'[t][i])
        <5>1. i \in 1..(n + 1)
          BY <4>2
        <5>2. Len(grants[t])' - i + 1 = n + 1 - i + 1
          BY <4>2, <5>1, <2>1
        <5> QED
          BY <4>1, <5>1, <5>2
      <4> QED
        BY <4>3, Zenon DEF Reserve
    <3>5. \A u \in Targets : Reserve(u, Len(grants[u]))'
      BY <2>8, <3>4
    <3>6. \A u \in known' : tokens'[u] < Burst
      BY <2>1, <2>5, <2>8, <3>1, GateConstants DEF RateInv, TypeOK
    <3>7. \A u \in Targets \ known' : grants'[u] = <<>>
      BY <2>5, <2>8 DEF RateInv
    <3>8. ASSUME NEW i \in 1..(n + 1), NEW j \in 1..(n + 1), i <= j
          PROVE  (j - i + 1) * Cost <= Burst + Rate * (grants'[t][j] - grants'[t][i])
      <4>1. CASE j = n + 1
        <5>1. (n + 1 - i + 1) * Cost + tokens'[t] <= Burst + Rate * (now - grants'[t][i])
          BY <3>3
        <5>2. tokens'[t] \in Nat /\ (n + 1 - i + 1) * Cost \in Int /\ Rate * (now - grants'[t][i]) \in Int
          <6>1. /\ n + 1 - i + 1 \in Int /\ Cost \in Int /\ Rate \in Int
                /\ now - grants'[t][i] \in Int
            BY <3>3, <2>1, GateConstants
          <6>2. tokens'[t] \in Nat
            BY <3>1, <2>1, <2>10, GateConstants
          <6> QED
            BY <6>1, <6>2, Product
        <5>3. (n + 1 - i + 1) * Cost <= Burst + Rate * (now - grants'[t][i])
          BY <5>1, <5>2, GateConstants
        <5>4. j - i + 1 = n + 1 - i + 1 /\ grants'[t][j] = now
          <6>1. j - i + 1 = n + 1 - i + 1
            BY <4>1, <2>1
          <6>2. grants'[t][j] = now
            BY <4>1, <3>2
          <6> QED
            BY <6>1, <6>2
        <5> QED
          BY <5>3, <5>4
      <4>2. CASE j \in 1..n
        <5>1. i \in 1..n /\ DOMAIN grants[t] = 1..n
          BY <4>2, <3>8, <2>1 DEF n
        <5>2. (j - i + 1) * Cost <= Burst + Rate * (grants[t][j] - grants[t][i])
          BY <4>2, <5>1, <3>8 DEF RateInv, RateBounded
        <5>3. grants'[t][i] = grants[t][i] /\ grants'[t][j] = grants[t][j]
          BY <3>2, <4>2, <5>1
        <5> QED
          BY <5>2, <5>3
      <4> QED
        BY <4>1, <4>2, <2>1
    <3>9. RateBounded'
      <4>1. \A i, j \in DOMAIN grants'[t] : i <= j =>
                (j - i + 1) * Cost <= Burst + Rate * (grants'[t][j] - grants'[t][i])
        BY <3>2, <3>8
      <4> QED
        BY <4>1, <2>8 DEF RateInv, RateBounded
    <3> QED
      BY <3>5, <3>6, <3>7, <3>9 DEF RateInv
  <2> QED
    BY <2>1, <2>9, <2>10, GateConstants
<1> QED
  BY <1>1, <1>2 DEF Next, Tick, vars

\* conn.rs, FetchGate: "the total rate at which ANY user's one-time keys can be
\* consumed is bounded", for every burst, rate, map cap and number of callers.
THEOREM RateBoundedAlways == Spec => []RateBounded
<1>1. Init => TypeOK /\ RateInv
  <2>1. Init => TypeOK
    BY GateConstants DEF Init, TypeOK
  <2>2. Init => RateInv
    BY DEF Init, RateInv, Reserve, RateBounded
  <2> QED
    BY <2>1, <2>2
<1>2. TypeOK /\ RateInv /\ [Next]_vars => (TypeOK /\ RateInv)'
  BY TypeNext, RateNext
<1>3. RateInv => RateBounded
  BY DEF RateInv
<1> QED
  BY <1>1, <1>2, <1>3, PTL DEF Spec
============================================================================
