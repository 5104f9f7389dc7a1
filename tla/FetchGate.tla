----------------------------- MODULE FetchGate -----------------------------
(***************************************************************************)
(* The token bucket of backend/server/src/conn.rs (RateLimiter) and the    *)
(* map of buckets that throttles FetchPrekeys per target (fetch_allowed).  *)
(* The map is behind one mutex, so a call is one action, whichever         *)
(* connection makes it.  Tokens are counted in a unit of which one action  *)
(* costs Cost, so that a refill per unit of time is a whole number.        *)
(***************************************************************************)
EXTENDS Integers, Sequences, FiniteSets

CONSTANTS
    Targets,    \* the usernames fetched
    Cost,       \* one token, in units
    Rate,       \* FETCH_RATE: units refilled per unit of time
    Burst,      \* FETCH_BURST, in units
    GateCap,    \* FETCH_GATE_CAP
    MaxNow,     \* bound: the clock
    MaxGrants   \* bound: fetches granted per target

ASSUME GateConstants ==
    /\ Cost \in Nat \ {0} /\ Rate \in Nat /\ Burst \in Nat /\ Cost <= Burst
    /\ GateCap \in Nat /\ MaxNow \in Nat /\ MaxGrants \in Nat

VARIABLES
    known,    \* the targets that have a bucket in the map
    tokens,   \* RateLimiter.tokens
    last,     \* RateLimiter.last
    now,      \* Instant::now()
    grants    \* history: when a fetch of the target was allowed

vars == <<known, tokens, last, now, grants>>

Lesser(x, y) == IF x <= y THEN x ELSE y

\* What a bucket holds once it is brought up to date.
Refilled(level, since) == Lesser(level + Rate * (now - since), Burst)

\* Mutant: retain's predicate the wrong way round.
KeptFull == IF Cardinality(known) > GateCap THEN {t \in known : tokens[t] >= Burst} ELSE known

\* map.retain(tokens < burst), when the map has outgrown its cap.
Kept == IF Cardinality(known) > GateCap THEN {t \in known : tokens[t] < Burst} ELSE known

\* RateLimiter::allow up to the decision: a new bucket starts full.
Level(kept, t) == IF t \in kept THEN Refilled(tokens[t], last[t]) ELSE Burst

\* fetch_allowed(gate, t).
FetchAllowed(t) ==
    LET level == Level(Kept, t) IN
    /\ Len(grants[t]) < MaxGrants
    /\ known' = Kept \cup {t}
    /\ last' = [last EXCEPT ![t] = now]
    /\ \/ /\ level >= Cost
          /\ tokens' = [tokens EXCEPT ![t] = level - Cost]
          /\ grants' = [grants EXCEPT ![t] = Append(@, now)]
       \/ /\ level < Cost
          /\ tokens' = [tokens EXCEPT ![t] = level]
          /\ UNCHANGED grants
    /\ UNCHANGED now

Tick ==
    /\ now < MaxNow
    /\ now' = now + 1
    /\ UNCHANGED <<known, tokens, last, grants>>

Init ==
    /\ known = {} /\ now = 0
    /\ tokens = [t \in Targets |-> Burst]
    /\ last = [t \in Targets |-> 0]
    /\ grants = [t \in Targets |-> <<>>]

Next == Tick \/ \E t \in Targets : FetchAllowed(t)

Spec == Init /\ [][Next]_vars

----------------------------------------------------------------------------

\* Buckets hold between nothing and their burst, and were touched in the past.
TypeOK ==
    /\ known \subseteq Targets /\ now \in Nat
    /\ tokens \in [Targets -> 0..Burst]
    /\ last \in [Targets -> 0..now]
    /\ grants \in [Targets -> Seq(0..now)]

\* "the total rate at which ANY user's one-time keys can be consumed is bounded":
\* in every stretch of time, from one granted fetch of a target to a later one,
\* the fetches granted cost at most the burst and what was refilled meanwhile,
\* whatever buckets the map drops and creates again.
RateBounded ==
    \A t \in Targets : \A i, j \in DOMAIN grants[t] : i <= j =>
        (j - i + 1) * Cost <= Burst + Rate * (grants[t][j] - grants[t][i])

\* conn.rs: "idle buckets are pruned when exceeded so the map can't grow without
\* bound", "Prunes idle (full) buckets when the map grows past the cap."  A call
\* on a map past its cap leaves no bucket, but the one it uses, that has had the
\* time to fill up.
IdlePruned ==
    [][\A t \in Targets : Cardinality(known) > GateCap /\ FetchAllowed(t) =>
          \A u \in known' \ {t} : Refilled(tokens[u], last[u]) < Burst]_vars
============================================================================
