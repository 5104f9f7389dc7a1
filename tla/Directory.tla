----------------------------- MODULE Directory -----------------------------
(***************************************************************************)
(* The relay's directory: accounts, the challenge-response login and the   *)
(* one-time prekeys.  Source: the Register, AuthBegin, AuthFinish,         *)
(* ClientHello, PublishPrekeys and FetchPrekeys handlers of                *)
(* backend/server/src/conn.rs, the users and prekeys tables of db.rs and   *)
(* the client policy of config.rs.                                         *)
(*                                                                         *)
(* Every handler does its database work in one critical section, so each   *)
(* is one action.  A request that is refused before it changes anything is *)
(* no step here (its answer is Relay's action Answer).                     *)
(***************************************************************************)
EXTENDS Integers, Sequences, FiniteSets

CONSTANTS
    Names,        \* usernames that pass valid_username
    Reserved,     \* those is_reserved_username refuses
    Keys,         \* Ed25519 identity keys
    Conns,        \* connection incarnations
    ClientKey,    \* the private key the client behind a connection holds
    NoName, NoKey, NoBuild, NoConn,
    Builds,       \* client build hashes
    RejectUnofficial, AllowedBuilds,   \* ServerConfig
    Batches,      \* the lists of key ids a PublishPrekeys may carry
    MaxUnused,    \* MAX_UNUSED_PREKEYS
    MaxNonces,    \* bound: challenges issued
    MaxFetches    \* bound: prekeys handed out

KeyIds == UNION {{b[i] : i \in DOMAIN b} : b \in Batches}

ASSUME DirectoryConstants ==
    /\ Reserved \subseteq Names /\ NoName \notin Names
    /\ NoKey \notin Keys /\ NoBuild \notin Builds /\ NoConn \notin Conns
    /\ ClientKey \in [Conns -> Keys]
    /\ RejectUnofficial \in BOOLEAN /\ AllowedBuilds \subseteq Builds
    /\ Batches \subseteq Seq(KeyIds)
    /\ MaxUnused \in Nat /\ MaxNonces \in Nat /\ MaxFetches \in Nat

VARIABLES
    \* the database
    dir,       \* username -> its identity key, or NoKey
    prekeys,   \* rows [id, user, kid, used]
    nextPk,    \* AUTOINCREMENT of prekeys
    \* one connection
    link,      \* "new", "open" or "closed"
    authed,    \* the identity of the connection
    pending,   \* pending_nonce; 0 = None
    build,     \* client_build_hash
    \* the clients and history
    nonces,    \* how many challenges were drawn; the n-th is n
    shown,     \* the challenges a connection was sent
    sigs,      \* signatures clients made: <<key, challenge>>
    founder,   \* the connection that registered a username
    judged,    \* how often a challenge was used to judge a signature
    given      \* <<username, key id>> pairs in the order they were handed out

db == <<dir, prekeys, nextPk>>
conn == <<link, authed, pending, build>>
clients == <<nonces, shown, sigs, founder, judged, given>>
vars == <<db, conn, clients>>

Rows == [id : Nat, user : Names, kid : KeyIds, used : BOOLEAN]

Unused(u) == {r \in prekeys : r.user = u /\ ~r.used}

\* config.client_allowed.
ClientAllowed(c) == RejectUnofficial => build[c] \in AllowedBuilds

----------------------------------------------------------------------------

Accept(c) ==
    /\ link[c] = "new"
    /\ link' = [link EXCEPT ![c] = "open"]
    /\ UNCHANGED <<db, authed, pending, build, clients>>

ClientHello(c, h) ==
    /\ link[c] = "open"
    /\ build' = [build EXCEPT ![c] = h]
    /\ UNCHANGED <<db, link, authed, pending, clients>>

\* Mutant: INSERT OR REPLACE, without the username check.
UnclaimedKeyOnly(u, k) == \A v \in Names \ {u} : dir[v] # k

\* register_user: neither the name nor the key is in the table yet.
Unclaimed(u, k) == dir[u] = NoKey /\ \A v \in Names : dir[v] # k

\* Registration also logs the connection in.  No proof is asked for that the
\* client holds the key it registers.
Register(c, u, k) ==
    /\ link[c] = "open" /\ authed[c] = NoName
    /\ ClientAllowed(c)
    /\ u \notin Reserved
    /\ Unclaimed(u, k)
    /\ dir' = [dir EXCEPT ![u] = k]
    /\ authed' = [authed EXCEPT ![c] = u]
    /\ founder' = [founder EXCEPT ![u] = c]
    /\ UNCHANGED <<prekeys, nextPk, link, pending, build, nonces, shown, sigs, judged, given>>

\* A fresh random challenge replaces the previous one, logged in or not.
AuthBegin(c) ==
    /\ link[c] = "open" /\ nonces < MaxNonces
    /\ nonces' = nonces + 1
    /\ pending' = [pending EXCEPT ![c] = nonces + 1]
    /\ shown' = [shown EXCEPT ![c] = @ \cup {nonces + 1}]
    /\ UNCHANGED <<db, link, authed, build, sigs, founder, judged, given>>

\* The client signs a challenge it was sent.
Sign(c) ==
    /\ \E n \in shown[c] : sigs' = sigs \cup {<<ClientKey[c], n>>}
    /\ UNCHANGED <<db, conn, nonces, shown, founder, judged, given>>

\* Mutants: the challenge is not compared; any signature of the key will do.
VerifiesAnyChallenge(u, n, s) == dir[u] # NoKey /\ s[1] = dir[u]

\* verify_ed25519_b64(rec.ed25519, nonce, signature) for a known user.
Verifies(u, n, s) == dir[u] # NoKey /\ s = <<dir[u], n>>

\* Mutant: the connection remembers the key, not the name.
AuthFinishByKey(c, u, s) ==
    /\ link[c] = "open" /\ authed[c] = NoName
    /\ ClientAllowed(c)
    /\ pending[c] # 0
    /\ pending' = [pending EXCEPT ![c] = 0]
    /\ judged' = [judged EXCEPT ![pending[c]] = @ + 1]
    /\ authed' = IF Verifies(u, pending[c], s) THEN [authed EXCEPT ![c] = dir[u]] ELSE authed
    /\ UNCHANGED <<db, link, build, nonces, shown, sigs, founder, given>>

\* Mutant: a connection that is logged in may log in again.
AuthFinishAgain(c, u, s) ==
    /\ link[c] = "open"
    /\ ClientAllowed(c)
    /\ pending[c] # 0
    /\ pending' = [pending EXCEPT ![c] = 0]
    /\ judged' = [judged EXCEPT ![pending[c]] = @ + 1]
    /\ authed' = IF Verifies(u, pending[c], s) THEN [authed EXCEPT ![c] = u] ELSE authed
    /\ UNCHANGED <<db, link, build, nonces, shown, sigs, founder, given>>

\* The challenge is consumed whatever the outcome (pending_nonce.take()); s is
\* any signature made so far, this connection's or not, recent or not, or none.
AuthFinish(c, u, s) ==
    /\ link[c] = "open" /\ authed[c] = NoName
    /\ ClientAllowed(c)
    /\ pending[c] # 0
    /\ pending' = [pending EXCEPT ![c] = 0]
    /\ judged' = [judged EXCEPT ![pending[c]] = @ + 1]
    /\ authed' = IF Verifies(u, pending[c], s) THEN [authed EXCEPT ![c] = u] ELSE authed
    /\ UNCHANGED <<db, link, build, nonces, shown, sigs, founder, given>>

\* The cap on unused keys, checked against the length of the batch.
Fits(u, b) == Cardinality(Unused(u)) + Len(b) <= MaxUnused

\* The positions of a batch that give a new row, numbered in the order of the
\* batch (of the ids, only their order matters): ON CONFLICT DO NOTHING drops a
\* key id the user ever published, and a repetition inside the batch.
NewPositions(u, b) ==
    {i \in DOMAIN b : /\ \A r \in prekeys : ~(r.user = u /\ r.kid = b[i])
                      /\ \A j \in 1..(i - 1) : b[j] # b[i]}

RowsFor(u, b) ==
    {[id |-> nextPk + i, user |-> u, kid |-> b[i], used |-> FALSE] : i \in NewPositions(u, b)}

\* Mutant: an upsert that makes a published key available again.
PublishRevives(c, b) ==
    /\ link[c] = "open" /\ authed[c] # NoName
    /\ Fits(authed[c], b)
    /\ prekeys' = {r \in prekeys : r.user # authed[c] \/ \A i \in DOMAIN b : r.kid # b[i]} \cup
                  {[id |-> nextPk + i, user |-> authed[c], kid |-> b[i], used |-> FALSE] :
                      i \in {j \in DOMAIN b : \A k \in 1..(j - 1) : b[k] # b[j]}}
    /\ nextPk' = nextPk + Len(b)
    /\ UNCHANGED <<dir, conn, clients>>

PublishPrekeys(c, b) ==
    /\ link[c] = "open" /\ authed[c] # NoName
    /\ Fits(authed[c], b)
    /\ prekeys' = prekeys \cup RowsFor(authed[c], b)
    /\ nextPk' = IF NewPositions(authed[c], b) = {} THEN nextPk ELSE nextPk + Len(b)
    /\ UNCHANGED <<dir, conn, clients>>

\* take_prekey: the oldest unused row is marked used and handed out.  A user
\* without one is answered with a bundle that has no one-time key.
FetchPrekeys(c, u) ==
    /\ link[c] = "open" /\ authed[c] # NoName
    /\ dir[u] # NoKey /\ Len(given) < MaxFetches
    /\ \E r \in Unused(u) :
          /\ \A q \in Unused(u) : r.id <= q.id
          /\ prekeys' = (prekeys \ {r}) \cup {[r EXCEPT !.used = TRUE]}
          /\ given' = Append(given, <<u, r.kid>>)
    /\ UNCHANGED <<dir, nextPk, conn, nonces, shown, sigs, founder, judged>>

\* A set of connections ends; with all of them, the process restarts.
Drop(C) ==
    /\ C # {} /\ \A c \in C : link[c] = "open"
    /\ link' = [c \in Conns |-> IF c \in C THEN "closed" ELSE link[c]]
    /\ authed' = [c \in Conns |-> IF c \in C THEN NoName ELSE authed[c]]
    /\ pending' = [c \in Conns |-> IF c \in C THEN 0 ELSE pending[c]]
    /\ build' = [c \in Conns |-> IF c \in C THEN NoBuild ELSE build[c]]
    /\ UNCHANGED <<db, clients>>

Init ==
    /\ dir = [u \in Names |-> NoKey] /\ prekeys = {} /\ nextPk = 0
    /\ link = [c \in Conns |-> "new"]
    /\ authed = [c \in Conns |-> NoName]
    /\ pending = [c \in Conns |-> 0]
    /\ build = [c \in Conns |-> NoBuild]
    /\ nonces = 0 /\ shown = [c \in Conns |-> {}] /\ sigs = {}
    /\ founder = [u \in Names |-> NoConn]
    /\ judged = [n \in 1..MaxNonces |-> 0]
    /\ given = <<>>

BadSignature == <<NoKey, 0>>

Next ==
    \/ \E c \in Conns :
          \/ Accept(c) \/ AuthBegin(c) \/ Sign(c)
          \/ \E h \in Builds : ClientHello(c, h)
          \/ \E u \in Names, k \in Keys : Register(c, u, k)
          \/ \E u \in Names : FetchPrekeys(c, u)
          \/ \E u \in Names, s \in sigs \cup {BadSignature} : AuthFinish(c, u, s)
          \/ \E b \in Batches : PublishPrekeys(c, b)
    \/ \E C \in SUBSET Conns : Drop(C)

Spec == Init /\ [][Next]_vars

----------------------------------------------------------------------------

\* Every variable has the shape the schema and the declarations give it.
TypeOK ==
    /\ dir \in [Names -> Keys \cup {NoKey}] /\ prekeys \subseteq Rows /\ nextPk \in Nat
    /\ link \in [Conns -> {"new", "open", "closed"}]
    /\ authed \in [Conns -> Names \cup {NoName}]
    /\ pending \in [Conns -> 0..MaxNonces]
    /\ build \in [Conns -> Builds \cup {NoBuild}]
    /\ nonces \in 0..MaxNonces
    /\ shown \in [Conns -> SUBSET (1..MaxNonces)]
    /\ sigs \subseteq Keys \X (1..MaxNonces)
    /\ founder \in [Names -> Conns \cup {NoConn}]
    /\ judged \in [1..MaxNonces -> Nat]
    /\ given \in Seq(Names \X KeyIds)

\* A connection speaks for a user only if the client behind it holds that
\* user's key, or if it is the one that registered the name: no signature made
\* for another connection, or for an earlier challenge, lets anybody in
\* (conn.rs, AuthFinish).
SpeaksForKeyHolder ==
    \A c \in Conns : authed[c] # NoName =>
        dir[authed[c]] = ClientKey[c] \/ founder[authed[c]] = c

\* A challenge judges at most one signature: it is gone after a failure, a
\* success, a newer challenge and the end of its connection.
ChallengeUsedOnce == \A n \in 1..MaxNonces : judged[n] <= 1

\* "One key == one person": no key stands for two usernames.
OneNamePerKey ==
    \A u, v \in Names : dir[u] # NoKey /\ dir[u] = dir[v] => u = v

\* A username's key is written once: whatever clients register, publish or
\* retry, nobody's identity changes.
IdentityImmutable ==
    [][\A u \in Names : dir[u] # NoKey => dir'[u] = dir[u]]_vars

\* A one-time key is handed out once in the life of the database: not to two
\* concurrent fetchers, and not again after its owner re-publishes it.
OneTimeKeyOnce ==
    \A i, j \in DOMAIN given : given[i] = given[j] => i = j

\* No sequence of publishes, from however many connections of a user, leaves
\* more unused keys than the cap.
UnusedBounded == \A u \in Names : Cardinality(Unused(u)) <= MaxUnused

\* What the relay gives out or accepts once: a name per key, a judgement per
\* challenge and a fetch per one-time key, of which no more than the cap wait.
OneTime == OneNamePerKey /\ ChallengeUsedOnce /\ OneTimeKeyOnce /\ UnusedBounded

\* Directory implements the account service the rest of the relay relies on.
Account == INSTANCE Accounts WITH users <- {u \in Names : dir[u] # NoKey}
ImplementsAccounts == Account!Spec
============================================================================
