-------------------------- MODULE DirectoryProofs --------------------------
(***************************************************************************)
(* Theorems about Directory for every set of names, keys and connections.  *)
(***************************************************************************)
EXTENDS Directory, FiniteSetTheorems, TLAPS

USE DEF db, conn, clients

LEMMA BatchElements == \A b \in Batches : b \in Seq(KeyIds)
BY DirectoryConstants

LEMMA RowsForType ==
    ASSUME TypeOK, NEW u \in Names, NEW b \in Batches
    PROVE  RowsFor(u, b) \subseteq Rows
<1>1. b \in Seq(KeyIds)
  BY BatchElements
<1>2. ASSUME NEW i \in NewPositions(u, b)
      PROVE  [id |-> nextPk + i, user |-> u, kid |-> b[i], used |-> FALSE] \in Rows
  <2>1. i \in DOMAIN b /\ i \in Nat
    BY <1>1 DEF NewPositions
  <2>2. b[i] \in KeyIds /\ nextPk + i \in Nat
    BY <1>1, <2>1 DEF TypeOK
  <2> QED
    BY <2>2 DEF Rows
<1> QED
  BY <1>2 DEF RowsFor

LEMMA TypeInit == Init => TypeOK
<1> SUFFICES ASSUME Init PROVE TypeOK
  OBVIOUS
<1> USE DirectoryConstants DEF Init
<1>1. /\ dir \in [Names -> Keys \cup {NoKey}] /\ prekeys \subseteq Rows /\ nextPk \in Nat
      /\ link \in [Conns -> {"new", "open", "closed"}]
      /\ authed \in [Conns -> Names \cup {NoName}]
  OBVIOUS
<1>2. pending \in [Conns -> 0..MaxNonces] /\ build \in [Conns -> Builds \cup {NoBuild}]
      /\ nonces \in 0..MaxNonces
  OBVIOUS
<1>3. shown \in [Conns -> SUBSET (1..MaxNonces)]
  OBVIOUS
<1>4. sigs \subseteq Keys \X (1..MaxNonces) /\ judged \in [1..MaxNonces -> Nat]
  OBVIOUS
<1>5. given \in Seq(Names \X KeyIds)
  OBVIOUS
<1> QED
  BY <1>1, <1>2, <1>3, <1>4, <1>5 DEF TypeOK

LEMMA TypeNext == TypeOK /\ [Next]_vars => TypeOK'
<1> SUFFICES ASSUME TypeOK, [Next]_vars PROVE TypeOK'
  OBVIOUS
<1> USE DirectoryConstants DEF TypeOK
<1>1. ASSUME NEW c \in Conns, Accept(c) PROVE TypeOK'
  BY <1>1 DEF Accept
<1>2. ASSUME NEW c \in Conns, NEW h \in Builds, ClientHello(c, h) PROVE TypeOK'
  BY <1>2 DEF ClientHello
<1>3. ASSUME NEW c \in Conns, NEW u \in Names, NEW k \in Keys, Register(c, u, k) PROVE TypeOK'
  BY <1>3 DEF Register
<1>4. ASSUME NEW c \in Conns, AuthBegin(c) PROVE TypeOK'
  <2>1. nonces' \in 0..MaxNonces /\ nonces + 1 \in 1..MaxNonces
    BY <1>4 DEF AuthBegin
  <2>2. shown' \in [Conns -> SUBSET (1..MaxNonces)]
    BY <1>4, <2>1 DEF AuthBegin
  <2>3. pending' \in [Conns -> 0..MaxNonces]
    BY <1>4, <2>1 DEF AuthBegin
  <2> QED
    BY <1>4, <2>1, <2>2, <2>3 DEF AuthBegin
<1>5. ASSUME NEW c \in Conns, Sign(c) PROVE TypeOK'
  <2>1. PICK n \in shown[c] : sigs' = sigs \cup {<<ClientKey[c], n>>}
    BY <1>5 DEF Sign
  <2>2. <<ClientKey[c], n>> \in Keys \X (1..MaxNonces)
    OBVIOUS
  <2>3. sigs' \subseteq Keys \X (1..MaxNonces)
    BY <2>1, <2>2
  <2> QED
    BY <1>5, <2>3 DEF Sign
<1>6. ASSUME NEW c \in Conns, NEW u \in Names, NEW s \in sigs \cup {BadSignature},
             AuthFinish(c, u, s)
      PROVE  TypeOK'
  BY SMTT(30), <1>6 DEF AuthFinish
<1>7. ASSUME NEW c \in Conns, NEW b \in Batches, PublishPrekeys(c, b) PROVE TypeOK'
  <2>1. authed[c] \in Names
    BY <1>7 DEF PublishPrekeys
  <2>2. prekeys' \subseteq Rows
    BY <1>7, <2>1, RowsForType DEF PublishPrekeys
  <2>3. nextPk' \in Nat
    <3>1. Len(b) \in Nat
      BY BatchElements
    <3> QED
      BY <1>7, <3>1 DEF PublishPrekeys
  <2> QED
    BY <1>7, <2>2, <2>3 DEF PublishPrekeys
<1>8. ASSUME NEW c \in Conns, NEW u \in Names, FetchPrekeys(c, u) PROVE TypeOK'
  <2>1. PICK r \in Unused(u) :
          /\ prekeys' = (prekeys \ {r}) \cup {[r EXCEPT !.used = TRUE]}
          /\ given' = Append(given, <<u, r.kid>>)
    BY <1>8 DEF FetchPrekeys
  <2>2. r \in Rows /\ r.kid \in KeyIds /\ [r EXCEPT !.used = TRUE] \in Rows
    <3>1. r \in Rows
      BY DEF Unused
    <3> QED
      BY <3>1 DEF Rows
  <2>3. prekeys' \subseteq Rows
    BY <2>1, <2>2
  <2>4. given' \in Seq(Names \X KeyIds)
    BY <2>1, <2>2
  <2> QED
    BY <1>8, <2>3, <2>4 DEF FetchPrekeys
<1>9. ASSUME NEW C \in SUBSET Conns, Drop(C) PROVE TypeOK'
  BY <1>9 DEF Drop
<1>10. CASE UNCHANGED vars
  BY <1>10 DEF vars
<1> QED
  BY <1>1, <1>2, <1>3, <1>4, <1>5, <1>6, <1>7, <1>8, <1>9, <1>10 DEF Next

\* The directory's state keeps its shape.
THEOREM TypeCorrect == Spec => []TypeOK
BY TypeInit, TypeNext, PTL DEF Spec

----------------------------------------------------------------------------
(* Who a connection speaks for.                                            *)

\* Challenges are fresh: each belongs to one connection.
ChallengesFresh ==
    /\ \A c \in Conns : shown[c] \subseteq 1..nonces
    /\ \A c, d \in Conns : \A n \in shown[c] \cap shown[d] : c = d
    /\ \A c \in Conns : pending[c] # 0 => pending[c] \in shown[c]

\* A signature over a challenge was made by the client that was sent it.
SignedByReceiver ==
    \A s \in sigs : \A c \in Conns : s[2] \in shown[c] => s[1] = ClientKey[c]

\* Every signature is over a challenge that was drawn.
SignedDrawn == \A s \in sigs : s[2] \in 1..nonces

\* A name that nobody registered has no founder.
FoundedNamesTaken == \A u \in Names : dir[u] = NoKey => founder[u] = NoConn

AuthInv ==
    /\ ChallengesFresh /\ SignedByReceiver /\ SignedDrawn
    /\ FoundedNamesTaken /\ SpeaksForKeyHolder

LEMMA AuthNext == TypeOK /\ AuthInv /\ [Next]_vars => AuthInv'
<1> SUFFICES ASSUME TypeOK, AuthInv, [Next]_vars PROVE AuthInv'
  OBVIOUS
<1> USE DirectoryConstants DEF AuthInv, ChallengesFresh, SignedByReceiver, SignedDrawn,
        FoundedNamesTaken, SpeaksForKeyHolder, TypeOK
<1>1. ASSUME NEW c \in Conns, NEW u \in Names, NEW k \in Keys, Register(c, u, k) PROVE AuthInv'
  BY <1>1 DEF Register, Unclaimed
<1>2. ASSUME NEW c \in Conns, AuthBegin(c) PROVE AuthInv'
  <2>1. /\ nonces' = nonces + 1 /\ nonces \in Nat
        /\ shown' = [shown EXCEPT ![c] = shown[c] \cup {nonces + 1}]
        /\ pending' = [pending EXCEPT ![c] = nonces + 1]
        /\ UNCHANGED <<dir, authed, sigs, founder>>
    BY <1>2 DEF AuthBegin
  <2>2. \A d \in Conns : nonces + 1 \notin shown[d]
    BY <2>1
  <2>3. ChallengesFresh'
    <3>1. \A d \in Conns : shown'[d] \subseteq 1..nonces'
      BY <2>1
    <3>2. \A d, e \in Conns : \A n \in shown'[d] \cap shown'[e] : d = e
      BY <2>1, <2>2
    <3>3. \A d \in Conns : pending'[d] # 0 => pending'[d] \in shown'[d]
      BY <2>1
    <3> QED
      BY <3>1, <3>2, <3>3
  <2>4. SignedByReceiver' /\ SignedDrawn'
    BY <2>1
  <2>5. SpeaksForKeyHolder' /\ FoundedNamesTaken'
    BY <2>1
  <2> QED
    BY <2>3, <2>4, <2>5
<1>3. ASSUME NEW c \in Conns, Sign(c) PROVE AuthInv'
  <2>1. PICK n \in shown[c] : sigs' = sigs \cup {<<ClientKey[c], n>>}
    BY <1>3 DEF Sign
  <2>2. UNCHANGED <<dir, authed, pending, nonces, shown, founder>>
    BY <1>3 DEF Sign
  <2>3. SignedByReceiver' /\ SignedDrawn'
    BY <2>1, <2>2
  <2> QED
    BY <2>2, <2>3
<1>4. ASSUME NEW c \in Conns, NEW u \in Names, NEW s \in sigs \cup {BadSignature},
             AuthFinish(c, u, s)
      PROVE  AuthInv'
  <2>1. /\ pending[c] \in shown[c] /\ pending' = [pending EXCEPT ![c] = 0]
        /\ UNCHANGED <<dir, nonces, shown, sigs, founder>>
    BY <1>4 DEF AuthFinish
  <2>2. CASE Verifies(u, pending[c], s)
    <3>1. s \in sigs /\ s[1] = dir[u] /\ s[2] = pending[c]
      BY <2>2 DEF Verifies, BadSignature
    <3>2. dir[u] = ClientKey[c]
      BY <2>1, <3>1
    <3>3. authed' = [authed EXCEPT ![c] = u]
      BY <1>4, <2>2 DEF AuthFinish
    <3> QED
      BY <2>1, <3>2, <3>3
  <2>3. CASE ~Verifies(u, pending[c], s)
    BY <1>4, <2>1, <2>3 DEF AuthFinish
  <2> QED
    BY <2>2, <2>3
<1>5. ASSUME NEW C \in SUBSET Conns, Drop(C) PROVE AuthInv'
  BY <1>5 DEF Drop
<1>6. ASSUME UNCHANGED <<dir, authed, pending, nonces, shown, sigs, founder>> PROVE AuthInv'
  BY <1>6
<1>7. ASSUME NEW c \in Conns,
             \/ Accept(c) \/ \E h \in Builds : ClientHello(c, h)
             \/ \E u \in Names : FetchPrekeys(c, u)
             \/ \E b \in Batches : PublishPrekeys(c, b)
      PROVE  AuthInv'
  BY <1>6, <1>7 DEF Accept, ClientHello, FetchPrekeys, PublishPrekeys
<1>8. CASE UNCHANGED vars
  BY <1>6, <1>8 DEF vars
<1> HIDE DEF AuthInv
<1> QED
  BY <1>1, <1>2, <1>3, <1>4, <1>5, <1>7, <1>8 DEF Next

\* conn.rs, AuthFinish: only the holder of a user's key, and the connection
\* that registered the name, ever speak for that user, whatever old or foreign signatures are presented.
THEOREM SpeaksForKeyHolderAlways == Spec => []SpeaksForKeyHolder
<1>1. Init => AuthInv
  BY DirectoryConstants DEF Init, AuthInv, ChallengesFresh, SignedByReceiver, SignedDrawn,
     FoundedNamesTaken, SpeaksForKeyHolder
<1>2. TypeOK /\ AuthInv /\ [Next]_vars => (TypeOK /\ AuthInv)'
  BY TypeNext, AuthNext
<1>3. AuthInv => SpeaksForKeyHolder
  BY DEF AuthInv
<1> QED
  BY <1>1, <1>2, <1>3, TypeInit, PTL DEF Spec

\* conn.rs, register_user: an identity, once in the table, never changes.
THEOREM IdentityImmutableAlways == Spec => IdentityImmutable
<1>1. TypeOK /\ [Next]_vars => \A u \in Names : dir[u] # NoKey => dir'[u] = dir[u]
  <2> SUFFICES ASSUME TypeOK, [Next]_vars, NEW u \in Names, dir[u] # NoKey
               PROVE  dir'[u] = dir[u]
    OBVIOUS
  <2>1. ASSUME NEW c \in Conns, NEW v \in Names, NEW k \in Keys, Register(c, v, k) PROVE dir'[u] = dir[u]
    BY <2>1 DEF Register, Unclaimed, TypeOK
  <2>2. ASSUME NEW c \in Conns,
               \/ Accept(c) \/ AuthBegin(c) \/ Sign(c)
               \/ \E h \in Builds : ClientHello(c, h)
               \/ \E v \in Names : FetchPrekeys(c, v)
               \/ \E v \in Names, s \in sigs \cup {BadSignature} : AuthFinish(c, v, s)
               \/ \E b \in Batches : PublishPrekeys(c, b)
        PROVE  dir' = dir
    BY <2>2 DEF Accept, AuthBegin, Sign, ClientHello, FetchPrekeys, AuthFinish, PublishPrekeys
  <2>3. ASSUME NEW C \in SUBSET Conns, Drop(C) PROVE dir' = dir
    BY <2>3 DEF Drop
  <2> QED
    BY <2>1, <2>2, <2>3 DEF Next, vars
<1> QED
  BY <1>1, TypeInit, TypeNext, PTL DEF Spec, IdentityImmutable

----------------------------------------------------------------------------
(* What is given out or accepted once.                                     *)

\* The steps that leave the table of names, the challenges or the one-time keys
\* alone.
LEMMA NextCases ==
    ASSUME [Next]_vars
    PROVE  /\ \/ dir' = dir
              \/ \E c \in Conns, u \in Names, k \in Keys : Register(c, u, k)
           /\ \/ UNCHANGED <<pending, judged, nonces>>
              \/ \E c \in Conns : AuthBegin(c)
              \/ \E c \in Conns, u \in Names, s \in sigs \cup {BadSignature} : AuthFinish(c, u, s)
              \/ \E C \in SUBSET Conns : Drop(C)
           /\ \/ UNCHANGED <<prekeys, given>>
              \/ \E c \in Conns, b \in Batches : PublishPrekeys(c, b)
              \/ \E c \in Conns, u \in Names : FetchPrekeys(c, u)
<1>1. CASE UNCHANGED vars
  BY <1>1 DEF vars
<1>2. ASSUME NEW c \in Conns,
             Accept(c) \/ Sign(c) \/ \E h \in Builds : ClientHello(c, h)
      PROVE  UNCHANGED <<dir, pending, judged, nonces, prekeys, given>>
  BY <1>2 DEF Accept, Sign, ClientHello
<1>3. ASSUME NEW c \in Conns, AuthBegin(c)  PROVE UNCHANGED <<dir, prekeys, given>>
  BY <1>3 DEF AuthBegin
<1>4. ASSUME NEW c \in Conns, NEW u \in Names, NEW k \in Keys, Register(c, u, k)
      PROVE  UNCHANGED <<pending, judged, nonces, prekeys, given>>
  BY <1>4 DEF Register
<1>5. ASSUME NEW c \in Conns, NEW u \in Names, NEW s \in sigs \cup {BadSignature},
             AuthFinish(c, u, s)
      PROVE  UNCHANGED <<dir, prekeys, given>>
  BY <1>5 DEF AuthFinish
<1>6. ASSUME NEW c \in Conns, NEW u \in Names, FetchPrekeys(c, u)
      PROVE  UNCHANGED <<dir, pending, judged, nonces>>
  BY <1>6 DEF FetchPrekeys
<1>7. ASSUME NEW c \in Conns, NEW b \in Batches, PublishPrekeys(c, b)
      PROVE  UNCHANGED <<dir, pending, judged, nonces>>
  BY <1>7 DEF PublishPrekeys
<1>8. ASSUME NEW C \in SUBSET Conns, Drop(C)  PROVE UNCHANGED <<dir, prekeys, given>>
  BY <1>8 DEF Drop
<1> QED
  BY <1>1, <1>2, <1>3, <1>4, <1>5, <1>6, <1>7, <1>8 DEF Next

LEMMA NameNext == TypeOK /\ OneNamePerKey /\ [Next]_vars => OneNamePerKey'
<1> SUFFICES ASSUME TypeOK, OneNamePerKey, [Next]_vars PROVE OneNamePerKey'
  OBVIOUS
<1>1. CASE dir' = dir
  BY <1>1 DEF OneNamePerKey
<1>2. ASSUME NEW c \in Conns, NEW u \in Names, NEW k \in Keys, Register(c, u, k)
      PROVE  OneNamePerKey'
  <2>1. dir' = [dir EXCEPT ![u] = k] /\ \A v \in Names : dir[v] # k
    BY <1>2 DEF Register, Unclaimed
  <2> QED
    BY <2>1 DEF OneNamePerKey, TypeOK
<1> QED
  BY <1>1, <1>2, NextCases

\* Every challenge is at one connection at most, was drawn, and has judged
\* nothing while it is there; so it judges at most once.
ChallengeInv ==
    /\ \A c \in Conns : pending[c] # 0 => pending[c] <= nonces /\ judged[pending[c]] = 0
    /\ \A c, d \in Conns : pending[c] # 0 /\ pending[c] = pending[d] => c = d
    /\ \A n \in 1..MaxNonces : n > nonces => judged[n] = 0
    /\ ChallengeUsedOnce

LEMMA ChallengeNext == TypeOK /\ ChallengeInv /\ [Next]_vars => ChallengeInv'
<1> SUFFICES ASSUME TypeOK, ChallengeInv, [Next]_vars PROVE ChallengeInv'
  OBVIOUS
<1>0. /\ pending \in [Conns -> 0..MaxNonces] /\ judged \in [1..MaxNonces -> Nat]
      /\ nonces \in 0..MaxNonces /\ MaxNonces \in Nat
  BY DirectoryConstants DEF TypeOK
<1>1. CASE UNCHANGED <<pending, judged, nonces>>
  BY <1>1 DEF ChallengeInv, ChallengeUsedOnce
<1>2. ASSUME NEW c \in Conns, AuthBegin(c)  PROVE ChallengeInv'
  <2>1. /\ nonces' = nonces + 1 /\ nonces < MaxNonces /\ judged' = judged
        /\ pending' = [pending EXCEPT ![c] = nonces + 1]
    BY <1>2 DEF AuthBegin
  <2>2. pending'[c] = nonces + 1 /\ \A d \in Conns : d # c => pending'[d] = pending[d]
    BY <1>0, <2>1
  <2>3. \A d \in Conns : pending'[d] # 0 => pending'[d] <= nonces' /\ judged'[pending'[d]] = 0
    BY <1>0, <2>1, <2>2 DEF ChallengeInv
  <2>4. \A d, e \in Conns : pending'[d] # 0 /\ pending'[d] = pending'[e] => d = e
    BY <1>0, <2>1, <2>2 DEF ChallengeInv
  <2>5. \A n \in 1..MaxNonces : n > nonces' => judged'[n] = 0
    BY <1>0, <2>1 DEF ChallengeInv
  <2>6. ChallengeUsedOnce'
    BY <2>1 DEF ChallengeInv, ChallengeUsedOnce
  <2> QED
    BY <2>3, <2>4, <2>5, <2>6 DEF ChallengeInv
<1>3. ASSUME NEW c \in Conns, NEW u \in Names, NEW s \in sigs \cup {BadSignature},
             AuthFinish(c, u, s)
      PROVE  ChallengeInv'
  <2>1. /\ pending[c] # 0 /\ nonces' = nonces
        /\ judged' = [judged EXCEPT ![pending[c]] = judged[pending[c]] + 1]
        /\ pending' = [pending EXCEPT ![c] = 0]
    BY <1>3 DEF AuthFinish
  <2>2. pending'[c] = 0 /\ \A d \in Conns : d # c => pending'[d] = pending[d]
    BY <1>0, <2>1
  <2>3. pending[c] \in 1..MaxNonces /\ pending[c] <= nonces /\ judged[pending[c]] = 0
    BY <1>0, <2>1 DEF ChallengeInv
  <2>4. /\ judged'[pending[c]] = 1
        /\ \A n \in 1..MaxNonces : n # pending[c] => judged'[n] = judged[n]
    BY <1>0, <2>1, <2>3
  <2>5. \A d \in Conns : pending'[d] # 0 => pending'[d] <= nonces' /\ judged'[pending'[d]] = 0
    <3> SUFFICES ASSUME NEW d \in Conns, pending'[d] # 0
                 PROVE  pending'[d] <= nonces' /\ judged'[pending'[d]] = 0
      OBVIOUS
    <3>1. d # c /\ pending'[d] = pending[d]
      BY <2>2
    <3>2. pending[d] # pending[c] /\ pending[d] <= nonces /\ judged[pending[d]] = 0
      BY <2>1, <3>1 DEF ChallengeInv
    <3>3. pending[d] \in 1..MaxNonces
      BY <1>0, <3>1
    <3> QED
      BY <2>1, <2>4, <3>1, <3>2, <3>3
  <2>6. \A d, e \in Conns : pending'[d] # 0 /\ pending'[d] = pending'[e] => d = e
    BY <2>2 DEF ChallengeInv
  <2>7. \A n \in 1..MaxNonces : n > nonces' => judged'[n] = 0
    BY <1>0, <2>1, <2>3, <2>4 DEF ChallengeInv
  <2>8. ChallengeUsedOnce'
    BY <1>0, <2>4 DEF ChallengeInv, ChallengeUsedOnce
  <2> QED
    BY <2>5, <2>6, <2>7, <2>8 DEF ChallengeInv
<1>4. ASSUME NEW C \in SUBSET Conns, Drop(C)  PROVE ChallengeInv'
  <2>1. /\ UNCHANGED <<judged, nonces>>
        /\ \A c \in Conns : pending'[c] # 0 => pending'[c] = pending[c]
    BY <1>4 DEF Drop
  <2> QED
    BY <2>1 DEF ChallengeInv, ChallengeUsedOnce
<1> QED
  BY <1>1, <1>2, <1>3, <1>4, NextCases

\* One row for each key id of a user; what was handed out is a row marked used.
KeyRowOnce ==
    \A r, q \in prekeys : r.user = q.user /\ r.kid = q.kid => r = q
GivenUsed ==
    \A i \in DOMAIN given : \E r \in prekeys : r.used /\ given[i] = <<r.user, r.kid>>
KeyInv == KeyRowOnce /\ GivenUsed /\ OneTimeKeyOnce

LEMMA KeyNext == TypeOK /\ KeyInv /\ [Next]_vars => KeyInv'
<1> SUFFICES ASSUME TypeOK, KeyInv, [Next]_vars PROVE KeyInv'
  OBVIOUS
<1>1. CASE UNCHANGED <<prekeys, given>>
  BY <1>1 DEF KeyInv, KeyRowOnce, GivenUsed, OneTimeKeyOnce
<1>2. ASSUME NEW c \in Conns, NEW b \in Batches, PublishPrekeys(c, b)  PROVE KeyInv'
  <2>1. prekeys' = prekeys \cup RowsFor(authed[c], b) /\ given' = given
    BY <1>2 DEF PublishPrekeys
  <2>2. ASSUME NEW r \in prekeys', NEW q \in prekeys', r.user = q.user, r.kid = q.kid
        PROVE  r = q
    <3>0. b \in Seq(KeyIds)
      BY BatchElements
    <3>1. CASE r \in prekeys /\ q \in prekeys
      BY <2>2, <3>1 DEF KeyInv, KeyRowOnce
    <3>2. ASSUME NEW x \in prekeys, NEW y \in RowsFor(authed[c], b)
          PROVE  ~(x.user = y.user /\ x.kid = y.kid)
      <4>1. PICK i \in NewPositions(authed[c], b) :
               y = [id |-> nextPk + i, user |-> authed[c], kid |-> b[i], used |-> FALSE]
        BY DEF RowsFor
      <4> QED
        BY <4>1 DEF NewPositions
    <3>3. CASE r \in RowsFor(authed[c], b) /\ q \in RowsFor(authed[c], b)
      <4>1. PICK i \in NewPositions(authed[c], b) :
               r = [id |-> nextPk + i, user |-> authed[c], kid |-> b[i], used |-> FALSE]
        BY <3>3 DEF RowsFor
      <4>2. PICK j \in NewPositions(authed[c], b) :
               q = [id |-> nextPk + j, user |-> authed[c], kid |-> b[j], used |-> FALSE]
        BY <3>3 DEF RowsFor
      <4>3. b[i] = b[j] /\ i \in 1..Len(b) /\ j \in 1..Len(b)
        BY <2>2, <3>0, <4>1, <4>2 DEF NewPositions
      <4>4. Len(b) \in Nat
        BY <3>0
      <4>5. (i \notin 1..(j - 1)) /\ (j \notin 1..(i - 1))
        BY <4>3 DEF NewPositions
      <4>6. i = j
        BY <4>3, <4>4, <4>5
      <4> QED
        BY <4>1, <4>2, <4>6
    <3> QED
      BY <2>1, <2>2, <3>1, <3>2, <3>3
  <2>3. KeyRowOnce'
    BY <2>2 DEF KeyRowOnce
  <2>4. GivenUsed' /\ OneTimeKeyOnce'
    BY <2>1 DEF KeyInv, GivenUsed, OneTimeKeyOnce
  <2> QED
    BY <2>3, <2>4 DEF KeyInv
<1>3. ASSUME NEW c \in Conns, NEW u \in Names, FetchPrekeys(c, u)  PROVE KeyInv'
  <2>1. PICK r \in Unused(u) :
          /\ prekeys' = (prekeys \ {r}) \cup {[r EXCEPT !.used = TRUE]}
          /\ given' = Append(given, <<u, r.kid>>)
    BY <1>3 DEF FetchPrekeys
  <2>2. r \in prekeys /\ r \in Rows /\ r.user = u /\ ~r.used
    BY DEF Unused, TypeOK
  <2> DEFINE w == [r EXCEPT !.used = TRUE]
  <2>3. w.user = u /\ w.kid = r.kid /\ w.used /\ w \in prekeys'
    BY <2>1, <2>2 DEF Rows
  <2>4. prekeys' = (prekeys \ {r}) \cup {w}
    BY <2>1
  <2> HIDE DEF w
  <2>5. KeyRowOnce'
    BY <2>2, <2>3, <2>4 DEF KeyInv, KeyRowOnce
  <2>6. /\ given \in Seq(Names \X KeyIds) /\ <<u, r.kid>> \in Names \X KeyIds
    BY <2>2 DEF TypeOK, Rows
  <2>7. /\ DOMAIN given' = 1..(Len(given) + 1) /\ DOMAIN given = 1..Len(given)
        /\ Len(given) \in Nat
        /\ \A i \in 1..Len(given) : given'[i] = given[i]
        /\ given'[Len(given) + 1] = <<u, r.kid>>
    BY <2>1, <2>6
  <2>8. \A i \in 1..Len(given) : given[i] # <<u, r.kid>>
    <3> SUFFICES ASSUME NEW i \in 1..Len(given), given[i] = <<u, r.kid>>  PROVE FALSE
      OBVIOUS
    <3>1. PICK q \in prekeys : q.used /\ given[i] = <<q.user, q.kid>>
      BY <2>7 DEF KeyInv, GivenUsed
    <3>2. q = r
      BY <2>2, <3>1 DEF KeyInv, KeyRowOnce
    <3> QED
      BY <2>2, <3>1, <3>2
  <2>9. OneTimeKeyOnce'
    BY <2>7, <2>8 DEF KeyInv, OneTimeKeyOnce
  <2>10. GivenUsed'
    <3> SUFFICES ASSUME NEW i \in DOMAIN given'
                 PROVE  \E q \in prekeys' : q.used /\ given'[i] = <<q.user, q.kid>>
      BY DEF GivenUsed
    <3>1. CASE i = Len(given) + 1
      BY <2>3, <2>7, <3>1
    <3>2. CASE i \in 1..Len(given)
      <4>1. PICK q \in prekeys : q.used /\ given[i] = <<q.user, q.kid>>
        BY <2>7, <3>2 DEF KeyInv, GivenUsed
      <4>2. q \in prekeys'
        BY <2>2, <2>4, <4>1
      <4> QED
        BY <2>7, <3>2, <4>1, <4>2
    <3> QED
      BY <2>7, <3>1, <3>2
  <2> QED
    BY <2>5, <2>9, <2>10 DEF KeyInv
<1> QED
  BY <1>1, <1>2, <1>3, NextCases

\* The cap on unused keys.
RowsFinite == IsFiniteSet(prekeys)

LEMMA FewRows ==
    ASSUME TypeOK, NEW u, NEW b \in Batches
    PROVE  IsFiniteSet(RowsFor(u, b)) /\ Cardinality(RowsFor(u, b)) <= Len(b)
<1> DEFINE P == NewPositions(u, b)
           f == [i \in P |-> [id |-> nextPk + i, user |-> u, kid |-> b[i], used |-> FALSE]]
<1>1. b \in Seq(KeyIds) /\ Len(b) \in Nat /\ DOMAIN b = 1..Len(b)
  BY BatchElements
<1>2. P \in SUBSET (1..Len(b))
  BY <1>1 DEF NewPositions
<1>3. IsFiniteSet(1..Len(b)) /\ Cardinality(1..Len(b)) = Len(b)
  BY SMTT(30), <1>1, FS_Interval
<1>4. IsFiniteSet(P) /\ Cardinality(P) <= Len(b)
  BY <1>2, <1>3, FS_Subset
<1>5. f \in Surjection(P, RowsFor(u, b))
  BY DEF Surjection, RowsFor
<1>6. IsFiniteSet(RowsFor(u, b)) /\ Cardinality(RowsFor(u, b)) <= Cardinality(P)
  BY <1>4, <1>5, FS_Surjection
<1>7. Cardinality(P) \in Nat /\ Cardinality(RowsFor(u, b)) \in Nat
  BY <1>4, <1>6, FS_CardinalityType
<1> QED
  BY <1>1, <1>4, <1>6, <1>7

LEMMA BoundNext ==
    TypeOK /\ RowsFinite /\ UnusedBounded /\ [Next]_vars => RowsFinite' /\ UnusedBounded'
<1> SUFFICES ASSUME TypeOK, RowsFinite, UnusedBounded, [Next]_vars
             PROVE  RowsFinite' /\ UnusedBounded'
  OBVIOUS
<1>0. \A u : IsFiniteSet(Unused(u)) /\ Cardinality(Unused(u)) \in Nat
  <2> SUFFICES ASSUME NEW u  PROVE IsFiniteSet(Unused(u)) /\ Cardinality(Unused(u)) \in Nat
    OBVIOUS
  <2>1. Unused(u) \in SUBSET prekeys
    BY DEF Unused
  <2>2. IsFiniteSet(Unused(u))
    BY <2>1, FS_Subset DEF RowsFinite
  <2> QED
    BY <2>2, FS_CardinalityType
<1>1. CASE UNCHANGED <<prekeys, given>>
  BY <1>1 DEF RowsFinite, UnusedBounded, Unused
<1>2. ASSUME NEW c \in Conns, NEW b \in Batches, PublishPrekeys(c, b)
      PROVE  RowsFinite' /\ UnusedBounded'
  <2>0. PICK a \in Names : a = authed[c]
    BY <1>2 DEF PublishPrekeys, TypeOK
  <2> DEFINE N == RowsFor(a, b)
  <2>1. prekeys' = prekeys \cup N /\ Fits(a, b)
    BY <1>2, <2>0 DEF PublishPrekeys
  <2>2. IsFiniteSet(N) /\ Cardinality(N) <= Len(b) /\ Cardinality(N) \in Nat
    BY FewRows, FS_CardinalityType
  <2>3. RowsFinite'
    BY <2>1, <2>2, FS_Union DEF RowsFinite
  <2>4. \A r \in N : r.user = a /\ ~r.used
    BY DEF RowsFor
  <2> HIDE DEF N
  <2>5. ASSUME NEW u \in Names  PROVE (Cardinality(Unused(u)) <= MaxUnused)'
    <3>1. CASE u # a
      <4>1. Unused(u)' = Unused(u)
        BY <2>1, <2>4, <3>1 DEF Unused
      <4> QED
        BY <4>1 DEF UnusedBounded
    <3>2. CASE u = a
      <4>1. Unused(u)' = Unused(u) \cup N
        BY <2>1, <2>4, <3>2 DEF Unused
      <4>2. IsFiniteSet(Unused(u) \cap N)
        BY <1>0, FS_Subset
      <4>3. Cardinality(Unused(u) \cap N) \in Nat
        BY <4>2, FS_CardinalityType
      <4>4. Cardinality(Unused(u)') = Cardinality(Unused(u)) + Cardinality(N)
                                        - Cardinality(Unused(u) \cap N)
        BY <1>0, <2>2, <4>1, FS_Union
      <4>5. Cardinality(Unused(u)) + Len(b) <= MaxUnused /\ Len(b) \in Nat
        BY <2>1, <3>2, BatchElements DEF Fits
      <4>6. MaxUnused \in Nat
        BY DirectoryConstants
      <4> QED
        BY <1>0, <2>2, <4>3, <4>4, <4>5, <4>6
    <3> QED
      BY <3>1, <3>2
  <2> QED
    BY <2>3, <2>5 DEF UnusedBounded
<1>3. ASSUME NEW c \in Conns, NEW u \in Names, FetchPrekeys(c, u)
      PROVE  RowsFinite' /\ UnusedBounded'
  <2>1. PICK r \in Unused(u) : prekeys' = (prekeys \ {r}) \cup {[r EXCEPT !.used = TRUE]}
    BY <1>3 DEF FetchPrekeys
  <2>2. r \in Rows
    BY DEF Unused, TypeOK
  <2> DEFINE w == [r EXCEPT !.used = TRUE]
  <2>3. w.used /\ prekeys' = (prekeys \ {r}) \cup {w}
    BY <2>1, <2>2 DEF Rows
  <2> HIDE DEF w
  <2>4. RowsFinite'
    BY <2>3, FS_AddElement, FS_RemoveElement DEF RowsFinite
  <2>5. ASSUME NEW v \in Names  PROVE (Cardinality(Unused(v)) <= MaxUnused)'
    <3>1. Unused(v)' \in SUBSET Unused(v)
      BY <2>3 DEF Unused
    <3>2. IsFiniteSet(Unused(v)') /\ Cardinality(Unused(v)') <= Cardinality(Unused(v))
      BY <1>0, <3>1, FS_Subset
    <3>3. Cardinality(Unused(v)') \in Nat /\ Cardinality(Unused(v)) <= MaxUnused
      BY <3>2, FS_CardinalityType DEF UnusedBounded
    <3> QED
      BY <1>0, <3>2, <3>3, DirectoryConstants
  <2> QED
    BY <2>4, <2>5 DEF UnusedBounded
<1> QED
  BY <1>1, <1>2, <1>3, NextCases

OnceInv == OneNamePerKey /\ ChallengeInv /\ KeyInv /\ RowsFinite /\ UnusedBounded

LEMMA OnceInit == Init => OnceInv
<1> SUFFICES ASSUME Init PROVE OnceInv
  OBVIOUS
<1>1. OneNamePerKey /\ KeyInv
  BY DEF Init, OneNamePerKey, KeyInv, KeyRowOnce, GivenUsed, OneTimeKeyOnce
<1>2. ChallengeInv
  BY DirectoryConstants DEF Init, ChallengeInv, ChallengeUsedOnce
<1>3. RowsFinite
  BY FS_EmptySet DEF Init, RowsFinite
<1>4. UnusedBounded
  <2>1. \A u : Unused(u) = {}
    BY DEF Init, Unused
  <2>2. Cardinality({}) = 0 /\ MaxUnused \in Nat
    BY FS_EmptySet, DirectoryConstants
  <2>3. ASSUME NEW u \in Names  PROVE Cardinality(Unused(u)) <= MaxUnused
    BY <2>1, <2>2
  <2> QED
    BY <2>3 DEF UnusedBounded
<1> QED
  BY <1>1, <1>2, <1>3, <1>4 DEF OnceInv

\* db.rs register_user, conn.rs AuthFinish, db.rs take_prekey and the cap of
\* PublishPrekeys: for any names, keys and connections, a key never stands for
\* two names, a challenge never judges twice, a one-time key is never handed out
\* twice, and the unused keys of a user never exceed the cap.
THEOREM OneTimeAlways == Spec => []OneTime
<1>1. Init => TypeOK /\ OnceInv
  BY TypeInit, OnceInit
<1>2. TypeOK /\ OnceInv /\ [Next]_vars => TypeOK' /\ OnceInv'
  BY TypeNext, NameNext, ChallengeNext, KeyNext, BoundNext DEF OnceInv
<1>3. OnceInv => OneTime
  BY DEF OnceInv, ChallengeInv, KeyInv, OneTime
<1> QED
  BY <1>1, <1>2, <1>3, PTL DEF Spec

----------------------------------------------------------------------------
(* Directory implements Accounts.                                          *)

\* A step of the directory is a registration, a login, the end of connections or
\* nothing of the account service's.
LEMMA AccountStep ==
    ASSUME TypeOK, [Next]_vars
    PROVE  [Account!Next]_(Account!vars)
<1> USE DEF Account!vars
<1>1. ASSUME UNCHANGED <<dir, authed>>  PROVE UNCHANGED Account!vars
  BY <1>1
<1>2. ASSUME NEW c \in Conns, NEW u \in Names, NEW k \in Keys, Register(c, u, k)
      PROVE  Account!Next
  <2>1. /\ authed[c] = NoName /\ authed' = [authed EXCEPT ![c] = u]
        /\ dir[u] = NoKey /\ dir' = [dir EXCEPT ![u] = k] /\ k # NoKey
    BY <1>2, DirectoryConstants DEF Register, Unclaimed
  <2>2. {v \in Names : dir'[v] # NoKey} = {v \in Names : dir[v] # NoKey} \cup {u}
    BY <2>1 DEF TypeOK
  <2>3. Account!Register(c, u)
    BY <2>1, <2>2 DEF Account!Register
  <2> QED
    BY <2>3 DEF Account!Next
<1>3. ASSUME NEW c \in Conns, NEW u \in Names, NEW s \in sigs \cup {BadSignature},
             AuthFinish(c, u, s)
      PROVE  Account!Next \/ UNCHANGED Account!vars
  <2>1. dir' = dir /\ authed[c] = NoName
    BY <1>3 DEF AuthFinish
  <2>2. CASE Verifies(u, pending[c], s)
    <3>1. dir[u] # NoKey /\ authed' = [authed EXCEPT ![c] = u]
      BY <1>3, <2>2 DEF AuthFinish, Verifies
    <3>2. Account!Login(c, u)
      BY <2>1, <3>1 DEF Account!Login
    <3> QED
      BY <3>2 DEF Account!Next
  <2>3. CASE ~Verifies(u, pending[c], s)
    BY <1>1, <1>3, <2>1, <2>3 DEF AuthFinish
  <2> QED
    BY <2>2, <2>3
<1>4. ASSUME NEW C \in SUBSET Conns, Drop(C)  PROVE Account!Next
  <2>1. Account!Drop(C)
    BY <1>4 DEF Drop, Account!Drop
  <2> QED
    BY <2>1 DEF Account!Next
<1>5. ASSUME NEW c \in Conns,
             \/ Accept(c) \/ AuthBegin(c) \/ Sign(c)
             \/ \E h \in Builds : ClientHello(c, h)
             \/ \E u \in Names : FetchPrekeys(c, u)
             \/ \E b \in Batches : PublishPrekeys(c, b)
      PROVE  UNCHANGED <<dir, authed>>
  BY <1>5 DEF Accept, AuthBegin, Sign, ClientHello, FetchPrekeys, PublishPrekeys
<1>6. CASE UNCHANGED vars
  BY <1>1, <1>6 DEF vars
<1> QED
  BY <1>1, <1>2, <1>3, <1>4, <1>5, <1>6 DEF Next

\* The directory's handlers implement the account service that the relay's
\* model of connections rests on: names are registered once and stay, and a
\* connection becomes one registered user until it ends.
THEOREM ImplementsAccountsAlways == Spec => ImplementsAccounts
<1>1. Init => Account!Init
  BY DEF Init, Account!Init
<1>2. TypeOK /\ [Next]_vars => [Account!Next]_(Account!vars)
  BY AccountStep
<1> QED
  BY <1>1, <1>2, TypeInit, TypeNext, PTL DEF Spec, ImplementsAccounts, Account!Spec
============================================================================
