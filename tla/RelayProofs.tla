---------------------------- MODULE RelayProofs ----------------------------
(***************************************************************************)
(* Theorems about Relay for every set of users and connections, every      *)
(* capacity and every bound.                                               *)
(***************************************************************************)
EXTENDS Relay, FiniteSetTheorems, WellFoundedInduction, TLAPS

\* The local variables of a Send while its handler runs.
SendLocals ==
    \A c \in Conns :
        /\ pc[c] \in {"route", "push", "enqueue"} => msg[c] \in Frames
        /\ pc[c] \in {"push", "enqueue"} => rest[c] # <<>> /\ Head(rest[c]) \in users
        /\ pc[c] = "push" => target[c] \in Conns

TypeInv == TypeOK /\ SendLocals

USE DEF db, proc, flushing, sending, history

\* The values of an idle connection have the right types.
LEMMA EmptyLocals ==
    /\ [c \in Conns |-> <<>>] \in [Conns -> Seq(Frames \cup {Reply})]
    /\ [c \in Conns |-> <<>>] \in [Conns -> Seq(Frames)]
    /\ [c \in Conns |-> <<>>] \in [Conns -> Seq(Users)]
    /\ [c \in Conns |-> {}] \in [Conns -> SUBSET Rows]
    /\ [c \in Conns |-> {}] \in [Conns -> SUBSET Nat]
    /\ [c \in Conns |-> {}] \in [Conns -> SUBSET Users]
    /\ [c \in Conns |-> Reply] \in [Conns -> Frames \cup {Reply}]
    /\ [c \in Conns |-> NoConn] \in [Conns -> Conns \cup {NoConn}]
    /\ [u \in Users |-> NoConn] \in [Users -> Conns \cup {NoConn}]
    /\ [c \in Conns |-> FALSE] \in [Conns -> BOOLEAN]
OBVIOUS

LEMMA TypeInvInit == Init => TypeInv
<1> SUFFICES ASSUME Init PROVE TypeInv
  OBVIOUS
<1>1. outbox \subseteq Rows
  BY RelayConstants, FrameConstants DEF Init, Rows
<1>2. TypeOK
  <2>1. pc \in [Conns -> Labels] /\ authed \in [Conns -> Users \cup {NoUser}]
    BY DEF Init, Labels
  <2>2. /\ online \in [Users -> Conns \cup {NoConn}] /\ alive \in [Conns -> BOOLEAN]
        /\ chan \in [Conns -> Seq(Frames \cup {Reply})]
        /\ rows \in [Conns -> SUBSET Rows] /\ handed \in [Conns -> SUBSET Nat]
        /\ msg \in [Conns -> Frames \cup {Reply}] /\ rest \in [Conns -> Seq(Users)]
        /\ seen \in [Conns -> SUBSET Users] /\ target \in [Conns -> Conns \cup {NoConn}]
        /\ got \in [Conns -> Seq(Frames)] /\ latest \in [Users -> Conns \cup {NoConn}]
    BY EmptyLocals, Zenon DEF Init
  <2>3. /\ accepted \subseteq Frames \X Users /\ queued \subseteq Frames \X Users
        /\ lost \subseteq (Frames \cup {Junk}) \X (Users \cup {NoUser})
    BY DEF Init
  <2>4. up \in BOOLEAN /\ draining \in BOOLEAN
    BY Zenon DEF Init
  <2>5. /\ users \subseteq Users /\ nextId \in Nat /\ sincePrune \in 0..Interval /\ now \in Nat /\ nsent \in Nat /\ nstops \in Nat
    BY RelayConstants DEF Init
  <2> QED
    BY <1>1, <2>1, <2>2, <2>3, <2>4, <2>5 DEF TypeOK
<1>3. SendLocals
  BY DEF Init, SendLocals
<1> QED
  BY <1>2, <1>3 DEF TypeInv

\* What a channel loses are frames, with the identity of its connection.
LEMMA UndeliveredType ==
    ASSUME TypeOK, NEW C \in SUBSET Conns
    PROVE  Undelivered(C) \subseteq Frames \X (Users \cup {NoUser})
<1>1. ASSUME NEW c \in C PROVE FramesIn(chan[c]) \subseteq Frames
  <2>1. chan[c] \in Seq(Frames \cup {Reply})
    BY DEF TypeOK
  <2>2. \A i \in DOMAIN chan[c] : chan[c][i] \in Frames \cup {Reply}
    BY <2>1
  <2> QED
    BY <2>2 DEF FramesIn
<1>2. \A c \in C : authed[c] \in Users \cup {NoUser}
  BY DEF TypeOK
<1> QED
  BY <1>1, <1>2 DEF Undelivered

LEMMA TypeInvNext == TypeInv /\ [Next]_vars => TypeInv'
<1> SUFFICES ASSUME TypeInv, [Next]_vars PROVE TypeInv'
  OBVIOUS
<1> USE RelayConstants, FrameConstants DEF TypeInv, TypeOK, SendLocals, Labels
<1>1. ASSUME NEW c \in Conns, Accept(c) PROVE TypeInv'
  BY <1>1 DEF Accept, Goto
<1>2. ASSUME NEW c \in Conns, NEW u \in Users, Register(c, u) PROVE TypeInv'
  BY <1>2 DEF Register, Goto
<1>3. ASSUME NEW c \in Conns, NEW u \in Users, Login(c, u) PROVE TypeInv'
  BY <1>3 DEF Login, Goto
<1>4. ASSUME NEW c \in Conns, Publish(c) PROVE TypeInv'
  BY <1>4 DEF Publish, Goto
<1>5. ASSUME NEW c \in Conns, Greet(c) PROVE TypeInv'
  BY <1>5 DEF Greet, Goto, TrySend
<1>6. ASSUME NEW c \in Conns, Answer(c) PROVE TypeInv'
  BY <1>6 DEF Answer, TrySend
<1>7. ASSUME NEW c \in Conns, Pull(c) PROVE TypeInv'
  BY <1>7 DEF Pull, Goto
<1>8. ASSUME NEW c \in Conns, FlushFetch(c) PROVE TypeInv'
  BY <1>8 DEF FlushFetch, Goto, RowsOf
<1>9. ASSUME NEW c \in Conns, FlushSend(c) PROVE TypeInv'
  BY SMTT(30), <1>9 DEF FlushSend, Handed, Rows
<1>10. ASSUME NEW c \in Conns, FlushJunk(c) PROVE TypeInv'
  BY SMTT(30), <1>10 DEF FlushJunk, Handed, Rows
<1>11. ASSUME NEW c \in Conns, FlushStop(c) PROVE TypeInv'
  BY <1>11 DEF FlushStop, Goto
<1>12. ASSUME NEW c \in Conns, FlushDelete(c) PROVE TypeInv'
  BY <1>12 DEF FlushDelete, Goto
<1>13. ASSUME NEW c \in Conns, ReadSend(c) PROVE TypeInv'
  <2>1. PICK to \in ToLists, size \in Sizes :
          /\ rest' = [rest EXCEPT ![c] = to]
          /\ msg' = [msg EXCEPT ![c] =
                [seq |-> nsent + 1, by |-> c, size |-> size, ts |-> now]]
    BY <1>13 DEF ReadSend
  <2>2. [seq |-> nsent + 1, by |-> c, size |-> size, ts |-> now] \in Frames
    BY DEF Frames
  <2>3. to \in Seq(Users)
    OBVIOUS
  <2>4. /\ msg' \in [Conns -> Frames \cup {Reply}]
        /\ rest' \in [Conns -> Seq(Users)]
        /\ msg'[c] \in Frames
    BY <2>1, <2>2, <2>3
  <2> HIDE DEF Frames
  <2>5. TypeOK'
    BY <1>13, <2>4 DEF ReadSend, Goto
  <2>6. SendLocals'
    BY <1>13, <2>1, <2>4 DEF ReadSend, Goto
  <2> QED
    BY <2>5, <2>6
<1>14. ASSUME NEW c \in Conns, RouteSkip(c) PROVE TypeInv'
  BY <1>14 DEF RouteSkip
<1>15. ASSUME NEW c \in Conns, Route(c) PROVE TypeInv'
  BY <1>15 DEF Route, Goto, Exists
<1>16. ASSUME NEW c \in Conns, Push(c) PROVE TypeInv'
  <2>1. rest[c] \in Seq(Users) /\ rest[c] # <<>> /\ Head(rest[c]) \in Users
        /\ Tail(rest[c]) \in Seq(Users) /\ msg[c] \in Frames /\ target[c] \in Conns
    BY <1>16 DEF Push
  <2>2. chan' \in [Conns -> Seq(Frames \cup {Reply})]
    BY <1>16, <2>1 DEF Push, TrySend
  <2>3. CASE HasRoom(target[c])
    <3>1. accepted' \subseteq Frames \X Users
      BY <1>16, <2>1, <2>3 DEF Push
    <3>2. rest' = [rest EXCEPT ![c] = Tail(@)] /\ target' = [target EXCEPT ![c] = NoConn]
          /\ pc' = [pc EXCEPT ![c] = "route"]
      BY <1>16, <2>3 DEF Push, Goto
    <3>3. TypeOK'
      BY <1>16, <2>1, <2>2, <3>1, <3>2 DEF Push
    <3>4. SendLocals'
      BY <1>16, <2>1, <3>2 DEF Push
    <3> QED
      BY <3>3, <3>4
  <2>4. CASE ~HasRoom(target[c])
    BY ZenonT(30), <1>16, <2>1, <2>2, <2>4 DEF Push, Goto
  <2> QED
    BY <2>3, <2>4
<1>17. ASSUME NEW c \in Conns, Enqueue(c) PROVE TypeInv'
  <2> DEFINE u == Head(rest[c])
             row == [id |-> nextId, rcpt |-> u, frame |-> msg[c], ts |-> msg[c].ts]
  <2>1. rest[c] \in Seq(Users) /\ rest[c] # <<>> /\ u \in Users
        /\ Tail(rest[c]) \in Seq(Users) /\ msg[c] \in Frames /\ msg[c].ts \in Nat
    BY <1>17 DEF Enqueue, Frames
  <2>2. row \in Rows
    BY <2>1 DEF Rows
  <2>3. /\ outbox' \subseteq Rows /\ nextId' \in Nat
        /\ accepted' \subseteq Frames \X Users /\ queued' \subseteq Frames \X Users
    <3>1. CASE UnderCap(u, msg[c].size)
      BY <1>17, <2>1, <2>2, <3>1 DEF Enqueue
    <3>2. CASE ~UnderCap(u, msg[c].size)
      BY <1>17, <3>2 DEF Enqueue
    <3> QED
      BY <3>1, <3>2
  <2>4. rest' = [rest EXCEPT ![c] = Tail(@)] /\ target' = [target EXCEPT ![c] = NoConn]
        /\ pc' = [pc EXCEPT ![c] = "route"] /\ msg' = msg
    BY <1>17 DEF Enqueue, Goto
  <2>5. TypeOK'
    BY SMTT(30), <1>17, <2>1, <2>3, <2>4 DEF Enqueue
  <2>6. SendLocals'
    BY <1>17, <2>1, <2>4 DEF Enqueue
  <2> QED
    BY <2>5, <2>6
<1>18. ASSUME NEW c \in Conns, RouteDone(c) PROVE TypeInv'
  BY <1>18 DEF RouteDone, Goto, TrySend
<1>19. ASSUME NEW c \in Conns, Close(c) PROVE TypeInv'
  BY <1>19 DEF Close, Goto
<1>20. ASSUME NEW c \in Conns, Write(c) PROVE TypeInv'
  BY <1>20 DEF Write
<1>21. ASSUME NEW c \in Conns, WriterFail(c) PROVE TypeInv'
  <2>1. lost' \subseteq (Frames \cup {Junk}) \X (Users \cup {NoUser})
    <3>1. Undelivered({c}) \subseteq Frames \X (Users \cup {NoUser})
      BY ZenonT(30), UndeliveredType
    <3> QED
      BY ZenonT(30), <1>21, <3>1 DEF WriterFail
  <2>2. TypeOK'
    <3>1. chan' \in [Conns -> Seq(Frames \cup {Reply})]
      BY <1>21 DEF WriterFail
    <3>2. alive' \in [Conns -> BOOLEAN]
      BY <1>21 DEF WriterFail
    <3> QED
      BY <1>21, <2>1, <3>1, <3>2 DEF WriterFail
  <2>3. SendLocals'
    BY <1>21 DEF WriterFail
  <2> QED
    BY <2>2, <2>3
<1>22. ASSUME NEW c \in Conns, Hangup(c) PROVE TypeInv'
  BY <1>22 DEF Hangup, Goto
<1>23. CASE Maintenance
  BY <1>23 DEF Maintenance
<1>24. CASE Down
  <2>1. lost' \subseteq (Frames \cup {Junk}) \X (Users \cup {NoUser})
    BY <1>24, UndeliveredType DEF Down
  <2>2. TypeOK'
    <3>1. pc' \in [Conns -> Labels]
      BY <1>24 DEF Down
    <3>2. /\ online' \in [Users -> Conns \cup {NoConn}] /\ alive' \in [Conns -> BOOLEAN]
          /\ chan' \in [Conns -> Seq(Frames \cup {Reply})]
          /\ rows' \in [Conns -> SUBSET Rows] /\ handed' \in [Conns -> SUBSET Nat]
          /\ msg' \in [Conns -> Frames \cup {Reply}] /\ rest' \in [Conns -> Seq(Users)]
          /\ seen' \in [Conns -> SUBSET Users] /\ target' \in [Conns -> Conns \cup {NoConn}]
      BY <1>24, EmptyLocals, Zenon DEF Down
    <3>3. nstops' \in Nat
      BY <1>24 DEF Down
    <3>4. up' \in BOOLEAN /\ draining' \in BOOLEAN
      BY <1>24, Zenon DEF Down
    <3> QED
      BY <1>24, <2>1, <3>1, <3>2, <3>3, <3>4 DEF Down
  <2>3. SendLocals'
    BY <1>24 DEF Down
  <2> QED
    BY <2>2, <2>3
<1>25. CASE Start
  BY <1>25 DEF Start
<1>26. CASE Tick
  BY <1>26 DEF Tick
<1>27. CASE Prune
  BY <1>27 DEF Prune, Rows
<1>28. CASE UNCHANGED vars
  BY <1>28 DEF vars
<1> QED
  BY <1>1, <1>2, <1>3, <1>4, <1>5, <1>6, <1>7, <1>8, <1>9, <1>10, <1>11, <1>12,
     <1>13, <1>14, <1>15, <1>16, <1>17, <1>18, <1>19, <1>20, <1>21, <1>22, <1>23,
     <1>24, <1>25, <1>26, <1>27, <1>28
     DEF Next, Request, Handler, Writer, MaintenanceExit, Crash

\* The state keeps its declared shape in every behaviour of the relay.
THEOREM TypeCorrect == Spec => []TypeOK
BY TypeInvInit, TypeInvNext, PTL DEF Spec, TypeInv

----------------------------------------------------------------------------
(* Presence.                                                               *)

\* A connection on which somebody logged in was accepted before, and is never
\* accepted again.
LatestAccepted ==
    \A u \in Users : latest[u] # NoConn => pc[latest[u]] # "idle"

PresenceInv == PresenceIsOwn /\ NewestLoginReachable /\ LatestAccepted

LEMMA PresenceInit == Init => PresenceInv
BY RelayConstants DEF Init, PresenceInv, PresenceIsOwn, NewestLoginReachable, LatestAccepted

LEMMA PresenceNext == TypeInv /\ PresenceInv /\ [Next]_vars => PresenceInv'
<1> SUFFICES ASSUME TypeInv, PresenceInv, [Next]_vars PROVE PresenceInv'
  OBVIOUS
<1> USE RelayConstants DEF PresenceInv, PresenceIsOwn, NewestLoginReachable,
        LatestAccepted, Serving, TypeInv, TypeOK
<1>1. ASSUME NEW c \in Conns, Accept(c) PROVE PresenceInv'
  BY <1>1 DEF Accept, Goto
<1>2. ASSUME NEW c \in Conns, NEW u \in Users, Register(c, u) PROVE PresenceInv'
  BY <1>2 DEF Register, Goto
<1>3. ASSUME NEW c \in Conns, NEW u \in Users, Login(c, u) PROVE PresenceInv'
  BY <1>3 DEF Login, Goto
<1>4. ASSUME NEW c \in Conns, Publish(c) PROVE PresenceInv'
  BY <1>4 DEF Publish, Goto
<1>5. ASSUME NEW c \in Conns, Hangup(c) PROVE PresenceInv'
  BY <1>5 DEF Hangup, Goto
<1>6. CASE Down
  BY <1>6 DEF Down
<1>7. ASSUME NEW c \in Conns, Close(c) PROVE PresenceInv'
  BY <1>7 DEF Close, Goto
\* The other steps of a serving connection leave it serving.
<1>8. ASSUME NEW c \in Conns, NEW l \in Labels \ {"idle", "drain", "closed"},
             Serving(c), Goto(c, l), UNCHANGED <<online, latest, authed>>
      PROVE  PresenceInv'
  BY <1>8 DEF Goto
<1>9. ASSUME NEW c \in Conns,
             \/ Greet(c) \/ Pull(c) \/ FlushFetch(c) \/ FlushStop(c) \/ FlushDelete(c)
             \/ ReadSend(c) \/ Route(c) \/ Push(c) \/ Enqueue(c) \/ RouteDone(c)
      PROVE  PresenceInv'
  <2>1. Serving(c) /\ UNCHANGED <<online, latest, authed>>
    BY <1>9 DEF Greet, Pull, FlushFetch, FlushStop, FlushDelete, ReadSend, Route,
       Push, Enqueue, RouteDone
  <2>2. \E l \in Labels \ {"idle", "drain", "closed"} : Goto(c, l)
    BY <1>9 DEF Greet, Pull, FlushFetch, FlushStop, FlushDelete, ReadSend, Route,
       Push, Enqueue, RouteDone, Labels
  <2> QED
    BY <1>8, <2>1, <2>2
<1>10. ASSUME UNCHANGED <<online, latest, authed, pc>> PROVE PresenceInv'
  BY <1>10
<1>11. ASSUME NEW c \in Conns,
              \/ Answer(c) \/ FlushSend(c) \/ FlushJunk(c) \/ RouteSkip(c)
              \/ Write(c) \/ WriterFail(c)
       PROVE  PresenceInv'
  BY <1>10, <1>11 DEF Answer, FlushSend, FlushJunk, RouteSkip, Write, WriterFail
<1>12. CASE Maintenance \/ Start \/ Tick \/ Prune \/ UNCHANGED vars
  BY <1>10, <1>12 DEF Maintenance, Start, Tick, Prune, vars
<1> HIDE DEF PresenceInv
<1> QED
  BY <1>1, <1>2, <1>3, <1>4, <1>5, <1>6, <1>7, <1>9, <1>11, <1>12
     DEF Next, Request, Handler, Writer, MaintenanceExit, Crash

\* conn.rs, login and cleanup: the online map only ever names connections of
\* that user that are being served.
THEOREM PresenceCorrect == Spec => []PresenceIsOwn
<1>1. TypeInv /\ PresenceInv /\ [Next]_vars => (TypeInv /\ PresenceInv)'
  BY TypeInvNext, PresenceNext
<1> QED
  BY <1>1, TypeInvInit, PresenceInit, PTL DEF Spec, PresenceInv

\* conn.rs, cleanup: while the newest login of a user is served, it is the one
\* messages are pushed to.
THEOREM NewestLoginKept == Spec => []NewestLoginReachable
<1>1. TypeInv /\ PresenceInv /\ [Next]_vars => (TypeInv /\ PresenceInv)'
  BY TypeInvNext, PresenceNext
<1> QED
  BY <1>1, TypeInvInit, PresenceInit, PTL DEF Spec, PresenceInv

----------------------------------------------------------------------------
(* No accepted frame vanishes.                                             *)

\* Frame f was handed to a connection of u, or is accounted for as lost.
Safe(f, u) ==
    \/ \E c \in Conns : authed[c] = u /\ Holds(c, f)
    \/ <<f, u>> \in lost

\* AUTOINCREMENT: ids are unique, and never given out again.
IdsUnique ==
    /\ \A r \in outbox : r.id < nextId
    /\ \A q, r \in outbox : q.id = r.id => q = r

\* A cloned sender belongs to the recipient being routed.
TargetOwn ==
    \A c \in Conns :
        /\ target[c] # NoConn => pc[c] \in {"push", "enqueue"}
        /\ pc[c] = "push" => authed[target[c]] = Head(rest[c])

\* The rows a flush still has to send, and the ids it will delete.  An id can
\* outlive its row (another flush or the pruner deleted it), but it can never
\* name another row.
FlushLocals ==
    \A c \in Conns :
        /\ pc[c] # "flush" => rows[c] = {}
        /\ pc[c] \notin {"flush", "delete"} => handed[c] = {}
        /\ \A r \in rows[c] :
              /\ r.id < nextId /\ r.rcpt = authed[c]
              /\ \A q \in outbox : q.id = r.id => q = r
        /\ \A i \in handed[c] : i < nextId
        /\ \A r \in outbox : r.id \in handed[c] =>
              r.rcpt = authed[c] /\ (r.frame = Junk \/ Safe(r.frame, r.rcpt))

QueueInv == IdsUnique /\ FlushLocals /\ NoFrameVanishes
FlowInv == IdsUnique /\ TargetOwn /\ FlushLocals /\ NoFrameVanishes

\* What a step may do to the frames of connection c: extend its channel, move
\* the head to the socket, or lose the channel and say so.
LEMMA FramesAppend ==
    ASSUME NEW T, NEW q \in Seq(T), NEW m \in T
    PROVE  FramesIn(Append(q, m)) = FramesIn(q) \cup ({m} \ {Reply})
<1>1. DOMAIN Append(q, m) = DOMAIN q \cup {Len(q) + 1}
  OBVIOUS
<1>2. \A i \in DOMAIN q : Append(q, m)[i] = q[i]
  OBVIOUS
<1>3. Append(q, m)[Len(q) + 1] = m
  OBVIOUS
<1> QED
  BY <1>1, <1>2, <1>3 DEF FramesIn

LEMMA FramesHeadTail ==
    ASSUME NEW T, NEW q \in Seq(T), q # <<>>
    PROVE  FramesIn(q) = FramesIn(Tail(q)) \cup ({Head(q)} \ {Reply})
<1>1. \A i \in DOMAIN Tail(q) : i + 1 \in DOMAIN q /\ Tail(q)[i] = q[i + 1]
  OBVIOUS
<1>2. \A i \in DOMAIN q : i = 1 \/ (i - 1 \in DOMAIN Tail(q) /\ Tail(q)[i - 1] = q[i])
  OBVIOUS
<1>3. 1 \in DOMAIN q /\ q[1] = Head(q)
  OBVIOUS
<1>4. ASSUME NEW x \in FramesIn(q) PROVE x \in FramesIn(Tail(q)) \cup ({Head(q)} \ {Reply})
  <2>1. PICK i \in DOMAIN q : x = q[i] /\ x # Reply
    BY <1>4 DEF FramesIn
  <2>2. CASE i = 1
    BY <2>1, <2>2, <1>3
  <2>3. CASE i # 1
    BY <2>1, <2>3, <1>2 DEF FramesIn
  <2> QED
    BY <2>2, <2>3
<1>5. FramesIn(Tail(q)) \subseteq FramesIn(q)
  BY <1>1 DEF FramesIn
<1>6. {Head(q)} \ {Reply} \subseteq FramesIn(q)
  BY <1>3 DEF FramesIn
<1> QED
  BY <1>4, <1>5, <1>6

\* try_send only adds to what a channel holds.
LEMMA TrySendHolds ==
    ASSUME TypeOK, NEW c \in Conns, NEW m \in Frames \cup {Reply}, TrySend(c, m),
           UNCHANGED <<authed, got, lost>>, NEW f, NEW u, Safe(f, u)
    PROVE  Safe(f, u)'
<1>1. \A d \in Conns : FramesIn(chan[d]) \subseteq FramesIn(chan'[d])
  <2>1. \A d \in Conns : chan[d] \in Seq(Frames \cup {Reply})
    BY DEF TypeOK
  <2>2. CASE HasRoom(c)
    <3>1. chan' = [chan EXCEPT ![c] = Append(chan[c], m)]
      BY <2>2 DEF TrySend
    <3>2. chan'[c] = Append(chan[c], m) /\ \A d \in Conns \ {c} : chan'[d] = chan[d]
      BY <3>1 DEF TypeOK
    <3>3. FramesIn(Append(chan[c], m)) = FramesIn(chan[c]) \cup ({m} \ {Reply})
      BY <2>1, FramesAppend
    <3> QED
      BY <3>2, <3>3
  <2>3. CASE ~HasRoom(c)
    BY <2>3 DEF TrySend
  <2> QED
    BY <2>2, <2>3
<1> QED
  BY <1>1 DEF Safe, Holds, InChannel

\* No step makes a frame that was handed over disappear without a trace.
LEMMA SafeStable ==
    ASSUME TypeInv, [Next]_vars, NEW f \in Frames, NEW u \in Users, Safe(f, u)
    PROVE  Safe(f, u)'
<1> USE RelayConstants, FrameConstants DEF TypeInv, TypeOK
<1>0. /\ \A c \in Conns : chan[c] \in Seq(Frames \cup {Reply})
      /\ \A c \in Conns : got[c] \in Seq(Frames)
  OBVIOUS
<1>1. ASSUME \A c \in Conns : authed[c] = u => authed'[c] = u,
             \A c \in Conns : FramesIn(chan[c]) \cup FramesIn(got[c])
                                \subseteq FramesIn(chan'[c]) \cup FramesIn(got'[c]),
             lost \subseteq lost'
      PROVE  Safe(f, u)'
  BY <1>1 DEF Safe, Holds, InChannel
<1>2. ASSUME UNCHANGED <<chan, got>>, lost \subseteq lost',
             \A c \in Conns : authed[c] = u => authed'[c] = u
      PROVE  Safe(f, u)'
  BY <1>1, <1>2
<1>3. ASSUME NEW c \in Conns, NEW v \in Users, Register(c, v) \/ Login(c, v)
      PROVE  Safe(f, u)'
  BY <1>2, <1>3 DEF Register, Login
<1>4. ASSUME NEW c \in Conns,
             \/ Accept(c) \/ Publish(c) \/ Pull(c) \/ FlushFetch(c) \/ FlushJunk(c)
             \/ FlushStop(c) \/ FlushDelete(c) \/ ReadSend(c) \/ RouteSkip(c)
             \/ Route(c) \/ Enqueue(c) \/ Close(c) \/ Hangup(c)
      PROVE  Safe(f, u)'
  <2>1. UNCHANGED <<chan, got, lost, authed>>
    BY <1>4 DEF Accept, Publish, Pull, FlushFetch, FlushJunk, FlushStop, FlushDelete,
       ReadSend, RouteSkip, Route, Enqueue, Close, Hangup
  <2> QED
    BY <1>2, <2>1
<1>5. ASSUME NEW c \in Conns, Greet(c) \/ Answer(c) \/ RouteDone(c) PROVE Safe(f, u)'
  BY <1>5, TrySendHolds DEF Greet, Answer, RouteDone
<1>6. ASSUME NEW c \in Conns, Push(c) PROVE Safe(f, u)'
  BY <1>6, TrySendHolds DEF Push, SendLocals
<1>7. ASSUME NEW c \in Conns, FlushSend(c) PROVE Safe(f, u)'
  <2>1. PICK r \in rows[c] : r.frame # Junk /\ chan' = [chan EXCEPT ![c] = Append(@, r.frame)]
    BY <1>7 DEF FlushSend
  <2>2. r.frame \in Frames /\ TrySend(c, r.frame)
    <3>1. r.frame \in Frames
      BY <2>1 DEF Rows
    <3>2. HasRoom(c)
      BY <1>7 DEF FlushSend
    <3> QED
      BY <2>1, <3>1, <3>2 DEF TrySend
  <2> QED
    BY <1>7, <2>2, TrySendHolds DEF FlushSend
<1>8. ASSUME NEW c \in Conns, Write(c) PROVE Safe(f, u)'
  <2>1. chan[c] # <<>> /\ chan' = [chan EXCEPT ![c] = Tail(chan[c])]
        /\ UNCHANGED <<authed, lost>>
    BY <1>8 DEF Write
  <2>2. FramesIn(chan[c]) = FramesIn(chan'[c]) \cup ({Head(chan[c])} \ {Reply})
    BY <1>0, <2>1, FramesHeadTail
  <2>3. CASE Head(chan[c]) = Reply
    BY <1>1, <1>8, <2>1, <2>2, <2>3 DEF Write
  <2>4. CASE Head(chan[c]) # Reply
    <3>1. Head(chan[c]) \in Frames
      BY <1>0, <2>1, <2>4
    <3>2. got' = [got EXCEPT ![c] = Append(got[c], Head(chan[c]))]
      BY <1>8, <2>4 DEF Write
    <3>3. FramesIn(got'[c]) = FramesIn(got[c]) \cup ({Head(chan[c])} \ {Reply})
      BY <1>0, <3>1, <3>2, FramesAppend
    <3>4. \A d \in Conns \ {c} : chan'[d] = chan[d] /\ got'[d] = got[d]
      BY <2>1, <3>2
    <3> QED
      BY <1>1, <2>1, <2>2, <3>3, <3>4
  <2> QED
    BY <2>3, <2>4
<1>9. ASSUME NEW c \in Conns, WriterFail(c) PROVE Safe(f, u)'
  <2>1. CASE authed[c] = u /\ f \in FramesIn(chan[c])
    <3>1. <<f, u>> \in Undelivered({c})
      BY <2>1 DEF Undelivered
    <3> QED
      BY <1>9, <3>1 DEF WriterFail, Safe
  <2>2. CASE ~(authed[c] = u /\ f \in FramesIn(chan[c]))
    BY <1>9, <2>2 DEF WriterFail, Safe, Holds, InChannel
  <2> QED
    BY <2>1, <2>2
<1>10. CASE Down
  <2>1. ASSUME NEW c \in Conns, authed[c] = u, f \in FramesIn(chan[c]) PROVE Safe(f, u)'
    <3>1. <<f, u>> \in Undelivered(Conns)
      BY <2>1 DEF Undelivered
    <3> QED
      BY <1>10, <3>1 DEF Down, Safe
  <2>2. CASE \A c \in Conns : ~(authed[c] = u /\ f \in FramesIn(chan[c]))
    BY <1>10, <2>2 DEF Down, Safe, Holds, InChannel
  <2> QED
    BY <2>1, <2>2
<1>11. CASE Maintenance
  <2>1. ASSUME NEW c \in Conns PROVE FramesIn(chan[c]) \subseteq FramesIn(chan'[c])
    <3>1. chan'[c] = Append(chan[c], Reply) \/ chan'[c] = chan[c]
      BY <1>11 DEF Maintenance
    <3>2. FramesIn(chan[c]) \subseteq FramesIn(Append(chan[c], Reply))
      <4>1. Reply \in Frames \cup {Reply} /\ chan[c] \in Seq(Frames \cup {Reply})
        BY <1>0
      <4> HIDE DEF TypeInv, TypeOK
      <4> QED
        BY <4>1, FramesAppend
    <3> QED
      BY <3>1, <3>2
  <2> QED
    BY <1>1, <1>11, <2>1 DEF Maintenance
<1>12. CASE Start \/ Tick \/ Prune \/ UNCHANGED vars
  BY <1>2, <1>12 DEF Start, Tick, Prune, vars
<1> QED
  BY <1>3, <1>4, <1>5, <1>6, <1>7, <1>8, <1>9, <1>10, <1>11, <1>12
     DEF Next, Request, Handler, Writer, MaintenanceExit, Crash

LEMMA FlowInit == Init => FlowInv
<1> SUFFICES ASSUME Init PROVE FlowInv
  OBVIOUS
<1>1. IdsUnique
  BY DEF Init, IdsUnique
<1>2. TargetOwn
  BY DEF Init, TargetOwn
<1>3. FlushLocals
  BY DEF Init, FlushLocals
<1>4. NoFrameVanishes
  BY DEF Init, NoFrameVanishes
<1> QED
  BY <1>1, <1>2, <1>3, <1>4 DEF FlowInv

\* The recipient a cloned sender belongs to does not change under it.
LEMMA TargetNext == TypeInv /\ PresenceInv /\ FlowInv /\ [Next]_vars => TargetOwn'
<1> SUFFICES ASSUME TypeInv, PresenceInv, FlowInv, [Next]_vars PROVE TargetOwn'
  OBVIOUS
<1> USE RelayConstants DEF TypeInv, TypeOK, SendLocals, FlowInv, TargetOwn
<1>1. ASSUME NEW c \in Conns, NEW u \in Users, Register(c, u) \/ Login(c, u)
      PROVE  TargetOwn'
  <2>1. /\ pc[c] = "read" /\ authed[c] = NoUser /\ UNCHANGED <<target, rest>>
        /\ pc' = [pc EXCEPT ![c] = "publish"] /\ authed' = [authed EXCEPT ![c] = u]
    BY <1>1 DEF Register, Login, Goto
  <2>2. ASSUME NEW d \in Conns, pc'[d] = "push" PROVE authed'[target'[d]] = Head(rest'[d])
    <3>1. pc[d] = "push"
      BY <2>1, <2>2
    <3>2. authed[target[d]] = Head(rest[d]) /\ Head(rest[d]) \in Users /\ target[d] \in Conns
      BY <3>1
    <3>3. target[d] # c
      BY <2>1, <3>2
    <3> QED
      BY <2>1, <3>2, <3>3
  <2>3. ASSUME NEW d \in Conns, target'[d] # NoConn PROVE pc'[d] \in {"push", "enqueue"}
    BY <2>1, <2>3
  <2> QED
    BY <2>2, <2>3
<1>2. ASSUME NEW c \in Conns, Route(c) PROVE TargetOwn'
  BY <1>2 DEF Route, Goto, PresenceInv, PresenceIsOwn
<1>3. ASSUME NEW c \in Conns, Push(c) PROVE TargetOwn'
  BY ZenonT(30), <1>3 DEF Push, Goto
<1>4. ASSUME NEW c \in Conns, Enqueue(c) PROVE TargetOwn'
  BY <1>4 DEF Enqueue, Goto
<1>5. CASE Down
  BY <1>5 DEF Down
\* A connection whose handler is not routing goes on not routing.
<1>6. ASSUME NEW c \in Conns, NEW l \in Labels \ {"push", "enqueue"},
             pc[c] \notin {"push", "enqueue"}, Goto(c, l),
             UNCHANGED <<authed, target>>, \A d \in Conns \ {c} : rest'[d] = rest[d]
      PROVE  TargetOwn'
  BY <1>6 DEF Goto
<1>7. ASSUME NEW c \in Conns,
             \/ Accept(c) \/ Publish(c) \/ Greet(c) \/ Pull(c) \/ FlushFetch(c)
             \/ FlushStop(c) \/ FlushDelete(c) \/ ReadSend(c) \/ RouteDone(c)
             \/ Close(c) \/ Hangup(c)
      PROVE  TargetOwn'
  <2>1. /\ pc[c] \notin {"push", "enqueue"} /\ UNCHANGED <<authed, target>>
        /\ \A d \in Conns \ {c} : rest'[d] = rest[d]
    BY <1>7 DEF Accept, Publish, Greet, Pull, FlushFetch, FlushStop, FlushDelete,
       ReadSend, RouteDone, Close, Hangup
  <2>2. \E l \in Labels \ {"push", "enqueue"} : Goto(c, l)
    BY <1>7 DEF Accept, Publish, Greet, Pull, FlushFetch, FlushStop, FlushDelete,
       ReadSend, RouteDone, Close, Hangup, Labels
  <2> QED
    BY <1>6, <2>1, <2>2
<1>8. ASSUME UNCHANGED <<authed, target, pc>>,
             \A c \in Conns : pc[c] = "push" => rest'[c] = rest[c]
      PROVE  TargetOwn'
  BY <1>8
<1>9. ASSUME NEW c \in Conns,
             \/ Answer(c) \/ FlushSend(c) \/ FlushJunk(c) \/ RouteSkip(c)
             \/ Write(c) \/ WriterFail(c)
      PROVE  TargetOwn'
  BY <1>8, <1>9 DEF Answer, FlushSend, FlushJunk, RouteSkip, Write, WriterFail
<1>10. CASE Maintenance \/ Start \/ Tick \/ Prune \/ UNCHANGED vars
  BY <1>8, <1>10 DEF Maintenance, Start, Tick, Prune, vars
<1> HIDE DEF TargetOwn
<1> QED
  BY <1>1, <1>2, <1>3, <1>4, <1>5, <1>7, <1>9, <1>10
     DEF Next, Request, Handler, Writer, MaintenanceExit, Crash

\* The steps that leave the outbox and every flush in progress alone.
LEMMA FlushLocalsQuiet ==
    ASSUME TypeInv, FlowInv, [Next]_vars, UNCHANGED <<outbox, nextId, rows, handed>>,
           \A c \in Conns : pc[c] = "flush" <=> pc'[c] = "flush",
           \A c \in Conns : pc[c] = "delete" <=> pc'[c] = "delete",
           \A c \in Conns : pc[c] \in {"flush", "delete"} => authed'[c] = authed[c]
    PROVE  IdsUnique' /\ FlushLocals'
<1>1. IdsUnique'
  BY DEF FlowInv, IdsUnique
<1>2. ASSUME NEW c \in Conns, NEW r \in outbox, r.id \in handed[c]
      PROVE  r.rcpt = authed'[c] /\ (r.frame = Junk \/ Safe(r.frame, r.rcpt)')
  <2>1. r.rcpt = authed[c] /\ (r.frame = Junk \/ Safe(r.frame, r.rcpt))
        /\ pc[c] \in {"flush", "delete"}
    BY <1>2 DEF FlowInv, FlushLocals
  <2>2. r.rcpt \in Users /\ r.frame \in Frames \cup {Junk}
    BY DEF TypeInv, TypeOK, Rows
  <2> QED
    BY <2>1, <2>2, SafeStable
<1>3. FlushLocals'
  BY <1>2 DEF FlowInv, FlushLocals
<1> QED
  BY <1>1, <1>3

\* A row that is still queued, and a frame that was handed over, stay so.
LEMMA VanishQuiet ==
    ASSUME TypeInv, FlowInv, [Next]_vars, outbox \subseteq outbox', accepted' = accepted
    PROVE  NoFrameVanishes'
<1>0. \A p \in accepted : p[1] \in Frames /\ p[2] \in Users /\ p = <<p[1], p[2]>>
  BY DEF TypeInv, TypeOK
<1> SUFFICES ASSUME NEW p \in accepted
             PROVE  \/ \E r \in outbox' : r.frame = p[1] /\ r.rcpt = p[2]
                    \/ Safe(p[1], p[2])'
  BY <1>0 DEF NoFrameVanishes, Safe
<1>1. p[1] \in Frames /\ p[2] \in Users /\ p = <<p[1], p[2]>>
  BY <1>0
<1>2. CASE \E r \in outbox : r.frame = p[1] /\ r.rcpt = p[2]
  BY <1>2
<1>3. CASE Safe(p[1], p[2])
  BY <1>1, <1>3, SafeStable
<1> QED
  BY <1>1, <1>2, <1>3 DEF FlowInv, NoFrameVanishes, Safe

LEMMA FlowNext == TypeInv /\ PresenceInv /\ FlowInv /\ [Next]_vars => FlowInv'
<1> SUFFICES ASSUME TypeInv, PresenceInv, FlowInv, [Next]_vars PROVE FlowInv'
  OBVIOUS
<1>0. TargetOwn'
  BY TargetNext
<1> SUFFICES QueueInv'
  BY <1>0 DEF FlowInv, QueueInv
<1> USE RelayConstants, FrameConstants DEF QueueInv
\* Steps that touch neither the outbox nor a flush.
<1>1. ASSUME UNCHANGED <<outbox, nextId, rows, handed, accepted, authed, pc>> PROVE QueueInv'
  BY <1>1, FlushLocalsQuiet, VanishQuiet
<1>2. ASSUME NEW c \in Conns, NEW l \in Labels \ {"flush", "delete"},
             pc[c] \notin {"flush", "delete"}, Goto(c, l),
             \A d \in Conns \ {c} : authed'[d] = authed[d],
             UNCHANGED <<outbox, nextId, rows, handed, accepted>>
      PROVE  QueueInv'
  <2>1. \A d \in Conns : /\ pc[d] = "flush" <=> pc'[d] = "flush"
                         /\ pc[d] = "delete" <=> pc'[d] = "delete"
                         /\ pc[d] \in {"flush", "delete"} => authed'[d] = authed[d]
    BY <1>2 DEF Goto, TypeInv, TypeOK
  <2> QED
    BY <1>2, <2>1, FlushLocalsQuiet, VanishQuiet
<1>3. ASSUME NEW c \in Conns,
             \/ Accept(c) \/ Publish(c) \/ Greet(c) \/ Pull(c) \/ ReadSend(c)
             \/ Route(c) \/ RouteDone(c) \/ Close(c) \/ Hangup(c)
             \/ \E u \in Users : Register(c, u) \/ Login(c, u)
      PROVE  QueueInv'
  <2>1. /\ pc[c] \notin {"flush", "delete"}
        /\ \A d \in Conns \ {c} : authed'[d] = authed[d]
        /\ UNCHANGED <<outbox, nextId, rows, handed, accepted>>
    BY <1>3 DEF Accept, Publish, Greet, Pull, ReadSend, Route, RouteDone, Close, Hangup,
       Register, Login, TypeInv, TypeOK
  <2>2. \E l \in Labels \ {"flush", "delete"} : Goto(c, l)
    BY <1>3 DEF Accept, Publish, Greet, Pull, ReadSend, Route, RouteDone, Close, Hangup,
       Register, Login, Labels
  <2> QED
    BY <1>2, <2>1, <2>2
<1>4. ASSUME NEW c \in Conns, Answer(c) \/ RouteSkip(c) \/ Write(c) \/ WriterFail(c)
      PROVE  QueueInv'
  BY <1>1, <1>4 DEF Answer, RouteSkip, Write, WriterFail
<1>5. CASE Maintenance \/ Start \/ Tick \/ UNCHANGED vars
  BY <1>1, <1>5 DEF Maintenance, Start, Tick, vars
\* A live push: the frame is now in the recipient's channel.
<1>6. ASSUME NEW c \in Conns, Push(c) PROVE QueueInv'
  <2>1. /\ UNCHANGED <<outbox, nextId, rows, handed, authed>>
        /\ \A d \in Conns : /\ pc[d] = "flush" <=> pc'[d] = "flush"
                            /\ pc[d] = "delete" <=> pc'[d] = "delete"
    BY <1>6 DEF Push, Goto, TypeInv, TypeOK
  <2>2. IdsUnique' /\ FlushLocals'
    BY <2>1, FlushLocalsQuiet
  <2>3. CASE ~HasRoom(target[c])
    BY <1>6, <2>1, <2>2, <2>3, VanishQuiet DEF Push
  <2>4. CASE HasRoom(target[c])
    <3>0. PICK u : u = Head(rest[c])
      OBVIOUS
    <3>9. PICK f : f = msg[c]
      OBVIOUS
    <3>1. /\ f \in Frames /\ target[c] \in Conns /\ authed[target[c]] = u /\ u \in Users
          /\ chan[target[c]] \in Seq(Frames \cup {Reply})
      BY <1>6, <3>0, <3>9 DEF Push, TypeInv, TypeOK, SendLocals, FlowInv, TargetOwn
    <3>2. chan'[target[c]] = Append(chan[target[c]], f)
      BY <1>6, <2>4, <3>1, <3>9 DEF Push, TrySend, TypeInv, TypeOK
    <3>3. Safe(f, u)'
      <4>1. f \in FramesIn(chan'[target[c]])
        BY <3>1, <3>2, FramesAppend
      <4> QED
        BY <2>1, <3>1, <4>1 DEF Safe, Holds, InChannel
    <3>4. accepted' = accepted \cup {<<f, u>>}
      BY <1>6, <2>4, <3>0, <3>9 DEF Push
    <3>5. ASSUME NEW p \in accepted
          PROVE  \/ \E r \in outbox' : r.frame = p[1] /\ r.rcpt = p[2]
                 \/ Safe(p[1], p[2])'
      <4>1. p[1] \in Frames /\ p[2] \in Users /\ p = <<p[1], p[2]>>
        BY DEF TypeInv, TypeOK
      <4>2. \/ \E r \in outbox : r.frame = p[1] /\ r.rcpt = p[2]
            \/ Safe(p[1], p[2])
        BY <4>1 DEF FlowInv, NoFrameVanishes, Safe
      <4> QED
        BY <2>1, <4>1, <4>2, SafeStable
    <3>6. \A p \in accepted' : p = <<p[1], p[2]>>
      BY <3>4 DEF TypeInv, TypeOK
    <3>7. NoFrameVanishes'
      BY <3>3, <3>4, <3>5, <3>6 DEF NoFrameVanishes, Safe
    <3> QED
      BY <2>2, <3>7
  <2> QED
    BY <2>3, <2>4
\* Facts the remaining steps share: what was safe stays safe.
<1>7. ASSUME NEW r \in outbox, r.frame # Junk, Safe(r.frame, r.rcpt)
      PROVE  Safe(r.frame, r.rcpt)'
  <2>1. r.frame \in Frames /\ r.rcpt \in Users
    BY <1>7 DEF TypeInv, TypeOK, Rows
  <2> QED
    BY <1>7, <2>1, SafeStable
<1>8. ASSUME NEW d \in Conns, NEW r \in outbox, r.id \in handed[d]
      PROVE  r.rcpt = authed[d] /\ (r.frame = Junk \/ Safe(r.frame, r.rcpt)')
  BY <1>7, <1>8 DEF FlowInv, FlushLocals
<1>9. \A p \in accepted : p[1] \in Frames /\ p[2] \in Users /\ p = <<p[1], p[2]>>
  BY DEF TypeInv, TypeOK
\* A row is added under a new id, which no flush in progress can name.
<1>10. ASSUME NEW c \in Conns, Enqueue(c) PROVE QueueInv'
  <2> DEFINE u == Head(rest[c])
             row == [id |-> nextId, rcpt |-> u, frame |-> msg[c], ts |-> msg[c].ts]
  <2>1. /\ UNCHANGED <<rows, handed, authed>>
        /\ \A d \in Conns : /\ pc[d] = "flush" <=> pc'[d] = "flush"
                            /\ pc[d] = "delete" <=> pc'[d] = "delete"
    BY <1>10 DEF Enqueue, Goto, TypeInv, TypeOK
  <2>2. CASE ~UnderCap(u, msg[c].size)
    <3>1. UNCHANGED <<outbox, nextId, accepted>>
      BY <1>10, <2>2 DEF Enqueue
    <3> QED
      BY <2>1, <3>1, FlushLocalsQuiet, VanishQuiet
  <2>3. CASE UnderCap(u, msg[c].size)
    <3>1. /\ outbox' = outbox \cup {row} /\ nextId' = nextId + 1
          /\ accepted' = accepted \cup {<<msg[c], u>>}
      BY <1>10, <2>3 DEF Enqueue
    <3>2. nextId \in Nat /\ row.id = nextId /\ row.frame = msg[c] /\ row.rcpt = u
          /\ \A r \in outbox : r.id \in Nat
      BY DEF TypeInv, TypeOK, Rows
    <3>3. IdsUnique'
      BY <3>1, <3>2 DEF FlowInv, IdsUnique
    <3>4. ASSUME NEW d \in Conns
          PROVE  /\ \A r \in rows[d] : /\ r.id < nextId' /\ r.rcpt = authed[d]
                                       /\ \A q \in outbox' : q.id = r.id => q = r
                 /\ \A i \in handed[d] : i < nextId'
                 /\ row.id \notin handed[d]
      <4>1. \A r \in rows[d] : r.id \in Nat
        BY DEF TypeInv, TypeOK, Rows
      <4>2. \A i \in handed[d] : i \in Nat /\ i < nextId
        BY DEF TypeInv, TypeOK, FlowInv, FlushLocals
      <4> QED
        BY <3>1, <3>2, <4>1, <4>2 DEF FlowInv, FlushLocals
    <3>5. FlushLocals'
      BY <1>8, <2>1, <3>1, <3>4 DEF FlowInv, FlushLocals
    <3>6. ASSUME NEW p \in accepted'
          PROVE  \/ \E r \in outbox' : r.frame = p[1] /\ r.rcpt = p[2]
                 \/ Safe(p[1], p[2])'
      <4>1. CASE p \in accepted
        <5>1. \/ \E r \in outbox : r.frame = p[1] /\ r.rcpt = p[2]
              \/ Safe(p[1], p[2])
          BY <1>9, <4>1 DEF FlowInv, NoFrameVanishes, Safe
        <5> QED
          BY <1>9, <3>1, <4>1, <5>1, SafeStable
      <4>2. CASE p = <<msg[c], u>>
        BY <3>1, <3>2, <4>2
      <4> QED
        BY <3>1, <4>1, <4>2
    <3>7. NoFrameVanishes'
      BY <1>9, <3>1, <3>6 DEF NoFrameVanishes, Safe
    <3> QED
      BY <3>3, <3>5, <3>7
  <2> QED
    BY <2>2, <2>3
\* Phase 1 reads the user's own rows.
<1>11. ASSUME NEW c \in Conns, FlushFetch(c) PROVE QueueInv'
  <2>1. /\ UNCHANGED <<outbox, nextId, handed, authed, accepted>>
        /\ pc[c] = "fetch" /\ pc'[c] \in {"read", "flush"}
        /\ rows'[c] = RowsOf(authed[c]) /\ (pc'[c] = "read" => RowsOf(authed[c]) = {})
        /\ \A d \in Conns \ {c} : pc'[d] = pc[d] /\ rows'[d] = rows[d]
    BY <1>11 DEF FlushFetch, Goto, TypeInv, TypeOK
  <2>2. NoFrameVanishes'
    BY <2>1, VanishQuiet
  <2>3. IdsUnique'
    BY <2>1 DEF FlowInv, IdsUnique
  <2>4. FlushLocals'
    BY <1>8, <2>1 DEF FlowInv, FlushLocals, IdsUnique, RowsOf
  <2> QED
    BY <2>2, <2>3, <2>4
\* Phase 2: the only row the new id can name is the one just handed over.
<1>12. ASSUME NEW c \in Conns, FlushSend(c) \/ FlushJunk(c) PROVE QueueInv'
  <2>1. PICK r \in rows[c] : Handed(c, r) /\ (r.frame = Junk \/ (FlushSend(c)
             /\ chan' = [chan EXCEPT ![c] = Append(@, r.frame)]))
    BY <1>12 DEF FlushSend, FlushJunk
  <2>2. /\ UNCHANGED <<outbox, nextId, pc, authed, accepted>> /\ pc[c] = "flush"
        /\ handed'[c] = handed[c] \cup {r.id} /\ rows'[c] = rows[c] \ {r}
        /\ \A d \in Conns \ {c} : handed'[d] = handed[d] /\ rows'[d] = rows[d]
    BY <1>12, <2>1 DEF FlushSend, FlushJunk, Handed, TypeInv, TypeOK
  <2>3. /\ r.id < nextId /\ r.rcpt = authed[c]
        /\ \A q \in outbox : q.id = r.id => q = r
    BY DEF FlowInv, FlushLocals
  <2>4. r.frame = Junk \/ Safe(r.frame, r.rcpt)'
    <3>1. CASE r.frame = Junk
      BY <3>1
    <3>2. CASE r.frame # Junk
      <4>1. r.frame \in Frames /\ chan[c] \in Seq(Frames \cup {Reply})
        BY <3>2 DEF TypeInv, TypeOK, Rows
      <4>2. chan'[c] = Append(chan[c], r.frame)
        BY <2>1, <3>2 DEF TypeInv, TypeOK
      <4>3. r.frame \in FramesIn(chan'[c])
        BY <4>1, <4>2, FramesAppend
      <4> QED
        BY <2>2, <2>3, <4>3 DEF Safe, Holds, InChannel
    <3> QED
      BY <3>1, <3>2
  <2>5. FlushLocals'
    BY <1>8, <2>2, <2>3, <2>4 DEF FlowInv, FlushLocals
  <2>6. NoFrameVanishes'
    BY <2>2, VanishQuiet
  <2>7. IdsUnique'
    BY <2>2 DEF FlowInv, IdsUnique
  <2> QED
    BY <2>5, <2>6, <2>7
<1>13. ASSUME NEW c \in Conns, FlushStop(c) PROVE QueueInv'
  <2>1. /\ UNCHANGED <<outbox, nextId, authed, accepted, handed>>
        /\ pc[c] = "flush" /\ pc'[c] = "delete" /\ rows'[c] = {}
        /\ \A d \in Conns \ {c} : pc'[d] = pc[d] /\ rows'[d] = rows[d]
    BY <1>13 DEF FlushStop, Goto, TypeInv, TypeOK
  <2>2. FlushLocals'
    BY <1>8, <2>1 DEF FlowInv, FlushLocals
  <2>3. NoFrameVanishes'
    BY <2>1, VanishQuiet
  <2>4. IdsUnique'
    BY <2>1 DEF FlowInv, IdsUnique
  <2> QED
    BY <2>2, <2>3, <2>4
\* Phase 3: whatever row is deleted was handed over.
<1>14. ASSUME NEW c \in Conns, FlushDelete(c) PROVE QueueInv'
  <2>1. /\ UNCHANGED <<nextId, authed, accepted, rows>>
        /\ outbox' = {r \in outbox : r.id \notin handed[c]}
        /\ pc[c] = "delete" /\ pc'[c] = "read" /\ handed'[c] = {}
        /\ \A d \in Conns \ {c} : pc'[d] = pc[d] /\ handed'[d] = handed[d]
    BY <1>14 DEF FlushDelete, Goto, TypeInv, TypeOK
  <2>2. FlushLocals'
    BY <1>8, <2>1 DEF FlowInv, FlushLocals
  <2>3. IdsUnique'
    BY <2>1 DEF FlowInv, IdsUnique
  <2>4. ASSUME NEW p \in accepted
        PROVE  \/ \E r \in outbox' : r.frame = p[1] /\ r.rcpt = p[2]
               \/ Safe(p[1], p[2])'
    <3>1. CASE Safe(p[1], p[2])
      BY <1>9, <3>1, SafeStable
    <3>2. ASSUME NEW r \in outbox, r.frame = p[1], r.rcpt = p[2]
          PROVE  r \in outbox' \/ Safe(p[1], p[2])'
      BY <1>8, <1>9, <2>1, <3>2
    <3> QED
      BY <1>9, <3>1, <3>2 DEF FlowInv, NoFrameVanishes, Safe
  <2>5. NoFrameVanishes'
    BY <1>9, <2>1, <2>4 DEF NoFrameVanishes, Safe
  <2> QED
    BY <2>2, <2>3, <2>5
\* The pruner records what it deletes.
<1>15. CASE Prune
  <2>1. /\ UNCHANGED <<nextId, authed, accepted, rows, handed, pc>>
        /\ outbox' = {r \in outbox : ~Expired(r)}
        /\ \A r \in outbox : Expired(r) => <<r.frame, r.rcpt>> \in lost'
    BY <1>15 DEF Prune
  <2>2. FlushLocals'
    BY <1>8, <2>1 DEF FlowInv, FlushLocals
  <2>3. IdsUnique'
    BY <2>1 DEF FlowInv, IdsUnique
  <2>4. ASSUME NEW p \in accepted
        PROVE  \/ \E r \in outbox' : r.frame = p[1] /\ r.rcpt = p[2]
               \/ Safe(p[1], p[2])'
    <3>1. CASE Safe(p[1], p[2])
      BY <1>9, <3>1, SafeStable
    <3>2. ASSUME NEW r \in outbox, r.frame = p[1], r.rcpt = p[2]
          PROVE  r \in outbox' \/ Safe(p[1], p[2])'
      BY <2>1, <3>2 DEF Safe
    <3> QED
      BY <1>9, <3>1, <3>2 DEF FlowInv, NoFrameVanishes, Safe
  <2>5. NoFrameVanishes'
    BY <1>9, <2>1, <2>4 DEF NoFrameVanishes, Safe
  <2> QED
    BY <2>2, <2>3, <2>5
<1>16. CASE Down
  <2>1. /\ UNCHANGED <<outbox, nextId, accepted>>
        /\ \A d \in Conns : rows'[d] = {} /\ handed'[d] = {}
    BY <1>16 DEF Down
  <2>2. FlushLocals'
    BY <2>1 DEF FlushLocals
  <2>3. IdsUnique'
    BY <2>1 DEF FlowInv, IdsUnique
  <2> QED
    BY <2>1, <2>2, <2>3, VanishQuiet
<1> HIDE DEF QueueInv
<1> QED
  BY <1>3, <1>4, <1>5, <1>6, <1>10, <1>11, <1>12, <1>13, <1>14, <1>15, <1>16
     DEF Next, Request, Handler, Writer, MaintenanceExit, Crash

\* conn.rs, Send and flush_outbox: a frame the relay took for a recipient is
\* queued, on its way to that recipient, received, or accounted for as lost.
THEOREM NoFrameVanishesAlways == Spec => []NoFrameVanishes
<1> DEFINE I == TypeInv /\ PresenceInv /\ FlowInv
<1>1. Init => I
  BY TypeInvInit, PresenceInit, FlowInit
<1>2. I /\ [Next]_vars => I'
  BY TypeInvNext, PresenceNext, FlowNext
<1>3. I => NoFrameVanishes
  BY DEF FlowInv
<1> QED
  BY <1>1, <1>2, <1>3, PTL DEF Spec

\* The only steps that change the outbox.
LEMMA OutboxSteps ==
    ASSUME [Next]_vars
    PROVE  \/ UNCHANGED outbox
           \/ \E c \in Conns : Enqueue(c) \/ FlushDelete(c)
           \/ Prune
<1>1. ASSUME NEW c \in Conns,
             \/ Accept(c) \/ Publish(c) \/ Greet(c) \/ Answer(c) \/ Pull(c) \/ FlushFetch(c)
             \/ FlushSend(c) \/ FlushJunk(c) \/ FlushStop(c) \/ ReadSend(c) \/ RouteSkip(c)
             \/ Route(c) \/ Push(c) \/ RouteDone(c) \/ Close(c) \/ Write(c) \/ WriterFail(c)
             \/ Hangup(c) \/ \E u \in Users : Register(c, u) \/ Login(c, u)
      PROVE  UNCHANGED outbox
  BY <1>1 DEF Accept, Publish, Greet, Answer, Pull, FlushFetch, FlushSend, FlushJunk,
     FlushStop, ReadSend, RouteSkip, Route, Push, RouteDone, Close, Write, WriterFail,
     Hangup, Register, Login
<1>2. ASSUME Maintenance \/ Down \/ Start \/ Tick \/ UNCHANGED vars PROVE UNCHANGED outbox
  BY <1>2 DEF Maintenance, Down, Start, Tick, vars
<1> QED
  BY <1>1, <1>2 DEF Next, Request, Handler, Writer, MaintenanceExit, Crash

\* db.rs, delete_frames and prune_expired: a queued row leaves the table by its
\* own flush, once handed over, or by expiry, and in no other way.
THEOREM RowsLeaveProperlyAlways == Spec => RowsLeaveProperly
<1> DEFINE I == TypeInv /\ PresenceInv /\ FlowInv
           A == \A r \in outbox \ outbox' :
                  \/ Expired(r)
                  \/ \E c \in Conns : pc[c] = "delete" /\ authed[c] = r.rcpt /\ r.id \in handed[c]
<1>1. Init => I
  BY TypeInvInit, PresenceInit, FlowInit
<1>2. I /\ [Next]_vars => I'
  BY TypeInvNext, PresenceNext, FlowNext
<1>3. I /\ [Next]_vars => A
  <2> SUFFICES ASSUME I, [Next]_vars, NEW r \in outbox \ outbox'
               PROVE  \/ Expired(r)
                      \/ \E c \in Conns :
                            pc[c] = "delete" /\ authed[c] = r.rcpt /\ r.id \in handed[c]
    OBVIOUS
  <2>1. ASSUME NEW c \in Conns, Enqueue(c) PROVE FALSE
    BY <2>1 DEF Enqueue
  <2>2. ASSUME NEW c \in Conns, FlushDelete(c)
        PROVE  pc[c] = "delete" /\ authed[c] = r.rcpt /\ r.id \in handed[c]
    BY <2>2 DEF FlushDelete, FlowInv, FlushLocals
  <2>3. CASE Prune
    BY <2>3 DEF Prune
  <2> QED
    BY <2>1, <2>2, <2>3, OutboxSteps
<1> QED
  BY <1>1, <1>2, <1>3, PTL DEF Spec, RowsLeaveProperly

----------------------------------------------------------------------------
(* Who may have a queue, how long it gets, and how old.                    *)

LEMMA DrainableNext ==
    TypeInv /\ QueueDrainable /\ [Next]_vars => QueueDrainable'
<1> SUFFICES ASSUME TypeInv, QueueDrainable, [Next]_vars PROVE QueueDrainable'
  OBVIOUS
<1>1. users \subseteq users'
  <2>1. ASSUME NEW c \in Conns,
               \/ Accept(c) \/ Publish(c) \/ Greet(c) \/ Answer(c) \/ Pull(c) \/ FlushFetch(c)
               \/ FlushSend(c) \/ FlushJunk(c) \/ FlushStop(c) \/ FlushDelete(c) \/ ReadSend(c)
               \/ RouteSkip(c) \/ Route(c) \/ Push(c) \/ Enqueue(c) \/ RouteDone(c) \/ Close(c)
               \/ Write(c) \/ WriterFail(c) \/ Hangup(c)
               \/ \E u \in Users : Register(c, u) \/ Login(c, u)
        PROVE  users \subseteq users'
    BY <2>1 DEF Accept, Publish, Greet, Answer, Pull, FlushFetch, FlushSend, FlushJunk,
       FlushStop, FlushDelete, ReadSend, RouteSkip, Route, Push, Enqueue, RouteDone, Close,
       Write, WriterFail, Hangup, Register, Login
  <2>2. ASSUME Maintenance \/ Down \/ Start \/ Tick \/ Prune \/ UNCHANGED vars
        PROVE  users \subseteq users'
    BY <2>2 DEF Maintenance, Down, Start, Tick, Prune, vars
  <2> QED
    BY <2>1, <2>2 DEF Next, Request, Handler, Writer, MaintenanceExit, Crash
<1>2. ASSUME NEW c \in Conns, Enqueue(c) PROVE QueueDrainable'
  <2>1. Head(rest[c]) \in users
    BY <1>2 DEF Enqueue, TypeInv, SendLocals
  <2> QED
    BY <1>1, <1>2, <2>1 DEF Enqueue, QueueDrainable
<1>3. ASSUME NEW c \in Conns, FlushDelete(c) PROVE QueueDrainable'
  BY <1>1, <1>3 DEF FlushDelete, QueueDrainable
<1>4. CASE Prune
  BY <1>1, <1>4 DEF Prune, QueueDrainable
<1>5. CASE UNCHANGED outbox
  BY <1>1, <1>5 DEF QueueDrainable
<1> QED
  BY <1>2, <1>3, <1>4, <1>5, OutboxSteps

\* conn.rs, Send: nothing is ever queued for a name that cannot log in.
THEOREM QueueDrainableAlways == Spec => []QueueDrainable
<1>1. Init => QueueDrainable
  BY RelayConstants DEF Init, QueueDrainable
<1>2. TypeInv /\ QueueDrainable /\ [Next]_vars => (TypeInv /\ QueueDrainable)'
  BY TypeInvNext, DrainableNext
<1> QED
  BY <1>1, <1>2, TypeInvInit, PTL DEF Spec

\* The row quota, with what its induction needs.
QuotaInv == IsFiniteSet(outbox) /\ RowQuota

LEMMA QuotaNext == TypeInv /\ QuotaInv /\ [Next]_vars => QuotaInv'
<1> SUFFICES ASSUME TypeInv, QuotaInv, [Next]_vars PROVE QuotaInv'
  OBVIOUS
<1> USE RelayConstants
<1>0. \A u \in Users : IsFiniteSet(RowsOf(u)) /\ Cardinality(RowsOf(u)) \in Nat
                       /\ Cardinality(RowsOf(u)) <= CapRows
  BY FS_Subset, FS_CardinalityType DEF QuotaInv, RowQuota, RowsOf
<1>1. ASSUME outbox' \subseteq outbox PROVE QuotaInv'
  <2>1. IsFiniteSet(outbox')
    BY <1>1, FS_Subset DEF QuotaInv
  <2>2. ASSUME NEW u \in Users PROVE Cardinality(RowsOf(u)') <= CapRows
    <3>1. RowsOf(u)' \subseteq RowsOf(u)
      BY <1>1 DEF RowsOf
    <3>2. Cardinality(RowsOf(u)') <= Cardinality(RowsOf(u)) /\ Cardinality(RowsOf(u)') \in Nat
      BY <1>0, <3>1, FS_Subset, FS_CardinalityType
    <3> QED
      BY <1>0, <3>2
  <2> QED
    BY <2>1, <2>2 DEF QuotaInv, RowQuota
<1>2. ASSUME NEW c \in Conns, Enqueue(c) PROVE QuotaInv'
  <2> DEFINE v == Head(rest[c])
             row == [id |-> nextId, rcpt |-> v, frame |-> msg[c], ts |-> msg[c].ts]
  <2>1. CASE ~UnderCap(v, msg[c].size)
    BY <1>1, <1>2, <2>1 DEF Enqueue
  <2>2. CASE UnderCap(v, msg[c].size)
    <3>1. outbox' = outbox \cup {row}
      BY <1>2, <2>2 DEF Enqueue
    <3>2. IsFiniteSet(outbox')
      BY <3>1, FS_AddElement DEF QuotaInv
    <3>3. ASSUME NEW u \in Users PROVE Cardinality(RowsOf(u)') <= CapRows
      <4>1. CASE u = v
        <5>1. RowsOf(u)' = RowsOf(u) \cup {row}
          BY <3>1, <4>1 DEF RowsOf
        <5>2. Cardinality(RowsOf(u)') \in {Cardinality(RowsOf(u)), Cardinality(RowsOf(u)) + 1}
          <6> HIDE DEF row
          <6>1. Cardinality(RowsOf(u) \cup {row}) \in
                   {Cardinality(RowsOf(u)), Cardinality(RowsOf(u)) + 1}
            BY ZenonT(30), <1>0, FS_AddElement
          <6> QED
            BY <5>1, <6>1
        <5>3. Cardinality(RowsOf(u)) < CapRows
          BY <2>2, <4>1 DEF UnderCap
        <5> QED
          BY <1>0, <5>2, <5>3
      <4>2. CASE u # v
        <5>1. RowsOf(u)' = RowsOf(u)
          BY <3>1, <4>2 DEF RowsOf
        <5> QED
          BY <1>0, <5>1
      <4> QED
        BY <4>1, <4>2
    <3> QED
      BY <3>2, <3>3 DEF QuotaInv, RowQuota
  <2> QED
    BY <2>1, <2>2
<1>3. ASSUME NEW c \in Conns, FlushDelete(c) PROVE QuotaInv'
  BY <1>1, <1>3 DEF FlushDelete
<1>4. CASE Prune
  BY <1>1, <1>4 DEF Prune
<1> QED
  BY <1>1, <1>2, <1>3, <1>4, OutboxSteps

\* db.rs, enqueue_if_under_cap: however many senders, a recipient never has more
\* rows than MAX_OUTBOX_PER_RECIPIENT.
THEOREM RowQuotaAlways == Spec => []RowQuota
<1>1. Init => QuotaInv
  <2> SUFFICES ASSUME Init PROVE QuotaInv
    OBVIOUS
  <2>1. outbox = {} \/ \E r : outbox = {r}
    BY DEF Init
  <2>2. IsFiniteSet(outbox) /\ Cardinality(outbox) <= 1 /\ Cardinality(outbox) \in Nat
    <3>1. CASE outbox = {}
      BY <3>1, FS_EmptySet
    <3>2. ASSUME NEW r, outbox = {r}
          PROVE  IsFiniteSet(outbox) /\ Cardinality(outbox) = 1
      BY <3>2, FS_Singleton
    <3> QED
      BY <2>1, <3>1, <3>2
  <2>3. ASSUME NEW u \in Users PROVE Cardinality(RowsOf(u)) <= CapRows
    <3>1. Cardinality(RowsOf(u)) <= Cardinality(outbox) /\ Cardinality(RowsOf(u)) \in Nat
      BY <2>2, FS_Subset, FS_CardinalityType DEF RowsOf
    <3> QED
      BY <2>2, <3>1, RelayConstants
  <2> QED
    BY <2>2, <2>3 DEF QuotaInv, RowQuota
<1>2. TypeInv /\ QuotaInv /\ [Next]_vars => (TypeInv /\ QuotaInv)'
  BY TypeInvNext, QuotaNext
<1>3. QuotaInv => RowQuota
  BY DEF QuotaInv
<1> QED
  BY <1>1, <1>2, <1>3, TypeInvInit, PTL DEF Spec

\* MapThenSumSet, opened up: the sum of the lengths of a set, in the unit w, takes
\* one member after the other, as CHOOSE picks them.
Pick(s) == CHOOSE x \in s : TRUE
SumStep(w, g, s) == IF s = {} THEN 0 ELSE Length(w, Pick(s)) + g[s \ {Pick(s)}]
Sums(w, S) == CHOOSE g : g = [s \in SUBSET S |-> SumStep(w, g, s)]
Sum(w, S) == Sums(w, S)[S]
Solved(w, S, g) == g = [s \in SUBSET S |-> SumStep(w, g, s)]

LEMMA SumIs == ASSUME NEW w, NEW S PROVE SumLengths(w, S) = Sum(w, S)
  BY DEF SumLengths, MapThenSumSet, MapThenFoldSet, Sum, Sums, SumStep, Pick

\* A set of numbers has a least member: the induction of what follows.
LEMMA LeastNat == ASSUME NEW N \in SUBSET Nat, N # {} PROVE \E m \in N : \A n \in N : m <= n
<1> DEFINE R == {p \in Nat \X Nat : p[1] < p[2]}
<1>0. IsWellFoundedOn(R, Nat)
  BY NatLessThanWellFounded DEF OpToRel
<1> HIDE DEF R
<1>1. \E m \in N : \A n \in N : ~ (<<n, m>> \in R)
  <2>1. N \subseteq Nat
    OBVIOUS
  <2> QED
    BY Zenon, <1>0, <2>1, WFMin
<1>2. PICK m \in N : \A n \in N : ~ (<<n, m>> \in R)
  BY <1>1
<1>3. ASSUME NEW n \in N PROVE m <= n
  <2>1. m \in Nat /\ n \in Nat /\ <<n, m>> \notin R
    BY <1>2
  <2>2. <<n, m>> \in R <=> n < m
    BY <2>1 DEF R
  <2> QED
    BY <2>1, <2>2
<1> QED
  BY <1>3

\* Of the finite sets in question, one has the fewest members.
LEMMA Smallest ==
    ASSUME NEW D, D # {}, \A s \in D : IsFiniteSet(s)
    PROVE  \E s \in D : \A t \in D : Cardinality(s) <= Cardinality(t)
<1> DEFINE N == {Cardinality(s) : s \in D}
<1>1. N \in SUBSET Nat /\ N # {}
  BY FS_CardinalityType
<1> HIDE DEF N
<1>2. PICK m \in N : \A n \in N : m <= n
  BY <1>1, LeastNat
<1> QED
  BY <1>2 DEF N

\* What is left after a member was taken is smaller.
LEMMA Smaller ==
    ASSUME NEW s, IsFiniteSet(s), NEW t, t \subseteq s, t # s
    PROVE  IsFiniteSet(t) /\ ~(Cardinality(s) <= Cardinality(t))
<1>1. IsFiniteSet(t) /\ Cardinality(t) <= Cardinality(s) /\ Cardinality(t) # Cardinality(s)
  BY FS_Subset
<1>2. Cardinality(t) \in Nat /\ Cardinality(s) \in Nat
  BY <1>1, FS_CardinalityType
<1> QED
  BY <1>1, <1>2

LEMMA Picked == ASSUME NEW s, s # {} PROVE Pick(s) \in s
  BY DEF Pick

LEMMA SumsUnique ==
    ASSUME NEW w, NEW S, IsFiniteSet(S), NEW g, NEW h, Solved(w, S, g), Solved(w, S, h)
    PROVE  g = h
<1> DEFINE D == {s \in SUBSET S : g[s] # h[s]}
<1>1. g = [s \in SUBSET S |-> g[s]] /\ h = [s \in SUBSET S |-> h[s]]
  BY DEF Solved
<1>2. ASSUME D # {} PROVE FALSE
  <2>1. \A s \in D : IsFiniteSet(s)
    BY FS_Subset
  <2>2. PICK s \in D : \A t \in D : Cardinality(s) <= Cardinality(t)
    <3> HIDE DEF D
    <3> QED
      BY <1>2, <2>1, Smallest
  <2>3. g[s] = SumStep(w, g, s) /\ h[s] = SumStep(w, h, s)
    BY DEF Solved
  <2>4. s # {}
    BY <2>3 DEF SumStep
  <2> DEFINE t == s \ {Pick(s)}
  <2>5. Pick(s) \in s
    BY <2>4, Picked
  <2>6. t \in SUBSET S /\ t \notin D
    BY <2>1, <2>2, <2>5, Smaller
  <2>7. g[t] = h[t]
    BY <2>6
  <2> QED
    BY <2>3, <2>7 DEF SumStep
<1> QED
  BY <1>1, <1>2

\* The sums of a set are those of its subsets.
LEMMA SumsRestrict ==
    ASSUME NEW w, NEW S, NEW g, Solved(w, S, g), NEW T \in SUBSET S
    PROVE  Solved(w, T, [s \in SUBSET T |-> g[s]])
<1> DEFINE h == [s \in SUBSET T |-> g[s]]
<1>1. ASSUME NEW s \in SUBSET T PROVE h[s] = SumStep(w, h, s)
  <2>1. g[s] = SumStep(w, g, s) /\ h[s] = g[s]
    BY DEF Solved
  <2>2. h[s \ {Pick(s)}] = g[s \ {Pick(s)}]
    OBVIOUS
  <2> QED
    BY <2>1, <2>2 DEF SumStep
<1>2. h = [s \in SUBSET T |-> h[s]]
  OBVIOUS
<1> HIDE DEF h
<1>3. Solved(w, T, h)
  BY <1>1, <1>2 DEF Solved
<1> QED
  BY <1>3 DEF h

LEMMA SumsSolved == ASSUME NEW w, NEW S, NEW g, Solved(w, S, g) PROVE Solved(w, S, Sums(w, S))
  BY DEF Sums, Solved

LEMMA SumOfSubset ==
    ASSUME NEW w, NEW S, IsFiniteSet(S), Solved(w, S, Sums(w, S)), NEW T \in SUBSET S
    PROVE  Sums(w, S)[T] = Sum(w, T) /\ Solved(w, T, Sums(w, T))
<1> DEFINE h == [s \in SUBSET T |-> Sums(w, S)[s]]
<1>1. Solved(w, T, h)
  BY SumsRestrict
<1>2. Solved(w, T, Sums(w, T)) /\ IsFiniteSet(T)
  BY <1>1, SumsSolved, FS_Subset
<1>3. h = Sums(w, T)
  <2> HIDE DEF h
  <2> QED
    BY <1>1, <1>2, SumsUnique
<1>4. h[T] = Sums(w, S)[T]
  OBVIOUS
<1> QED
  BY <1>2, <1>3, <1>4 DEF Sum

LEMMA SumEmpty == ASSUME NEW w, NEW S, Solved(w, S, Sums(w, S)) PROVE Sums(w, S)[{}] = 0
  BY DEF Solved, SumStep

LEMMA SumsExist == ASSUME NEW w, NEW S, IsFiniteSet(S) PROVE Solved(w, S, Sums(w, S))
<1> DEFINE D == {T \in SUBSET S : ~Solved(w, T, Sums(w, T))}
<1> SUFFICES ASSUME D # {} PROVE FALSE
  OBVIOUS
<1>1. \A T \in D : IsFiniteSet(T)
  BY FS_Subset
<1>2. PICK T \in D : \A t \in D : Cardinality(T) <= Cardinality(t)
  <2> HIDE DEF D
  <2> QED
    BY <1>1, Smallest
<1>3. ASSUME NEW t \in SUBSET T, t # T PROVE Solved(w, t, Sums(w, t)) /\ IsFiniteSet(t)
  BY <1>1, <1>2, <1>3, Smaller
<1> DEFINE G == [s \in SUBSET T |-> IF s = {} THEN 0 ELSE Length(w, Pick(s)) + Sum(w, s \ {Pick(s)})]
<1>4. ASSUME NEW s \in SUBSET T PROVE G[s] = SumStep(w, G, s)
  <2>1. CASE s = {}
    BY <2>1 DEF SumStep
  <2>2. CASE s # {}
    <3> DEFINE t == s \ {Pick(s)}
    <3>1. Pick(s) \in s /\ t \in SUBSET T /\ t # T
      BY <2>2, Picked
    <3>2. Solved(w, t, Sums(w, t)) /\ IsFiniteSet(t)
      BY <1>3, <3>1
    <3>3. G[t] = Sum(w, t)
      <4>1. CASE t = {}
        <5>1. Sum(w, t) = 0
          BY <3>2, <4>1, SumEmpty DEF Sum
        <5> QED
          BY <3>1, <4>1, <5>1
      <4>2. CASE t # {}
        <5>1. Sum(w, t) = SumStep(w, Sums(w, t), t)
          BY <3>2 DEF Sum, Solved
        <5>2. Sums(w, t)[t \ {Pick(t)}] = Sum(w, t \ {Pick(t)})
          BY <3>2, SumOfSubset
        <5>3. G[t] = Length(w, Pick(t)) + Sum(w, t \ {Pick(t)})
          BY <3>1, <4>2
        <5> QED
          BY <4>2, <5>1, <5>2, <5>3 DEF SumStep
      <4> QED
        BY <4>1, <4>2
    <3>4. G[s] = Length(w, Pick(s)) + Sum(w, t)
      BY <2>2
    <3> HIDE DEF G
    <3> QED
      BY <2>2, <3>3, <3>4 DEF SumStep
  <2> QED
    BY <2>1, <2>2
<1>5. G = [s \in SUBSET T |-> G[s]]
  OBVIOUS
<1>6. Solved(w, T, G)
  <2> HIDE DEF G
  <2> QED
    BY <1>4, <1>5 DEF Solved
<1> QED
  BY <1>2, <1>6, SumsSolved

LEMMA SumRec ==
    ASSUME NEW w, NEW S, IsFiniteSet(S)
    PROVE  Sum(w, S) = IF S = {} THEN 0 ELSE Length(w, Pick(S)) + Sum(w, S \ {Pick(S)})
<1>1. Solved(w, S, Sums(w, S))
  BY SumsExist
<1>2. Sum(w, S) = SumStep(w, Sums(w, S), S)
  BY <1>1 DEF Sum, Solved
<1>3. Sums(w, S)[S \ {Pick(S)}] = Sum(w, S \ {Pick(S)})
  BY <1>1, SumOfSubset
<1> QED
  BY <1>2, <1>3 DEF SumStep

LEMMA SumNat ==
    ASSUME NEW w, NEW S, IsFiniteSet(S), \A r \in S : Length(w, r) \in Nat
    PROVE  Sum(w, S) \in Nat
<1> DEFINE D == {T \in SUBSET S : Sum(w, T) \notin Nat}
<1> SUFFICES ASSUME D # {} PROVE FALSE
  OBVIOUS
<1>1. \A T \in D : IsFiniteSet(T)
  BY FS_Subset
<1>2. PICK T \in D : \A t \in D : Cardinality(T) <= Cardinality(t)
  <2> HIDE DEF D
  <2> QED
    BY <1>1, Smallest
<1>3. T # {} /\ Sum(w, T) = Length(w, Pick(T)) + Sum(w, T \ {Pick(T)})
  <2>1. IsFiniteSet(T) /\ Sum(w, T) \notin Nat
    BY <1>1, <1>2
  <2>2. Sum(w, T) = IF T = {} THEN 0 ELSE Length(w, Pick(T)) + Sum(w, T \ {Pick(T)})
    BY <2>1, SumRec
  <2> QED
    BY <2>1, <2>2
<1>4. Pick(T) \in T /\ T \ {Pick(T)} \in SUBSET S
  BY <1>3, Picked
<1>5. T \ {Pick(T)} \notin D
  BY <1>1, <1>2, <1>4, Smaller
<1>6. Sum(w, T \ {Pick(T)}) \in Nat /\ Length(w, Pick(T)) \in Nat
  BY <1>4, <1>5
<1> QED
  BY <1>3, <1>6

\* The order does not matter: any member may be taken first.
LEMMA SumAny ==
    ASSUME NEW w, NEW S, IsFiniteSet(S), \A r \in S : Length(w, r) \in Nat
    PROVE  \A y \in S : Sum(w, S) = Length(w, y) + Sum(w, S \ {y})
<1> DEFINE D == {T \in SUBSET S : \E y \in T : Sum(w, T) # Length(w, y) + Sum(w, T \ {y})}
<1> SUFFICES ASSUME D # {} PROVE FALSE
  OBVIOUS
<1>1. \A T \in D : IsFiniteSet(T)
  BY FS_Subset
<1>2. PICK T \in D : \A t \in D : Cardinality(T) <= Cardinality(t)
  <2> HIDE DEF D
  <2> QED
    BY <1>1, Smallest
<1>3. PICK y \in T : Sum(w, T) # Length(w, y) + Sum(w, T \ {y})
  BY <1>2
<1> DEFINE p == Pick(T)
<1>4. p \in T
  BY Picked
<1>5. Sum(w, T) = Length(w, p) + Sum(w, T \ {p})
  <2>1. IsFiniteSet(T) /\ T # {}
    BY <1>1, <1>2, <1>3
  <2> QED
    BY <2>1, SumRec
<1>6. y # p
  <2> HIDE DEF p
  <2> QED
    BY <1>3, <1>5
<1>7. T \ {p} \notin D /\ T \ {y} \notin D
  <2> HIDE DEF p
  <2>1. IsFiniteSet(T) /\ T \ {p} # T /\ T \ {y} # T
    BY <1>1, <1>2, <1>3, <1>4
  <2>2. /\ ~(Cardinality(T) <= Cardinality(T \ {p}))
        /\ ~(Cardinality(T) <= Cardinality(T \ {y}))
    BY <2>1, Smaller
  <2> QED
    BY <1>2, <2>2
<1>8. /\ Sum(w, T \ {p}) = Length(w, y) + Sum(w, (T \ {p}) \ {y})
      /\ Sum(w, T \ {y}) = Length(w, p) + Sum(w, (T \ {y}) \ {p})
  BY <1>4, <1>6, <1>7
<1>9. (T \ {p}) \ {y} = (T \ {y}) \ {p}
  OBVIOUS
<1>10. Length(w, y) \in Nat /\ Length(w, p) \in Nat /\ Sum(w, (T \ {y}) \ {p}) \in Nat
  <2>1. (T \ {y}) \ {p} \subseteq S /\ IsFiniteSet((T \ {y}) \ {p})
    BY FS_Subset
  <2> QED
    BY <1>4, <2>1, SumNat
<1> DEFINE q == Sum(w, (T \ {y}) \ {p})
<1>11. /\ Sum(w, T) = Length(w, p) + (Length(w, y) + q)
       /\ Sum(w, T \ {y}) = Length(w, p) + q
  <2> HIDE DEF p
  <2> QED
    BY <1>5, <1>8, <1>9
<1>12. \A i, j, k \in Nat : i + (j + k) = j + (i + k)
  OBVIOUS
<1>13. Sum(w, T) = Length(w, y) + Sum(w, T \ {y})
  <2> HIDE DEF p, q
  <2>1. q \in Nat
    BY <1>10 DEF q
  <2> QED
    BY <1>10, <1>11, <1>12, <2>1
<1> QED
  BY <1>3, <1>13

\* Fewer rows take no more.
LEMMA SumMono ==
    ASSUME NEW w, NEW S, IsFiniteSet(S), \A r \in S : Length(w, r) \in Nat, NEW T \in SUBSET S
    PROVE  Sum(w, T) <= Sum(w, S)
<1> DEFINE D == {U \in SUBSET S : T \subseteq U /\ ~(Sum(w, T) <= Sum(w, U))}
<1> SUFFICES ASSUME D # {} PROVE FALSE
  OBVIOUS
<1>1. \A U \in D : IsFiniteSet(U)
  BY FS_Subset
<1>2. PICK U \in D : \A t \in D : Cardinality(U) <= Cardinality(t)
  <2> HIDE DEF D
  <2> QED
    BY <1>1, Smallest
<1>3. ASSUME NEW V \in SUBSET S PROVE Sum(w, V) \in Nat
  BY SumNat, FS_Subset
<1>4. PICK y \in U : y \notin T
  BY <1>2, <1>3
<1>5. U \ {y} \notin D /\ U \ {y} \in SUBSET S /\ T \subseteq U \ {y}
  BY <1>1, <1>2, <1>4, Smaller
<1>6. Sum(w, T) <= Sum(w, U \ {y})
  BY <1>5
<1>7. Sum(w, U) = Length(w, y) + Sum(w, U \ {y})
  BY <1>1, <1>2, SumAny
<1>8. Length(w, y) \in Nat /\ Sum(w, T) \in Nat /\ Sum(w, U) \in Nat /\ Sum(w, U \ {y}) \in Nat
  BY <1>3, <1>5
<1>9. Sum(w, T) <= Sum(w, U)
  BY <1>6, <1>7, <1>8
<1> QED
  BY <1>2, <1>9

\* What UTF-8 allows of every row holds of their sum.
LEMMA SumScale ==
    ASSUME NEW S, IsFiniteSet(S),
           \A r \in S : /\ Length("chars", r) \in Nat /\ Length("bytes", r) \in Nat
                        /\ Length("bytes", r) <= 4 * Length("chars", r)
    PROVE  Sum("bytes", S) <= 4 * Sum("chars", S)
<1> DEFINE D == {T \in SUBSET S : ~(Sum("bytes", T) <= 4 * Sum("chars", T))}
<1> SUFFICES ASSUME D # {} PROVE FALSE
  OBVIOUS
<1>1. \A T \in D : IsFiniteSet(T)
  BY FS_Subset
<1>2. PICK T \in D : \A t \in D : Cardinality(T) <= Cardinality(t)
  <2> HIDE DEF D
  <2> QED
    BY <1>1, Smallest
<1>3. ASSUME NEW w \in {"chars", "bytes"}
      PROVE  Sum(w, T) = IF T = {} THEN 0 ELSE Length(w, Pick(T)) + Sum(w, T \ {Pick(T)})
  BY <1>1, SumRec
<1>4. T # {}
  <2>1. CASE T = {}
    <3>1. Sum("chars", T) = 0 /\ Sum("bytes", T) = 0
      BY <1>3, <2>1
    <3> QED
      BY <1>2, <3>1
  <2> QED
    BY <2>1
<1> DEFINE R == T \ {Pick(T)}
<1>5. Pick(T) \in S /\ R \in SUBSET S /\ R \notin D /\ IsFiniteSet(R)
  BY <1>1, <1>2, <1>4, Picked, Smaller
<1>6. Sum("bytes", R) <= 4 * Sum("chars", R)
  BY <1>5
<1>7. Sum("bytes", R) \in Nat /\ Sum("chars", R) \in Nat
  BY <1>5, SumNat
<1>8. /\ Sum("chars", T) = Length("chars", Pick(T)) + Sum("chars", R)
      /\ Sum("bytes", T) = Length("bytes", Pick(T)) + Sum("bytes", R)
  BY <1>3, <1>4
<1>9. /\ Length("chars", Pick(T)) \in Nat /\ Length("bytes", Pick(T)) \in Nat
      /\ Length("bytes", Pick(T)) <= 4 * Length("chars", Pick(T))
  BY <1>5
<1>10. Sum("bytes", T) <= 4 * Sum("chars", T)
  <2> HIDE DEF R
  <2> QED
    BY <1>6, <1>7, <1>8, <1>9
<1> QED
  BY <1>2, <1>10

\* The lengths of a row are numbers, and its bytes are at most four a character.
LEMMA RowLengths ==
    ASSUME TypeInv
    PROVE  \A r \in outbox :
              /\ Length("chars", r) \in Nat /\ Length("bytes", r) \in Nat
              /\ Length("bytes", r) <= 4 * Length("chars", r)
<1> SUFFICES ASSUME NEW r \in outbox
             PROVE  /\ Length("chars", r) \in Nat /\ Length("bytes", r) \in Nat
                    /\ Length("bytes", r) <= 4 * Length("chars", r)
  OBVIOUS
<1>1. r.frame = Junk \/ r.frame \in Frames
  BY DEF TypeInv, TypeOK, Rows
<1>2. (IF r.frame = Junk THEN JunkSize ELSE r.frame.size) \in Lengths
  BY <1>1, RelayConstants DEF Frames
<1> QED
  BY <1>2 DEF Length, Lengths

\* What the code sums for a recipient is the sum of the characters of its rows.
LEMMA CharsOfRows ==
    ASSUME TypeInv, IsFiniteSet(outbox)
    PROVE  \A u \in Users :
              /\ RowsOf(u) \subseteq outbox /\ IsFiniteSet(RowsOf(u))
              /\ Total("chars", u) = Sum("chars", RowsOf(u))
              /\ Total("chars", u) \in Nat
<1>1. ASSUME NEW u \in Users
      PROVE  RowsOf(u) \subseteq outbox /\ IsFiniteSet(RowsOf(u))
  BY FS_Subset DEF RowsOf
<1>2. ASSUME NEW u \in Users
      PROVE  Total("chars", u) = Sum("chars", RowsOf(u)) /\ Total("chars", u) \in Nat
  BY <1>1, RowLengths, SumIs, SumNat DEF Total
<1> QED
  BY <1>1, <1>2

\* The budget as the code keeps it.
CharQuota == \A u \in Users : Total("chars", u) <= CapBytes
CharInv == IsFiniteSet(outbox) /\ CharQuota

LEMMA CharsNext == TypeInv /\ TypeInv' /\ CharInv /\ [Next]_vars => CharInv'
<1> SUFFICES ASSUME TypeInv, TypeInv', CharInv, [Next]_vars PROVE CharInv'
  OBVIOUS
<1>0. IsFiniteSet(outbox) /\ \A u \in Users : Total("chars", u) <= CapBytes
  BY DEF CharInv, CharQuota
<1>1. ASSUME outbox' \subseteq outbox PROVE CharInv'
  <2>1. IsFiniteSet(outbox')
    BY <1>0, <1>1, FS_Subset
  <2>2. ASSUME NEW u \in Users PROVE Total("chars", u)' <= CapBytes
    <3>1. RowsOf(u)' \in SUBSET RowsOf(u)
      BY <1>1 DEF RowsOf
    <3>2. Sum("chars", RowsOf(u)') <= Sum("chars", RowsOf(u))
      BY <1>0, <3>1, RowLengths, CharsOfRows, SumMono
    <3>3. Total("chars", u)' = Sum("chars", RowsOf(u)') /\ Sum("chars", RowsOf(u)') \in Nat
      <4>1. IsFiniteSet(RowsOf(u)') /\ \A r \in RowsOf(u)' : Length("chars", r) \in Nat
        BY <1>0, <3>1, RowLengths, CharsOfRows, FS_Subset
      <4> QED
        BY <4>1, SumIs, SumNat DEF Total
    <3> QED
      BY <1>0, <3>2, <3>3, CharsOfRows, RelayConstants
  <2> QED
    BY <2>1, <2>2 DEF CharInv, CharQuota
<1>2. ASSUME NEW c \in Conns, Enqueue(c) PROVE CharInv'
  <2> DEFINE v == Head(rest[c])
             row == [id |-> nextId, rcpt |-> v, frame |-> msg[c], ts |-> msg[c].ts]
  <2>1. CASE ~UnderCap(v, msg[c].size)
    BY <1>1, <1>2, <2>1 DEF Enqueue
  <2>2. CASE UnderCap(v, msg[c].size)
    <3>1. outbox' = outbox \cup {row}
      BY <1>2, <2>2 DEF Enqueue
    <3>2. msg[c] \in Frames /\ v \in Users
      BY <1>2 DEF Enqueue, TypeInv, TypeOK, SendLocals
    <3>3. /\ Length("chars", row) = msg[c].size.chars
          /\ msg[c].size.chars \in Nat /\ msg[c].size.bytes \in Nat
          /\ msg[c].size.chars <= msg[c].size.bytes
      BY <3>2, FrameConstants, RelayConstants DEF Length, Frames, Lengths
    <3> HIDE DEF row
    <3>4. IsFiniteSet(outbox')
      BY <1>0, <3>1, FS_AddElement
    <3>5. ASSUME NEW u \in Users PROVE Total("chars", u)' <= CapBytes
      <4> DEFINE S == RowsOf(u)'
      <4>1. S \ {row} \subseteq RowsOf(u)
        BY <3>1 DEF RowsOf
      <4>2. IsFiniteSet(S) /\ \A r \in S : Length("chars", r) \in Nat
        <5>1. IsFiniteSet(S)
          BY <3>4, FS_Subset DEF RowsOf
        <5>2. \A r \in S : Length("chars", r) \in Nat
          BY <1>0, <3>3, <4>1, RowLengths, CharsOfRows
        <5> QED
          BY <5>1, <5>2
      <4>3. Total("chars", u)' = Sum("chars", S) /\ Sum("chars", S) \in Nat
        BY <4>2, SumIs, SumNat DEF Total
      <4>4. Sum("chars", S \ {row}) <= Total("chars", u) /\ Total("chars", u) \in Nat
        BY <1>0, <4>1, RowLengths, CharsOfRows, SumMono
      <4>5. Sum("chars", S \ {row}) \in Nat
        BY <4>2, FS_Subset, SumNat
      <4>6. CASE row \in S
        <5>1. u = v
          BY <4>6 DEF RowsOf, row
        <5>2. Sum("chars", S) = msg[c].size.chars + Sum("chars", S \ {row})
          BY <3>3, <4>2, <4>6, SumAny
        <5>3. Total("chars", u) + msg[c].size.bytes <= CapBytes
          BY <2>2, <5>1 DEF UnderCap
        <5> QED
          BY <3>3, <4>3, <4>4, <4>5, <5>2, <5>3, RelayConstants
      <4>7. CASE row \notin S
        <5> HIDE DEF S
        <5>1. S \ {row} = S
          BY <4>7
        <5>2. Sum("chars", S) <= Total("chars", u) /\ Total("chars", u) <= CapBytes
          BY <1>0, <4>4, <5>1
        <5> QED
          BY <4>3, <4>4, <5>2, RelayConstants
      <4> QED
        BY <4>6, <4>7
    <3> QED
      BY <3>4, <3>5 DEF CharInv, CharQuota
  <2> QED
    BY <2>1, <2>2
<1>3. ASSUME NEW c \in Conns, FlushDelete(c) PROVE CharInv'
  BY <1>1, <1>3 DEF FlushDelete
<1>4. CASE Prune
  BY <1>1, <1>4 DEF Prune
<1> QED
  BY <1>1, <1>2, <1>3, <1>4, OutboxSteps

\* The bytes follow from the characters.
LEMMA BytesOfChars == TypeInv /\ CharInv => ByteQuota
<1> SUFFICES ASSUME TypeInv, CharInv, NEW u \in Users
             PROVE  /\ Total("chars", u) <= CapBytes
                    /\ Total("bytes", u) <= 4 * CapBytes
  BY DEF ByteQuota
<1>1. /\ IsFiniteSet(RowsOf(u)) /\ RowsOf(u) \subseteq outbox
      /\ Total("chars", u) = Sum("chars", RowsOf(u)) /\ Total("chars", u) \in Nat
      /\ Total("chars", u) <= CapBytes
  BY CharsOfRows DEF CharInv, CharQuota
<1>2. Sum("bytes", RowsOf(u)) <= 4 * Sum("chars", RowsOf(u))
  BY <1>1, RowLengths, SumScale
<1>3. Total("bytes", u) = Sum("bytes", RowsOf(u)) /\ Sum("bytes", RowsOf(u)) \in Nat
  BY <1>1, RowLengths, SumIs, SumNat DEF Total
<1> QED
  BY <1>1, <1>2, <1>3, RelayConstants

\* db.rs, outbox_bytes and enqueue_if_under_cap: nor, in characters, over
\* MAX_OUTBOX_BYTES_PER_RECIPIENT; in bytes never over four times as much.
THEOREM ByteQuotaAlways == Spec => []ByteQuota
<1>1. Init => CharInv
  <2> SUFFICES ASSUME Init PROVE CharInv
    OBVIOUS
  <2>1. IsFiniteSet(outbox)
    <3>1. outbox = {} \/ \E r : outbox = {r}
      BY DEF Init
    <3> QED
      BY <3>1, FS_EmptySet, FS_Singleton
  <2>2. \A r \in outbox : Length("chars", r) = JunkSize.chars
    BY DEF Init, Length
  <2>3. JunkSize.chars \in Nat /\ JunkSize.chars <= CapBytes
    BY RelayConstants DEF Lengths
  <2>4. ASSUME NEW u \in Users PROVE Total("chars", u) <= CapBytes
    <3> DEFINE S == RowsOf(u)
    <3>1. IsFiniteSet(S) /\ Total("chars", u) = Sum("chars", S)
      BY <2>1, FS_Subset, SumIs DEF RowsOf, Total
    <3>2. S = {} \/ \E r \in outbox : S = {r}
      BY DEF Init, RowsOf
    <3> HIDE DEF S
    <3>3. ASSUME S = {} PROVE Sum("chars", S) = 0
      BY <3>1, <3>3, SumRec
    <3>4. ASSUME NEW r \in outbox, S = {r} PROVE Sum("chars", S) = JunkSize.chars
      <4>1. /\ Sum("chars", S) = Length("chars", Pick(S)) + Sum("chars", S \ {Pick(S)})
            /\ Pick(S) = r
        BY <3>1, <3>4, SumRec, Picked
      <4>2. S \ {Pick(S)} = {} /\ Length("chars", r) = JunkSize.chars
        BY <2>2, <3>4, <4>1
      <4>3. Sum("chars", {}) = 0
        BY FS_EmptySet, SumRec
      <4> QED
        BY <2>3, <4>1, <4>2, <4>3
    <3> QED
      BY <2>3, <3>1, <3>2, <3>3, <3>4, RelayConstants
  <2> QED
    BY <2>1, <2>4 DEF CharInv, CharQuota
<1>2. TypeInv /\ CharInv /\ [Next]_vars => (TypeInv /\ CharInv)'
  BY TypeInvNext, CharsNext
<1> QED
  BY <1>1, <1>2, BytesOfChars, TypeInvInit, PTL DEF Spec

\* A frame being routed was stamped just now.
FreshStamp ==
    \A c \in Conns : pc[c] \in {"route", "push", "enqueue"} => msg[c].ts = now

LifeInv == QueueLifetime /\ FreshStamp

LEMMA FreshNext == TypeInv /\ FreshStamp /\ [Next]_vars => FreshStamp'
<1> SUFFICES ASSUME TypeInv, FreshStamp, [Next]_vars PROVE FreshStamp'
  OBVIOUS
<1> USE DEF FreshStamp, TypeInv, TypeOK
<1>1. ASSUME NEW c \in Conns, ReadSend(c) PROVE FreshStamp'
  BY <1>1 DEF ReadSend, Goto
<1>2. ASSUME NEW c \in Conns, RouteDone(c) PROVE FreshStamp'
  BY <1>2 DEF RouteDone, Goto
<1>3. ASSUME UNCHANGED <<msg, now>>,
             \A d \in Conns : pc'[d] \in {"route", "push", "enqueue"}
                                => pc[d] \in {"route", "push", "enqueue"}
      PROVE  FreshStamp'
  BY <1>3
<1>4. ASSUME NEW c \in Conns,
             \/ Accept(c) \/ Publish(c) \/ Greet(c) \/ Answer(c) \/ Pull(c) \/ FlushFetch(c)
             \/ FlushSend(c) \/ FlushJunk(c) \/ FlushStop(c) \/ FlushDelete(c)
      PROVE  FreshStamp'
  BY <1>3, <1>4 DEF Accept, Publish, Greet, Answer, Pull, FlushFetch, FlushSend, FlushJunk,
     FlushStop, FlushDelete, Goto
<1>5. ASSUME NEW c \in Conns,
             \/ RouteSkip(c) \/ Route(c) \/ Push(c) \/ Enqueue(c) \/ Close(c)
             \/ Write(c) \/ WriterFail(c) \/ Hangup(c)
             \/ \E u \in Users : Register(c, u) \/ Login(c, u)
      PROVE  FreshStamp'
  BY SMTT(30), <1>3, <1>5 DEF RouteSkip, Route, Push, Enqueue, Close, Write, WriterFail, Hangup,
     Register, Login, Goto
<1>6. CASE Down
  BY <1>6 DEF Down
<1>7. CASE Tick
  BY <1>7 DEF Tick
<1>8. CASE Maintenance \/ Start \/ Prune \/ UNCHANGED vars
  BY <1>3, <1>8 DEF Maintenance, Start, Prune, vars
<1> HIDE DEF FreshStamp
<1> QED
  BY <1>1, <1>2, <1>4, <1>5, <1>6, <1>7, <1>8
     DEF Next, Request, Handler, Writer, MaintenanceExit, Crash

LEMMA LifeNext == TypeInv /\ LifeInv /\ [Next]_vars => LifeInv'
<1> SUFFICES ASSUME TypeInv, LifeInv, [Next]_vars PROVE QueueLifetime'
  BY FreshNext DEF LifeInv
<1> USE RelayConstants DEF LifeInv, QueueLifetime
<1>0. /\ now \in Nat /\ sincePrune \in Nat /\ sincePrune <= Interval /\ up \in BOOLEAN
      /\ \A r \in outbox : r.ts \in Nat
  BY DEF TypeInv, TypeOK, Rows
<1>1. ASSUME NEW c \in Conns, Enqueue(c) PROVE QueueLifetime'
  <2>1. msg[c].ts = now
    BY <1>1 DEF Enqueue, FreshStamp
  <2>2. UNCHANGED <<up, sincePrune, now>>
    BY <1>1 DEF Enqueue
  <2>3. \A r \in outbox' : r \in outbox \/ r.ts = now
    BY <1>1, <2>1 DEF Enqueue
  <2> QED
    BY <1>0, <2>2, <2>3
<1>2. ASSUME NEW c \in Conns, FlushDelete(c) PROVE QueueLifetime'
  BY <1>2 DEF FlushDelete
<1>3. CASE Prune
  BY <1>0, <1>3 DEF Prune, Expired
<1>4. CASE Tick
  BY <1>0, <1>4 DEF Tick
<1>5. CASE Start
  BY <1>0, <1>5 DEF Start
<1>6. CASE Down
  BY <1>6 DEF Down
<1>7. ASSUME UNCHANGED <<outbox, up, sincePrune, now>> PROVE QueueLifetime'
  BY <1>7
<1>8. ASSUME NEW c \in Conns,
             \/ Accept(c) \/ Publish(c) \/ Greet(c) \/ Answer(c) \/ Pull(c) \/ FlushFetch(c)
             \/ FlushSend(c) \/ FlushJunk(c) \/ FlushStop(c) \/ ReadSend(c) \/ RouteSkip(c)
             \/ Route(c) \/ Push(c) \/ RouteDone(c) \/ Close(c) \/ Write(c) \/ WriterFail(c)
             \/ Hangup(c) \/ \E u \in Users : Register(c, u) \/ Login(c, u)
      PROVE  QueueLifetime'
  BY <1>7, <1>8 DEF Accept, Publish, Greet, Answer, Pull, FlushFetch, FlushSend, FlushJunk,
     FlushStop, ReadSend, RouteSkip, Route, Push, RouteDone, Close, Write, WriterFail,
     Hangup, Register, Login
<1>9. CASE Maintenance \/ UNCHANGED vars
  BY <1>7, <1>9 DEF Maintenance, vars
<1> HIDE DEF QueueLifetime
<1> QED
  BY <1>1, <1>2, <1>3, <1>4, <1>5, <1>6, <1>8, <1>9
     DEF Next, Request, Handler, Writer, MaintenanceExit, Crash

\* main.rs, spawn_outbox_pruner: once the pruner has run, no row outlives the TTL
\* by more than the time since that run, hence by more than one interval.
THEOREM QueueLifetimeAlways == Spec => []QueueLifetime
<1>1. Init => LifeInv
  BY RelayConstants DEF Init, LifeInv, QueueLifetime, FreshStamp
<1>2. TypeInv /\ LifeInv /\ [Next]_vars => (TypeInv /\ LifeInv)'
  BY TypeInvNext, LifeNext
<1>3. LifeInv => QueueLifetime
  BY DEF LifeInv
<1> QED
  BY <1>1, <1>2, <1>3, TypeInvInit, PTL DEF Spec

----------------------------------------------------------------------------
(* What a client receives, and in which order.                             *)

\* Frame g must reach a client before frame f, or is f.
NotAfter(g, f) == g = f \/ (g.by = f.by /\ g.seq < f.seq)

\* The frame a Send is routing was not yet taken for the recipients it still
\* has, and it is the sender's newest.
RoutingInv ==
    \A c \in Conns :
        /\ pc[c] \in {"route", "push", "enqueue"} =>
              /\ msg[c].by = c /\ msg[c].seq <= nsent
              /\ \A p \in accepted : p[1].by = c => p[1].seq <= msg[c].seq
              /\ \A u \in Users \ seen[c] : <<msg[c], u>> \notin accepted
        /\ pc[c] \in {"push", "enqueue"} =>
              Head(rest[c]) \in seen[c] /\ <<msg[c], Head(rest[c])>> \notin accepted

\* Every row was queued for its recipient by an Enqueue.
QueuedInv ==
    /\ queued \subseteq accepted
    /\ \A p \in accepted : p[1].seq <= nsent

\* The rows of the outbox and of the flushes in progress.
AllRows == outbox \cup UNION {rows[c] : c \in Conns}

\* A frame is queued once for a recipient, and the frames of one connection in
\* the order in which it sent them.
RowOrder ==
    /\ \A r \in AllRows : r.id < nextId /\ (r.frame # Junk => <<r.frame, r.rcpt>> \in queued)
    /\ \A q, r \in AllRows :
          q.frame # Junk /\ r.frame # Junk /\ q.rcpt = r.rcpt =>
              /\ q.frame = r.frame => q = r
              /\ q.frame.by = r.frame.by /\ q.frame.seq < r.frame.seq => q.id < r.id

\* A flush leaves no queued row of its user behind one it still has to send.
FlushOrder ==
    \A c \in Conns : pc[c] = "flush" =>
        \A q \in rows[c], r \in outbox :
            r.rcpt = authed[c] /\ r.id < q.id => r \in rows[c] \/ r.id \in handed[c]

StreamFrames(c) == FramesIn(got[c]) \cup FramesIn(chan[c])

\* Once a queued frame was handed to a connection, the rows that had to be sent
\* before it were dealt with, in this flush or in an earlier one.
Behind ==
    \A c \in Conns : pc[c] \notin {"drain", "closed"} =>
        \A r \in AllRows, f \in StreamFrames(c) :
            (/\ r.rcpt = authed[c] /\ r.frame # Junk
             /\ <<f, authed[c]>> \in queued /\ NotAfter(r.frame, f)) =>
                r \notin rows[c] /\ (r \in outbox => r.id \in handed[c])

\* f may stand before g on a connection of u, Q being what was queued.
Fine(Q, u, f, g) ==
    \/ f = Reply
    \/ g = Reply
    \/ /\ f # g
       /\ f.by = g.by /\ g.seq < f.seq => <<g, u>> \in Q /\ <<f, u>> \notin Q
FineSeq(Q, u, s) == \A i, j \in DOMAIN s : i < j => Fine(Q, u, s[i], s[j])
FinePair(Q, u, s, t) == \A i \in DOMAIN s, j \in DOMAIN t : Fine(Q, u, s[i], t[j])

FineOn(Q, u, s, t) == FineSeq(Q, u, s) /\ FineSeq(Q, u, t) /\ FinePair(Q, u, s, t)

StreamsFine == \A c \in Conns : FineOn(queued, authed[c], got[c], chan[c])

Addressed == \A c \in Conns : \A f \in StreamFrames(c) : <<f, authed[c]>> \in accepted

StreamInv ==
    /\ RoutingInv /\ QueuedInv /\ RowOrder /\ FlushOrder /\ Behind /\ Addressed /\ StreamsFine

\* The pairs of a longer, of a shorter and of a joined sequence.
LEMMA FineAppend ==
    ASSUME NEW Q, NEW u, NEW T, NEW s \in Seq(T), NEW m \in T, FineSeq(Q, u, s),
           \A i \in DOMAIN s : Fine(Q, u, s[i], m)
    PROVE  FineSeq(Q, u, Append(s, m))
<1>1. DOMAIN Append(s, m) = 1..(Len(s) + 1) /\ DOMAIN s = 1..Len(s) /\ Len(s) \in Nat
  OBVIOUS
<1>2. \A i \in DOMAIN s : Append(s, m)[i] = s[i]
  OBVIOUS
<1>3. Append(s, m)[Len(s) + 1] = m
  OBVIOUS
<1>4. ASSUME NEW i \in DOMAIN Append(s, m), NEW j \in DOMAIN Append(s, m), i < j
      PROVE  Fine(Q, u, Append(s, m)[i], Append(s, m)[j])
  <2>1. i \in DOMAIN s
    BY <1>1, <1>4
  <2>2. CASE j \in DOMAIN s
    BY <1>2, <1>4, <2>1, <2>2 DEF FineSeq
  <2>3. CASE j \notin DOMAIN s
    <3>1. j = Len(s) + 1
      BY <1>1, <2>3
    <3> QED
      BY <1>2, <1>3, <2>1, <3>1
  <2> QED
    BY <2>2, <2>3
<1> QED
  BY <1>4 DEF FineSeq

LEMMA FinePairAppend ==
    ASSUME NEW Q, NEW u, NEW T, NEW s, NEW t \in Seq(T), NEW m \in T, FinePair(Q, u, s, t),
           \A i \in DOMAIN s : Fine(Q, u, s[i], m)
    PROVE  FinePair(Q, u, s, Append(t, m))
<1>1. ASSUME NEW i \in DOMAIN s, NEW j \in DOMAIN Append(t, m)
      PROVE  Fine(Q, u, s[i], Append(t, m)[j])
  <2>1. CASE j \in DOMAIN t
    <3>1. Append(t, m)[j] = t[j]
      BY <2>1
    <3> QED
      BY <2>1, <3>1 DEF FinePair
  <2>2. CASE j \notin DOMAIN t
    <3>1. Append(t, m)[j] = m
      BY <2>2
    <3> QED
      BY <3>1
  <2> QED
    BY <2>1, <2>2
<1> QED
  BY <1>1 DEF FinePair

LEMMA TailParts ==
    ASSUME NEW T, NEW t \in Seq(T), t # <<>>
    PROVE  /\ 1 \in DOMAIN t /\ t[1] = Head(t)
           /\ \A j \in DOMAIN Tail(t) : j + 1 \in DOMAIN t /\ 1 < j + 1 /\ Tail(t)[j] = t[j + 1]
OBVIOUS

\* The head of the channel is written, or dropped.
LEMMA FineTail ==
    ASSUME NEW Q, NEW u, NEW T, NEW s \in Seq(T), NEW t \in Seq(T), t # <<>>,
           FineOn(Q, u, s, t)
    PROVE  FineOn(Q, u, s, Tail(t)) /\ FineOn(Q, u, Append(s, Head(t)), Tail(t))
<1>1. /\ 1 \in DOMAIN t /\ t[1] = Head(t) /\ Head(t) \in T
      /\ \A j \in DOMAIN Tail(t) : j + 1 \in DOMAIN t /\ 1 < j + 1 /\ Tail(t)[j] = t[j + 1]
  BY TailParts
<1>2. FineSeq(Q, u, Tail(t))
  <2>1. ASSUME NEW i \in DOMAIN Tail(t), NEW j \in DOMAIN Tail(t), i < j
        PROVE  Fine(Q, u, Tail(t)[i], Tail(t)[j])
    <3>1. i + 1 \in DOMAIN t /\ j + 1 \in DOMAIN t /\ i + 1 < j + 1
      BY <1>1, <2>1
    <3> QED
      BY <1>1, <3>1 DEF FineOn, FineSeq
  <2> QED
    BY <2>1 DEF FineSeq
<1>3. FinePair(Q, u, s, Tail(t))
  BY <1>1 DEF FineOn, FinePair
<1>4. FineSeq(Q, u, Append(s, Head(t)))
  <2>1. \A i \in DOMAIN s : Fine(Q, u, s[i], Head(t))
    BY <1>1 DEF FineOn, FinePair
  <2> QED
    BY <1>1, <2>1, FineAppend DEF FineOn
<1>5. FinePair(Q, u, Append(s, Head(t)), Tail(t))
  <2>1. ASSUME NEW i \in DOMAIN Append(s, Head(t)), NEW j \in DOMAIN Tail(t)
        PROVE  Fine(Q, u, Append(s, Head(t))[i], Tail(t)[j])
    <3>1. CASE i \in DOMAIN s
      <4>1. Append(s, Head(t))[i] = s[i]
        BY <3>1
      <4> QED
        BY <1>3, <3>1, <4>1 DEF FinePair
    <3>2. CASE i \notin DOMAIN s
      <4>1. Append(s, Head(t))[i] = t[1]
        BY <1>1, <3>2
      <4>2. Fine(Q, u, t[1], t[j + 1])
        BY <1>1 DEF FineOn, FineSeq
      <4> QED
        BY <1>1, <4>1, <4>2
    <3> QED
      BY <3>1, <3>2
  <2> QED
    BY <2>1 DEF FinePair
<1> QED
  BY <1>2, <1>3, <1>4, <1>5 DEF FineOn

\* A frame joins the channel that may stand behind everything before it.
LEMMA FineGain ==
    ASSUME NEW Q, NEW u, NEW T, NEW s \in Seq(T), NEW t \in Seq(T), NEW m \in T,
           FineOn(Q, u, s, t),
           \A i \in DOMAIN s : Fine(Q, u, s[i], m), \A i \in DOMAIN t : Fine(Q, u, t[i], m)
    PROVE  FineOn(Q, u, s, Append(t, m))
<1>1. FineSeq(Q, u, Append(t, m))
  BY FineAppend DEF FineOn
<1>2. FinePair(Q, u, s, Append(t, m))
  BY FinePairAppend DEF FineOn
<1> QED
  BY <1>1, <1>2 DEF FineOn

LEMMA FineEmpty ==
    ASSUME NEW Q, NEW u, NEW s, NEW t, FineOn(Q, u, s, t)
    PROVE  FineOn(Q, u, s, <<>>)
BY DEF FineOn, FineSeq, FinePair

LEMMA JoinedPlaces ==
    ASSUME NEW T, NEW s \in Seq(T), NEW t \in Seq(T), NEW i \in DOMAIN (s \o t)
    PROVE  \/ i \in DOMAIN s /\ (s \o t)[i] = s[i]
           \/ i > Len(s) /\ i - Len(s) \in DOMAIN t /\ (s \o t)[i] = t[i - Len(s)]
OBVIOUS

LEMMA FineJoined ==
    ASSUME NEW Q, NEW u, NEW T, NEW s \in Seq(T), NEW t \in Seq(T), FineOn(Q, u, s, t)
    PROVE  FineSeq(Q, u, s \o t)
<1>1. ASSUME NEW i \in DOMAIN (s \o t)
      PROVE  \/ i \in DOMAIN s /\ (s \o t)[i] = s[i]
             \/ i > Len(s) /\ i - Len(s) \in DOMAIN t /\ (s \o t)[i] = t[i - Len(s)]
  BY JoinedPlaces
<1>2. ASSUME NEW i \in DOMAIN (s \o t), NEW j \in DOMAIN (s \o t), i < j
      PROVE  Fine(Q, u, (s \o t)[i], (s \o t)[j])
  <2>0. i \in Int /\ j \in Int /\ Len(s) \in Nat /\ DOMAIN s = 1..Len(s)
    OBVIOUS
  <2>1. CASE j \in DOMAIN s /\ (s \o t)[j] = s[j]
    BY <1>1, <1>2, <2>0, <2>1 DEF FineOn, FineSeq
  <2>2. CASE j > Len(s) /\ j - Len(s) \in DOMAIN t /\ (s \o t)[j] = t[j - Len(s)]
    <3>1. CASE i \in DOMAIN s /\ (s \o t)[i] = s[i]
      BY <2>2, <3>1 DEF FineOn, FinePair
    <3>2. CASE i > Len(s) /\ i - Len(s) \in DOMAIN t /\ (s \o t)[i] = t[i - Len(s)]
      <4>1. i - Len(s) < j - Len(s)
        BY <1>2, <2>0
      <4> QED
        BY <2>2, <3>2, <4>1 DEF FineOn, FineSeq
    <3> QED
      BY <1>1, <3>1, <3>2
  <2> QED
    BY <1>1, <2>1, <2>2
<1> QED
  BY <1>2 DEF FineSeq

\* What most steps do to a connection's stream: nothing, an answer is added,
\* the head of the channel is written, the channel is dropped ...
Shrunk(c) ==
    \/ UNCHANGED <<got[c], chan[c]>>
    \/ got'[c] = got[c] /\ chan'[c] = Append(chan[c], Reply)
    \/ /\ chan[c] # <<>> /\ chan'[c] = Tail(chan[c])
       /\ \/ Head(chan[c]) = Reply /\ got'[c] = got[c]
          \/ Head(chan[c]) \in Frames /\ got'[c] = Append(got[c], Head(chan[c]))
    \/ got'[c] = got[c] /\ chan'[c] = <<>>

\* ... and what only a push and a flush do.
Gains(c, m) ==
    /\ m \in Frames /\ got'[c] = got[c] /\ chan'[c] = Append(chan[c], m)
    /\ \A d \in Conns \ {c} : Shrunk(d)

PushGains(c) == pc[c] = "push" /\ Push(c) /\ HasRoom(target[c]) /\ Gains(target[c], msg[c])
FlushGains(c) ==
    \E r \in rows[c] :
       /\ pc[c] = "flush" /\ FlushSend(c) /\ Oldest(r, rows[c]) /\ r.frame # Junk
       /\ Handed(c, r) /\ Gains(c, r.frame)

LEMMA TrySendShrinks ==
    ASSUME TypeOK, NEW c \in Conns, TrySend(c, Reply), got' = got
    PROVE  \A d \in Conns : Shrunk(d)
<1>1. CASE HasRoom(c)
  BY <1>1 DEF TrySend, Shrunk, TypeOK
<1>2. CASE ~HasRoom(c)
  BY <1>2 DEF TrySend, Shrunk
<1> QED
  BY <1>1, <1>2

LEMMA StreamSteps ==
    ASSUME TypeInv, [Next]_vars
    PROVE  \/ \A d \in Conns : Shrunk(d)
           \/ \E c \in Conns : PushGains(c) \/ FlushGains(c)
<1>0. /\ chan \in [Conns -> Seq(Frames \cup {Reply})] /\ got \in [Conns -> Seq(Frames)]
      /\ TypeOK
  BY DEF TypeInv, TypeOK
<1>1. ASSUME UNCHANGED <<chan, got>> PROVE \A d \in Conns : Shrunk(d)
  BY <1>1 DEF Shrunk
<1>2. ASSUME NEW c \in Conns,
             \/ Accept(c) \/ Publish(c) \/ Pull(c) \/ FlushFetch(c) \/ FlushJunk(c)
             \/ FlushStop(c) \/ FlushDelete(c) \/ ReadSend(c) \/ RouteSkip(c)
             \/ Route(c) \/ Enqueue(c) \/ Close(c) \/ Hangup(c)
             \/ \E u \in Users : Register(c, u) \/ Login(c, u)
      PROVE  \A d \in Conns : Shrunk(d)
  <2>1. UNCHANGED <<chan, got>>
    BY <1>2 DEF Accept, Publish, Pull, FlushFetch, FlushJunk, FlushStop, FlushDelete,
       ReadSend, RouteSkip, Route, Enqueue, Close, Hangup, Register, Login
  <2> QED
    BY <1>1, <2>1
<1>3. ASSUME NEW c \in Conns, Greet(c) \/ Answer(c) \/ RouteDone(c)
      PROVE  \A d \in Conns : Shrunk(d)
  BY <1>0, <1>3, TrySendShrinks DEF Greet, Answer, RouteDone
<1>4. ASSUME NEW c \in Conns, Push(c)
      PROVE  (\A d \in Conns : Shrunk(d)) \/ PushGains(c)
  <2>1. pc[c] = "push" /\ target[c] \in Conns /\ msg[c] \in Frames /\ got' = got
    BY <1>4 DEF Push, TypeInv, SendLocals
  <2>2. CASE HasRoom(target[c])
    <3>1. chan' = [chan EXCEPT ![target[c]] = Append(chan[target[c]], msg[c])]
      BY <1>4, <2>2 DEF Push, TrySend
    <3>2. chan'[target[c]] = Append(chan[target[c]], msg[c])
          /\ \A d \in Conns \ {target[c]} : chan'[d] = chan[d]
      BY <1>0, <2>1, <3>1
    <3> QED
      BY <1>4, <2>1, <2>2, <3>2 DEF PushGains, Gains, Shrunk
  <2>3. CASE ~HasRoom(target[c])
    <3>1. chan' = chan
      BY <1>4, <2>3 DEF Push, TrySend
    <3> QED
      BY <1>1, <2>1, <3>1
  <2> QED
    BY <2>2, <2>3
<1>5. ASSUME NEW c \in Conns, FlushSend(c) PROVE FlushGains(c)
  <2>1. PICK r \in rows[c] : /\ Oldest(r, rows[c]) /\ r.frame # Junk /\ Handed(c, r)
                             /\ chan' = [chan EXCEPT ![c] = Append(chan[c], r.frame)]
    BY <1>5 DEF FlushSend
  <2>2. pc[c] = "flush" /\ got' = got
    BY <1>5 DEF FlushSend
  <2>3. r.frame \in Frames
    BY <1>0, <2>1 DEF TypeOK, Rows
  <2>4. chan'[c] = Append(chan[c], r.frame) /\ \A d \in Conns \ {c} : chan'[d] = chan[d]
    BY <1>0, <2>1
  <2> QED
    BY <1>5, <2>1, <2>2, <2>3, <2>4 DEF FlushGains, Gains, Shrunk
<1>6. ASSUME NEW c \in Conns, Write(c) PROVE \A d \in Conns : Shrunk(d)
  <2>1. chan[c] # <<>> /\ chan'[c] = Tail(chan[c]) /\ \A d \in Conns \ {c} : chan'[d] = chan[d]
    BY <1>0, <1>6 DEF Write
  <2>2. \A d \in Conns \ {c} : got'[d] = got[d]
    BY <1>0, <1>6 DEF Write
  <2>3. \/ Head(chan[c]) = Reply /\ got'[c] = got[c]
        \/ Head(chan[c]) \in Frames /\ got'[c] = Append(got[c], Head(chan[c]))
    <3>1. Head(chan[c]) \in Frames \cup {Reply}
      BY <1>0, <2>1
    <3>2. CASE Head(chan[c]) = Reply
      BY <1>6, <3>2 DEF Write
    <3>3. CASE Head(chan[c]) # Reply
      BY <1>0, <1>6, <3>1, <3>3 DEF Write
    <3> QED
      BY <3>2, <3>3
  <2> QED
    BY <2>1, <2>2, <2>3 DEF Shrunk
<1>7. ASSUME NEW c \in Conns, WriterFail(c) PROVE \A d \in Conns : Shrunk(d)
  BY <1>0, <1>7 DEF WriterFail, Shrunk
<1>8. CASE Down
  BY <1>8 DEF Down, Shrunk
<1>9. CASE Maintenance
  BY <1>9 DEF Maintenance, Shrunk
<1>10. CASE Start \/ Tick \/ Prune \/ UNCHANGED vars
  BY <1>1, <1>10 DEF Start, Tick, Prune, vars
<1> QED
  BY <1>2, <1>3, <1>4, <1>5, <1>6, <1>7, <1>8, <1>9, <1>10
     DEF Next, Request, Handler, Writer, MaintenanceExit, Crash

LEMMA ShrunkStream ==
    ASSUME TypeOK, NEW c \in Conns, Shrunk(c), NEW Q, NEW u,
           FineOn(Q, u, got[c], chan[c])
    PROVE  /\ StreamFrames(c)' \subseteq StreamFrames(c)
           /\ FineOn(Q, u, got'[c], chan'[c])
<1>0. chan[c] \in Seq(Frames \cup {Reply}) /\ got[c] \in Seq(Frames)
  BY DEF TypeOK
<1>1. CASE UNCHANGED <<got[c], chan[c]>>
  BY <1>1 DEF StreamFrames
<1>2. CASE got'[c] = got[c] /\ chan'[c] = Append(chan[c], Reply)
  <2>1. FramesIn(chan'[c]) = FramesIn(chan[c])
    <3>1. Reply \in Frames \cup {Reply}
      OBVIOUS
    <3>2. FramesIn(Append(chan[c], Reply)) = FramesIn(chan[c]) \cup ({Reply} \ {Reply})
      BY <1>0, <3>1, FramesAppend
    <3> QED
      BY <1>2, <3>2
  <2>2. \A i : \A s : Fine(Q, u, s[i], Reply)
    BY DEF Fine
  <2>3. FineOn(Q, u, got[c], Append(chan[c], Reply))
    BY <1>0, <2>2, FineGain, got[c] \in Seq(Frames \cup {Reply}), Reply \in Frames \cup {Reply}
  <2> QED
    BY <1>2, <2>1, <2>3 DEF StreamFrames
<1>3. CASE /\ chan[c] # <<>> /\ chan'[c] = Tail(chan[c])
           /\ \/ Head(chan[c]) = Reply /\ got'[c] = got[c]
              \/ Head(chan[c]) \in Frames /\ got'[c] = Append(got[c], Head(chan[c]))
  <2>1. FramesIn(chan[c]) = FramesIn(chan'[c]) \cup ({Head(chan[c])} \ {Reply})
    BY <1>0, <1>3, FramesHeadTail
  <2>2. got[c] \in Seq(Frames \cup {Reply})
    BY <1>0
  <2>3. FineOn(Q, u, got[c], Tail(chan[c])) /\ FineOn(Q, u, Append(got[c], Head(chan[c])), Tail(chan[c]))
    BY <1>0, <1>3, <2>2, FineTail
  <2>4. CASE got'[c] = got[c]
    BY <1>3, <2>1, <2>3, <2>4 DEF StreamFrames
  <2>5. CASE Head(chan[c]) \in Frames /\ got'[c] = Append(got[c], Head(chan[c]))
    <3>1. FramesIn(got'[c]) = FramesIn(got[c]) \cup ({Head(chan[c])} \ {Reply})
      BY <1>0, <2>5, FramesAppend
    <3> QED
      BY <1>3, <2>1, <2>3, <2>5, <3>1 DEF StreamFrames
  <2> QED
    BY <1>3, <2>4, <2>5
<1>4. CASE got'[c] = got[c] /\ chan'[c] = <<>>
  BY <1>4, FineEmpty DEF StreamFrames, FramesIn
<1> QED
  BY <1>1, <1>2, <1>3, <1>4 DEF Shrunk


\* A frame is taken for a recipient, by a push or by an insertion; or no step of
\* this kind happens.
Takes(c) ==
    /\ pc[c] \in {"push", "enqueue"}
    /\ accepted' = accepted \cup {<<msg[c], Head(rest[c])>>}
    /\ pc' = [pc EXCEPT ![c] = "route"] /\ rest' = [rest EXCEPT ![c] = Tail(@)]
    /\ UNCHANGED <<msg, seen, nsent, authed, rows, handed>>

Pushes(c) == queued' = queued /\ PushGains(c) /\ UNCHANGED <<outbox, nextId>>

Queues(c) ==
    /\ \A d \in Conns : Shrunk(d)
    /\ queued' = queued \cup {<<msg[c], Head(rest[c])>>}
    /\ outbox' = outbox \cup {[id |-> nextId, rcpt |-> Head(rest[c]),
                               frame |-> msg[c], ts |-> msg[c].ts]}
    /\ nextId' = nextId + 1

LEMMA TakeSteps ==
    ASSUME TypeInv, [Next]_vars
    PROVE  \/ UNCHANGED <<accepted, queued>>
           \/ \E c \in Conns : Takes(c) /\ (Queues(c) \/ Pushes(c))
<1>1. ASSUME NEW c \in Conns,
             \/ Accept(c) \/ Publish(c) \/ Greet(c) \/ Answer(c) \/ Pull(c) \/ FlushFetch(c)
             \/ FlushSend(c) \/ FlushJunk(c) \/ FlushStop(c) \/ FlushDelete(c) \/ ReadSend(c)
             \/ RouteSkip(c) \/ Route(c) \/ RouteDone(c) \/ Close(c) \/ Hangup(c)
             \/ Write(c) \/ WriterFail(c)
             \/ \E u \in Users : Register(c, u) \/ Login(c, u)
      PROVE  UNCHANGED <<accepted, queued>>
  BY <1>1 DEF Accept, Publish, Greet, Answer, Pull, FlushFetch, FlushSend, FlushJunk,
     FlushStop, FlushDelete, ReadSend, RouteSkip, Route, RouteDone, Close, Hangup, Write,
     WriterFail, Register, Login
<1>2. CASE Down \/ Maintenance \/ Start \/ Tick \/ Prune \/ UNCHANGED vars
  BY <1>2 DEF Down, Maintenance, Start, Tick, Prune, vars
<1>3. ASSUME NEW c \in Conns, Push(c)
      PROVE  \/ UNCHANGED <<accepted, queued>>
             \/ Takes(c) /\ Pushes(c)
  <2>1. CASE HasRoom(target[c])
    <3>1. Takes(c) /\ UNCHANGED <<queued, outbox, nextId>>
      BY <1>3, <2>1 DEF Push, Takes, Goto
    <3>2. PushGains(c)
      <4>1. pc[c] = "push" /\ target[c] \in Conns /\ msg[c] \in Frames /\ got' = got
        BY <1>3 DEF Push, TypeInv, SendLocals
      <4>2. chan' = [chan EXCEPT ![target[c]] = Append(chan[target[c]], msg[c])]
        BY <1>3, <2>1 DEF Push, TrySend
      <4>3. chan'[target[c]] = Append(chan[target[c]], msg[c])
            /\ \A d \in Conns \ {target[c]} : chan'[d] = chan[d]
        BY <4>1, <4>2 DEF TypeInv, TypeOK
      <4> QED
        BY <1>3, <2>1, <4>1, <4>3 DEF PushGains, Gains, Shrunk
    <3> QED
      BY <3>1, <3>2 DEF Pushes
  <2>2. CASE ~HasRoom(target[c])
    BY <1>3, <2>2 DEF Push
  <2> QED
    BY <2>1, <2>2
<1>4. ASSUME NEW c \in Conns, Enqueue(c)
      PROVE  \/ UNCHANGED <<accepted, queued>>
             \/ Takes(c) /\ Queues(c)
  <2>1. \A d \in Conns : Shrunk(d)
    BY <1>4 DEF Enqueue, Shrunk
  <2>2. CASE UnderCap(Head(rest[c]), msg[c].size)
    BY <1>4, <2>1, <2>2 DEF Enqueue, Takes, Queues, Goto
  <2>3. CASE ~UnderCap(Head(rest[c]), msg[c].size)
    BY <1>4, <2>3 DEF Enqueue
  <2> QED
    BY <2>2, <2>3
<1> QED
  BY <1>1, <1>2, <1>3, <1>4
     DEF Next, Request, Handler, Writer, MaintenanceExit, Crash

\* A connection is given an identity once.
LEMMA AuthedSteps ==
    ASSUME TypeInv, [Next]_vars, NEW d \in Conns
    PROVE  \/ authed'[d] = authed[d]
           \/ /\ authed[d] = NoUser /\ pc[d] = "read" /\ pc'[d] = "publish"
              /\ UNCHANGED <<got, chan>>
<1>1. ASSUME NEW c \in Conns, NEW u \in Users, Register(c, u) \/ Login(c, u)
      PROVE  \/ authed'[d] = authed[d]
             \/ /\ authed[d] = NoUser /\ pc[d] = "read" /\ pc'[d] = "publish"
                /\ UNCHANGED <<got, chan>>
  BY <1>1 DEF Register, Login, Goto, TypeInv, TypeOK
<1>2. ASSUME NEW c \in Conns,
             \/ Accept(c) \/ Publish(c) \/ Greet(c) \/ Answer(c) \/ Pull(c) \/ FlushFetch(c)
             \/ FlushSend(c) \/ FlushJunk(c) \/ FlushStop(c) \/ FlushDelete(c) \/ ReadSend(c)
             \/ RouteSkip(c) \/ Route(c) \/ Push(c) \/ Enqueue(c) \/ RouteDone(c) \/ Close(c)
             \/ Hangup(c) \/ Write(c) \/ WriterFail(c)
      PROVE  UNCHANGED authed
  BY <1>2 DEF Accept, Publish, Greet, Answer, Pull, FlushFetch, FlushSend, FlushJunk,
     FlushStop, FlushDelete, ReadSend, RouteSkip, Route, Push, Enqueue, RouteDone, Close,
     Hangup, Write, WriterFail
<1>3. CASE Down \/ Maintenance \/ Start \/ Tick \/ Prune \/ UNCHANGED vars
  BY <1>3 DEF Down, Maintenance, Start, Tick, Prune, vars
<1> QED
  BY <1>1, <1>2, <1>3 DEF Next, Request, Handler, Writer, MaintenanceExit, Crash

\* What a step does to the rows: some go, a flush reads the queued ones, or one
\* is queued.
LEMMA RowSteps ==
    ASSUME TypeInv, [Next]_vars
    PROVE  \/ /\ outbox' \subseteq outbox /\ nextId' = nextId
              /\ \A d \in Conns : rows'[d] \subseteq rows[d] \cup outbox
           \/ \E c \in Conns : Takes(c) /\ Queues(c)
<1>t. rows \in [Conns -> SUBSET Rows]
  BY DEF TypeInv, TypeOK
<1>1. ASSUME NEW c \in Conns,
             \/ Accept(c) \/ Publish(c) \/ Greet(c) \/ Answer(c) \/ Pull(c) \/ ReadSend(c)
             \/ RouteSkip(c) \/ Route(c) \/ Push(c) \/ RouteDone(c) \/ Close(c) \/ Hangup(c)
             \/ Write(c) \/ WriterFail(c)
             \/ \E u \in Users : Register(c, u) \/ Login(c, u)
      PROVE  UNCHANGED <<outbox, nextId, rows>>
  BY <1>1 DEF Accept, Publish, Greet, Answer, Pull, ReadSend, RouteSkip, Route, Push,
     RouteDone, Close, Hangup, Write, WriterFail, Register, Login
<1>2. ASSUME NEW c \in Conns,
             FlushFetch(c) \/ FlushSend(c) \/ FlushJunk(c) \/ FlushStop(c) \/ FlushDelete(c)
      PROVE  /\ outbox' \subseteq outbox /\ nextId' = nextId
             /\ \A d \in Conns : rows'[d] \subseteq rows[d] \cup outbox
  <2>1. CASE FlushFetch(c)
    BY <1>t, <2>1 DEF FlushFetch, RowsOf
  <2>2. CASE FlushSend(c) \/ FlushJunk(c)
    BY <1>t, <2>2 DEF FlushSend, FlushJunk, Handed
  <2>3. CASE FlushStop(c)
    BY <1>t, <2>3 DEF FlushStop
  <2>4. CASE FlushDelete(c)
    BY <2>4 DEF FlushDelete
  <2> QED
    BY <1>2, <2>1, <2>2, <2>3, <2>4
<1>3. ASSUME NEW c \in Conns, Enqueue(c)
      PROVE  UNCHANGED <<outbox, nextId, rows>> \/ (Takes(c) /\ Queues(c))
  <2>1. \A d \in Conns : Shrunk(d)
    BY <1>3 DEF Enqueue, Shrunk
  <2>2. CASE UnderCap(Head(rest[c]), msg[c].size)
    BY <1>3, <2>1, <2>2 DEF Enqueue, Takes, Queues, Goto
  <2>3. CASE ~UnderCap(Head(rest[c]), msg[c].size)
    BY <1>3, <2>3 DEF Enqueue
  <2> QED
    BY <2>2, <2>3
<1>4. ASSUME Down \/ Maintenance \/ Start \/ Tick \/ Prune \/ UNCHANGED vars
      PROVE  /\ outbox' \subseteq outbox /\ nextId' = nextId
             /\ \A d \in Conns : rows'[d] \subseteq rows[d] \cup outbox
  BY <1>4 DEF Down, Maintenance, Start, Tick, Prune, vars
<1> QED
  BY <1>1, <1>2, <1>3, <1>4 DEF Next, Request, Handler, Writer, MaintenanceExit, Crash

\* What a step does to the flush of connection d.
LEMMA FlushSteps ==
    ASSUME TypeInv, [Next]_vars, NEW d \in Conns
    PROVE  \/ UNCHANGED <<rows[d], handed[d]>> /\ (pc'[d] = "flush" => pc[d] = "flush")
           \/ FlushFetch(d) \/ FlushSend(d) \/ FlushJunk(d)
           \/ FlushStop(d) \/ FlushDelete(d)
           \/ /\ rows'[d] = {} /\ handed'[d] = {} /\ outbox' = outbox
              /\ (pc'[d] = "closed" \/ (pc[d] = "idle" /\ pc'[d] = "idle"))
<1>t. /\ rows \in [Conns -> SUBSET Rows] /\ handed \in [Conns -> SUBSET Nat]
      /\ pc \in [Conns -> Labels]
  BY DEF TypeInv, TypeOK
<1>1. ASSUME NEW c \in Conns,
             \/ Accept(c) \/ Publish(c) \/ Greet(c) \/ Answer(c) \/ Pull(c) \/ ReadSend(c)
             \/ RouteSkip(c) \/ Route(c) \/ Push(c) \/ Enqueue(c) \/ RouteDone(c) \/ Close(c)
             \/ Hangup(c) \/ Write(c) \/ WriterFail(c)
             \/ \E u \in Users : Register(c, u) \/ Login(c, u)
      PROVE  UNCHANGED <<rows[d], handed[d]>> /\ (pc'[d] = "flush" => pc[d] = "flush")
  <2>1. UNCHANGED <<rows, handed>>
    BY <1>1 DEF Accept, Publish, Greet, Answer, Pull, ReadSend, RouteSkip, Route, Push,
       Enqueue, RouteDone, Close, Hangup, Write, WriterFail, Register, Login
  <2>2. pc' = pc \/ \E l \in Labels \ {"flush"} : Goto(c, l)
    BY <1>1 DEF Accept, Publish, Greet, Answer, Pull, ReadSend, RouteSkip, Route, Push,
       Enqueue, RouteDone, Close, Hangup, Write, WriterFail, Register, Login, Labels
  <2> QED
    BY <1>t, <2>1, <2>2 DEF Goto
<1>2. ASSUME NEW c \in Conns \ {d},
             FlushFetch(c) \/ FlushSend(c) \/ FlushJunk(c) \/ FlushStop(c) \/ FlushDelete(c)
      PROVE  UNCHANGED <<rows[d], handed[d]>> /\ (pc'[d] = "flush" => pc[d] = "flush")
  BY <1>t, <1>2 DEF FlushFetch, FlushSend, FlushJunk, FlushStop, FlushDelete, Handed, Goto
<1>3. CASE Maintenance \/ Start \/ Tick \/ Prune \/ UNCHANGED vars
  BY <1>3 DEF Maintenance, Start, Tick, Prune, vars
<1>4. CASE Down
  BY <1>4 DEF Down
<1> QED
  BY <1>1, <1>2, <1>3, <1>4 DEF Next, Request, Handler, Writer, MaintenanceExit, Crash

\* The end of a connection is final.
LEMMA EndSteps ==
    ASSUME TypeInv, [Next]_vars, NEW d \in Conns, pc[d] \in {"drain", "closed"}
    PROVE  pc'[d] \in {"drain", "closed"}
<1>t. pc \in [Conns -> Labels]
  BY DEF TypeInv, TypeOK
<1>1. ASSUME NEW c \in Conns,
             \/ Accept(c) \/ Publish(c) \/ Greet(c) \/ Pull(c) \/ FlushFetch(c)
             \/ FlushStop(c) \/ FlushDelete(c) \/ ReadSend(c) \/ Route(c) \/ Push(c)
             \/ Enqueue(c) \/ RouteDone(c) \/ Hangup(c)
             \/ \E u \in Users : Register(c, u) \/ Login(c, u)
      PROVE  pc'[d] = pc[d]
  <2>1. pc[c] \notin {"drain", "closed"} /\ \E l : Goto(c, l)
    BY <1>1 DEF Accept, Publish, Greet, Pull, FlushFetch, FlushStop, FlushDelete, ReadSend,
       Route, Push, Enqueue, RouteDone, Hangup, Register, Login
  <2> QED
    BY <1>t, <2>1 DEF Goto
<1>2. ASSUME NEW c \in Conns, Close(c) PROVE pc'[d] \in {"drain", "closed"}
  BY <1>t, <1>2 DEF Close, Goto
<1>3. ASSUME NEW c \in Conns,
             \/ Answer(c) \/ FlushSend(c) \/ FlushJunk(c) \/ RouteSkip(c) \/ Write(c)
             \/ WriterFail(c)
      PROVE  pc' = pc
  BY <1>3 DEF Answer, FlushSend, FlushJunk, RouteSkip, Write, WriterFail
<1>4. CASE Maintenance \/ Start \/ Tick \/ Prune \/ UNCHANGED vars
  BY <1>4 DEF Maintenance, Start, Tick, Prune, vars
<1>5. CASE Down
  BY <1>5 DEF Down
<1> QED
  BY <1>1, <1>2, <1>3, <1>4, <1>5 DEF Next, Request, Handler, Writer, MaintenanceExit, Crash

\* A frame that is taken is its sender's current one.
LEMMA TakenTypes ==
    ASSUME TypeInv, NEW c \in Conns, pc[c] \in {"push", "enqueue"}
    PROVE  /\ msg[c] \in Frames /\ Head(rest[c]) \in Users /\ rest[c] # <<>>
           /\ \A p \in accepted : p = <<p[1], p[2]>> /\ p[1] \in Frames /\ p[2] \in Users
           /\ nsent \in Nat
BY DEF TypeInv, TypeOK, SendLocals

LEMMA QueuedNext ==
    ASSUME TypeInv, RoutingInv, QueuedInv, [Next]_vars
    PROVE  QueuedInv' /\ accepted \subseteq accepted' /\ queued \subseteq queued'
           /\ \A p \in accepted : p \in queued' => p \in queued
<1>0. nsent' \in Nat /\ nsent \in Nat /\ nsent <= nsent' /\ \A p \in accepted : p[1].seq \in Nat
  <2>0. nsent \in Nat /\ \A p \in accepted : p[1].seq \in Nat
    BY DEF TypeInv, TypeOK, Frames
  <2>1. ASSUME NEW c \in Conns, ReadSend(c) PROVE nsent' = nsent + 1
    BY <2>1 DEF ReadSend
  <2>2. ASSUME NEW c \in Conns,
               \/ Accept(c) \/ Publish(c) \/ Greet(c) \/ Answer(c) \/ Pull(c)
               \/ FlushFetch(c) \/ FlushSend(c) \/ FlushJunk(c) \/ FlushStop(c)
               \/ FlushDelete(c) \/ RouteSkip(c) \/ Route(c) \/ Push(c) \/ Enqueue(c)
               \/ RouteDone(c) \/ Close(c) \/ Hangup(c) \/ Write(c) \/ WriterFail(c)
               \/ \E u \in Users : Register(c, u) \/ Login(c, u)
        PROVE  nsent' = nsent
    BY <2>2 DEF Accept, Publish, Greet, Answer, Pull, FlushFetch, FlushSend, FlushJunk,
       FlushStop, FlushDelete, RouteSkip, Route, Push, Enqueue, RouteDone, Close, Hangup,
       Write, WriterFail, Register, Login
  <2>3. ASSUME Down \/ Maintenance \/ Start \/ Tick \/ Prune \/ UNCHANGED vars
        PROVE  nsent' = nsent
    BY <2>3 DEF Down, Maintenance, Start, Tick, Prune, vars
  <2>4. nsent' = nsent \/ nsent' = nsent + 1
    BY <2>1, <2>2, <2>3 DEF Next, Request, Handler, Writer, MaintenanceExit, Crash
  <2> QED
    BY <2>0, <2>4
<1>1. CASE UNCHANGED <<accepted, queued>>
  BY <1>0, <1>1 DEF QueuedInv
<1>2. ASSUME NEW c \in Conns, Takes(c),
             queued' = queued \/ queued' = queued \cup {<<msg[c], Head(rest[c])>>}
      PROVE  QueuedInv' /\ accepted \subseteq accepted' /\ queued \subseteq queued'
             /\ \A p \in accepted : p \in queued' => p \in queued
  <2>1. /\ msg[c].seq <= nsent /\ <<msg[c], Head(rest[c])>> \notin accepted
        /\ accepted' = accepted \cup {<<msg[c], Head(rest[c])>>} /\ nsent' = nsent
    BY <1>2 DEF RoutingInv, Takes
  <2> QED
    BY <1>2, <2>1 DEF QueuedInv
<1> QED
  BY <1>1, <1>2, TakeSteps DEF Pushes, Queues

\* A connection whose Send goes on where it was, while others may take frames.
LEMMA RoutingOther ==
    ASSUME TypeInv, RoutingInv, NEW d \in Conns,
           pc'[d] \in {"route", "push", "enqueue"}, pc'[d] = pc[d],
           UNCHANGED <<msg[d], rest[d], seen[d]>>, nsent' = nsent,
           \/ accepted' = accepted
           \/ \E c \in Conns \ {d} : Takes(c)
    PROVE  /\ msg'[d].by = d /\ msg'[d].seq <= nsent'
           /\ \A p \in accepted' : p[1].by = d => p[1].seq <= msg'[d].seq
           /\ \A u \in Users \ seen'[d] : <<msg'[d], u>> \notin accepted'
           /\ pc'[d] \in {"push", "enqueue"} =>
                Head(rest'[d]) \in seen'[d] /\ <<msg'[d], Head(rest'[d])>> \notin accepted'
<1>1. CASE accepted' = accepted
  BY <1>1 DEF RoutingInv
<1>2. ASSUME NEW c \in Conns \ {d}, Takes(c)
      PROVE  \A p \in accepted' : p[1].by = d => p \in accepted
  <2>1. msg[c].by = c /\ accepted' = accepted \cup {<<msg[c], Head(rest[c])>>}
    BY <1>2 DEF RoutingInv, Takes
  <2> QED
    BY <2>1
<1>3. CASE \E c \in Conns \ {d} : Takes(c)
  <2>1. \A p \in accepted' : p[1].by = d => p \in accepted
    BY <1>2, <1>3
  <2>2. msg[d].by = d
    BY DEF RoutingInv
  <2>3. \A u : <<msg[d], u>> \in accepted' => <<msg[d], u>> \in accepted
    BY <2>1, <2>2
  <2> QED
    BY <2>1, <2>3 DEF RoutingInv
<1> QED
  BY <1>1, <1>3

LEMMA RoutingNext ==
    ASSUME TypeInv, RoutingInv, QueuedInv, [Next]_vars
    PROVE  RoutingInv'
<1>0. \A c \in Conns : msg[c] \in Frames \cup {Reply} /\ rest[c] \in Seq(Users) /\ seen[c] \subseteq Users
  BY DEF TypeInv, TypeOK
<1>t. /\ pc \in [Conns -> Labels] /\ seen \in [Conns -> SUBSET Users] /\ nsent \in Nat
      /\ msg \in [Conns -> Frames \cup {Reply}] /\ rest \in [Conns -> Seq(Users)]
      /\ \A p \in accepted : p[1].seq \in Nat /\ p[1].seq <= nsent
  BY DEF TypeInv, TypeOK, QueuedInv, Frames
\* Nobody's Send moves.
<1>1. ASSUME UNCHANGED <<accepted, nsent>>,
             \A d \in Conns : pc'[d] \in {"route", "push", "enqueue"} =>
                pc'[d] = pc[d] /\ UNCHANGED <<msg[d], rest[d], seen[d]>>
      PROVE  RoutingInv'
  BY <1>1, RoutingOther DEF RoutingInv
<1>2. ASSUME NEW c \in Conns,
             \/ Accept(c) \/ Publish(c) \/ Greet(c) \/ Pull(c) \/ FlushFetch(c)
             \/ FlushStop(c) \/ FlushDelete(c) \/ RouteDone(c) \/ Close(c) \/ Hangup(c)
             \/ \E u \in Users : Register(c, u) \/ Login(c, u)
      PROVE  RoutingInv'
  <2>1. /\ UNCHANGED <<accepted, nsent, rest>>
        /\ \A d \in Conns \ {c} : UNCHANGED <<msg[d], seen[d]>>
    BY <1>t, <1>2 DEF Accept, Publish, Greet, Pull, FlushFetch, FlushStop, FlushDelete,
       RouteDone, Close, Hangup, Register, Login
  <2>2. \E l \in Labels \ {"route", "push", "enqueue"} : Goto(c, l)
    BY <1>2 DEF Accept, Publish, Greet, Pull, FlushFetch, FlushStop, FlushDelete, RouteDone,
       Close, Hangup, Register, Login, Labels
  <2>3. pc'[c] \notin {"route", "push", "enqueue"} /\ \A d \in Conns \ {c} : pc'[d] = pc[d]
    BY <1>t, <2>2 DEF Goto
  <2> QED
    BY <1>1, <2>1, <2>3
<1>3. ASSUME NEW c \in Conns,
             Answer(c) \/ FlushSend(c) \/ FlushJunk(c) \/ Write(c) \/ WriterFail(c)
      PROVE  RoutingInv'
  BY <1>1, <1>3 DEF Answer, FlushSend, FlushJunk, Write, WriterFail
<1>4. CASE Maintenance \/ Start \/ Tick \/ Prune \/ UNCHANGED vars
  BY <1>1, <1>4 DEF Maintenance, Start, Tick, Prune, vars
<1>5. CASE Down
  <2>1. UNCHANGED <<accepted, nsent>> /\ \A d \in Conns : pc'[d] \in {"idle", "closed"}
    BY <1>5 DEF Down
  <2> QED
    BY <1>1, <2>1
\* The new frame is newer than all that were taken.
<1>6. ASSUME NEW c \in Conns, ReadSend(c) PROVE RoutingInv'
  <2>1. /\ UNCHANGED <<accepted, seen>> /\ nsent' = nsent + 1 /\ pc'[c] = "route"
        /\ msg'[c].by = c /\ msg'[c].seq = nsent + 1
        /\ \A d \in Conns \ {c} : UNCHANGED <<pc[d], msg[d], rest[d], seen[d]>>
    BY <1>t, <1>6 DEF ReadSend, Goto
  <2>2. \A p \in accepted : p[1] # msg'[c] /\ p[1].seq <= msg'[c].seq
    BY <1>t, <2>1
  <2>3. \A u : <<msg'[c], u>> \notin accepted
    BY <2>2
  <2>4. \A d \in Conns : pc[d] \in {"route", "push", "enqueue"} => msg[d].seq \in Nat
    BY DEF TypeInv, SendLocals, Frames
  <2>5. ASSUME NEW d \in Conns \ {c}, pc[d] \in {"route", "push", "enqueue"}
        PROVE  msg[d].seq <= nsent + 1
    <3>1. msg[d].seq <= nsent
      BY <2>5 DEF RoutingInv
    <3> QED
      BY <1>t, <2>4, <2>5, <3>1
  <2>6. ASSUME NEW d \in Conns \ {c}, pc'[d] \in {"route", "push", "enqueue"}
        PROVE  /\ msg'[d].by = d /\ msg'[d].seq <= nsent'
               /\ \A p \in accepted' : p[1].by = d => p[1].seq <= msg'[d].seq
               /\ \A u \in Users \ seen'[d] : <<msg'[d], u>> \notin accepted'
               /\ pc'[d] \in {"push", "enqueue"} =>
                    Head(rest'[d]) \in seen'[d] /\ <<msg'[d], Head(rest'[d])>> \notin accepted'
    BY <2>1, <2>5, <2>6 DEF RoutingInv
  <2>7. msg'[c].seq <= nsent' /\ \A u \in Users \ seen'[c] : <<msg'[c], u>> \notin accepted'
    BY <1>t, <2>1, <2>3
  <2> QED
    BY <2>1, <2>2, <2>6, <2>7 DEF RoutingInv
<1>7. ASSUME NEW c \in Conns, RouteSkip(c) PROVE RoutingInv'
  <2>1. /\ UNCHANGED <<accepted, nsent, msg, pc>> /\ pc[c] = "route"
        /\ seen[c] \subseteq seen'[c]
        /\ \A d \in Conns \ {c} : UNCHANGED <<rest[d], seen[d]>>
    BY <1>t, <1>7 DEF RouteSkip
  <2> QED
    BY <2>1 DEF RoutingInv
<1>8. ASSUME NEW c \in Conns, Route(c) PROVE RoutingInv'
  <2>1. /\ UNCHANGED <<accepted, nsent, msg, rest>> /\ pc[c] = "route"
        /\ Head(rest[c]) \in Users \ seen[c] /\ seen'[c] = seen[c] \cup {Head(rest[c])}
        /\ \A d \in Conns \ {c} : UNCHANGED <<pc[d], seen[d]>>
    BY <1>t, <1>8 DEF Route, Skipped, Goto
  <2> QED
    BY <2>1 DEF RoutingInv
<1>9. ASSUME NEW c \in Conns, Takes(c) PROVE RoutingInv'
  <2>1. /\ accepted' = accepted \cup {<<msg[c], Head(rest[c])>>} /\ pc'[c] = "route"
        /\ UNCHANGED <<msg, seen, nsent>>
        /\ \A d \in Conns \ {c} : UNCHANGED <<pc[d], rest[d]>>
    BY <1>t, <1>9 DEF Takes
  <2>2. pc[c] \in {"push", "enqueue"} /\ Head(rest[c]) \in seen[c] /\ msg[c].by = c
        /\ msg[c].seq <= nsent /\ msg[c].seq \in Nat
    BY <1>9 DEF Takes, RoutingInv, TypeInv, SendLocals, Frames
  <2>3. /\ \A p \in accepted' : p[1].by = c => p[1].seq <= msg[c].seq
        /\ \A u \in Users \ seen[c] : <<msg[c], u>> \notin accepted'
    <3>1. \A p \in accepted : p[1].by = c => p[1].seq <= msg[c].seq
      BY <2>2 DEF RoutingInv
    <3>2. \A u \in Users \ seen[c] : <<msg[c], u>> \notin accepted
      BY <2>2 DEF RoutingInv
    <3> QED
      BY <2>1, <2>2, <3>1, <3>2
  <2>4. ASSUME NEW d \in Conns \ {c}, pc'[d] \in {"route", "push", "enqueue"}
        PROVE  /\ msg'[d].by = d /\ msg'[d].seq <= nsent'
               /\ \A p \in accepted' : p[1].by = d => p[1].seq <= msg'[d].seq
               /\ \A u \in Users \ seen'[d] : <<msg'[d], u>> \notin accepted'
               /\ pc'[d] \in {"push", "enqueue"} =>
                    Head(rest'[d]) \in seen'[d] /\ <<msg'[d], Head(rest'[d])>> \notin accepted'
    BY <1>9, <2>1, <2>4, RoutingOther
  <2> QED
    BY <2>1, <2>2, <2>3, <2>4 DEF RoutingInv
\* The push fails, or the queue is full: nothing is taken.
<1>10. ASSUME NEW c \in Conns, Push(c) \/ Enqueue(c), UNCHANGED <<accepted, queued>>
       PROVE  RoutingInv'
  <2>1. /\ <<msg[c], Head(rest[c])>> \notin accepted /\ pc[c] \in {"push", "enqueue"}
    BY <1>10 DEF Push, Enqueue, RoutingInv
  <2>2. CASE Push(c)
    <3>1. UNCHANGED <<msg, rest, seen, nsent>> /\ pc'[c] = "enqueue"
          /\ \A d \in Conns \ {c} : pc'[d] = pc[d]
      BY <1>t, <1>10, <2>1, <2>2 DEF Push, Goto
    <3> QED
      BY <1>10, <2>1, <3>1 DEF RoutingInv
  <2>3. CASE Enqueue(c)
    <3>1. UNCHANGED <<msg, seen, nsent>> /\ pc'[c] = "route"
          /\ \A d \in Conns \ {c} : UNCHANGED <<pc[d], rest[d]>>
      BY <1>t, <1>10, <2>3 DEF Enqueue, Goto
    <3> QED
      BY <1>10, <2>1, <3>1 DEF RoutingInv
  <2> QED
    BY <1>10, <2>2, <2>3
<1>11. CASE UNCHANGED <<accepted, queued>>
  BY <1>2, <1>3, <1>4, <1>5, <1>6, <1>7, <1>8, <1>10, <1>11
     DEF Next, Request, Handler, Writer, MaintenanceExit, Crash
<1> QED
  BY <1>9, <1>11, TakeSteps

\* A row that is queued now: it is new, and its frame is its sender's newest.
LEMMA RowOrderNext ==
    ASSUME TypeInv, RoutingInv, QueuedInv, RowOrder, [Next]_vars
    PROVE  RowOrder'
<1>0. queued \subseteq queued'
  BY QueuedNext
<1>1. CASE /\ outbox' \subseteq outbox /\ nextId' = nextId
           /\ \A d \in Conns : rows'[d] \subseteq rows[d] \cup outbox
  <2>1. \A r \in AllRows' : r \in AllRows
    BY <1>1 DEF AllRows
  <2> QED
    BY <1>0, <1>1, <2>1 DEF RowOrder
<1>2. ASSUME NEW c \in Conns, Takes(c), Queues(c) PROVE RowOrder'
  <2> DEFINE u == Head(rest[c])
             x == [id |-> nextId, rcpt |-> u, frame |-> msg[c], ts |-> msg[c].ts]
  <2>1. /\ msg[c] \in Frames /\ msg[c].by = c /\ <<msg[c], u>> \notin accepted
        /\ \A p \in accepted : p[1].by = c => p[1].seq <= msg[c].seq
    BY <1>2, TakenTypes DEF Takes, RoutingInv
  <2>2. x.id = nextId /\ x.rcpt = u /\ x.frame = msg[c]
    OBVIOUS
  <2>3. /\ outbox' = outbox \cup {x} /\ nextId' = nextId + 1 /\ <<msg[c], u>> \in queued'
        /\ nextId \in Nat /\ rows' = rows
    BY <1>2 DEF Queues, Takes, TypeInv, TypeOK
  <2> HIDE DEF x, u
  <2>4. \A r \in AllRows' : r \in AllRows \/ r = x
    BY <2>3 DEF AllRows
  <2>5. ASSUME NEW r \in AllRows
        PROVE  /\ r.id \in Nat /\ r.id < nextId
               /\ r.frame # Junk => /\ <<r.frame, r.rcpt>> \in accepted
                                    /\ r.frame \in Frames
    <3>1. r \in Rows
      BY DEF AllRows, TypeInv, TypeOK
    <3> QED
      BY <3>1 DEF Rows, RowOrder, QueuedInv
  <2>6. ASSUME NEW r \in AllRows, r.frame # Junk, r.rcpt = u
        PROVE  /\ r.frame # msg[c]
               /\ r.frame.by = c => r.frame.seq <= msg[c].seq
    <3>1. <<r.frame, u>> \in accepted
      BY <2>5, <2>6
    <3> QED
      BY <2>1, <3>1
  <2>7. \A r \in AllRows' : r.id < nextId' /\ (r.frame # Junk => <<r.frame, r.rcpt>> \in queued')
    <3>1. ASSUME NEW r \in AllRows
          PROVE  r.id < nextId' /\ (r.frame # Junk => <<r.frame, r.rcpt>> \in queued')
      <4>0. r.id \in Nat /\ r.id < nextId
        BY <2>5
      <4>1. r.id < nextId'
        BY <2>3, <4>0
      <4>2. r.frame # Junk => <<r.frame, r.rcpt>> \in queued
        BY DEF RowOrder
      <4> QED
        BY <1>0, <4>1, <4>2
    <3>2. x.id < nextId' /\ <<x.frame, x.rcpt>> \in queued'
      BY <2>2, <2>3
    <3> QED
      BY <2>4, <3>1, <3>2
  <2>8. ASSUME NEW q \in AllRows', NEW r \in AllRows', q.frame # Junk, r.frame # Junk,
               q.rcpt = r.rcpt
        PROVE  /\ q.frame = r.frame => q = r
               /\ q.frame.by = r.frame.by /\ q.frame.seq < r.frame.seq => q.id < r.id
    <3>1. CASE q \in AllRows /\ r \in AllRows
      BY <2>8, <3>1 DEF RowOrder
    <3>2. CASE q \in AllRows /\ r = x
      BY <2>2, <2>5, <2>6, <2>8, <3>2
    <3>3. CASE q = x /\ r \in AllRows
      <4>1. r.frame # msg[c] /\ (r.frame.by = c => r.frame.seq <= msg[c].seq)
        BY <2>2, <2>6, <2>8, <3>3
      <4>2. r.frame.seq \in Nat /\ msg[c].seq \in Nat
        BY <2>1, <2>5, <2>8, <3>3 DEF Frames
      <4> QED
        BY <2>1, <2>2, <3>3, <4>1, <4>2
    <3>4. CASE q = x /\ r = x
      <4>1. msg[c].seq \in Nat
        BY <2>1 DEF Frames
      <4> QED
        BY <2>2, <3>4, <4>1
    <3> QED
      BY <2>4, <3>1, <3>2, <3>3, <3>4
  <2> QED
    BY <2>7, <2>8 DEF RowOrder
<1> QED
  BY <1>1, <1>2, RowSteps

LEMMA RowIds ==
    ASSUME TypeInv, RowOrder, NEW r \in AllRows
    PROVE  r.id \in Nat /\ r.id < nextId /\ r.rcpt \in Users /\ r.frame \in Frames \cup {Junk}
           /\ nextId \in Nat
<1>1. r \in Rows
  BY DEF AllRows, TypeInv, TypeOK
<1> QED
  BY <1>1 DEF Rows, RowOrder, TypeInv, TypeOK

LEMMA FlushOrderNext ==
    ASSUME TypeInv, PresenceInv, FlowInv, RowOrder, FlushOrder, [Next]_vars
    PROVE  FlushOrder'
<1> SUFFICES ASSUME NEW d \in Conns, pc'[d] = "flush", NEW q \in rows'[d], NEW r \in outbox',
                    r.rcpt = authed'[d], r.id < q.id
             PROVE  r \in rows'[d] \/ r.id \in handed'[d]
  BY DEF FlushOrder
<1>t. /\ rows \in [Conns -> SUBSET Rows] /\ handed \in [Conns -> SUBSET Nat]
      /\ pc \in [Conns -> Labels]
  BY DEF TypeInv, TypeOK
<1>1. CASE FlushFetch(d)
  <2>1. rows'[d] = RowsOf(authed[d]) /\ outbox' = outbox /\ authed' = authed
    BY <1>t, <1>1 DEF FlushFetch
  <2> QED
    BY <2>1 DEF RowsOf
<1>2. CASE FlushSend(d) \/ FlushJunk(d)
  <2>1. PICK k \in rows[d] : Handed(d, k)
    BY <1>2 DEF FlushSend, FlushJunk
  <2>2. /\ pc[d] = "flush" /\ UNCHANGED <<outbox, authed>>
        /\ rows'[d] = rows[d] \ {k} /\ handed'[d] = handed[d] \cup {k.id}
    BY <1>t, <1>2, <2>1 DEF FlushSend, FlushJunk, Handed
  <2> QED
    BY <2>2 DEF FlushOrder
<1>3. CASE UNCHANGED <<rows[d], handed[d]>> /\ pc[d] = "flush"
  <2>1. authed'[d] = authed[d]
    BY <1>3, AuthedSteps
  <2>2. CASE r \in outbox
    BY <1>3, <2>1, <2>2 DEF FlushOrder
  <2>3. CASE r \notin outbox
    <3>1. r.id = nextId
      BY <2>3, RowSteps DEF Queues
    <3>2. q \in AllRows
      BY <1>3 DEF AllRows
    <3> QED
      BY <3>1, <3>2, RowIds
  <2> QED
    BY <2>2, <2>3
<1>4. CASE FlushStop(d) \/ FlushDelete(d)
  BY <1>t, <1>4 DEF FlushStop, FlushDelete, Goto
<1> QED
  BY <1>1, <1>2, <1>3, <1>4, FlushSteps

\* What a connection gains from a push or a flush.
LEMMA GainFrames ==
    ASSUME TypeOK, NEW c \in Conns, NEW m, Gains(c, m)
    PROVE  StreamFrames(c)' = StreamFrames(c) \cup {m}
<1>1. chan[c] \in Seq(Frames \cup {Reply}) /\ m \in Frames \cup {Reply} /\ m # Reply
  BY FrameConstants DEF TypeOK, Gains
<1>2. FramesIn(Append(chan[c], m)) = FramesIn(chan[c]) \cup ({m} \ {Reply})
  BY <1>1, FramesAppend
<1>3. chan'[c] = Append(chan[c], m) /\ got'[c] = got[c]
  BY DEF Gains
<1>4. {m} \ {Reply} = {m}
  BY <1>1
<1> QED
  BY <1>2, <1>3, <1>4 DEF StreamFrames

\* Every frame of a stream was there, or was pushed, or was flushed.
LEMMA StreamGains ==
    ASSUME TypeInv, StreamsFine, [Next]_vars, NEW d \in Conns, NEW f \in StreamFrames(d)'
    PROVE  \/ f \in StreamFrames(d)
           \/ \E c \in Conns : PushGains(c) /\ target[c] = d /\ f = msg[c]
           \/ FlushGains(d) /\ \E r \in rows[d] :
                 Oldest(r, rows[d]) /\ r.frame # Junk /\ Handed(d, r) /\ f = r.frame
<1>0. TypeOK
  BY DEF TypeInv
<1>1. CASE Shrunk(d)
  BY <1>0, <1>1, ShrunkStream DEF StreamsFine
<1>2. ASSUME NEW c \in Conns, PushGains(c), ~Shrunk(d)
      PROVE  f \in StreamFrames(d) \/ (target[c] = d /\ f = msg[c])
  <2>1. target[c] = d /\ Gains(d, msg[c])
    BY <1>2 DEF PushGains, Gains
  <2> QED
    BY <1>0, <2>1, GainFrames
<1>3. ASSUME NEW c \in Conns, FlushGains(c), ~Shrunk(d)
      PROVE  f \in StreamFrames(d) \/ \E r \in rows[d] :
                 FlushGains(d) /\ Oldest(r, rows[d]) /\ r.frame # Junk /\ Handed(d, r) /\ f = r.frame
  <2>1. PICK r \in rows[c] : /\ Oldest(r, rows[c]) /\ r.frame # Junk /\ Handed(c, r)
                             /\ Gains(c, r.frame)
    BY <1>3 DEF FlushGains
  <2>2. c = d
    BY <1>3, <2>1 DEF Gains
  <2>3. StreamFrames(d)' = StreamFrames(d) \cup {r.frame}
    BY <1>0, <2>1, <2>2, GainFrames
  <2> QED
    BY <1>3, <2>1, <2>2, <2>3
<1> QED
  BY <1>1, <1>2, <1>3, StreamSteps

\* A connection without an identity was given no frame.
LEMMA NoFramesBefore ==
    ASSUME TypeInv, Addressed, NEW d \in Conns, authed[d] = NoUser
    PROVE  StreamFrames(d) = {}
<1>1. accepted \subseteq Frames \X Users /\ NoUser \notin Users
  BY RelayConstants DEF TypeInv, TypeOK
<1>2. \A f : <<f, NoUser>> \notin accepted
  BY <1>1
<1> QED
  BY <1>2 DEF Addressed

LEMMA AddressedNext ==
    ASSUME TypeInv, PresenceInv, FlowInv, RoutingInv, QueuedInv, RowOrder, Addressed,
           StreamsFine, [Next]_vars
    PROVE  Addressed'
<1> SUFFICES ASSUME NEW d \in Conns, NEW f \in StreamFrames(d)'
             PROVE  <<f, authed'[d]>> \in accepted'
  BY DEF Addressed
<1>0. accepted \subseteq accepted'
  BY QueuedNext
<1>1. CASE authed'[d] # authed[d]
  <2>1. authed[d] = NoUser /\ UNCHANGED <<got, chan>>
    BY <1>1, AuthedSteps
  <2>2. StreamFrames(d)' = StreamFrames(d)
    BY <2>1 DEF StreamFrames
  <2> QED
    BY <2>1, <2>2, NoFramesBefore
<1>2. CASE authed'[d] = authed[d] /\ f \in StreamFrames(d)
  BY <1>0, <1>2 DEF Addressed
<1>3. ASSUME NEW c \in Conns, PushGains(c), target[c] = d, f = msg[c], authed'[d] = authed[d]
      PROVE  <<f, authed'[d]>> \in accepted'
  <2>1. authed[d] = Head(rest[c])
    BY <1>3 DEF PushGains, FlowInv, TargetOwn
  <2>2. <<msg[c], Head(rest[c])>> \in accepted'
    BY <1>3 DEF PushGains, Push
  <2> QED
    BY <1>3, <2>1, <2>2
<1>4. ASSUME NEW r \in rows[d], r.frame # Junk, f = r.frame, authed'[d] = authed[d]
      PROVE  <<f, authed'[d]>> \in accepted'
  <2>1. r \in AllRows /\ r.rcpt = authed[d]
    BY DEF AllRows, FlowInv, FlushLocals
  <2> QED
    BY <1>0, <1>4, <2>1 DEF RowOrder, QueuedInv
<1> QED
  BY <1>1, <1>2, <1>3, <1>4, StreamGains

\* A row that was dealt with is not read again: it is deleted before the next
\* flush of that connection begins.
LEMMA DealtWith ==
    ASSUME TypeInv, PresenceInv, FlowInv, [Next]_vars, NEW d \in Conns,
           pc'[d] \notin {"drain", "closed"}, NEW r \in AllRows,
           r \notin rows[d], r \in outbox => r.id \in handed[d],
           r \in outbox' => r \in outbox
    PROVE  r \notin rows'[d] /\ (r \in outbox' => r.id \in handed'[d])
<1>t. /\ rows \in [Conns -> SUBSET Rows] /\ handed \in [Conns -> SUBSET Nat]
      /\ pc \in [Conns -> Labels]
  BY DEF TypeInv, TypeOK
<1>1. CASE UNCHANGED <<rows[d], handed[d]>>
  BY <1>1
<1>2. CASE FlushFetch(d)
  <2>1. handed[d] = {} /\ UNCHANGED <<outbox, handed>> /\ rows'[d] = RowsOf(authed[d])
    BY <1>t, <1>2 DEF FlushFetch, FlowInv, FlushLocals
  <2> QED
    BY <2>1 DEF RowsOf
<1>3. CASE FlushSend(d) \/ FlushJunk(d)
  <2>1. PICK k \in rows[d] : Handed(d, k)
    BY <1>3 DEF FlushSend, FlushJunk
  <2>2. /\ UNCHANGED outbox
        /\ rows'[d] = rows[d] \ {k} /\ handed'[d] = handed[d] \cup {k.id}
    BY <1>t, <1>3, <2>1 DEF FlushSend, FlushJunk, Handed
  <2> QED
    BY <2>2
<1>4. CASE FlushStop(d)
  BY <1>t, <1>4 DEF FlushStop
<1>5. CASE FlushDelete(d)
  BY <1>t, <1>5 DEF FlushDelete
<1>6. CASE rows'[d] = {} /\ handed'[d] = {} /\ outbox' = outbox /\ pc[d] = "idle"
  BY <1>6 DEF FlowInv, FlushLocals
<1> QED
  BY <1>1, <1>2, <1>3, <1>4, <1>5, <1>6, FlushSteps

LEMMA BehindNext ==
    ASSUME TypeInv, PresenceInv, FlowInv, RoutingInv, QueuedInv, RowOrder, FlushOrder,
           Behind, Addressed, StreamsFine, [Next]_vars
    PROVE  Behind'
<1> SUFFICES ASSUME NEW d \in Conns, pc'[d] \notin {"drain", "closed"},
                    NEW r \in AllRows', NEW f \in StreamFrames(d)',
                    r.rcpt = authed'[d], r.frame # Junk,
                    <<f, authed'[d]>> \in queued', NotAfter(r.frame, f)
             PROVE  r \notin rows'[d] /\ (r \in outbox' => r.id \in handed'[d])
  BY DEF Behind, NotAfter
<1>0. pc[d] \notin {"drain", "closed"}
  BY EndSteps
\* The identity of the connection is not new: it has been given frames.
<1>1. CASE authed'[d] # authed[d]
  <2>1. authed[d] = NoUser /\ UNCHANGED <<got, chan>>
    BY <1>1, AuthedSteps
  <2>2. StreamFrames(d)' = StreamFrames(d)
    BY <2>1 DEF StreamFrames
  <2> QED
    BY <2>1, <2>2, NoFramesBefore
\* An old frame and an old row.
<1>2. CASE authed'[d] = authed[d] /\ f \in StreamFrames(d) /\ r \in AllRows
  <2>1. <<f, authed[d]>> \in queued
    <3>1. <<f, authed[d]>> \in accepted
      BY <1>2 DEF Addressed
    <3> QED
      BY <1>2, <3>1, QueuedNext
  <2>2. r \notin rows[d] /\ (r \in outbox => r.id \in handed[d])
    BY <1>0, <1>2, <2>1 DEF Behind
  <2>3. r \in outbox' => r \in outbox
    <3>1. ASSUME NEW c \in Conns, Queues(c), r \in outbox', r \notin outbox PROVE FALSE
      <4>1. r.id = nextId
        BY <3>1 DEF Queues
      <4> QED
        BY <1>2, <4>1, RowIds
    <3> QED
      BY <3>1, RowSteps
  <2> QED
    BY <1>2, <2>2, <2>3, DealtWith
\* An old frame and a new row: the frame of the row is its sender's newest.
<1>3. CASE authed'[d] = authed[d] /\ f \in StreamFrames(d) /\ r \notin AllRows
  <2>1. PICK c \in Conns : Takes(c) /\ Queues(c)
    <3>1. ASSUME outbox' \subseteq outbox, \A e \in Conns : rows'[e] \subseteq rows[e] \cup outbox
          PROVE  FALSE
      BY <1>3, <3>1 DEF AllRows
    <3> QED
      BY <3>1, RowSteps
  <2>2. r.frame = msg[c] /\ r.rcpt = Head(rest[c])
    <3>1. rows' = rows
      BY <2>1 DEF Takes
    <3> QED
      BY <1>3, <2>1, <3>1 DEF AllRows, Queues
  <2>3. /\ msg[c].by = c /\ <<msg[c], authed[d]>> \notin accepted
        /\ \A p \in accepted : p[1].by = c => p[1].seq <= msg[c].seq
    BY <1>3, <2>1, <2>2 DEF Takes, RoutingInv
  <2>4. <<f, authed[d]>> \in accepted
    BY <1>3 DEF Addressed
  <2>5. f.by = c => f.seq <= msg[c].seq
    BY <2>3, <2>4
  <2>6. f.seq \in Nat /\ msg[c].seq \in Nat
    <3>1. f \in Frames /\ msg[c] \in Frames
      BY <2>1, <2>4, TakenTypes DEF Takes
    <3> QED
      BY <3>1 DEF Frames
  <2>7. f = msg[c] \/ (msg[c].by = f.by /\ msg[c].seq < f.seq)
    BY <2>2 DEF NotAfter
  <2>8. f # msg[c]
    BY <2>3, <2>4
  <2> QED
    BY <2>3, <2>5, <2>6, <2>7, <2>8
\* A frame that was pushed was not queued.
<1>4. ASSUME NEW c \in Conns, PushGains(c), target[c] = d, f = msg[c], authed'[d] = authed[d]
      PROVE  FALSE
  <2>1. authed[d] = Head(rest[c]) /\ <<f, authed[d]>> \notin accepted
    BY <1>4 DEF PushGains, FlowInv, TargetOwn, RoutingInv
  <2>2. queued' = queued
    BY <1>4 DEF PushGains, Push
  <2> QED
    BY <1>4, <2>1, <2>2 DEF QueuedInv
\* A frame that was flushed: the rows before it were flushed before it.
<1>5. ASSUME FlushGains(d), NEW q \in rows[d], Oldest(q, rows[d]), q.frame # Junk,
             Handed(d, q), f = q.frame, authed'[d] = authed[d]
      PROVE  r \notin rows'[d] /\ (r \in outbox' => r.id \in handed'[d])
  <2>0. /\ pc[d] = "flush" /\ UNCHANGED outbox /\ AllRows' \subseteq AllRows
        /\ rows'[d] = rows[d] \ {q} /\ handed'[d] = handed[d] \cup {q.id}
    <3>1. pc[d] = "flush" /\ UNCHANGED outbox
      BY <1>5 DEF FlushGains, FlushSend
    <3>2. rows'[d] = rows[d] \ {q} /\ handed'[d] = handed[d] \cup {q.id}
      BY <1>5 DEF Handed, TypeInv, TypeOK
    <3>3. \A e \in Conns : rows'[e] \subseteq rows[e]
      BY <1>5 DEF Handed, TypeInv, TypeOK
    <3> QED
      BY <3>1, <3>2, <3>3 DEF AllRows
  <2>1. r \in AllRows /\ q \in AllRows /\ q.rcpt = authed[d]
    BY <2>0 DEF AllRows, FlowInv, FlushLocals
  <2>2. r = q \/ r.id < q.id
    BY <1>5, <2>1 DEF RowOrder, NotAfter
  <2>3. CASE r = q
    BY <2>0, <2>3
  <2>4. CASE r.id < q.id
    <3>1. r \notin rows[d]
      <4>1. r \in rows[d] => q.id <= r.id
        BY <1>5 DEF Oldest
      <4>2. r.id \in Nat /\ q.id \in Nat
        BY <2>1, RowIds
      <4> QED
        BY <2>4, <4>1, <4>2
    <3>2. r \in outbox => r.id \in handed[d]
      BY <1>5, <2>0, <2>4, <3>1 DEF FlushOrder
    <3> QED
      BY <2>0, <3>1, <3>2
  <2> QED
    BY <2>2, <2>3, <2>4
<1>6. \/ f \in StreamFrames(d)
      \/ \E c \in Conns : PushGains(c) /\ target[c] = d /\ f = msg[c]
      \/ /\ FlushGains(d)
         /\ \E q \in rows[d] :
               Oldest(q, rows[d]) /\ q.frame # Junk /\ Handed(d, q) /\ f = q.frame
  BY StreamGains
<1> QED
  BY <1>1, <1>2, <1>3, <1>4, <1>5, <1>6

\* The elements of a stream that are not answers are its frames.
LEMMA StreamElements ==
    ASSUME TypeInv, NEW d \in Conns
    PROVE  /\ \A i \in DOMAIN got[d] : got[d][i] = Reply \/ got[d][i] \in StreamFrames(d)
           /\ \A i \in DOMAIN chan[d] : chan[d][i] = Reply \/ chan[d][i] \in StreamFrames(d)
BY DEF StreamFrames, FramesIn

LEMMA StreamsFineNext ==
    ASSUME TypeInv, PresenceInv, FlowInv, RoutingInv, QueuedInv, RowOrder, Behind,
           Addressed, StreamsFine, [Next]_vars
    PROVE  StreamsFine'
<1> SUFFICES ASSUME NEW d \in Conns
             PROVE  FineOn(queued', authed'[d], got'[d], chan'[d])
  BY DEF StreamsFine, FineOn, FineSeq, FinePair, Fine
<1>0. TypeOK /\ chan[d] \in Seq(Frames \cup {Reply}) /\ got[d] \in Seq(Frames \cup {Reply})
  BY DEF TypeInv, TypeOK
<1>e. /\ \A i \in DOMAIN got[d] : got[d][i] = Reply \/ got[d][i] \in StreamFrames(d)
      /\ \A i \in DOMAIN chan[d] : chan[d][i] = Reply \/ chan[d][i] \in StreamFrames(d)
  BY StreamElements
<1>1. CASE authed'[d] # authed[d]
  <2>1. authed[d] = NoUser /\ UNCHANGED <<got, chan>>
    BY <1>1, AuthedSteps
  <2>2. /\ \A i \in DOMAIN got[d] : got[d][i] = Reply
        /\ \A i \in DOMAIN chan[d] : chan[d][i] = Reply
    BY <1>e, <2>1, NoFramesBefore
  <2> QED
    BY <2>1, <2>2 DEF FineOn, FineSeq, FinePair, Fine
<1>2. CASE authed'[d] = authed[d]
  <2> DEFINE u == authed[d]
  \* What was accounted for still is.
  <2>1. \A f \in StreamFrames(d) : <<f, u>> \in accepted /\ (<<f, u>> \in queued' => <<f, u>> \in queued)
    BY QueuedNext DEF Addressed
  <2>2. ASSUME NEW f, NEW g, f = Reply \/ f \in StreamFrames(d), Fine(queued, u, f, g)
        PROVE  Fine(queued', u, f, g)
    <3>1. queued \subseteq queued'
      BY QueuedNext
    <3> QED
      BY <2>1, <2>2, <3>1 DEF Fine
  <2>3. FineOn(queued', u, got[d], chan[d])
    <3>1. FineOn(queued, u, got[d], chan[d])
      BY DEF StreamsFine
    <3>2. FineSeq(queued', u, got[d])
      BY <1>e, <2>2, <3>1 DEF FineOn, FineSeq
    <3>3. FineSeq(queued', u, chan[d])
      BY <1>e, <2>2, <3>1 DEF FineOn, FineSeq
    <3>4. FinePair(queued', u, got[d], chan[d])
      BY <1>e, <2>2, <3>1 DEF FineOn, FinePair
    <3> QED
      BY <3>2, <3>3, <3>4 DEF FineOn
  <2>4. CASE Shrunk(d)
    BY <1>0, <1>2, <2>3, <2>4, ShrunkStream
  <2>5. ASSUME NEW m, Gains(d, m), \A f \in StreamFrames(d) : Fine(queued', u, f, m)
        PROVE  FineOn(queued', u, got'[d], chan'[d])
    <3>1. /\ \A i \in DOMAIN got[d] : Fine(queued', u, got[d][i], m)
          /\ \A i \in DOMAIN chan[d] : Fine(queued', u, chan[d][i], m)
      BY <1>e, <2>5 DEF Fine
    <3>2. m \in Frames \cup {Reply} /\ got'[d] = got[d] /\ chan'[d] = Append(chan[d], m)
      BY <2>5 DEF Gains
    <3>3. FineOn(queued', u, got[d], Append(chan[d], m))
      BY <1>0, <2>3, <3>1, <3>2, FineGain
    <3> QED
      BY <3>2, <3>3
  \* A pushed frame is new and its sender's newest.
  <2>6. ASSUME NEW c \in Conns, PushGains(c), ~Shrunk(d)
        PROVE  FineOn(queued', u, got'[d], chan'[d])
    <3>1. target[c] = d /\ Gains(d, msg[c])
      BY <2>6 DEF PushGains, Gains
    <3>2. u = Head(rest[c]) /\ <<msg[c], u>> \notin accepted /\ msg[c].by = c
          /\ \A p \in accepted : p[1].by = c => p[1].seq <= msg[c].seq
      BY <2>6, <3>1 DEF PushGains, FlowInv, TargetOwn, RoutingInv
    <3>3. ASSUME NEW f \in StreamFrames(d) PROVE Fine(queued', u, f, msg[c])
      <4>1. <<f, u>> \in accepted /\ f \in Frames /\ msg[c] \in Frames
        <5>1. <<f, u>> \in accepted
          BY <2>1
        <5>2. accepted \subseteq Frames \X Users
          BY <1>0 DEF TypeOK
        <5> QED
          BY <3>1, <5>1, <5>2 DEF Gains
      <4>2. f # msg[c] /\ (f.by = c => f.seq <= msg[c].seq)
        BY <3>2, <4>1
      <4>3. f.seq \in Nat /\ msg[c].seq \in Nat
        BY <4>1 DEF Frames
      <4>4. ~(f.by = msg[c].by /\ msg[c].seq < f.seq)
        BY <3>2, <4>2, <4>3
      <4> QED
        BY <4>2, <4>4 DEF Fine
    <3> QED
      BY <2>5, <3>1, <3>3
  \* A flushed frame may stand behind a later one only if that was pushed.
  <2>7. ASSUME NEW c \in Conns, FlushGains(c), ~Shrunk(d)
        PROVE  FineOn(queued', u, got'[d], chan'[d])
    <3>1. PICK r \in rows[c] : r.frame # Junk /\ Gains(c, r.frame) /\ pc[c] = "flush"
      BY <2>7 DEF FlushGains
    <3>2. c = d
      BY <2>7, <3>1 DEF Gains
    <3>3. r \in AllRows /\ r.rcpt = u /\ <<r.frame, u>> \in queued'
      <4>1. r \in AllRows /\ r.rcpt = u
        BY <3>2 DEF AllRows, FlowInv, FlushLocals
      <4>2. <<r.frame, u>> \in queued
        BY <3>1, <4>1 DEF RowOrder
      <4> QED
        BY <4>1, <4>2, QueuedNext
    <3>4. ASSUME NEW f \in StreamFrames(d) PROVE Fine(queued', u, f, r.frame)
      <4>1. <<f, u>> \in queued /\ NotAfter(r.frame, f) => FALSE
        BY <3>1, <3>2, <3>3 DEF Behind
      <4>2. f # r.frame
        BY <3>1, <3>3, <4>1 DEF RowOrder, NotAfter
      <4>3. ASSUME f.by = r.frame.by, r.frame.seq < f.seq PROVE <<f, u>> \notin queued'
        BY <2>1, <4>1, <4>3 DEF NotAfter
      <4> QED
        BY <3>3, <4>2, <4>3 DEF Fine
    <3> QED
      BY <2>5, <3>1, <3>2, <3>4
  <2>8. FineOn(queued', u, got'[d], chan'[d])
    BY <1>2, <2>4, <2>6, <2>7, StreamSteps
  <2> QED
    BY <1>2, <2>8
<1> QED
  BY <1>1, <1>2

LEMMA StreamInit == Init => StreamInv
<1> SUFFICES ASSUME Init PROVE StreamInv
  OBVIOUS
<1>1. RoutingInv /\ QueuedInv
  BY DEF Init, RoutingInv, QueuedInv
<1>2. AllRows = outbox /\ \A r \in outbox : r.frame = Junk /\ r.id = 1
  BY DEF Init, AllRows
<1>3. RowOrder /\ FlushOrder
  BY <1>2 DEF Init, RowOrder, FlushOrder
<1>4. \A c \in Conns : StreamFrames(c) = {} /\ got[c] = <<>> /\ chan[c] = <<>>
  BY DEF Init, StreamFrames, FramesIn
<1>5. Behind /\ Addressed
  BY <1>4 DEF Behind, Addressed
<1>6. StreamsFine
  BY <1>4 DEF StreamsFine, FineOn, FineSeq, FinePair
<1> QED
  BY <1>1, <1>3, <1>5, <1>6 DEF StreamInv

LEMMA StreamNext ==
    TypeInv /\ PresenceInv /\ FlowInv /\ StreamInv /\ [Next]_vars => StreamInv'
BY QueuedNext, RoutingNext, RowOrderNext, FlushOrderNext, BehindNext, AddressedNext,
   StreamsFineNext DEF StreamInv

\* The positions of the whole stream.
LEMMA StreamPlaces ==
    ASSUME TypeInv, StreamInv, NEW c \in Conns, NEW i \in FramePlaces(c), NEW j \in FramePlaces(c)
    PROVE  /\ Stream(c)[i] \in StreamFrames(c)
           /\ i < j => Fine(queued, authed[c], Stream(c)[i], Stream(c)[j])
           /\ i \in Nat /\ j \in Nat /\ Stream(c)[i] # Reply /\ Stream(c)[j] # Reply
<1>0. chan[c] \in Seq(Frames \cup {Reply}) /\ got[c] \in Seq(Frames \cup {Reply})
  BY DEF TypeInv, TypeOK
<1>1. FineSeq(queued, authed[c], got[c] \o chan[c])
  BY <1>0, FineJoined DEF StreamInv, StreamsFine
<1>2. \/ i \in DOMAIN got[c] /\ Stream(c)[i] = got[c][i]
      \/ i - Len(got[c]) \in DOMAIN chan[c] /\ Stream(c)[i] = chan[c][i - Len(got[c])]
  <2>1. i \in DOMAIN (got[c] \o chan[c])
    BY DEF Stream, FramePlaces
  <2> QED
    BY <1>0, <2>1, JoinedPlaces DEF Stream
<1>3. i \in DOMAIN Stream(c) /\ j \in DOMAIN Stream(c) /\ Stream(c)[i] # Reply /\ Stream(c)[j] # Reply
  BY DEF FramePlaces
<1>4. i \in Nat /\ j \in Nat
  BY <1>0, <1>3 DEF Stream
<1> QED
  BY <1>1, <1>2, <1>3, <1>4, StreamElements DEF Stream, FineSeq

LEMMA StreamAlways == Spec => [](TypeInv /\ StreamInv)
<1> DEFINE I == TypeInv /\ PresenceInv /\ FlowInv /\ StreamInv
<1>1. Init => I
  BY TypeInvInit, PresenceInit, FlowInit, StreamInit
<1>2. I /\ [Next]_vars => I'
  BY TypeInvNext, PresenceNext, FlowNext, StreamNext
<1> QED
  BY <1>1, <1>2, PTL DEF Spec

\* conn.rs, Send and flush_outbox: a recipient is met once per Send, and a row is
\* deleted before the next flush of the connection reads the outbox; so one
\* connection is never given the same frame twice.
THEOREM NoDuplicateOnConnectionAlways == Spec => []NoDuplicateOnConnection
<1>1. TypeInv /\ StreamInv => NoDuplicateOnConnection
  <2> SUFFICES ASSUME TypeInv, StreamInv, NEW c \in Conns,
                      NEW i \in FramePlaces(c), NEW j \in FramePlaces(c), i # j
               PROVE  Stream(c)[i] # Stream(c)[j]
    BY DEF NoDuplicateOnConnection
  <2>1. i \in Nat /\ j \in Nat /\ Stream(c)[i] # Reply /\ Stream(c)[j] # Reply
    BY StreamPlaces
  <2>2. CASE i < j
    BY <2>1, <2>2, StreamPlaces DEF Fine
  <2>3. CASE j < i
    BY <2>1, <2>3, StreamPlaces DEF Fine
  <2> QED
    BY <2>1, <2>2, <2>3
<1> QED
  BY <1>1, StreamAlways, PTL

\* conn.rs, Send and flush_outbox: what reaches a client was taken for its user,
\* and the frames of one sender in the order it sent them, except for a frame
\* pushed live past one that waits in the outbox.
THEOREM StreamSoundAlways == Spec => []StreamSound
<1>1. TypeInv /\ StreamInv => StreamSound
  <2> SUFFICES ASSUME TypeInv, StreamInv PROVE StreamSound
    OBVIOUS
  <2>1. DeliveredToAddressee
    <3> SUFFICES ASSUME NEW c \in Conns, NEW f \in FramesIn(Stream(c))
                 PROVE  <<f, authed[c]>> \in accepted
      BY DEF DeliveredToAddressee
    <3>1. PICK i \in FramePlaces(c) : f = Stream(c)[i]
      BY DEF FramesIn, FramePlaces
    <3>2. f \in StreamFrames(c)
      BY <3>1, StreamPlaces
    <3> QED
      BY <3>2 DEF StreamInv, Addressed
  <2>2. InversionOnlyLiveOverQueued
    <3> SUFFICES ASSUME NEW c \in Conns, NEW i \in FramePlaces(c), NEW j \in FramePlaces(c),
                        i < j, Stream(c)[i].by = Stream(c)[j].by,
                        Stream(c)[j].seq < Stream(c)[i].seq
                 PROVE  /\ <<Stream(c)[j], authed[c]>> \in queued
                        /\ <<Stream(c)[i], authed[c]>> \notin queued
      BY DEF InversionOnlyLiveOverQueued
    <3> QED
      BY StreamPlaces DEF Fine
  <2> QED
    BY <2>1, <2>2 DEF StreamSound
<1> QED
  BY <1>1, StreamAlways, PTL

============================================================================
