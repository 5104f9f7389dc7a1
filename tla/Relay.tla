------------------------------- MODULE Relay -------------------------------
(***************************************************************************)
(* The message path of the relay server: backend/server/src/conn.rs (the   *)
(* per-connection task, its writer task, Send, Pull, login, cleanup), the  *)
(* outbox half of db.rs, and the pruner and the maintenance stop of        *)
(* main.rs.                                                                *)
(*                                                                         *)
(* A connection is served by two tasks.  The reader task (pc[c]) reads one *)
(* client message at a time and runs its handler to the end before it      *)
(* reads the next; the writer task (alive[c]) drains the connection's      *)
(* bounded channel chan[c] into the socket.  Every critical section of the *)
(* code (the online mutex, the database mutex, one channel operation) is   *)
(* one action; everything between two of them may interleave.              *)
(*                                                                         *)
(* How a client proves who it is belongs to module Directory; here a login *)
(* simply succeeds for a registered user.                                  *)
(***************************************************************************)
EXTENDS Integers, Sequences, FiniteSets, FiniteSetsExt

CONSTANTS
    Users,        \* the usernames that occur as senders or recipients
    Registered0,  \* those already in the database when the server starts
    Conns,        \* connection incarnations; each one is accepted at most once
    NoUser,       \* "not authenticated" (authed = None)
    NoConn,       \* "no such entry" in the online map
    Reply,        \* any frame that is not a Deliver: answers and notices
    Junk,         \* an outbox row that does not parse (left by an older build)
    ToLists,      \* the recipient lists a Send may carry
    Sizes,        \* the lengths a serialized Deliver may have
    JunkSize,     \* those of the unparsable row
    Cap,          \* OUTBOUND_CAP, plus the frame in the writer's hands
    CapRows,      \* MAX_OUTBOX_PER_RECIPIENT
    CapBytes,     \* MAX_OUTBOX_BYTES_PER_RECIPIENT
    TTL,          \* OUTBOX_TTL_MS, in pruner periods or fractions of one
    Interval,     \* OUTBOX_PRUNE_INTERVAL, in the same unit
    Legacy,       \* users that may start with an unparseable row in the outbox
    MaxSends,     \* bound: Send messages handled in a behaviour
    MaxStops,     \* bound: maintenance stops and crashes of the process
    MaxNow        \* bound: the clock

\* A stored text has a length in characters, which SQL's length() counts, and one
\* in bytes, which String::len() counts; UTF-8 gives a character one to four.
Lengths == {n \in [chars : Nat, bytes : Nat] :
               n.chars <= n.bytes /\ n.bytes <= 4 * n.chars}

ASSUME RelayConstants ==
    /\ Registered0 \subseteq Users /\ Legacy \subseteq Registered0
    /\ NoUser \notin Users
    /\ NoConn \notin Conns
    /\ ToLists \subseteq Seq(Users)
    /\ Sizes \subseteq Lengths
    /\ JunkSize \in Lengths /\ JunkSize.chars <= CapBytes
    /\ Cap \in Nat \ {0} /\ CapRows \in Nat \ {0} /\ CapBytes \in Nat
    /\ TTL \in Nat /\ Interval \in Nat \ {0}
    /\ MaxSends \in Nat /\ MaxStops \in Nat /\ MaxNow \in Nat

VARIABLES
    \* the database
    users,     \* the registered usernames
    outbox,    \* rows [id, rcpt, frame, ts]
    nextId,    \* the AUTOINCREMENT counter of the outbox
    \* the server process
    up,        \* the process runs
    draining,  \* SIGUSR1 was received
    online,    \* username -> the connection whose sender is published
    sincePrune,\* time since the pruner last ran; Interval = due
    \* one connection
    pc,        \* where the reader task is
    authed,    \* the identity of the connection
    alive,     \* the writer task still receives
    chan,      \* the bounded outbound channel
    rows,      \* flush_outbox: rows read and not yet handed over
    handed,    \* flush_outbox: ids to delete ("delivered")
    msg,       \* Send: the Deliver frame
    rest,      \* Send: recipients not yet routed
    seen,      \* Send: recipients met so far
    target,    \* Send: the sender cloned from the online map
    \* the environment and history
    now, nsent, nstops,
    got,       \* frames the client's socket took, in order
    accepted,  \* <<frame, recipient>> the relay took responsibility for
    queued,    \* ... that went through the outbox
    lost,      \* ... that a dying writer, a process exit or the TTL dropped
    latest     \* the connection on which a user logged in last

db == <<users, outbox, nextId>>
proc == <<up, draining, online, sincePrune>>
flushing == <<rows, handed>>
sending == <<msg, rest, seen, target>>
history == <<now, nsent, nstops, got, accepted, queued, lost, latest>>
vars == <<db, proc, pc, authed, alive, chan, flushing, sending, history>>

Frames == [seq : Nat, by : Conns, size : Sizes, ts : Nat]

ASSUME FrameConstants == Reply \notin Frames /\ Junk \notin Frames /\ Junk # Reply

Rows == [id : Nat, rcpt : Users, frame : Frames \cup {Junk}, ts : Nat]

\* The reader task: not accepted yet; waiting for a client message; the steps
\* of a login; of flush_outbox; of Send; of the cleanup after the read loop.
Labels == {"idle", "read", "publish", "greet", "fetch", "flush", "delete",
           "route", "push", "enqueue", "drain", "closed"}

\* The connections whose reader task has not left its loop.
Serving(c) == pc[c] \notin {"idle", "drain", "closed"}

RowsOf(u) == {r \in outbox : r.rcpt = u}

\* Units: "chars", which is what db::outbox_bytes sums (SUM(length(frame)) over a
\* TEXT column), and "bytes", what the rows take.
Length(unit, r) == (IF r.frame = Junk THEN JunkSize ELSE r.frame.size)[unit]
SumLengths(unit, S) == MapThenSumSet(LAMBDA r : Length(unit, r), S)
Total(unit, u) == SumLengths(unit, RowsOf(u))

FramesIn(s) == {s[i] : i \in DOMAIN s} \ {Reply}
InChannel(c, f) == f \in FramesIn(chan[c])

\* A sender can push into the channel: its receiver lives and it has room.
HasRoom(c) == alive[c] /\ Len(chan[c]) < Cap

\* try_send, as every direct answer uses it: the frame is dropped silently
\* when the channel is full or closed.
TrySend(c, m) ==
    chan' = IF HasRoom(c) THEN [chan EXCEPT ![c] = Append(@, m)] ELSE chan

Goto(c, l) == pc' = [pc EXCEPT ![c] = l]

----------------------------------------------------------------------------
(* Connection start and login.                                             *)

\* The accept loop spawns handle(); while draining it drops new sockets.
Accept(c) ==
    /\ up /\ ~draining /\ pc[c] = "idle"
    /\ Goto(c, "read")
    /\ alive' = [alive EXCEPT ![c] = TRUE]
    /\ UNCHANGED <<db, proc, authed, chan, flushing, sending, history>>

\* Register: the row is committed first, presence is published afterwards.
Register(c, u) ==
    /\ pc[c] = "read" /\ authed[c] = NoUser /\ u \notin users
    /\ users' = users \cup {u}
    /\ authed' = [authed EXCEPT ![c] = u]
    /\ Goto(c, "publish")
    /\ UNCHANGED <<outbox, nextId, proc, alive, chan, flushing, sending, history>>

\* AuthFinish with a valid signature.
Login(c, u) ==
    /\ pc[c] = "read" /\ authed[c] = NoUser /\ u \in users
    /\ authed' = [authed EXCEPT ![c] = u]
    /\ Goto(c, "publish")
    /\ UNCHANGED <<db, proc, alive, chan, flushing, sending, history>>

\* online.lock().await.insert(username, tx): the newest login takes over.
Publish(c) ==
    /\ pc[c] = "publish"
    /\ online' = [online EXCEPT ![authed[c]] = c]
    /\ latest' = [latest EXCEPT ![authed[c]] = c]
    /\ Goto(c, "greet")
    /\ UNCHANGED <<db, up, draining, sincePrune, authed, alive, chan, flushing,
                   sending, now, nsent, nstops, got, accepted, queued, lost>>

\* AuthOk, before the backlog.
Greet(c) ==
    /\ pc[c] = "greet"
    /\ TrySend(c, Reply)
    /\ Goto(c, "fetch")
    /\ UNCHANGED <<db, proc, authed, alive, flushing, sending, history>>

\* Any message whose handler only answers: Ping, a refusal (not logged in, rate
\* limited, too large), a malformed message, a directory or attestation query.
Answer(c) ==
    /\ pc[c] = "read" /\ HasRoom(c)
    /\ TrySend(c, Reply)
    /\ UNCHANGED <<db, proc, pc, authed, alive, flushing, sending, history>>

----------------------------------------------------------------------------
(* flush_outbox, after a login and on Pull.                                *)

Pull(c) ==
    /\ pc[c] = "read" /\ authed[c] # NoUser
    /\ Goto(c, "fetch")
    /\ UNCHANGED <<db, proc, authed, alive, chan, flushing, sending, history>>

\* Phase 1: read the queued rows under the database lock.
FlushFetch(c) ==
    /\ pc[c] = "fetch"
    /\ rows' = [rows EXCEPT ![c] = RowsOf(authed[c])]
    /\ Goto(c, IF RowsOf(authed[c]) = {} THEN "read" ELSE "flush")
    /\ UNCHANGED <<db, proc, authed, alive, chan, handed, sending, history>>

\* Mutant: the query without its ORDER BY.
AnyRow(r, S) == r \in S

\* pending_frames lists the rows ORDER BY id; the flush takes them in turn.
Oldest(r, S) == r \in S /\ \A q \in S : r.id <= q.id

\* Row r is dealt with and will be deleted.
Handed(c, r) ==
    /\ handed' = [handed EXCEPT ![c] = @ \cup {r.id}]
    /\ rows' = [rows EXCEPT ![c] = @ \ {r}]

\* Mutant: the stored text is forwarded without parsing it.
FlushSendUnparsed(c) ==
    /\ pc[c] = "flush" /\ HasRoom(c)
    /\ \E r \in rows[c] :
          /\ Oldest(r, rows[c])
          /\ chan' = [chan EXCEPT ![c] = Append(@, r.frame)]
          /\ Handed(c, r)
    /\ UNCHANGED <<db, proc, pc, authed, alive, sending, history>>

\* Phase 2: hand the oldest row to the channel, waiting while it is full ...
FlushSend(c) ==
    /\ pc[c] = "flush" /\ HasRoom(c)
    /\ \E r \in rows[c] :
          /\ Oldest(r, rows[c]) /\ r.frame # Junk
          /\ chan' = [chan EXCEPT ![c] = Append(@, r.frame)]
          /\ Handed(c, r)
    /\ UNCHANGED <<db, proc, pc, authed, alive, sending, history>>

\* ... a row that does not parse is only marked for deletion ...
FlushJunk(c) ==
    /\ pc[c] = "flush"
    /\ \E r \in rows[c] : Oldest(r, rows[c]) /\ r.frame = Junk /\ Handed(c, r)
    /\ UNCHANGED <<db, proc, pc, authed, alive, chan, sending, history>>

\* Mutant: a closed channel does not end the loop.
FlushStopWhenEmpty(c) ==
    /\ pc[c] = "flush" /\ rows[c] = {}
    /\ Goto(c, "delete")
    /\ UNCHANGED <<db, proc, authed, alive, chan, rows, handed, sending, history>>

\* ... and the loop ends with the rows, or when the writer is gone.
FlushStop(c) ==
    /\ pc[c] = "flush"
    /\ \/ rows[c] = {}
       \/ ~alive[c] /\ \E r \in rows[c] : Oldest(r, rows[c]) /\ r.frame # Junk
    /\ rows' = [rows EXCEPT ![c] = {}]
    /\ Goto(c, "delete")
    /\ UNCHANGED <<db, proc, authed, alive, chan, handed, sending, history>>

\* Mutant: DELETE ... WHERE recipient, instead of by id.
FlushDeleteAll(c) ==
    /\ pc[c] = "delete"
    /\ outbox' = {r \in outbox : r.rcpt # authed[c]}
    /\ handed' = [handed EXCEPT ![c] = {}]
    /\ Goto(c, "read")
    /\ UNCHANGED <<users, nextId, proc, authed, alive, chan, rows, sending, history>>

\* Phase 3: delete exactly the rows handed over, under the database lock.
FlushDelete(c) ==
    /\ pc[c] = "delete"
    /\ outbox' = {r \in outbox : r.id \notin handed[c]}
    /\ handed' = [handed EXCEPT ![c] = {}]
    /\ Goto(c, "read")
    /\ UNCHANGED <<users, nextId, proc, authed, alive, chan, rows, sending, history>>

----------------------------------------------------------------------------
(* Send.                                                                   *)

\* The Deliver frame is built once and stamped with the server's time.
ReadSend(c) ==
    /\ pc[c] = "read" /\ authed[c] # NoUser /\ nsent < MaxSends
    /\ \E to \in ToLists, size \in Sizes :
          /\ rest' = [rest EXCEPT ![c] = to]
          /\ msg' = [msg EXCEPT ![c] =
                [seq |-> nsent + 1, by |-> c, size |-> size, ts |-> now]]
    /\ nsent' = nsent + 1
    /\ Goto(c, "route")
    /\ UNCHANGED <<db, proc, authed, alive, chan, flushing, seen, target, now,
                   nstops, got, accepted, queued, lost, latest>>

\* Mutants: no deduplication; no existence check.
SkippedAuthorOnly(c, u) == u = authed[c]
ExistsAlways(u) == TRUE

\* A recipient listed twice is routed once, and the author never.
Skipped(c, u) == u \in seen[c] \/ u = authed[c]

\* db::username_exists.
Exists(u) == u \in users

RouteSkip(c) ==
    /\ pc[c] = "route" /\ rest[c] # <<>>
    /\ \/ Skipped(c, Head(rest[c]))
       \/ ~Exists(Head(rest[c]))
    /\ seen' = [seen EXCEPT ![c] = @ \cup {Head(rest[c])}]
    /\ rest' = [rest EXCEPT ![c] = Tail(@)]
    /\ UNCHANGED <<db, proc, pc, authed, alive, chan, flushing, msg, target, history>>

\* Under both locks: clone the recipient's sender and confirm it exists.
Route(c) ==
    /\ pc[c] = "route" /\ rest[c] # <<>>
    /\ ~Skipped(c, Head(rest[c])) /\ Exists(Head(rest[c]))
    /\ seen' = [seen EXCEPT ![c] = @ \cup {Head(rest[c])}]
    /\ target' = [target EXCEPT ![c] = online[Head(rest[c])]]
    /\ Goto(c, IF online[Head(rest[c])] = NoConn THEN "enqueue" ELSE "push")
    /\ UNCHANGED <<db, proc, authed, alive, chan, flushing, msg, rest, history>>

\* Mutant: send(..).await, which waits while the recipient's channel is full.
PushBlocking(c) ==
    /\ pc[c] = "push"
    /\ HasRoom(target[c]) \/ ~alive[target[c]]
    /\ TrySend(target[c], msg[c])
    /\ accepted' = accepted \cup {<<msg[c], Head(rest[c])>>}
    /\ rest' = [rest EXCEPT ![c] = Tail(@)]
    /\ target' = [target EXCEPT ![c] = NoConn]
    /\ Goto(c, "route")
    /\ UNCHANGED <<db, proc, authed, alive, flushing, msg, seen,
                   now, nsent, nstops, got, queued, lost, latest>>

\* Online: push without blocking; a full or closed channel falls back to the
\* outbox.
Push(c) ==
    /\ pc[c] = "push"
    /\ TrySend(target[c], msg[c])
    /\ \/ /\ HasRoom(target[c])
          /\ accepted' = accepted \cup {<<msg[c], Head(rest[c])>>}
          /\ rest' = [rest EXCEPT ![c] = Tail(@)]
          /\ target' = [target EXCEPT ![c] = NoConn]
          /\ Goto(c, "route")
       \/ /\ ~HasRoom(target[c])
          /\ Goto(c, "enqueue")
          /\ UNCHANGED <<accepted, rest, target>>
    /\ UNCHANGED <<db, proc, authed, alive, flushing, msg, seen,
                   now, nsent, nstops, got, queued, lost, latest>>

\* Mutants: only the rows are counted; one row too many is let in.
UnderRowCap(u, size) == Cardinality(RowsOf(u)) < CapRows
UnderCapPlusOne(u, size) ==
    Cardinality(RowsOf(u)) <= CapRows /\ Total("chars", u) + size.bytes <= CapBytes

\* db::enqueue_if_under_cap, check and insert in one critical section.  What is
\* queued is counted in characters, the new frame in bytes.
UnderCap(u, size) ==
    /\ Cardinality(RowsOf(u)) < CapRows
    /\ Total("chars", u) + size.bytes <= CapBytes

Enqueue(c) ==
    /\ pc[c] = "enqueue"
    /\ LET u == Head(rest[c]) IN
       \/ /\ UnderCap(u, msg[c].size)
          /\ outbox' = outbox \cup {[id |-> nextId, rcpt |-> u,
                                     frame |-> msg[c], ts |-> msg[c].ts]}
          /\ nextId' = nextId + 1
          /\ accepted' = accepted \cup {<<msg[c], u>>}
          /\ queued' = queued \cup {<<msg[c], u>>}
       \/ /\ ~UnderCap(u, msg[c].size)
          /\ UNCHANGED <<outbox, nextId, accepted, queued>>
    /\ rest' = [rest EXCEPT ![c] = Tail(@)]
    /\ target' = [target EXCEPT ![c] = NoConn]
    /\ Goto(c, "route")
    /\ UNCHANGED <<users, proc, authed, alive, chan, flushing, msg, seen,
                   now, nsent, nstops, got, lost, latest>>

\* Every recipient was routed: Ok or UNKNOWN_USER to the sender.
RouteDone(c) ==
    /\ pc[c] = "route" /\ rest[c] = <<>>
    /\ TrySend(c, Reply)
    /\ msg' = [msg EXCEPT ![c] = Reply]
    /\ seen' = [seen EXCEPT ![c] = {}]
    /\ Goto(c, "read")
    /\ UNCHANGED <<db, proc, authed, alive, flushing, rest, target, history>>

----------------------------------------------------------------------------
(* The writer task.                                                        *)

\* One frame is written to the socket within WRITE_TIMEOUT.
Write(c) ==
    /\ alive[c] /\ chan[c] # <<>>
    /\ chan' = [chan EXCEPT ![c] = Tail(@)]
    /\ got' = IF Head(chan[c]) = Reply THEN got
              ELSE [got EXCEPT ![c] = Append(@, Head(chan[c]))]
    /\ UNCHANGED <<db, proc, pc, authed, alive, flushing, sending,
                   now, nsent, nstops, accepted, queued, lost, latest>>

\* What the channels of the connections C hold, with the user it is for.
Undelivered(C) ==
    UNION {{<<f, authed[c]>> : f \in FramesIn(chan[c])} : c \in C}

\* The write fails or times out: the task ends and drops the receiver, and
\* with it everything still in the channel.
WriterFail(c) ==
    /\ alive[c] /\ chan[c] # <<>>
    /\ alive' = [alive EXCEPT ![c] = FALSE]
    /\ lost' = lost \cup Undelivered({c})
    /\ chan' = [chan EXCEPT ![c] = <<>>]
    /\ UNCHANGED <<db, proc, pc, authed, flushing, sending,
                   now, nsent, nstops, got, accepted, queued, latest>>

\* Mutant: the task keeps its own sender (no drop(tx)).
CloseKeepsSender(c) ==
    /\ pc[c] = "drain" /\ ~alive[c]
    /\ Goto(c, "closed")
    /\ UNCHANGED <<db, proc, authed, alive, chan, flushing, sending, history>>

\* All senders are dropped and the channel is empty: recv() returns None, and
\* handle() returns.
Close(c) ==
    /\ pc[c] = "drain"
    /\ alive[c] => chan[c] = <<>> /\ \A d \in Conns : target[d] # c
    /\ alive' = [alive EXCEPT ![c] = FALSE]
    /\ Goto(c, "closed")
    /\ UNCHANGED <<db, proc, authed, chan, flushing, sending, history>>

----------------------------------------------------------------------------
(* The end of a connection and of the process.                             *)

\* Mutants: presence is not removed; it is removed whoever owns it.
HangupKeepsPresence(c) ==
    /\ pc[c] = "read"
    /\ Goto(c, "drain")
    /\ UNCHANGED <<db, proc, authed, alive, chan, flushing, sending, history>>

HangupRemovesAny(c) ==
    /\ pc[c] = "read"
    /\ online' = [u \in Users |-> IF u = authed[c] THEN NoConn ELSE online[u]]
    /\ Goto(c, "drain")
    /\ UNCHANGED <<db, up, draining, sincePrune, authed, alive, chan, flushing,
                   sending, history>>

\* A read error or the idle deadline ends the loop.  Presence is removed only
\* if it is still this connection's own (same_channel).
Hangup(c) ==
    /\ pc[c] = "read"
    /\ online' = [u \in Users |->
                    IF u = authed[c] /\ online[u] = c THEN NoConn ELSE online[u]]
    /\ Goto(c, "drain")
    /\ UNCHANGED <<db, up, draining, sincePrune, authed, alive, chan, flushing,
                   sending, history>>

\* SIGUSR1: broadcast a notice to every online client that has room; stop
\* accepting.  A repeated signal is ignored.
Maintenance ==
    /\ up /\ ~draining /\ nstops < MaxStops
    /\ draining' = TRUE
    /\ chan' = [c \in Conns |->
                  IF HasRoom(c) /\ (\E u \in Users : online[u] = c)
                  THEN Append(chan[c], Reply) ELSE chan[c]]
    /\ UNCHANGED <<db, up, online, sincePrune, pc, authed, alive, flushing,
                   sending, history>>

\* The process ends: its memory is gone, the database stays.
Down ==
    /\ up' = FALSE /\ draining' = FALSE
    /\ nstops' = nstops + 1
    /\ online' = [u \in Users |-> NoConn]
    /\ lost' = lost \cup Undelivered(Conns)
    /\ pc' = [c \in Conns |-> IF pc[c] = "idle" THEN "idle" ELSE "closed"]
    /\ alive' = [c \in Conns |-> FALSE]
    /\ chan' = [c \in Conns |-> <<>>]
    /\ rows' = [c \in Conns |-> {}]
    /\ handed' = [c \in Conns |-> {}]
    /\ msg' = [c \in Conns |-> Reply]
    /\ rest' = [c \in Conns |-> <<>>]
    /\ seen' = [c \in Conns |-> {}]
    /\ target' = [c \in Conns |-> NoConn]
    /\ UNCHANGED <<db, sincePrune, authed, now, nsent, got, accepted, queued, latest>>

\* process::exit(0) at the end of the maintenance window.
MaintenanceExit == up /\ draining /\ Down

\* A crash, a kill, a power cut.
Crash == up /\ nstops < MaxStops /\ Down

\* The supervisor starts the process again; the pruner's first tick is due.
Start ==
    /\ ~up
    /\ up' = TRUE
    /\ sincePrune' = Interval
    /\ UNCHANGED <<db, draining, online, pc, authed, alive, chan, flushing,
                   sending, history>>

----------------------------------------------------------------------------
(* Time and the pruner.                                                    *)

\* The unit is hours.  The pruner's timer is punctual: while the server runs, no
\* time passes between the moment it is due and its DELETE.  Routing a Send
\* never awaits a socket, so on this scale it takes no time; a flush may.
Tick ==
    /\ now < MaxNow
    /\ up => sincePrune < Interval
    /\ \A c \in Conns : pc[c] \notin {"route", "push", "enqueue"}
    /\ now' = now + 1
    /\ sincePrune' = IF up THEN sincePrune + 1 ELSE sincePrune
    /\ UNCHANGED <<db, up, draining, online, pc, authed, alive, chan, flushing,
                   sending, nsent, nstops, got, accepted, queued, lost, latest>>

\* Mutant: one unit too generous.
ExpiredLate(r) == r.ts < now - TTL - 1

\* Past the cutoff of db::prune_expired.
Expired(r) == r.ts < now - TTL

\* Mutant: <= in place of < in the DELETE.
PruneEarly ==
    /\ up /\ sincePrune = Interval
    /\ outbox' = {r \in outbox : r.ts > now - TTL}
    /\ lost' = lost \cup {<<r.frame, r.rcpt>> : r \in outbox \ outbox'}
    /\ sincePrune' = 0
    /\ UNCHANGED <<users, nextId, up, draining, online, pc, authed, alive, chan,
                   flushing, sending, now, nsent, nstops, got, accepted, queued, latest>>

\* The pruner's DELETE, under the database lock.
Prune ==
    /\ up /\ sincePrune = Interval
    /\ outbox' = {r \in outbox : ~Expired(r)}
    /\ lost' = lost \cup {<<r.frame, r.rcpt>> : r \in {q \in outbox : Expired(q)}}
    /\ sincePrune' = 0
    /\ UNCHANGED <<users, nextId, up, draining, online, pc, authed, alive, chan,
                   flushing, sending, now, nsent, nstops, got, accepted, queued, latest>>

----------------------------------------------------------------------------

Init ==
    /\ users = Registered0
    /\ nextId = 2
    /\ outbox \in {{}} \cup
          {{[id |-> 1, rcpt |-> u, frame |-> Junk, ts |-> 0]} : u \in Legacy}
    /\ up = TRUE /\ draining = FALSE /\ sincePrune = Interval
    /\ online = [u \in Users |-> NoConn]
    /\ pc = [c \in Conns |-> "idle"]
    /\ authed = [c \in Conns |-> NoUser]
    /\ alive = [c \in Conns |-> FALSE]
    /\ chan = [c \in Conns |-> <<>>]
    /\ rows = [c \in Conns |-> {}]
    /\ handed = [c \in Conns |-> {}]
    /\ msg = [c \in Conns |-> Reply]
    /\ rest = [c \in Conns |-> <<>>]
    /\ seen = [c \in Conns |-> {}]
    /\ target = [c \in Conns |-> NoConn]
    /\ now = 0 /\ nsent = 0 /\ nstops = 0
    /\ got = [c \in Conns |-> <<>>]
    /\ accepted = {} /\ queued = {} /\ lost = {}
    /\ latest = [u \in Users |-> NoConn]

\* What a client may ask of an open connection.
Request(c) ==
    \/ \E u \in Users : Register(c, u) \/ Login(c, u)
    \/ Answer(c) \/ Pull(c) \/ ReadSend(c)

\* The handler's own steps, once a request was read.
Handler(c) ==
    \/ Publish(c) \/ Greet(c)
    \/ FlushFetch(c) \/ FlushSend(c) \/ FlushJunk(c) \/ FlushStop(c) \/ FlushDelete(c)
    \/ RouteSkip(c) \/ Route(c) \/ Push(c) \/ Enqueue(c) \/ RouteDone(c)
    \/ Close(c)

Writer(c) == Write(c) \/ WriterFail(c)

Next ==
    \/ \E c \in Conns : Accept(c) \/ Request(c) \/ Handler(c) \/ Writer(c) \/ Hangup(c)
    \/ Maintenance \/ MaintenanceExit \/ Crash \/ Start
    \/ Tick \/ Prune

Spec == Init /\ [][Next]_vars

\* tokio polls every task that can run, so a handler whose next step is
\* possible takes it.
HandlerFairness == \A c \in Conns : WF_vars(Handler(c))
\* WRITE_TIMEOUT: a frame at the head of the channel is written or the writer
\* gives up; it is never stuck with it.
WriterFairness == \A c \in Conns : WF_vars(Writer(c))

\* Nothing is assumed of the sockets: a write may take for ever.
HandlerSpec == Spec /\ HandlerFairness

----------------------------------------------------------------------------
(* Safety.                                                                 *)

\* Every variable has the shape the code's declarations give it.
TypeOK ==
    /\ users \subseteq Users /\ outbox \subseteq Rows /\ nextId \in Nat
    /\ up \in BOOLEAN /\ draining \in BOOLEAN /\ sincePrune \in 0..Interval
    /\ online \in [Users -> Conns \cup {NoConn}]
    /\ pc \in [Conns -> Labels]
    /\ authed \in [Conns -> Users \cup {NoUser}]
    /\ alive \in [Conns -> BOOLEAN]
    /\ chan \in [Conns -> Seq(Frames \cup {Reply})]
    /\ rows \in [Conns -> SUBSET Rows]
    /\ handed \in [Conns -> SUBSET Nat]
    /\ msg \in [Conns -> Frames \cup {Reply}]
    /\ rest \in [Conns -> Seq(Users)]
    /\ seen \in [Conns -> SUBSET Users]
    /\ target \in [Conns -> Conns \cup {NoConn}]
    /\ now \in Nat /\ nsent \in Nat /\ nstops \in Nat
    /\ got \in [Conns -> Seq(Frames)]
    /\ accepted \subseteq Frames \X Users
    /\ queued \subseteq Frames \X Users
    /\ lost \subseteq (Frames \cup {Junk}) \X (Users \cup {NoUser})
    /\ latest \in [Users -> Conns \cup {NoConn}]

\* The online map never routes a user's messages to a connection that is not
\* that user's, or whose cleanup has run (conn.rs, cleanup after the loop).
PresenceIsOwn ==
    \A u \in Users : online[u] # NoConn =>
        authed[online[u]] = u /\ Serving(online[u])

\* As long as the connection of a user's newest login is served, that is where
\* the user's messages go: an older connection that ends later must not take
\* the newer one's presence away (the same_channel comparison).
NewestLoginReachable ==
    \A u \in Users :
        latest[u] # NoConn /\ Serving(latest[u]) => online[u] = latest[u]

\* No number of concurrent senders pushes a recipient's queue over its row
\* budget (db::enqueue_if_under_cap) ...
RowQuota == \A u \in Users : Cardinality(RowsOf(u)) <= CapRows

\* ... or over its byte budget, as the code counts it: the characters queued stay
\* within CapBytes, so the bytes exceed it fourfold at most, however many frames
\* of whatever text are queued.  (See ByteBudgetHolds below.)
ByteQuota ==
    \A u \in Users : /\ Total("chars", u) <= CapBytes
                     /\ Total("bytes", u) <= 4 * CapBytes

\* A row is queued only for somebody who can log in and drain it.
QueueDrainable == \A r \in outbox : r.rcpt \in users

Holds(c, f) == InChannel(c, f) \/ f \in FramesIn(got[c])

\* A frame the relay accepted for a recipient is in that recipient's outbox, in
\* a channel or on a socket of that recipient, or was dropped by a dying
\* writer, a process exit or the TTL.  In particular flush_outbox deletes no
\* row it has not handed over, however logins, Pulls, sends and the pruner
\* interleave with its three phases.
NoFrameVanishes ==
    \A p \in accepted :
        \/ \E r \in outbox : r.frame = p[1] /\ r.rcpt = p[2]
        \/ \E c \in Conns : authed[c] = p[2] /\ Holds(c, p[1])
        \/ p \in lost

\* What a connection's client receives, in this order, if the writer lives, and
\* the places in it that hold frames: the others are answers.
Stream(c) == got[c] \o chan[c]
FramePlaces(c) == {i \in DOMAIN Stream(c) : Stream(c)[i] # Reply}

\* One connection is never given the same frame twice.
NoDuplicateOnConnection ==
    \A c \in Conns : \A i, j \in FramePlaces(c) :
        i # j => Stream(c)[i] # Stream(c)[j]

\* A connection is only given frames that were accepted for its user.
DeliveredToAddressee ==
    \A c \in Conns : \A f \in FramesIn(Stream(c)) : <<f, authed[c]>> \in accepted

\* Two frames of one sender's connection reach a client in the wrong order only
\* if the later one was pushed live while the earlier one waited in the outbox.
InversionOnlyLiveOverQueued ==
    \A c \in Conns : \A i, j \in FramePlaces(c) :
        LET f == Stream(c)[i]
            g == Stream(c)[j] IN
        i < j /\ f.by = g.by /\ g.seq < f.seq =>
            <<g, authed[c]>> \in queued /\ <<f, authed[c]>> \notin queued

\* Both: what reaches a client was meant for it, and its order is accounted for.
StreamSound == DeliveredToAddressee /\ InversionOnlyLiveOverQueued

\* Once the pruner has run in this process, no row is older than the TTL by
\* more than the time since that run.
QueueLifetime ==
    up /\ sincePrune < Interval =>
        \A r \in outbox : now - r.ts <= TTL + sincePrune

\* A row leaves the outbox only when it expired or when the flush that deletes
\* it has handed that very row over; rows never change.
RowsLeaveProperly ==
    [][\A r \in outbox \ outbox' :
          \/ Expired(r)
          \/ \E c \in Conns : pc[c] = "delete" /\ authed[c] = r.rcpt /\ r.id \in handed[c]]_vars

----------------------------------------------------------------------------
(* What comments say and the code does not do.                             *)

\* db.rs, outbox_bytes: "Total bytes of queued frames for a recipient. ... a byte
\* budget is the real per-recipient storage cap".  The sum is one of characters.
ByteBudgetHolds == \A u \in Users : Total("bytes", u) <= CapBytes

\* conn.rs, flush_outbox: "Only rows we actually hand off (or rows that can never
\* be delivered) are marked for deletion, so a dead writer does not cause silent
\* message loss."  A queued frame that a dying writer drops is still queued.
DeadWriterLosesNoQueuedFrame ==
    [][\A c \in Conns : alive[c] /\ ~alive'[c] /\ up' =>
          \A f \in FramesIn(chan[c]) : <<f, authed[c]>> \in queued =>
              \E r \in outbox' : r.frame = f /\ r.rcpt = authed[c]]_vars

----------------------------------------------------------------------------
(* Liveness.                                                               *)

\* flush_outbox awaits room in a bounded channel, but it always ends: the
\* writer makes room, or gives up and closes the channel.
FlushEnds == WriterFairness => \A c \in Conns : pc[c] = "flush" ~> pc[c] # "flush"

\* The cleanup's last step, awaiting the writer task, ends.
CleanupEnds == WriterFairness => \A c \in Conns : pc[c] = "drain" ~> pc[c] = "closed"

\* A Send is answered whatever the recipients' sockets do: routing never waits
\* for another connection's writer.
SendEnds ==
    \A c \in Conns :
        pc[c] \in {"route", "push", "enqueue"} ~> pc[c] \in {"read", "closed"}
============================================================================
