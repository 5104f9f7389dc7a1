---------------------------- MODULE ControlLink ----------------------------
(***************************************************************************)
(* The client core's end of a server connection: backend/core/src/net.rs,  *)
(* send_and_wait, send, the reader task and the processor's queue.         *)
(*                                                                         *)
(* Two tasks share the link: the command loop and the processor of         *)
(* delivered frames.  A request holds the control lock from before it      *)
(* installs its oneshot in the pending slot until it has an answer, an     *)
(* error or a timeout; replies carry no request id, so the reader gives    *)
(* any control frame to whoever is in the slot.  The relay is external: it *)
(* answers in order, or (its own channel being full) not at all.           *)
(***************************************************************************)
EXTENDS Integers, Sequences, FiniteSets

CONSTANTS
    Commands,    \* the command loop
    Processor,   \* the processor task
    None,
    Closed,      \* the oneshot's sender was dropped
    Deliver,     \* a pushed frame for the processor
    Notice,      \* a pushed frame for nobody
    InQueue,     \* IN_QUEUE
    MaxReqs,     \* bound: calls of send_and_wait
    MaxSends,    \* bound: fire-and-forget Sends
    MaxPushed    \* bound: frames the relay pushes of its own accord

Tasks == {Commands, Processor}
Reqs == 1..MaxReqs

ASSUME LinkConstants ==
    /\ Commands # Processor
    /\ InQueue \in Nat \ {0}
    /\ MaxReqs \in Nat /\ MaxSends \in Nat /\ MaxPushed \in Nat
    /\ {None, Closed, Deliver, Notice} \cap 0..MaxReqs = {}
    /\ None # Closed /\ Deliver # Notice

VARIABLES
    st,       \* where each task is
    cur,      \* the request it makes
    lockq,    \* the control lock: its holder, then those who wait for it
    slot,     \* pending: the request whose oneshot sender is installed
    answer,   \* the oneshot of each request
    writer,   \* the writer task still takes messages
    out,      \* client to relay: request numbers, 0 for a Send
    inn,      \* relay to client: the request answered, or a pushed frame
    reader,   \* the reader task runs
    inq,      \* how many delivered frames wait for the processor
    nreq, nsend, npushed,
    overdue   \* history: requests that timed out

tasks == <<st, cur, lockq>>
link == <<slot, answer>>
wire == <<writer, out, inn>>
bounds == <<nreq, nsend, npushed>>
vars == <<tasks, link, wire, reader, inq, bounds, overdue>>

\* Nothing to process; at work; waiting for the control lock; the oneshot is
\* installed; the message is sent; the timeout has fired.
States == {"off", "busy", "ask", "armed", "wait", "late"}

\* An answer to request n or to a Send, as opposed to a pushed frame.
Control(m) == m \in 0..MaxReqs

Holder(r) == lockq # <<>> /\ Head(lockq) = r

\* The control lock is released and the caller goes on.
Return(r) ==
    /\ st' = [st EXCEPT ![r] = "busy"]
    /\ cur' = [cur EXCEPT ![r] = None]
    /\ lockq' = Tail(lockq)

----------------------------------------------------------------------------
(* send_and_wait and send.                                                 *)

\* The call queues for the lock (a tokio mutex is first come, first served).
Ask(r) ==
    /\ st[r] = "busy" /\ nreq < MaxReqs
    /\ nreq' = nreq + 1
    /\ cur' = [cur EXCEPT ![r] = nreq + 1]
    /\ lockq' = Append(lockq, r)
    /\ st' = [st EXCEPT ![r] = "ask"]
    /\ UNCHANGED <<link, wire, reader, inq, nsend, npushed, overdue>>

\* Mutant: no control lock.
ArmUnlocked(r) ==
    /\ st[r] = "ask"
    /\ slot' = cur[r]
    /\ st' = [st EXCEPT ![r] = "armed"]
    /\ UNCHANGED <<cur, lockq, answer, wire, reader, inq, bounds, overdue>>

\* The oneshot goes into the slot before the message is sent.
Arm(r) ==
    /\ st[r] = "ask" /\ Holder(r)
    /\ slot' = cur[r]
    /\ st' = [st EXCEPT ![r] = "armed"]
    /\ UNCHANGED <<cur, lockq, answer, wire, reader, inq, bounds, overdue>>

\* A closed writer ends the call with an error; the slot is left as it is.
Post(r) ==
    /\ st[r] = "armed"
    /\ \/ /\ writer
          /\ out' = Append(out, cur[r])
          /\ st' = [st EXCEPT ![r] = "wait"]
          /\ UNCHANGED <<cur, lockq>>
       \/ /\ ~writer
          /\ Return(r)
          /\ UNCHANGED out
    /\ UNCHANGED <<link, writer, inn, reader, inq, bounds, overdue>>

\* The oneshot was fulfilled, or its sender dropped.
Wake(r) ==
    /\ st[r] = "wait" /\ answer[cur[r]] # None
    /\ Return(r)
    /\ UNCHANGED <<link, wire, reader, inq, bounds, overdue>>

\* Mutant: the wait has no limit.
TimeoutNever(r) == FALSE /\ UNCHANGED vars

\* REQUEST_TIMEOUT.
Timeout(r) ==
    /\ st[r] = "wait" /\ answer[cur[r]] = None
    /\ st' = [st EXCEPT ![r] = "late"]
    /\ overdue' = overdue \cup {cur[r]}
    /\ UNCHANGED <<cur, lockq, link, wire, reader, inq, bounds>>

\* The slot is emptied while the control lock is still held.
Clear(r) ==
    /\ st[r] = "late"
    /\ slot' = None
    /\ Return(r)
    /\ UNCHANGED <<answer, wire, reader, inq, bounds, overdue>>

\* send: a Send that nobody waits for (a chat message, a key share).
Send(r) ==
    /\ st[r] = "busy" /\ writer /\ nsend < MaxSends
    /\ nsend' = nsend + 1
    /\ out' = Append(out, 0)
    /\ UNCHANGED <<tasks, link, writer, inn, reader, inq, nreq, npushed, overdue>>

----------------------------------------------------------------------------
(* The reader task.                                                        *)

\* The reader leaves its loop and drops the sender in the slot.
Stop ==
    /\ reader' = FALSE
    /\ answer' = IF slot = None THEN answer ELSE [answer EXCEPT ![slot] = Closed]
    /\ slot' = None

\* Mutant: send(..).await, which waits for the processor.
ReadDeliverBlocking ==
    /\ reader /\ inn # <<>> /\ Head(inn) = Deliver /\ inq < InQueue
    /\ inn' = Tail(inn)
    /\ inq' = inq + 1
    /\ UNCHANGED <<tasks, link, writer, out, reader, bounds, overdue>>

\* A delivered frame goes to the processor's queue; a full queue ends the
\* connection instead of blocking the reader.
ReadDeliver ==
    /\ reader /\ inn # <<>> /\ Head(inn) = Deliver
    /\ inn' = Tail(inn)
    /\ \/ inq < InQueue /\ inq' = inq + 1 /\ UNCHANGED <<link, reader>>
       \/ inq = InQueue /\ Stop /\ UNCHANGED inq
    /\ UNCHANGED <<tasks, writer, out, bounds, overdue>>

\* A maintenance notice, a malformed frame, an oversized Deliver.
ReadNotice ==
    /\ reader /\ inn # <<>> /\ Head(inn) = Notice
    /\ inn' = Tail(inn)
    /\ UNCHANGED <<tasks, link, writer, out, reader, inq, bounds, overdue>>

\* Any other frame fulfils the request in the slot, if there is one.
ReadControl ==
    /\ reader /\ inn # <<>> /\ Control(Head(inn))
    /\ inn' = Tail(inn)
    /\ answer' = IF slot = None THEN answer ELSE [answer EXCEPT ![slot] = Head(inn)]
    /\ slot' = None
    /\ UNCHANGED <<tasks, writer, out, reader, inq, bounds, overdue>>

\* End of the stream, or a frame that cannot be framed.
ReadEnd ==
    /\ reader /\ Stop
    /\ UNCHANGED <<tasks, wire, inq, bounds, overdue>>

\* teardown_link: the command loop aborts the reader, which drains nothing.
Abort ==
    /\ reader /\ st[Commands] = "busy"
    /\ reader' = FALSE
    /\ UNCHANGED <<tasks, link, wire, inq, bounds, overdue>>

Reader == ReadDeliver \/ ReadNotice \/ ReadControl

----------------------------------------------------------------------------
(* The processor, the writer and the relay.                                *)

TakeFrame ==
    /\ st[Processor] = "off" /\ inq > 0
    /\ inq' = inq - 1
    /\ st' = [st EXCEPT ![Processor] = "busy"]
    /\ UNCHANGED <<cur, lockq, link, wire, reader, bounds, overdue>>

FrameDone ==
    /\ st[Processor] = "busy"
    /\ st' = [st EXCEPT ![Processor] = "off"]
    /\ UNCHANGED <<cur, lockq, link, wire, reader, inq, bounds, overdue>>

\* A write error ends the writer task.
WriterEnd ==
    /\ writer /\ writer' = FALSE
    /\ UNCHANGED <<tasks, link, out, inn, reader, inq, bounds, overdue>>

\* The relay takes the next message and answers it, or its answer is dropped.
Serve ==
    /\ out # <<>>
    /\ out' = Tail(out)
    /\ inn' \in {inn, Append(inn, Head(out))}
    /\ UNCHANGED <<tasks, link, writer, reader, inq, bounds, overdue>>

PushFrame ==
    /\ npushed < MaxPushed
    /\ npushed' = npushed + 1
    /\ inn' \in {Append(inn, Deliver), Append(inn, Notice)}
    /\ UNCHANGED <<tasks, link, writer, out, reader, inq, nreq, nsend, overdue>>

Init ==
    /\ st = [r \in Tasks |-> IF r = Commands THEN "busy" ELSE "off"]
    /\ cur = [r \in Tasks |-> None]
    /\ lockq = <<>>
    /\ slot = None /\ answer = [n \in Reqs |-> None]
    /\ writer = TRUE /\ out = <<>> /\ inn = <<>>
    /\ reader = TRUE /\ inq = 0
    /\ nreq = 0 /\ nsend = 0 /\ npushed = 0 /\ overdue = {}

\* The steps of a call that do not wait for the relay.
Caller(r) == Arm(r) \/ Post(r) \/ Wake(r) \/ Clear(r)

Next ==
    \/ \E r \in Tasks : Ask(r) \/ Caller(r) \/ Timeout(r) \/ Send(r)
    \/ Reader \/ ReadEnd \/ Abort
    \/ TakeFrame \/ FrameDone \/ WriterEnd \/ Serve \/ PushFrame

Spec == Init /\ [][Next]_vars

\* The runtime runs the reader when there is something to read ...
ReaderSpec == Spec /\ WF_vars(Reader)
\* ... and the callers, and timers fire.  Nothing is assumed of the relay.
CallerFairness == \A r \in Tasks : WF_vars(Caller(r)) /\ WF_vars(Timeout(r))

----------------------------------------------------------------------------

\* Every variable has the shape its declaration gives it.
TypeOK ==
    /\ st \in [Tasks -> States]
    /\ cur \in [Tasks -> Reqs \cup {None}]
    /\ lockq \in Seq(Tasks)
    /\ slot \in Reqs \cup {None}
    /\ answer \in [Reqs -> 0..MaxReqs \cup {None, Closed}]
    /\ writer \in BOOLEAN /\ reader \in BOOLEAN
    /\ out \in Seq(0..MaxReqs)
    /\ inn \in Seq(0..MaxReqs \cup {Deliver, Notice})
    /\ inq \in 0..InQueue
    /\ nreq \in 0..MaxReqs /\ nsend \in 0..MaxSends /\ npushed \in 0..MaxPushed
    /\ overdue \subseteq Reqs

\* A caller that waits for its oneshot can still be reached: its sender is in
\* the slot.  Neither the other task's call nor a timeout's cleanup may take it
\* out without resolving it ("only ever ONE outstanding control request").
WaiterInSlot ==
    \A r \in Tasks :
        st[r] \in {"armed", "wait"} /\ answer[cur[r]] = None => slot = cur[r]

\* A call gets another message's answer only after a timeout or a
\* fire-and-forget Send on this connection, and never one to a later request.
WrongReplyHasCause ==
    \A n \in Reqs : Control(answer[n]) /\ answer[n] # n =>
        answer[n] < n /\ (nsend > 0 \/ \E m \in overdue : m < n)

\* What send_and_wait and the reader owe each other: a waiting caller can be
\* reached, and a wrong answer has one of the causes above.
Replies == TypeOK /\ WaiterInSlot /\ WrongReplyHasCause

\* A silent or closed relay parks no caller: every call returns, the ones that
\* queue behind it for the control lock too.
RequestEnds ==
    CallerFairness => \A r \in Tasks : st[r] = "ask" ~> st[r] = "busy"

\* Frames are read whatever the processor does: the reader, which alone can
\* route the answer a processing step waits for, never waits for the processor.
ReaderNeverBlocks == (inn # <<>> /\ reader) ~> (inn = <<>> \/ ~reader)

----------------------------------------------------------------------------
(* What a comment says and the code does not do.                           *)

\* net.rs, send_and_wait: "clear the single pending slot so a late reply can't be
\* mis-routed to the NEXT requester".
LateReplyNotMisrouted == \A n \in Reqs : answer[n] \in overdue => answer[n] = n
============================================================================
