----------------------------- MODULE GroupOwner -----------------------------
(***************************************************************************)
(* The owner's side of one group: join requests, admission, moderation and *)
(* the rotation of the owner's outbound Megolm session.                    *)
(* backend/core/src/net.rs handle_join_request, admit_member,              *)
(* distribute_group_key, broadcast_group_event; session.rs create_group,   *)
(* send, set_access, invite, accept, remove, ban, suspend and their        *)
(* opposites, moderate, rekey_group; the vault tables behind them.         *)
(*                                                                         *)
(* Two tasks work on the vault: "cmd", the command loop, and "proc", the   *)
(* processor, which answers join requests and leave notices.  The vault's  *)
(* mutex covers one call, so a handler is a sequence of steps and the      *)
(* other task's steps, or the end of the process, may come between any     *)
(* two.  Vault calls share a step where the order of the two tasks' calls  *)
(* cannot be seen.                                                         *)
(*                                                                         *)
(* A session is its number.  Who can read a frame is decided by the        *)
(* session it is encrypted with, so neither frames nor their recipients    *)
(* are kept; the member's side is GroupMember.                             *)
(***************************************************************************)
EXTENDS Integers, FiniteSets

CONSTANTS
    Users,      \* everybody but the owner
    NoUser,
    Modes,      \* the access modes in use
    Durations,  \* for how long users are suspended
    Skew,       \* how far a requester's clock may run ahead of the owner's
    MaxOrders,  \* bound: the owner's commands once the group exists
    MaxFrames,  \* bound: join requests and leave notices
    MaxFaults,  \* bound: members skipped, handlers and processes that end early
    MaxTime     \* bound: the clock

Keys == 1..(MaxOrders + 1)

ASSUME OwnerConstants ==
    /\ NoUser \notin Users
    /\ Modes \subseteq {"open", "approval", "invite_only"}
    /\ Durations \subseteq Nat \ {0}
    /\ Skew \in Nat /\ MaxOrders \in Nat /\ MaxFrames \in Nat
    /\ MaxFaults \in Nat /\ MaxTime \in Nat

VARIABLES
    mode,       \* groups: the access mode; "none" before create_group
    roster,     \* chat_members, without the owner
    bans,       \* group_bans
    susp,       \* group_suspensions: until_ts, 0 when there is no row
    reqs,       \* group_join_requests
    out,        \* group_out: the session in the pickle, 0 when there is none
    minted,     \* how many sessions there are
    task,       \* what each task is doing and how far it is
    held,       \* the sessions each user was ever given
    latest,     \* the last one: what the user's client keeps for the owner
    now,
    orders, frames, faults,  \* how many there were
    sentence,   \* history: until when the owner wants each user suspended
    expelled,   \* history: dropped by a moderation and not admitted since
    excused,    \* history: their moderation ended early (an error, the end of
                \* the process) or met the processor handling their request
    behind,     \* history: owed the current session by a handler that ended or
                \* skipped them, or given an older one after a rotation
    reverted    \* history: an older session was saved over a rotation

rows == <<mode, roster, bans, susp, reqs>>
given == <<held, latest>>
told == <<expelled, excused, behind, reverted>>
count == <<orders, frames, faults>>
vars == <<rows, out, minted, task, given, now, count, sentence, told>>

Tasks == {"cmd", "proc"}

\* op: the handler; at: its next step; who: the user it is about; key: the
\* session in its memory; rcp: who is still to be given it.  mode and clear
\* belong to a join request: the mode it found, and whether neither its key nor
\* the requester's standing forbids it.
Idle == [op |-> "idle", at |-> "", who |-> NoUser, key |-> 0, rcp |-> {},
         mode |-> "none", clear |-> FALSE]

Doing(t, a) == task[t].op # "idle" /\ task[t].at = a
Who(t) == task[t].who
Goto(t, a) == task' = [task EXCEPT ![t].at = a]
Begin(t, op, a, u) ==
    task' = [task EXCEPT ![t] = [Idle EXCEPT !.op = op, !.at = a, !.who = u]]
End(t) == task' = [task EXCEPT ![t] = Idle]

\* The command loop takes a command, and the group is ours.
Owner ==
    /\ task["cmd"] = Idle /\ mode # "none"
    /\ orders < MaxOrders
    /\ orders' = orders + 1
    /\ UNCHANGED <<frames, faults>>

\* moderate, up to the step that takes the user off the roster, or further up
\* to the one that replaces the session.
Moderating(u) == task["cmd"].op = "moderate" /\ Who("cmd") = u
Dropping(u) == Moderating(u) /\ task["cmd"].at \in {"event", "save", "drop"}
Rotating(u) == Dropping(u) \/ (Moderating(u) /\ task["cmd"].at = "mint")

\* A suspension bars where no requester's clock runs ahead of the owner's: a
\* request is judged at the time its sender wrote into it.
Barred(u) == u \in bans \/ (Skew = 0 /\ sentence[u] > now)

\* The row of a suspension was cleared before its time.
Lost(u) == sentence[u] > now /\ susp[u] # sentence[u]

----------------------------------------------------------------------------
(* create_group, and what a handler does to share or advance the session.  *)

\* distribute_group_key when rcp are still to be served.  admit_member then
\* goes on to announce the member; the other handlers are done.
Serving(k, rcp) ==
    IF rcp # {} THEN [k EXCEPT !.rcp = rcp, !.at = "share"]
    ELSE IF k.op = "admit"
         THEN [Idle EXCEPT !.op = "admit", !.at = "event", !.who = k.who]
         ELSE Idle

\* create_group: nobody can know the group before its key is distributed.
CreateGroup(m, members) ==
    /\ task["cmd"] = Idle /\ mode = "none"
    /\ mode' = m
    /\ roster' = members
    /\ out' = 1 /\ minted' = 1
    /\ task' = [task EXCEPT !["cmd"] =
                   Serving([Idle EXCEPT !.op = "create", !.key = 1], members)]
    /\ UNCHANGED <<bans, susp, reqs, given, now, count, sentence, told>>

\* distribute_group_key, one recipient: a pairwise session exists or is made
\* from a fetched one-time key, and the share goes out.
Share(t, u) ==
    /\ Doing(t, "share") /\ u \in task[t].rcp
    /\ held' = [held EXCEPT ![u] = @ \cup {task[t].key}]
    /\ latest' = [latest EXCEPT ![u] = task[t].key]
    /\ behind' = IF task[t].key = out THEN behind \ {u} ELSE behind \cup {u}
    /\ task' = [task EXCEPT ![t] = Serving(@, @.rcp \ {u})]
    /\ UNCHANGED <<rows, out, minted, now, count, sentence, expelled, excused, reverted>>

Fault == /\ faults < MaxFaults
         /\ faults' = faults + 1
         /\ UNCHANGED <<orders, frames>>

\* ensure_olm has none: no one-time key, an identity refused, an error reply.
Skip(t, u) ==
    /\ Fault
    /\ Doing(t, "share") /\ u \in task[t].rcp
    /\ behind' = behind \cup {u}
    /\ task' = [task EXCEPT ![t] = Serving(@, @.rcp \ {u})]
    /\ UNCHANGED <<rows, out, minted, given, now, sentence, expelled,
                   excused, reverted>>

\* broadcast_group_event and send: load_group_out, encrypt with the copy ...
Encrypt(t) ==
    /\ Doing(t, "event")
    /\ task' = [task EXCEPT ![t].key = out, ![t].at = "save"]
    /\ UNCHANGED <<rows, out, minted, given, now, count, sentence, told>>

Stored(t) ==
    /\ Doing(t, "save")
    /\ out' = task[t].key
    /\ reverted' = (reverted \/ out # task[t].key)
    /\ UNCHANGED <<rows, minted, given, now, sentence, expelled, behind>>

\* ... save_group_out, and send the frame.
Save(t) ==
    /\ Stored(t)
    /\ IF task[t].op = "moderate" THEN Begin(t, "moderate", "drop", Who(t)) ELSE End(t)
    /\ UNCHANGED <<excused, count>>

\* The writer task is gone: send returns an error and so does the handler.
SaveUnsent(t) ==
    /\ Stored(t) /\ Fault
    /\ excused' = excused \cup (IF task[t].op = "moderate" THEN {Who(t)} ELSE {})
    /\ End(t)

\* Whom a handler that ends here leaves without the session it meant for them,
\* and whose moderation it leaves unfinished.
Owed(t) == CASE Doing(t, "share")   -> task[t].rcp
             [] Doing(t, "members") -> roster
             [] Doing(t, "load")    -> {Who(t)}
             [] OTHER               -> {}
Unfinished(t) == IF Rotating(Who(t)) THEN {Who(t)} ELSE {}

\* distribute_group_key: a prekey fetch times out, or the link is gone.
ShareFails(t) ==
    /\ Fault
    /\ Doing(t, "share")
    /\ behind' = behind \cup Owed(t)
    /\ End(t)
    /\ UNCHANGED <<rows, out, minted, given, now, sentence, expelled,
                   excused, reverted>>

\* The process ends and starts again; nothing resumes what it was doing.
Restart ==
    /\ Fault
    /\ \E t \in Tasks : task[t] # Idle
    /\ task' = [t \in Tasks |-> Idle]
    /\ behind' = behind \cup Owed("cmd") \cup Owed("proc")
    /\ excused' = excused \cup Unfinished("cmd")
    /\ UNCHANGED <<rows, out, minted, given, now, sentence, expelled,
                   reverted>>

----------------------------------------------------------------------------
(* admit_member, run by either task.                                       *)

Add(t) ==
    /\ Doing(t, "add")
    /\ roster' = roster \cup {Who(t)}
    /\ reqs' = reqs \ {Who(t)}
    /\ expelled' = expelled \ {Who(t)}
    /\ Goto(t, "load")
    /\ UNCHANGED <<mode, bans, susp, out, minted, given, now, count, sentence,
                   excused, behind, reverted>>

Load(t) ==
    /\ Doing(t, "load")
    /\ task' = [task EXCEPT ![t] = Serving([@ EXCEPT !.key = out], {Who(t)})]
    /\ UNCHANGED <<rows, out, minted, given, now, count, sentence, told>>

----------------------------------------------------------------------------
(* The owner's commands.                                                   *)

\* is_suspended prunes a row that has expired.
Pruned(u, ts) == [susp EXCEPT ![u] = IF @ > ts THEN @ ELSE 0]

Admissible(u) ==
    /\ Owner
    /\ u \notin bans
    /\ susp[u] <= now
    /\ susp' = Pruned(u, now)
    /\ Begin("cmd", "admit", "add", u)
    /\ UNCHANGED <<mode, roster, bans, reqs, out, minted, given, now, sentence,
                   told>>

InviteMember(u) == Admissible(u)

\* Mutant: the pending request is taken for permission.
AcceptUnchecked(u) ==
    /\ Owner /\ u \in reqs
    /\ Begin("cmd", "admit", "add", u)
    /\ UNCHANGED <<rows, out, minted, given, now, sentence, told>>

AcceptMember(u) == u \in reqs /\ Admissible(u)

\* moderate: tell everybody with the current session, then drop, then rotate.
Moderate(u) ==
    /\ Owner
    /\ Begin("cmd", "moderate", "event", u)
    /\ excused' = IF Who("proc") = u \/ Lost(u) THEN excused \cup {u}
                                               ELSE excused \ {u}
    /\ UNCHANGED <<mode, roster, reqs, out, minted, given, now, expelled,
                   behind, reverted>>

RemoveMember(u) == Moderate(u) /\ UNCHANGED <<bans, susp, sentence>>

BanMember(u) ==
    /\ Moderate(u)
    /\ bans' = bans \cup {u}
    /\ UNCHANGED <<susp, sentence>>

\* Mutant: the deadline lies in the past.
SuspendBackwards(u, d) ==
    /\ Moderate(u)
    /\ susp' = [susp EXCEPT ![u] = now - d]
    /\ UNCHANGED <<bans, sentence>>

SuspendMember(u, d) ==
    /\ Moderate(u)
    /\ susp' = [susp EXCEPT ![u] = now + d]
    /\ sentence' = [sentence EXCEPT ![u] = now + d]
    /\ UNCHANGED bans

Drop ==
    /\ Doing("cmd", "drop")
    /\ roster' = roster \ {Who("cmd")}
    /\ expelled' = expelled \cup {Who("cmd")}
    /\ Goto("cmd", "mint")
    /\ UNCHANGED <<mode, bans, susp, reqs, out, minted, given, now, count, sentence,
                   excused, behind, reverted>>

\* Mutant: the fresh session is shared and not saved.
MintUnsaved ==
    /\ Doing("cmd", "mint")
    /\ minted' = minted + 1
    /\ task' = [task EXCEPT !["cmd"].key = minted + 1, !["cmd"].at = "members"]
    /\ behind' = {} /\ reverted' = FALSE
    /\ UNCHANGED <<rows, out, given, now, count, sentence, expelled, excused>>

\* rekey_group: a fresh session, saved before the roster is read.
Mint ==
    /\ Doing("cmd", "mint")
    /\ minted' = minted + 1
    /\ out' = minted + 1
    /\ task' = [task EXCEPT !["cmd"].key = minted + 1, !["cmd"].at = "members"]
    /\ behind' = {} /\ reverted' = FALSE
    /\ UNCHANGED <<rows, given, now, count, sentence, expelled, excused>>

\* Mutant: the new session is saved and never distributed.
MembersNotTold ==
    /\ Doing("cmd", "members")
    /\ End("cmd")
    /\ UNCHANGED <<rows, out, minted, given, now, count, sentence, told>>

Members ==
    /\ Doing("cmd", "members")
    /\ task' = [task EXCEPT !["cmd"] = Serving(@, roster)]
    /\ UNCHANGED <<rows, out, minted, given, now, count, sentence, told>>

UnbanMember(u) ==
    /\ Owner /\ u \in bans
    /\ bans' = bans \ {u}
    /\ UNCHANGED <<mode, roster, susp, reqs, out, minted, task, given, now,
                   sentence, told>>

UnsuspendMember(u) ==
    /\ Owner /\ susp[u] # 0
    /\ susp' = [susp EXCEPT ![u] = 0]
    /\ sentence' = [sentence EXCEPT ![u] = 0]
    /\ UNCHANGED <<mode, roster, bans, reqs, out, minted, task, given, now,
                   told>>

SetAccess(m) ==
    /\ Owner
    /\ mode' = m
    /\ Begin("cmd", "say", "event", NoUser)
    /\ UNCHANGED <<roster, bans, susp, reqs, out, minted, given, now, sentence,
                   told>>

SendText ==
    /\ Owner
    /\ Begin("cmd", "say", "event", NoUser)
    /\ UNCHANGED <<rows, out, minted, given, now, sentence, told>>

----------------------------------------------------------------------------
(* handle_join_request, and a member's leave notice.                       *)

\* The processor takes a frame of this group.
Deliver ==
    /\ task["proc"] = Idle /\ mode # "none"
    /\ frames < MaxFrames
    /\ frames' = frames + 1
    /\ UNCHANGED <<orders, faults>>

DecideJoin(m, clear, member) ==
    IF ~clear THEN "deny"
    ELSE IF member \/ m = "open" THEN "admit"
    ELSE IF m = "approval" THEN "queue" ELSE "deny"

\* The request carries the requester's own timestamp ts, the time of the
\* decision; it may have waited in the relay's queue.  get_group_meta, is_banned
\* and suspended_until only read.  A row that looks expired at ts is cleared by
\* a second call.
Join(u, ts, key_ok) ==
    /\ Deliver
    /\ ts <= now + Skew
    /\ task' = [task EXCEPT !["proc"] =
          [Idle EXCEPT !.op = "join", !.who = u, !.mode = mode,
                       !.at = IF susp[u] \in 1..ts THEN "prune" ELSE "member",
                       !.clear = key_ok /\ u \notin bans /\ susp[u] <= ts]]
    /\ UNCHANGED <<rows, out, minted, given, now, sentence, told>>

JoinPrune ==
    /\ Doing("proc", "prune")
    /\ susp' = [susp EXCEPT ![Who("proc")] = 0]
    /\ Goto("proc", "member")
    /\ UNCHANGED <<mode, roster, bans, reqs, out, minted, given, now, count, sentence,
                   told>>

Verdict == LET j == task["proc"] IN
    DecideJoin(j.mode, j.clear, j.who \in roster)

JoinAdmitted ==
    /\ Doing("proc", "member") /\ Verdict = "admit"
    /\ Begin("proc", "admit", "add", Who("proc"))
    /\ excused' = excused \cup (IF Moderating(Who("proc")) THEN {Who("proc")}
                                                            ELSE {})
    /\ UNCHANGED <<rows, out, minted, given, now, count, sentence, expelled, behind,
                   reverted>>

JoinQueued ==
    /\ Doing("proc", "member") /\ Verdict = "queue"
    /\ Goto("proc", "queue")
    /\ UNCHANGED <<rows, out, minted, given, now, count, sentence, told>>

AddJoinRequest ==
    /\ Doing("proc", "queue")
    /\ reqs' = reqs \cup {Who("proc")}
    /\ End("proc")
    /\ UNCHANGED <<mode, roster, bans, susp, out, minted, given, now, count, sentence,
                   told>>

\* deny_join only sends the reason back.
JoinDenied ==
    /\ Doing("proc", "member") /\ Verdict = "deny"
    /\ End("proc")
    /\ UNCHANGED <<rows, out, minted, given, now, count, sentence, told>>

\* process_megolm_system on the owner's side: no rotation follows.
Left(u) ==
    /\ Deliver /\ u \in roster
    /\ roster' = roster \ {u}
    /\ UNCHANGED <<mode, bans, susp, reqs, out, minted, task, given, now, sentence,
                   told>>

Tick ==
    /\ now < MaxTime
    /\ now' = now + 1
    /\ UNCHANGED <<rows, out, minted, task, given, count, sentence, told>>

----------------------------------------------------------------------------
Init ==
    /\ mode = "none" /\ roster = {} /\ bans = {} /\ reqs = {}
    /\ susp = [u \in Users |-> 0]
    /\ out = 0 /\ minted = 0
    /\ task = [t \in Tasks |-> Idle]
    /\ held = [u \in Users |-> {}]
    /\ latest = [u \in Users |-> 0]
    /\ now = 0 /\ orders = 0 /\ frames = 0 /\ faults = 0
    /\ sentence = [u \in Users |-> 0]
    /\ expelled = {} /\ excused = {} /\ behind = {} /\ reverted = FALSE

TaskStep(t) ==
    \/ \E u \in Users : Share(t, u) \/ Skip(t, u)
    \/ Encrypt(t) \/ Save(t) \/ SaveUnsent(t) \/ ShareFails(t)
    \/ Add(t) \/ Load(t)

Command ==
    \/ \E m \in Modes, members \in SUBSET Users : CreateGroup(m, members)
    \/ \E u \in Users :
         \/ InviteMember(u) \/ AcceptMember(u)
         \/ RemoveMember(u) \/ BanMember(u)
         \/ \E d \in Durations : SuspendMember(u, d)
         \/ UnbanMember(u) \/ UnsuspendMember(u)
    \/ \E m \in Modes : SetAccess(m)
    \/ SendText
    \/ Drop \/ Mint \/ Members

Processor ==
    \/ \E u \in Users, ts \in 0..(MaxTime + Skew), key_ok \in BOOLEAN :
          Join(u, ts, key_ok)
    \/ JoinPrune
    \/ JoinAdmitted \/ JoinQueued \/ AddJoinRequest \/ JoinDenied
    \/ \E u \in Users : Left(u)

Next == (\E t \in Tasks : TaskStep(t)) \/ Command \/ Processor \/ Restart \/ Tick

Spec == Init /\ [][Next]_vars

----------------------------------------------------------------------------
(* Properties.                                                             *)

Steps == {"share", "event", "save", "add", "load", "drop", "mint", "members",
          "prune", "member", "queue", ""}

TypeOK ==
    /\ mode \in Modes \cup {"none"}
    /\ roster \subseteq Users /\ bans \subseteq Users /\ reqs \subseteq Users
    /\ susp \in [Users -> Nat] /\ sentence \in [Users -> Nat]
    /\ out \in 0..minted /\ minted \in 0..(MaxOrders + 1)
    /\ task \in [Tasks -> [op : {"idle", "create", "admit", "moderate",
                                 "say", "join"},
                           at : Steps, who : Users \cup {NoUser},
                           key : 0..minted, rcp : SUBSET Users,
                           mode : Modes \cup {"none"}, clear : BOOLEAN]]
    /\ held \in [Users -> SUBSET Keys] /\ latest \in [Users -> 0..minted]
    /\ now \in 0..MaxTime /\ orders \in 0..MaxOrders
    /\ frames \in 0..MaxFrames /\ faults \in 0..MaxFaults
    /\ expelled \subseteq Users /\ excused \subseteq Users
    /\ behind \subseteq Users /\ reverted \in BOOLEAN

\* Whoever is banned, or suspended for a time that has not passed, is off the
\* roster once the moderation is through, unless it ended early or the processor
\* was handling a request of that very user when the bar was recorded.
BarredOffRoster ==
    \A u \in roster : Barred(u) => Dropping(u) \/ u \in excused

\* Once a moderation has rotated the session, the session the owner encrypts
\* with is none the dropped user was ever given, unless the moderation ended
\* early, met an admission of that user, or the other task saved its older copy
\* of the session over the new one.
ExpelledLockedOut ==
    \A u \in expelled \ excused :
        ~Rotating(u) => reverted \/ out \notin held[u]

\* When both tasks are idle every member's client holds the session the owner
\* encrypts with, unless it was skipped or its handler ended early, it was given
\* an older one after a rotation, or the rotation was undone.
MembersKeyed ==
    task = [t \in Tasks |-> Idle] =>
        \A u \in roster : latest[u] = out \/ u \in behind \/ reverted

\* session.rs:1615-1616: after the rotation the dropped user's old session reads
\* nothing that is sent from now on.
RotationHolds ==
    \A u \in expelled \ excused : ~Rotating(u) => out \notin held[u]

\* net.rs:1012-1013: an active suspension is always refused.
SuspensionRefused ==
    \A u \in Users :
        task["proc"].op = "admit" /\ Who("proc") = u /\ sentence[u] > now =>
            u \in excused
=============================================================================
