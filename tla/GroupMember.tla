---------------------------- MODULE GroupMember ----------------------------
(***************************************************************************)
(* One client as a plain member of one group: what its processor does with *)
(* key shares (over Olm) and with texts, leave notices and moderation      *)
(* events (over Megolm), and what the user's leave_chat does meanwhile.    *)
(* backend/core/src/net.rs handle_group_key_share, process_megolm,         *)
(* process_megolm_system, process_group_event; vault.rs megolm_accept,     *)
(* delete_chat and the roster, ban and suspension tables.                  *)
(*                                                                         *)
(* Processor and command loop are tasks of a multi-threaded runtime and    *)
(* share the vault, whose mutex covers one vault call at a time: every     *)
(* handler below is a sequence of steps, and leave_chat or the end of the  *)
(* process may come between any two.  Consecutive vault calls are one step *)
(* where delete_chat between them has the effect of delete_chat before     *)
(* them or after them.                                                     *)
(*                                                                         *)
(* The peers' clients and the relay are external.  A Megolm session can be *)
(* read from the index at which its key was exported; an Olm message is    *)
(* decrypted at most once.                                                 *)
(***************************************************************************)
EXTENDS Integers, Sequences, FiniteSets

CONSTANTS
    Peers,        \* the users other than this one
    Me,
    Nobody,
    Unknown,      \* the empty owner of a groups row that a start has added
    Rosters,      \* the rosters key shares carry
    Orders,       \* the moderation and membership events peers broadcast
    Faithful,     \* the relay delivers each frame once, lane by lane
    MaxSessions,  \* bound: Megolm sessions a peer mints
    MaxSent,      \* bound: frames sent to this client
    MaxTime       \* bound: the clock

Users == Peers \cup {Me}
Sessions == 1..MaxSessions
Lanes == IF Faithful THEN {"queued", "live"} ELSE {"live"}

Kinds == {"joined", "removed", "banned", "suspended", "access"}

ASSUME GroupConstants ==
    /\ Me \notin Peers
    /\ Nobody \notin Users /\ Unknown \notin Users \cup {Nobody}
    /\ Rosters \subseteq SUBSET Users
    /\ Orders \subseteq [kind : Kinds, who : Users, until : 0..MaxTime]
    /\ Faithful \in BOOLEAN
    /\ MaxSessions \in Nat \ {0} /\ MaxSent \in Nat /\ MaxTime \in Nat

VARIABLES
    exists,    \* chats: the group's row
    owner,     \* groups: the recorded owner, Nobody when there is no row
    roster,    \* chat_members
    bans,      \* group_bans
    susp,      \* group_suspensions: until_ts, 0 when there is no row
    inb,       \* group_in: the session kept for each sender
    seen,      \* megolm_seen: max_index per sender and session, -1 for none
    proc,      \* the processor: what it handles and how far it is
    leaving,   \* leave_chat has found the chat and will delete it
    now,
    out,       \* each peer's current outbound session and its next index
    wire,      \* the frames the relay may yet deliver to this client
    nsent,     \* how many it was given
    applied,   \* history: Megolm frames applied since the last delete_chat
    leavers,   \* history: senders of leave notices among those
    refused,   \* history: frames of a Faithful relay refused as replays
    torn       \* history: a handler was cut in two by leave_chat or an exit

rows == <<exists, owner, roster, bans, susp>>
keys == <<inb, seen>>
net == <<out, wire, nsent>>
hist == <<applied, leavers, refused, torn>>
vars == <<rows, keys, proc, leaving, now, net, hist>>

NoSession == [sid |-> 0, first |-> 0]
Received == [sid : Sessions, first : 0..MaxSent] \cup {NoSession}

\* What the frames are made of: sent as number pos, by which way.  A share is
\* claimed when the owner it names is its sender, and keyed when it carries a
\* valid group key that no other group of this vault has; either may be without
\* the other.
Shares == [kind : {"share"}, from : Peers, sid : Sessions, idx : 0..MaxSent,
           pos : 0..MaxSent, lane : Lanes, claimed : BOOLEAN, keyed : BOOLEAN,
           members : Rosters]
Notes == [kind : {"text", "left"}, from : Peers, sid : Sessions,
          idx : 0..MaxSent, pos : 0..MaxSent, lane : Lanes]
Events == [kind : Kinds, from : Peers, sid : Sessions, idx : 0..MaxSent,
           pos : 0..MaxSent, lane : Lanes, who : Users, until : 0..MaxTime]
Frames == Shares \cup Notes \cup Events

\* The processor at step a with frame f.  flag is is_new, then owner_share, of
\* a share; key is the session load_group_in found for a Megolm frame.
At(a, f, flag, key) == [at |-> a, frame |-> f, flag |-> flag, key |-> key]
Idle == [at |-> "idle"]
ShareSteps == {"standing", "key", "chat", "members", "meta"}
MegolmSteps == {"accept", "save", "event", "apply", "unsuspend", "add",
                "forget", "bar"}
Goto(a) == proc' = [proc EXCEPT !.at = a]
Handling(a) == proc # Idle /\ proc.at = a

Suspended(u) == susp[u] > now

----------------------------------------------------------------------------
(* What reaches the client.                                                *)

\* A live push may overtake the queued backlog and nothing else overtakes
\* (Relay!InversionOnlyLiveOverQueued).  A relay that is not Faithful delivers
\* in any order and a Megolm frame any number of times.
Deliverable(f) ==
    /\ f \in wire
    /\ Faithful => \A g \in wire :
           g.pos < f.pos => g.lane = "queued" /\ f.lane = "live"

Pos == IF Faithful THEN nsent ELSE 0

Send(f) ==
    /\ nsent < MaxSent
    /\ nsent' = nsent + 1
    /\ wire' = wire \cup {f}
    /\ UNCHANGED <<rows, keys, proc, leaving, now, hist>>

\* distribute_group_key: the key is exported at the sender's current index.
\* A peer's client fills in what its own groups row says, be it anything.
ShareKey(p, claimed, keyed, members, lane) ==
    /\ Send([kind |-> "share", from |-> p, sid |-> out[p].sid,
             idx |-> out[p].next, claimed |-> claimed, keyed |-> keyed,
             members |-> members, lane |-> lane, pos |-> Pos])
    /\ UNCHANGED out

\* The sender's ratchet moves on.
Advance(p) == out' = [out EXCEPT ![p].next = @ + 1]

\* The sender's session ends with this frame: rekey_group replaces it after a
\* moderation event, delete_chat drops it after a leave notice.
Renew(p) ==
    /\ out[p].sid < MaxSessions
    /\ out' = [out EXCEPT ![p] = [sid |-> @.sid + 1, next |-> 0]]

Write(p, kind, lane) ==
    /\ Send([kind |-> kind, from |-> p, sid |-> out[p].sid,
             idx |-> out[p].next, lane |-> lane, pos |-> Pos])
    /\ IF kind = "left" THEN Renew(p) ELSE Advance(p)

\* broadcast_group_event, for moderate and for the others.  A client never
\* moderates its own user, and a suspension ends in the future.
Broadcast(p, e, lane) ==
    /\ e.who # p
    /\ e.kind = "suspended" => e.until > now
    /\ Send([kind |-> e.kind, from |-> p, sid |-> out[p].sid,
             idx |-> out[p].next, lane |-> lane, pos |-> Pos, who |-> e.who,
             until |-> e.until])
    /\ IF e.kind \in {"joined", "access"} THEN Advance(p) ELSE Renew(p)

Tick ==
    /\ now < MaxTime
    /\ now' = now + 1
    /\ UNCHANGED <<rows, keys, proc, leaving, net, hist>>

----------------------------------------------------------------------------
(* handle_group_key_share.                                                 *)

\* Mutant: is_banned is not asked.
ModeratedNow(u) == Suspended(u)

\* is_banned, is_suspended.
Moderated(u) == u \in bans \/ Suspended(u)

\* The moderation checks (is_suspended deletes an expired row), and whether
\* the chat is new.
FetchShare(f) ==
    /\ proc = Idle /\ f.kind = "share" /\ Deliverable(f)
    /\ wire' = wire \ {f}
    /\ IF Moderated(f.from)
       THEN proc' = Idle /\ UNCHANGED susp
       ELSE /\ proc' = At("standing", f, ~exists, NoSession)
            /\ susp' = [susp EXCEPT ![f.from] = 0]
    /\ UNCHANGED <<exists, owner, roster, bans, keys, leaving, now, out, nsent,
                   hist>>

\* Mutant: the share's word is taken for who owns an existing group.
OwnerShareClaimed(f, isNew) == f.claimed

OwnerShare(f, isNew) ==
    IF isNew THEN owner = Nobody /\ f.claimed ELSE owner = f.from

\* owner_share and sender_is_member; anybody else's share is dropped.
Standing ==
    LET f == proc.frame
        own == OwnerShare(f, proc.flag)
        member == ~proc.flag /\ f.from \in roster
    IN
    /\ Handling("standing")
    /\ proc' = IF own \/ member THEN At("key", f, own, NoSession) ELSE Idle
    /\ UNCHANGED <<rows, keys, leaving, now, net, hist>>

\* save_group_in; the share of a plain member ends here.
ShareSession ==
    LET f == proc.frame IN
    /\ Handling("key")
    /\ inb' = [inb EXCEPT ![f.from] = [sid |-> f.sid, first |-> f.idx]]
    /\ IF proc.flag THEN Goto("chat") ELSE proc' = Idle
    /\ UNCHANGED <<rows, seen, leaving, now, net, hist>>

\* upsert_chat.
ShareChat ==
    /\ Handling("chat")
    /\ exists' = TRUE
    /\ Goto("members")
    /\ UNCHANGED <<owner, roster, bans, susp, keys, leaving, now, net, hist>>

\* add_member for each member of the share.
ShareMembers ==
    /\ Handling("members")
    /\ roster' = roster \cup proc.frame.members
    /\ Goto("meta")
    /\ UNCHANGED <<exists, owner, bans, susp, keys, leaving, now, net, hist>>

\* upsert_group_meta, if the share carries a valid group key; it swallows the
\* refusal of one that another group has.  Without the row the chat is there and
\* nobody is its owner.
ShareMeta ==
    /\ Handling("meta")
    /\ owner' = IF proc.frame.keyed THEN proc.frame.from ELSE owner
    /\ proc' = Idle
    /\ UNCHANGED <<exists, roster, bans, susp, keys, leaving, now, net, hist>>

----------------------------------------------------------------------------
(* process_megolm, process_megolm_system, process_group_event.             *)

\* load_group_in and decrypt: without the session, or below the index its key
\* was exported at, the frame is dropped.
Open(f) ==
    LET key == inb[f.from] IN
    /\ proc = Idle /\ f.kind # "share" /\ Deliverable(f)
    /\ wire' = IF Faithful THEN wire \ {f} ELSE wire
    /\ proc' = IF key.sid = f.sid /\ key.first <= f.idx
               THEN At("accept", f, FALSE, key) ELSE Idle
    /\ UNCHANGED <<rows, keys, leaving, now, out, nsent, hist>>

\* Mutant: the index last accepted is accepted again.
FreshOrLast(f) == f.idx >= seen[f.from][f.sid]

\* megolm_accept: only above the highest index accepted so far.
Fresh(f) == f.idx > seen[f.from][f.sid]

Accept ==
    LET f == proc.frame IN
    /\ Handling("accept")
    /\ IF Fresh(f)
       THEN /\ seen' = [seen EXCEPT ![f.from][f.sid] = f.idx]
            /\ Goto("save")
            /\ UNCHANGED refused
       ELSE /\ proc' = Idle
            /\ refused' = IF Faithful THEN refused \cup {f} ELSE refused
            /\ UNCHANGED seen
    /\ UNCHANGED <<rows, inb, leaving, now, net, applied, leavers, torn>>

\* save_group_in with the session loaded before.
SaveSession ==
    /\ Handling("save")
    /\ inb' = [inb EXCEPT ![proc.frame.from] = proc.key]
    /\ Goto(IF proc.frame.kind \in {"text", "left"} THEN "apply" ELSE "event")
    /\ UNCHANGED <<rows, seen, leaving, now, net, hist>>

\* Only the recorded owner's events count.
CheckOwner ==
    /\ Handling("event")
    /\ IF owner = proc.frame.from THEN Goto("apply") ELSE proc' = Idle
    /\ UNCHANGED <<rows, keys, leaving, now, net, hist>>

Applied == applied' = Append(applied, proc.frame)

\* insert_message; set_access_mode, whose value decides nothing at a member;
\* and word of this user's own suspension.
ApplyPlain ==
    LET f == proc.frame IN
    /\ Handling("apply")
    /\ f.kind \in {"text", "access"} \/ (f.kind = "suspended" /\ f.who = Me)
    /\ Applied
    /\ proc' = Idle
    /\ UNCHANGED <<rows, keys, leaving, now, net, leavers, refused, torn>>

\* The roster forgets who left; the session stays.
ApplyLeft ==
    LET f == proc.frame IN
    /\ Handling("apply") /\ f.kind = "left"
    /\ roster' = roster \ {f.from}
    /\ leavers' = leavers \cup {f.from}
    /\ Applied
    /\ proc' = Idle
    /\ UNCHANGED <<exists, owner, bans, susp, keys, leaving, now, net, refused,
                   torn>>

\* joined: unban_user, clear_suspension, add_member.
ApplyJoined ==
    /\ Handling("apply") /\ proc.frame.kind = "joined"
    /\ bans' = bans \ {proc.frame.who}
    /\ Applied
    /\ Goto("unsuspend")
    /\ UNCHANGED <<exists, owner, roster, susp, keys, leaving, now, net,
                   leavers, refused, torn>>

ApplyUnsuspend ==
    /\ Handling("unsuspend")
    /\ susp' = [susp EXCEPT ![proc.frame.who] = 0]
    /\ Goto("add")
    /\ UNCHANGED <<exists, owner, roster, bans, keys, leaving, now, net, hist>>

ApplyAdd ==
    /\ Handling("add")
    /\ roster' = roster \cup {proc.frame.who}
    /\ leavers' = leavers \ {proc.frame.who}
    /\ proc' = Idle
    /\ UNCHANGED <<exists, owner, bans, susp, keys, leaving, now, net, applied,
                   refused, torn>>

\* Mutant: word of this user's own removal is treated like anyone's.
OfAnybody(f) == f.kind \in {"removed", "banned", "suspended"}

OfAnother(f) == f.kind \in {"removed", "banned", "suspended"} /\ f.who # Me

\* removed, banned, suspended: remove_member, delete_group_in, then ban_user
\* or suspend_user.
ApplyRemove ==
    LET f == proc.frame IN
    /\ Handling("apply") /\ OfAnother(f)
    /\ roster' = roster \ {f.who}
    /\ Applied
    /\ Goto("forget")
    /\ UNCHANGED <<exists, owner, bans, susp, keys, leaving, now, net, leavers,
                   refused, torn>>

ApplyForget ==
    /\ Handling("forget")
    /\ inb' = [inb EXCEPT ![proc.frame.who] = NoSession]
    /\ leavers' = leavers \ {proc.frame.who}
    /\ Goto("bar")
    /\ UNCHANGED <<rows, seen, leaving, now, net, applied, refused, torn>>

ApplyBar ==
    LET f == proc.frame IN
    /\ Handling("bar")
    /\ bans' = IF f.kind = "banned" THEN bans \cup {f.who} ELSE bans
    /\ susp' = IF f.kind = "suspended" THEN [susp EXCEPT ![f.who] = f.until]
               ELSE susp
    /\ proc' = Idle
    /\ UNCHANGED <<exists, owner, roster, keys, leaving, now, net, hist>>

----------------------------------------------------------------------------
(* delete_chat, under one lock; only the end of the process can cut it.    *)

NoSessions == [p \in Peers |-> NoSession]
NothingSeen == [p \in Peers |-> [s \in Sessions |-> -1]]

\* Mutant: the group's key and session tables are forgotten about.
DeleteChatRowsOnly ==
    /\ exists' = FALSE /\ owner' = Nobody /\ roster' = {}
    /\ bans' = {} /\ susp' = [u \in Users |-> 0]
    /\ applied' = <<>> /\ leavers' = {}
    /\ UNCHANGED <<keys, now, net, refused>>

DeleteChat ==
    /\ exists' = FALSE /\ owner' = Nobody /\ roster' = {}
    /\ bans' = {} /\ susp' = [u \in Users |-> 0]
    /\ inb' = NoSessions /\ seen' = NothingSeen
    /\ applied' = <<>> /\ leavers' = {}
    /\ UNCHANGED <<now, net, refused>>

\* This user was removed or banned.
ApplyGone ==
    LET f == proc.frame IN
    /\ Handling("apply") /\ f.kind \in {"removed", "banned"} /\ f.who = Me
    /\ DeleteChat
    /\ proc' = Idle
    /\ UNCHANGED <<leaving, torn>>

\* leave_chat: the chat is looked up, the notice goes out (awaiting key
\* requests if need be), the chat is deleted.
LeaveBegin ==
    /\ exists /\ ~leaving
    /\ leaving' = TRUE
    /\ UNCHANGED <<rows, keys, proc, now, net, hist>>

LeaveDelete ==
    /\ leaving
    /\ DeleteChat
    /\ leaving' = FALSE
    /\ torn' = (torn \/ proc # Idle)
    /\ UNCHANGED proc

\* The client ends and is started again on the same vault: backfill_group_keys
\* gives a group that has no groups row one with an empty owner.
Restart ==
    /\ proc' = Idle
    /\ leaving' = FALSE
    /\ torn' = (torn \/ proc # Idle)
    /\ owner' = IF exists /\ owner = Nobody THEN Unknown ELSE owner
    /\ UNCHANGED <<exists, roster, bans, susp, keys, now, net, applied, leavers,
                   refused>>

\* The process ends inside delete_chat, whose statements share no transaction:
\* the first n of them are done, in this order.
DeleteCut(n) ==
    /\ \/ leaving
       \/ /\ Handling("apply")
          /\ proc.frame.kind \in {"removed", "banned"} /\ proc.frame.who = Me
    /\ exists' = FALSE
    /\ roster' = IF n >= 2 THEN {} ELSE roster
    /\ applied' = IF n >= 3 THEN <<>> ELSE applied
    /\ inb' = IF n >= 4 THEN NoSessions ELSE inb
    /\ owner' = IF n >= 5 THEN Nobody ELSE owner
    /\ bans' = IF n >= 6 THEN {} ELSE bans
    /\ susp' = IF n >= 7 THEN [u \in Users |-> 0] ELSE susp
    /\ proc' = Idle /\ leaving' = FALSE /\ torn' = TRUE
    /\ UNCHANGED <<seen, now, net, leavers, refused>>

----------------------------------------------------------------------------
Init ==
    /\ exists = FALSE /\ owner = Nobody /\ roster = {}
    /\ bans = {} /\ susp = [u \in Users |-> 0]
    /\ inb = NoSessions /\ seen = NothingSeen
    /\ proc = Idle /\ leaving = FALSE /\ now = 0
    /\ out = [p \in Peers |-> [sid |-> 1, next |-> 0]]
    /\ wire = {} /\ nsent = 0
    /\ applied = <<>> /\ leavers = {} /\ refused = {} /\ torn = FALSE

\* The group key of a share that does not claim to be the owner's is not looked at.
Sending(p) ==
    \E l \in Lanes :
        \/ \E c \in BOOLEAN, m \in Rosters :
              \E k \in {FALSE, c} : ShareKey(p, c, k, m, l)
        \/ \E k \in {"text", "left"} : Write(p, k, l)
        \/ \E e \in Orders : Broadcast(p, e, l)

HandlingShare == Standing \/ ShareSession \/ ShareChat \/ ShareMembers \/ ShareMeta

HandlingMegolm ==
    \/ Accept \/ SaveSession \/ CheckOwner
    \/ ApplyPlain \/ ApplyLeft \/ ApplyGone
    \/ ApplyJoined \/ ApplyUnsuspend \/ ApplyAdd
    \/ ApplyRemove \/ ApplyForget \/ ApplyBar

Next ==
    \/ \E p \in Peers : Sending(p)
    \/ \E f \in wire : FetchShare(f) \/ Open(f)
    \/ HandlingShare
    \/ HandlingMegolm
    \/ LeaveBegin \/ LeaveDelete \/ Restart
    \/ \E n \in 1..7 : DeleteCut(n)
    \/ Tick

Spec == Init /\ [][Next]_vars

----------------------------------------------------------------------------
RowsOK ==
    /\ exists \in BOOLEAN /\ owner \in Peers \cup {Nobody, Unknown}
    /\ roster \subseteq Users /\ bans \subseteq Peers
    /\ susp \in [Users -> 0..MaxTime]

KeysOK ==
    /\ inb \in [Peers -> Received]
    /\ seen \in [Peers -> [Sessions -> -1..MaxSent]]

Work(steps, frames) ==
    [at : steps, frame : frames, flag : BOOLEAN, key : Received]

ProcOK ==
    \/ proc = Idle
    \/ proc \in Work(ShareSteps, Shares)
    \/ proc \in Work(MegolmSteps, Notes \cup Events)

NetOK ==
    /\ out \in [Peers -> [sid : Sessions, next : 0..MaxSent]]
    /\ wire \subseteq Frames /\ nsent \in 0..MaxSent

HistOK ==
    /\ applied \in Seq(Notes \cup Events)
    /\ leavers \subseteq Peers /\ refused \subseteq Notes \cup Events
    /\ torn \in BOOLEAN

TypeOK ==
    /\ RowsOK /\ KeysOK /\ ProcOK /\ NetOK /\ HistOK
    /\ leaving \in BOOLEAN /\ now \in 0..MaxTime

\* The replay guard: however the relay repeats and reorders, and across
\* leaving and joining again, the frames of one sender session that shape the
\* group as it stands were applied in the order they were sent, each once --
\* unless leave_chat or an exit cut the handling of a frame in two.
AppliedInOrder ==
    ~torn => \A i, j \in 1..Len(applied) :
        (/\ i < j
         /\ applied[i].from = applied[j].from
         /\ applied[i].sid = applied[j].sid) => applied[i].idx < applied[j].idx

\* No message of a banned or currently suspended user can be decrypted,
\* whatever shares they send and wherever the client is stopped.
ModeratedSilent ==
    \A p \in Peers : p \in bans \/ Suspended(p) => inb[p] = NoSession

\* The sessions a group keeps are those of its members, of those who left of
\* their own accord, and of one peer more, whose share made the group.  Whatever
\* that share carried, nobody else is ever the recorded owner; there may be none
\* (see ShareMeta).  And a group that is gone left nothing behind, a groups row
\* included, with which no later share would be taken for the owner's.  (Between
\* frames, and unless a handler was cut.)
SessionsOfMembers ==
    proc = Idle /\ ~torn =>
        IF exists
        THEN \E f \in Peers :
                /\ owner \in {f, Nobody, Unknown}
                /\ \A p \in Peers : inb[p] # NoSession
                                        => p \in roster \cup leavers \cup {f}
        ELSE /\ owner = Nobody /\ roster = {} /\ bans = {}
             /\ inb = NoSessions /\ seen = NothingSeen

\* While the group is there nobody takes its recorded owner's place.
OwnerPinned ==
    [][owner # Nobody => /\ owner' \in {owner, Nobody}
                         /\ owner' = Nobody => ~exists']_vars

\* backend/core/src/vault.rs:124-126 on the replay guard: "Frames arrive in
\* order (outbox is drained id-ASC, online pushes are sequential), so a fresh
\* message always has a strictly greater index - no legitimate message is
\* dropped."
NoFreshFrameRefused == ~torn => refused = {}
============================================================================
