-------------------------------- MODULE Olm --------------------------------
(***************************************************************************)
(* Direct messages: two clients, the Olm session row each keeps for the    *)
(* other, the one-time keys of their accounts and the identity each has    *)
(* pinned for the other.                                                   *)
(* backend/core/src/session.rs start_dm, send, leave_chat and the prekeys  *)
(* of connect; net.rs obtain_olm_plaintext, accept_identity, ensure_olm,   *)
(* distribute_group_key; the vault rows and the crypto calls behind them.  *)
(*                                                                         *)
(* Each client runs two tasks, "cmd", the command loop, and "proc", the    *)
(* processor of delivered frames.  Both load a pickle, change their copy   *)
(* and save it back: the vault's mutex covers each call, not the pair, and *)
(* some handlers wait for the relay in between.  A step is one such call,  *)
(* with what follows it up to the next that the other task can observe.    *)
(*                                                                         *)
(* A session is named by the one-time key that made it.  A ratchet is the  *)
(* number of messages sent and the set of numbers received, which is what  *)
(* decides whether a frame can be read; the keys themselves are left out.  *)
(***************************************************************************)
EXTENDS Naturals, Sequences

CONSTANTS
    Clients,    \* the two of them
    Stranger,   \* any other user of the relay
    Idents,     \* identities a bundle may carry for a name
    Real,       \* the one of the name's owner
    NoSession, NoIdent,
    Published,  \* one-time keys each client starts with
    MaxOps,     \* bound: commands and shares
    MaxFaults   \* bound: ends of a process, frames delivered twice, requests
                \* that fail, or are answered with a wrong identity or under
                \* another user's name

\* What a pickle of a session holds: whose one-time key made it, and which.
Sessions == [key : (Clients \cup {Stranger}) \X Nat, ident : Idents, snd : Nat, rcv : SUBSET Nat]

ASSUME OlmConstants ==
    /\ \E c, d \in Clients : c # d /\ Clients = {c, d}
    /\ Stranger \notin Clients
    /\ Real \in Idents /\ NoIdent \notin Idents /\ NoSession \notin Sessions
    /\ Published \in Nat /\ MaxOps \in Nat /\ MaxFaults \in Nat

VARIABLES
    row,        \* olm_sessions: the session with the other
    otks,       \* the account pickle: the private one-time keys
    pin,        \* contacts: the identity of the other
    chat,       \* is there a DM chat
    pool,       \* external: the one-time keys the relay still has to give
    made,       \* how many one-time keys each client has made
    wire,       \* external: frames on the way to each client
    task,       \* what each client's tasks are doing
    read,       \* the messages each client has read, in order
    refused,    \* the messages each client could not read
    ops, faults, sent,  \* how many there were
    used,       \* history: the message keys each client has encrypted with
    reused,     \* history: clients that encrypted twice with one key
    starters,   \* history: clients that started a session
    left,       \* history: clients that left the chat
    overtaken,  \* history: clients that saved over a row or an account that
                \* the other task had changed since it was loaded
    raced       \* history: clients that accepted an identity while the other
                \* task pinned a different one

vaultRows == <<row, otks, pin, chat>>
relay == <<pool, made, wire>>
got == <<read, refused>>
count == <<ops, faults, sent>>
history == <<used, reused, starters, left, overtaken, raced>>
vars == <<vaultRows, relay, task, got, count, history>>

Tasks == {"cmd", "proc"}
Peer(c) == CHOOSE p \in Clients : p # c

\* Device.start_session with a one-time key of the other's, under an identity;
\* create_inbound, whose session has received its first message.
Outbound(k, e) == [key |-> k, ident |-> e, snd |-> 0, rcv |-> {}]
Inbound(f) == [key |-> f.key, ident |-> f.ident, snd |-> 0, rcv |-> {f.idx}]

\* OlmSession.encrypt: a prekey message until something was received.
Frame(s, op) ==
    [key |-> s.key, ident |-> s.ident, idx |-> s.snd, pre |-> s.rcv = {},
     op |-> op, no |-> sent + 1]
NoFrame == [key |-> <<>>, ident |-> NoIdent, idx |-> 0, pre |-> FALSE,
            op |-> "none", no |-> 0]

\* OlmSession.decrypt: a session reads each of its messages once, and one with
\* a stranger reads nothing that the other sends.
Reads(s, f) ==
    /\ s # NoSession /\ s.key[1] # Stranger
    /\ s.key = f.key /\ s.ident = f.ident /\ f.idx \notin s.rcv

\* loaded, seen: the row and the pin a task has read; copy: the session it will
\* save; acct: the account it has read.
Idle == [op |-> "idle", at |-> "idle", loaded |-> NoSession, copy |-> NoSession,
         acct |-> {}, seen |-> NoIdent, ident |-> NoIdent, frame |-> NoFrame]

At(c, t, a) == task[c][t].at = a
Do(c, t, k) == task' = [task EXCEPT ![c][t] = k]
End(c, t) == Do(c, t, Idle)
Goto(c, t, a) == task' = [task EXCEPT ![c][t].at = a]

Order(c, t) ==
    /\ task[c][t] = Idle
    /\ ops < MaxOps /\ ops' = ops + 1
    /\ UNCHANGED <<faults, sent>>

Fault == faults < MaxFaults /\ faults' = faults + 1 /\ UNCHANGED <<ops, sent>>

\* A bundle carries the name's identity or, for once, another.
Answer(e) == IF e = Real THEN UNCHANGED count ELSE Fault

Overtakes(c, b) ==
    /\ overtaken' = IF b THEN overtaken \cup {c} ELSE overtaken
    /\ UNCHANGED raced

----------------------------------------------------------------------------
(* Sending.                                                                *)

\* The row is loaded; without one, start_dm and ensure_olm fetch a bundle.
Begin(c, t, op) ==
    /\ Order(c, t)
    /\ Do(c, t, [Idle EXCEPT !.op = op, !.loaded = row[c], !.copy = row[c],
                             !.at = IF row[c] = NoSession THEN "fetch" ELSE "save"])
    /\ UNCHANGED <<vaultRows, relay, got, history>>

\* start_dm; when there is a session it only opens the chat.
StartDm(c) ==
    \/ row[c] = NoSession /\ Begin(c, "cmd", "start")
    \/ /\ row[c] # NoSession /\ ~chat[c]
       /\ Order(c, "cmd")
       /\ chat' = [chat EXCEPT ![c] = TRUE]
       /\ UNCHANGED <<row, otks, pin, relay, task, got, history>>

\* send: a message in a chat that has a session.
Send(c) == chat[c] /\ row[c] # NoSession /\ Begin(c, "cmd", "text")

\* distribute_group_key to the other, from a command or from the processor,
\* which admits members; and send_olm_control, for a join request and for the
\* denial of one.  None of these opens a chat at the other end.
Share(c, t) == Begin(c, t, "control")
JoinGroup(c) == Begin(c, "cmd", "control")
DenyJoin(c) == Begin(c, "proc", "control")

\* leave_chat tells the other, where there is a session to tell it with and,
\* at best, a link.
LeaveChat(c, linked) ==
    /\ chat[c]
    /\ Order(c, "cmd")
    /\ Do(c, "cmd", [Idle EXCEPT !.op = "left", !.loaded = row[c], !.copy = row[c],
                     !.at = IF linked /\ row[c] # NoSession THEN "save" ELSE "delete"])
    /\ UNCHANGED <<vaultRows, relay, got, history>>

\* FetchPrekeys: the relay gives the other's identity and the oldest of its
\* one-time keys, once.
Given(c) == {k \in pool[Peer(c)] : \A l \in pool[Peer(c)] : k <= l}

\* Mutant: a bundle is accepted whatever identity is pinned.
FetchUnchecked(c, t, e) ==
    /\ At(c, t, "fetch")
    /\ pool' = [pool EXCEPT ![Peer(c)] = @ \ Given(c)]
    /\ IF Given(c) = {} THEN End(c, t)
       ELSE \E k \in Given(c) :
               Do(c, t, [task[c][t] EXCEPT !.at = "pin", !.seen = pin[c], !.ident = e,
                                           !.copy = Outbound(<<Peer(c), k>>, e)])
    /\ Answer(e)
    /\ UNCHANGED <<vaultRows, made, wire, got, history>>

\* The answer names the other: check_identity against its pin, and the refusal
\* of a bundle without a key or with an identity that is not the pinned one.
Fetch(c, t, e) ==
    /\ At(c, t, "fetch")
    /\ pool' = [pool EXCEPT ![Peer(c)] = @ \ Given(c)]
    /\ IF Given(c) = {} \/ pin[c] \notin {NoIdent, e} THEN End(c, t)
       ELSE \E k \in Given(c) :
               Do(c, t, [task[c][t] EXCEPT !.at = "pin", !.seen = pin[c], !.ident = e,
                                           !.copy = Outbound(<<Peer(c), k>>, e)])
    /\ Answer(e)
    /\ UNCHANGED <<vaultRows, made, wire, got, history>>

\* The answer names another user: it was that of an earlier request, or the
\* relay lies.  accept_identity looks at, and pins, the contact of the name in
\* the answer, and nobody compares it with the name that was asked for: if that
\* contact has no other identity, a session with the stranger is made and will
\* be saved as the one with the other.  The keys in it are not the other's: a
\* relay that gives those under another name as well is left out.
FetchStray(c, t, e) ==
    /\ At(c, t, "fetch") /\ e # Real
    /\ Fault
    /\ \E K \in {{}, Given(c)} : pool' = [pool EXCEPT ![Peer(c)] = @ \ K]
    /\ Do(c, t, [task[c][t] EXCEPT !.at = "save",
                                   !.copy = Outbound(<<Stranger, faults + 1>>, e)])
    /\ UNCHANGED <<vaultRows, made, wire, got, history>>

\* The request fails or times out; it is answered by an error, or under a name
\* whose identity is refused; or the processor is answered under another name,
\* and create_inbound refuses a message that is not of the stranger's.  The
\* relay may have given a key away.
FetchFails(c, t) ==
    /\ task[c][t].at \in {"fetch", "rfetch"}
    /\ Fault
    /\ \E K \in {{}, Given(c)} : pool' = [pool EXCEPT ![Peer(c)] = @ \ K]
    /\ refused' = IF At(c, t, "rfetch")
                  THEN [refused EXCEPT ![c] = @ \cup {task[c][t].frame.no}] ELSE refused
    /\ End(c, t)
    /\ UNCHANGED <<vaultRows, made, wire, read, history>>

\* upsert_contact keeps an identity that is there.
UpsertContact(p, e) == IF p = NoIdent THEN e ELSE p

\* accept_identity, after its check, pins what an answer that names the other
\* carries.  An identity that was pinned meanwhile stays, and the handler goes
\* on with its own all the same.
PinContact(c, t) ==
    /\ task[c][t].at \in {"pin", "rpin"}
    /\ pin' = [pin EXCEPT ![c] = UpsertContact(@, task[c][t].ident)]
    /\ raced' = IF pin[c] \notin {task[c][t].seen, task[c][t].ident}
                THEN raced \cup {c} ELSE raced
    /\ Goto(c, t, IF At(c, t, "pin") THEN "save" ELSE "inbound")
    /\ UNCHANGED <<row, otks, chat, relay, got, count, used, reused, starters, left,
                  overtaken>>

\* The session that is saved after one message.
Advanced(s) == [s EXCEPT !.snd = @ + 1]

\* save_olm, then the frame is handed to the connection.  start_dm only saves.
SaveSend(c, t) ==
    LET k == task[c][t]
        f == Frame(k.copy, k.op)
    IN /\ At(c, t, "save")
       /\ Overtakes(c, row[c] # k.loaded)
       /\ starters' = IF k.loaded = NoSession THEN starters \cup {c} ELSE starters
       /\ IF k.op = "start"
          THEN /\ row' = [row EXCEPT ![c] = k.copy]
               /\ chat' = [chat EXCEPT ![c] = TRUE]
               /\ UNCHANGED <<wire, sent, used, reused>>
          ELSE /\ row' = [row EXCEPT ![c] = Advanced(k.copy)]
               /\ wire' = [wire EXCEPT ![Peer(c)] = Append(@, f)]
               /\ sent' = sent + 1
               /\ reused' = IF <<f.key, f.idx>> \in used[c] THEN reused \cup {c} ELSE reused
               /\ used' = [used EXCEPT ![c] = @ \cup {<<f.key, f.idx>>}]
               /\ UNCHANGED chat
       /\ IF k.op = "left" THEN Goto(c, t, "delete") ELSE End(c, t)
       /\ UNCHANGED <<otks, pin, pool, made, got, ops, faults, left>>

\* delete_chat: the chat and the session, not the contact.
DeleteChat(c) ==
    /\ At(c, "cmd", "delete")
    /\ row' = [row EXCEPT ![c] = NoSession]
    /\ chat' = [chat EXCEPT ![c] = FALSE]
    /\ left' = left \cup {c}
    /\ End(c, "cmd")
    /\ UNCHANGED <<otks, pin, relay, got, count, used, reused, starters, overtaken, raced>>

----------------------------------------------------------------------------
(* One-time keys.                                                          *)

\* connect loads the account before it talks to the relay.
Replenish(c) ==
    /\ Order(c, "cmd")
    /\ Do(c, "cmd", [Idle EXCEPT !.op = "renew", !.at = "renew", !.acct = otks[c]])
    /\ UNCHANGED <<vaultRows, relay, got, history>>

\* It makes the new keys and saves the account, and then it publishes them.
SaveKeys(c) ==
    /\ At(c, "cmd", "renew")
    /\ made' = [made EXCEPT ![c] = @ + 1]
    /\ otks' = [otks EXCEPT ![c] = task[c]["cmd"].acct \cup {made[c] + 1}]
    /\ Overtakes(c, otks[c] # task[c]["cmd"].acct)
    /\ Goto(c, "cmd", "publish")
    /\ UNCHANGED <<row, pin, chat, pool, wire, got, count, used, reused, starters, left>>

\* Mutant: keys are published that the account has not made yet.
PublishNext(c) ==
    /\ At(c, "cmd", "publish")
    /\ pool' = [pool EXCEPT ![c] = @ \cup {made[c] + 1}]
    /\ End(c, "cmd")
    /\ UNCHANGED <<vaultRows, made, wire, got, count, history>>

PublishKeys(c) ==
    /\ At(c, "cmd", "publish")
    /\ pool' = [pool EXCEPT ![c] = @ \cup {made[c]}]
    /\ End(c, "cmd")
    /\ UNCHANGED <<vaultRows, made, wire, got, count, history>>

----------------------------------------------------------------------------
(* Receiving: obtain_olm_plaintext and what surfaces the message.          *)

Refuse(c, f) == refused' = [refused EXCEPT ![c] = @ \cup {f.no}]

\* The stored session reads the frame; or the frame is no prekey message and
\* is lost; or a new session is made, with the pinned identity or a fetched one.
Receive(c) ==
    /\ task[c]["proc"] = Idle /\ wire[c] # <<>>
    /\ wire' = [wire EXCEPT ![c] = Tail(@)]
    /\ LET f == Head(wire[c])
           s == row[c]
           k == [Idle EXCEPT !.op = "receive", !.frame = f, !.loaded = s]
       IN CASE Reads(s, f) ->
                 /\ Do(c, "proc", [k EXCEPT !.at = "rsave",
                                            !.copy = [s EXCEPT !.rcv = @ \cup {f.idx}]])
                 /\ UNCHANGED refused
            [] ~Reads(s, f) /\ s # NoSession /\ ~f.pre ->
                 Refuse(c, f) /\ UNCHANGED task
            [] OTHER ->
                 /\ Do(c, "proc", [k EXCEPT !.at = IF pin[c] = NoIdent THEN "rfetch" ELSE "inbound",
                                            !.ident = pin[c]])
                 /\ UNCHANGED refused
    /\ UNCHANGED <<vaultRows, pool, made, read, count, history>>

\* The bundle of a first contact; its one-time key, if it has one, is wasted.
FetchSender(c, e) ==
    LET k == task[c]["proc"]
    IN /\ At(c, "proc", "rfetch")
       /\ pool' = [pool EXCEPT ![Peer(c)] = @ \ Given(c)]
       /\ IF pin[c] \in {NoIdent, e}
          THEN /\ Do(c, "proc", [k EXCEPT !.at = "rpin", !.seen = pin[c], !.ident = e])
               /\ UNCHANGED refused
          ELSE End(c, "proc") /\ Refuse(c, k.frame)
       /\ Answer(e)
       /\ UNCHANGED <<vaultRows, made, wire, read, history>>

\* create_inbound: a prekey message of the sender's, to a one-time key that is
\* still in the account.
CreateInbound(c) ==
    LET k == task[c]["proc"]
    IN /\ At(c, "proc", "inbound")
       /\ IF /\ k.frame.pre /\ k.ident = Real /\ k.frame.ident = Real
             /\ k.frame.key[2] \in otks[c]
          THEN /\ Do(c, "proc", [k EXCEPT !.at = "asave", !.acct = otks[c]])
               /\ UNCHANGED refused
          ELSE End(c, "proc") /\ Refuse(c, k.frame)
       /\ UNCHANGED <<vaultRows, relay, read, count, history>>

\* Mutant: the account is not saved, so the one-time key stays in it.
SaveAccountUnspent(c) ==
    /\ At(c, "proc", "asave")
    /\ Goto(c, "proc", "isave")
    /\ UNCHANGED <<vaultRows, relay, got, count, history>>

\* save_account, without the one-time key.
SaveAccount(c) ==
    LET k == task[c]["proc"]
    IN /\ At(c, "proc", "asave")
       /\ otks' = [otks EXCEPT ![c] = k.acct \ {k.frame.key[2]}]
       /\ Overtakes(c, otks[c] # k.acct)
       /\ Goto(c, "proc", "isave")
       /\ UNCHANGED <<row, pin, chat, relay, got, count, used, reused, starters, left>>

\* Mutant: a session made for a first message is not stored.
DeliverUnsaved(c) ==
    LET k == task[c]["proc"]
    IN /\ k.at \in {"rsave", "isave"}
       /\ row' = [row EXCEPT ![c] = IF k.at = "rsave" THEN k.copy ELSE @]
       /\ Overtakes(c, row[c] # k.loaded)
       /\ read' = [read EXCEPT ![c] = Append(@, k.frame.no)]
       /\ chat' = IF k.frame.op = "text" THEN [chat EXCEPT ![c] = TRUE] ELSE chat
       /\ End(c, "proc")
       /\ UNCHANGED <<otks, pin, relay, refused, count, used, reused, starters, left>>

\* save_olm, and the message is shown.  A text opens the chat.
Deliver(c) ==
    LET k == task[c]["proc"]
    IN /\ k.at \in {"rsave", "isave"}
       /\ row' = [row EXCEPT ![c] = IF k.at = "rsave" THEN k.copy ELSE Inbound(k.frame)]
       /\ Overtakes(c, row[c] # k.loaded)
       /\ read' = [read EXCEPT ![c] = Append(@, k.frame.no)]
       /\ chat' = IF k.frame.op = "text" THEN [chat EXCEPT ![c] = TRUE] ELSE chat
       /\ End(c, "proc")
       /\ UNCHANGED <<otks, pin, relay, refused, count, used, reused, starters, left>>

----------------------------------------------------------------------------
(* Faults.                                                                 *)

\* The process ends: its tasks, and the frames it has taken off the relay.  It
\* may end inside delete_chat, between the chat's row and the session's.
Crash(c) ==
    /\ Fault
    /\ task' = [task EXCEPT ![c] = [t \in Tasks |-> Idle]]
    /\ \E n \in 0..Len(wire[c]) : wire' = [wire EXCEPT ![c] = SubSeq(@, n + 1, Len(@))]
    /\ \E cut \in {FALSE, At(c, "cmd", "delete")} : chat' = [chat EXCEPT ![c] = @ /\ ~cut]
    /\ UNCHANGED <<row, otks, pin, pool, made, got, history>>

\* The relay delivers a frame again: it was written to a connection that ended
\* before the row was deleted.
Redeliver(c) ==
    /\ wire[c] # <<>>
    /\ Fault
    /\ wire' = [wire EXCEPT ![c] = <<Head(@)>> \o @]
    /\ UNCHANGED <<vaultRows, pool, made, task, got, history>>

Init ==
    /\ row = [c \in Clients |-> NoSession]
    /\ otks = [c \in Clients |-> 1..Published]
    /\ pool = otks
    /\ made = [c \in Clients |-> Published]
    /\ pin = [c \in Clients |-> NoIdent]
    /\ chat = [c \in Clients |-> FALSE]
    /\ wire = [c \in Clients |-> <<>>]
    /\ task = [c \in Clients |-> [t \in Tasks |-> Idle]]
    /\ read = [c \in Clients |-> <<>>]
    /\ refused = [c \in Clients |-> {}]
    /\ ops = 0 /\ faults = 0 /\ sent = 0
    /\ used = [c \in Clients |-> {}]
    /\ reused = {} /\ starters = {} /\ left = {} /\ overtaken = {} /\ raced = {}

Next ==
    \E c \in Clients :
       \/ StartDm(c) \/ Send(c) \/ JoinGroup(c) \/ DenyJoin(c) \/ DeleteChat(c)
       \/ \E linked \in BOOLEAN : LeaveChat(c, linked)
       \/ \E t \in Tasks :
             \/ Share(c, t) \/ FetchFails(c, t) \/ PinContact(c, t) \/ SaveSend(c, t)
             \/ \E e \in Idents : Fetch(c, t, e) \/ FetchStray(c, t, e)
       \/ Replenish(c) \/ SaveKeys(c) \/ PublishKeys(c)
       \/ Receive(c) \/ CreateInbound(c) \/ SaveAccount(c) \/ Deliver(c)
       \/ \E e \in Idents : FetchSender(c, e)
       \/ Crash(c) \/ Redeliver(c)

Spec == Init /\ [][Next]_vars

----------------------------------------------------------------------------
(* Properties.                                                             *)

\* The variables hold what their declarations say: a stored session was made
\* with a one-time key of one of the two or of a stranger's, and the relay
\* gives out no key that was not made.
TypeOK ==
    /\ \A c \in Clients :
          /\ row[c] # NoSession =>
                /\ \/ row[c].key \in Clients \X (1..made[c] \cup 1..made[Peer(c)])
                   \/ row[c].key \in {Stranger} \X (1..faults)
                /\ row[c].ident \in Idents /\ row[c].snd \in 0..sent
          /\ otks[c] \subseteq 1..made[c] /\ pool[c] \subseteq 1..made[c]
          /\ pin[c] \in Idents \cup {NoIdent}
          /\ refused[c] \subseteq 1..sent /\ Len(read[c]) <= sent + faults
    /\ chat \in [Clients -> BOOLEAN]
    /\ ops \in 0..MaxOps /\ faults \in 0..MaxFaults

\* "Olm/Megolm ratchets never race": no client encrypts two messages with the
\* same key of a session, unless one of its saves went over the other task's.
KeyPerMessage == reused \subseteq overtaken

\* A message is shown once, though the relay may deliver its frame twice and a
\* client may replace its session: a session does not read a number twice and
\* a one-time key makes one session.
ReadOnce ==
    \A c \in Clients \ overtaken :
       \A i, j \in 1..Len(read[c]) : i # j => read[c][i] # read[c][j]

\* Every one-time key that the relay may give for a client has its private half
\* in the client's account, so that the first message made with it can be read:
\* connect saves the account before it publishes, and only a save that goes
\* over the other task's can lose the half.
PublishedHeld == \A c \in Clients \ overtaken : pool[c] \subseteq otks[c]

\* Together: a message key serves one message, on either side, and a one-time
\* key one session.
KeyOnce == KeyPerMessage /\ ReadOnce /\ PublishedHeld

\* A session that was made from an answer that names the other carries the
\* identity that is pinned for the other, whichever saves and chats went between
\* and whatever identities those answers carry (accept_identity), unless a
\* different one was pinned between a task's check and its pin.  Nothing pins
\* the sessions made from the other answers: see SessionWithPeer.
SessionPinned ==
    \A c \in Clients \ raced :
       row[c] # NoSession /\ row[c].key[1] = Peer(c) => row[c].ident = pin[c]

Trouble == faults > 0 \/ overtaken # {} \/ left # {}

\* A message that cannot be read is owed to a fault, a wrong identity among
\* them, to a lost save, to a chat that was left, or to both having started a
\* session: a session that one side starts carries every message.
RefusalHasCause ==
    (\E c \in Clients : refused[c] # {}) => Trouble \/ starters = Clients

\* "a PREKEY (type 0) message may be the peer starting a brand-new session
\* (e.g. after one side left and re-contacted, or Olm "glare") that our stored
\* session cannot decrypt - fall through and establish a fresh inbound session
\* instead": when both have started one and everything sent has arrived, they
\* can read each other again.
Quiet == \A c \in Clients : wire[c] = <<>> /\ task[c] = [t \in Tasks |-> Idle]
GlareHeals ==
    Quiet /\ ~Trouble =>
       \A c, d \in Clients :
          row[c] # NoSession /\ row[d] # NoSession /\ row[c].rcv # {} /\ row[d].rcv # {}
          => row[c].key = row[d].key

\* "Ensure we hold an Olm session to `peer`, establishing one via a prekey fetch
\* if needed": what is saved as the session with the other is a session with
\* it (ensure_olm).
SessionWithPeer == \A c \in Clients : row[c] # NoSession => row[c].key[1] \in Clients

\* "a malicious/compromised relay must not be able to swap (or blank out) a
\* peer's identity key": no session from an answer that names the peer is with
\* another identity than the one that is pinned for it (accept_identity).
PeerKeyMatchesPin ==
    \A c \in Clients :
       row[c] # NoSession /\ row[c].key[1] = Peer(c) => row[c].ident = pin[c]
=============================================================================
